------------------------------ MODULE InMemory ------------------------------
(***************************************************************************)
(* The bounded in-memory resource store (internal/state/in_memory.go).     *)
(*                                                                         *)
(* The code keeps two structures that must agree: a map of maps of maps    *)
(* (namespace, then scope, then id) and a doubly linked list with the most *)
(* recently used entry at the front.  Every method holds m.mu from its     *)
(* first line to its return, so each one is one action.                    *)
(*                                                                         *)
(* An entry of the code knows its own key and its list element; here the   *)
(* list holds the keys and "the element of an entry" is the position of    *)
(* its key.  That the keys of the list are distinct, without which this    *)
(* would be no abstraction, is part of the invariant InMemoryProofs        *)
(* proves.                                                                 *)
(***************************************************************************)
EXTENDS Integers, Sequences, FiniteSets, SequencesExt

CONSTANTS
    Namespaces,     \* resource types: "projects", "projects/*/tasks", ...
    Scopes,         \* joined values of the parent path parameters
    Ids,            \* resource ids, as numbers: List sorts them with <
    Data,           \* stored resources
    Capacity,       \* the argument of NewInMemory
    NotFound        \* what Get returns with ok = false

ASSUME CapacityAssumption == Capacity \in Int
ASSUME IdsAssumption == Ids \subseteq Nat
ASSUME NotFoundAssumption == NotFound \notin Data

VARIABLES
    resources,      \* the nested maps; a missing key is outside the DOMAIN
    lru,            \* keys, most recently used first
    reply           \* what the last call returned

vars == <<resources, lru, reply>>

Keys == Namespaces \X Scopes \X Ids

\* NewInMemory turns a negative capacity into 0, which means unlimited.
capacity == IF Capacity < 0 THEN 0 ELSE Capacity

EmptyMap == [x \in {} |-> x]

(***************************************************************************)
(* Go maps: m[k] = v and delete(m, k).                                     *)
(***************************************************************************)
Assign(m, k, v) == [x \in DOMAIN m \cup {k} |-> IF x = k THEN v ELSE m[x]]

Drop(m, k) == [x \in DOMAIN m \ {k} |-> m[x]]

\* Mutant: the empty inner map stays.
AssignAlways(m, k, inner) == Assign(m, k, inner)

\* delete(m, k) when the inner map became empty, the inner map otherwise.
AssignOrDrop(m, k, inner) ==
    IF DOMAIN inner = {} THEN Drop(m, k) ELSE Assign(m, k, inner)

(***************************************************************************)
(* The three-level lookup that Get, Put and Delete share.                  *)
(***************************************************************************)
Has(m, ns, sc, id) ==
    /\ ns \in DOMAIN m
    /\ sc \in DOMAIN m[ns]
    /\ id \in DOMAIN m[ns][sc]

\* m[k], or a fresh map when k is missing.
Inner(m, k) == IF k \in DOMAIN m THEN m[k] ELSE EmptyMap

\* Mutant: scope and namespace the wrong way round.
InsertSwapped(m, ns, sc, id, d) ==
    Assign(m, sc, Assign(Inner(m, sc), ns, Assign(Inner(Inner(m, sc), ns), id, d)))

\* idEntries[id] = e, creating the intermediate maps that are missing.
Insert(m, ns, sc, id, d) ==
    Assign(m, ns, Assign(Inner(m, ns), sc, Assign(Inner(Inner(m, ns), sc), id, d)))

\* entry.data = d, on an entry that exists.
Overwrite(m, ns, sc, id, d) == [m EXCEPT ![ns][sc][id] = d]

\* delete(idEntries, id) and the removal of the maps this leaves empty.
Remove3(m, ns, sc, id) ==
    AssignOrDrop(m, ns, AssignOrDrop(m[ns], sc, Drop(m[ns][sc], id)))

(***************************************************************************)
(* container/list: Remove, MoveToFront, PushFront on distinct elements.    *)
(***************************************************************************)
Position(s, k) == CHOOSE i \in 1..Len(s) : s[i] = k

Unlink(s, k) == RemoveAt(s, Position(s, k))

PushFront(s, k) == <<k>> \o s

\* Mutant: a use is not noted.
StaysInPlace(s, k) == s

MoveToFront(s, k) == PushFront(Unlink(s, k), k)

-----------------------------------------------------------------------------
Init ==
    /\ resources = EmptyMap
    /\ lru = <<>>
    /\ reply = <<"New">>

Get(ns, sc, id) ==
    IF Has(resources, ns, sc, id)
    THEN /\ lru' = MoveToFront(lru, <<ns, sc, id>>)
         /\ reply' = <<"Get", resources[ns][sc][id]>>
         /\ UNCHANGED resources
    ELSE /\ reply' = <<"Get", NotFound>>
         /\ UNCHANGED <<resources, lru>>

(***************************************************************************)
(* evict() runs before Put resolves the intermediate maps: the victim may  *)
(* be the last resource of the very scope the new one goes to.             *)
(***************************************************************************)
\* Mutant: off by one.
OverCapacity == capacity > 0 /\ Len(lru) > capacity

AtCapacity == capacity > 0 /\ Len(lru) >= capacity

Victim == Last(lru)

\* Mutant: the wrong end of the list.
EvictNewest ==
    IF AtCapacity /\ lru # <<>>
    THEN [resources |-> Remove3(resources, lru[1][1], lru[1][2], lru[1][3]),
          lru       |-> Tail(lru)]
    ELSE [resources |-> resources, lru |-> lru]

AfterEviction ==
    IF AtCapacity /\ lru # <<>>
    THEN [resources |-> Remove3(resources, Victim[1], Victim[2], Victim[3]),
          lru       |-> Front(lru)]
    ELSE [resources |-> resources, lru |-> lru]

Put(ns, sc, id, d) ==
    /\ IF Has(resources, ns, sc, id)
       THEN /\ resources' = Overwrite(resources, ns, sc, id, d)
            /\ lru' = MoveToFront(lru, <<ns, sc, id>>)
       ELSE /\ resources' = Insert(AfterEviction.resources, ns, sc, id, d)
            /\ lru' = PushFront(AfterEviction.lru, <<ns, sc, id>>)
    /\ reply' = <<"Put">>

\* Mutant: the list element survives.
DeleteFromMaps(ns, sc, id) ==
    IF Has(resources, ns, sc, id)
    THEN /\ resources' = Remove3(resources, ns, sc, id)
         /\ reply' = <<"Delete", TRUE>>
         /\ UNCHANGED lru
    ELSE /\ reply' = <<"Delete", FALSE>>
         /\ UNCHANGED <<resources, lru>>

Delete(ns, sc, id) ==
    IF Has(resources, ns, sc, id)
    THEN /\ resources' = Remove3(resources, ns, sc, id)
         /\ lru' = Unlink(lru, <<ns, sc, id>>)
         /\ reply' = <<"Delete", TRUE>>
    ELSE /\ reply' = <<"Delete", FALSE>>
         /\ UNCHANGED <<resources, lru>>

\* The entries of one scope; none when an intermediate map is missing.
InScope(m, ns, sc) ==
    [id \in {i \in Ids : Has(m, ns, sc, i)} |-> m[ns][sc][id]]

\* sort.Slice: the elements of a finite set of numbers in ascending order.
Ascending(S) ==
    CHOOSE s \in [1..Cardinality(S) -> S] : \A i, j \in DOMAIN s : i < j => s[i] < s[j]

\* The data only, sorted by id.
InIdOrder(entries) ==
    LET order == Ascending(DOMAIN entries)
    IN  [i \in DOMAIN order |-> entries[order[i]]]

List(ns, sc) ==
    /\ reply' = <<"List", InIdOrder(InScope(resources, ns, sc))>>
    /\ UNCHANGED <<resources, lru>>

Count ==
    /\ reply' = <<"Count", Len(lru)>>
    /\ UNCHANGED <<resources, lru>>

Reset ==
    /\ resources' = EmptyMap
    /\ lru' = <<>>
    /\ reply' = <<"Reset">>

Next ==
    \/ \E ns \in Namespaces, sc \in Scopes, id \in Ids :
          \/ Get(ns, sc, id)
          \/ \E d \in Data : Put(ns, sc, id, d)
          \/ Delete(ns, sc, id)
    \/ \E ns \in Namespaces, sc \in Scopes : List(ns, sc)
    \/ Count
    \/ Reset

Spec == Init /\ [][Next]_vars

-----------------------------------------------------------------------------
HeldIn(m) == {k \in Keys : Has(m, k[1], k[2], k[3])}

Held == HeldIn(resources)

WellTyped(m) ==
    /\ DOMAIN m \subseteq Namespaces
    /\ \A ns \in DOMAIN m :
          /\ DOMAIN m[ns] \subseteq Scopes
          /\ \A sc \in DOMAIN m[ns] :
                /\ DOMAIN m[ns][sc] \subseteq Ids
                /\ \A id \in DOMAIN m[ns][sc] : m[ns][sc][id] \in Data

NoEmptyInner(m) ==
    \A ns \in DOMAIN m :
        /\ DOMAIN m[ns] # {}
        /\ \A sc \in DOMAIN m[ns] : DOMAIN m[ns][sc] # {}

Distinct(s) == \A i, j \in DOMAIN s : s[i] = s[j] => i = j

Elements(s) == {s[i] : i \in DOMAIN s}

\* The nested maps only ever hold keys and data of the store, and the list
\* only keys.
TypeOK ==
    /\ WellTyped(resources)
    /\ lru \in Seq(Keys)

(***************************************************************************)
(* The maps and the list describe the same resources: an entry is          *)
(* reachable from the maps exactly when it has one element in the list.    *)
(* A list element whose resource is gone would be "evicted" in place of a  *)
(* live one; a resource without an element could never be evicted.         *)
(***************************************************************************)
MapsMatchList ==
    /\ Held = Elements(lru)
    /\ Distinct(lru)

(***************************************************************************)
(* Delete and evict leave no empty intermediate map behind, so the store   *)
(* does not grow with the number of parents ever seen.                     *)
(***************************************************************************)
NoEmptyMaps == NoEmptyInner(resources)

\* The store never holds more resources than its capacity, whatever the mix
\* of calls; with capacity 0 it is unlimited.
WithinCapacity == capacity > 0 => Cardinality(Held) <= capacity

-----------------------------------------------------------------------------
(***************************************************************************)
(* What the store promises, without maps of maps or a list: LRUStore.      *)
(***************************************************************************)
Flat == [k \in Held |-> resources[k[1]][k[2]][k[3]]]

\* <<a, b>> when a stands behind b: a was used less recently.
OlderIn(s) ==
    {<<s[p[2]], s[p[1]]>> :
        p \in {q \in (DOMAIN s) \X (DOMAIN s) : q[1] < q[2]}}

Abstract == INSTANCE LRUStore WITH store <- Flat, older <- OlderIn(lru)

(* Every behaviour of the maps and the list is one of the abstract store,  *)
(* results included: what the store returns and whom it evicts depend only *)
(* on the flat contents and the order of use.                              *)
ImplementsLRUStore == Abstract!Spec
=============================================================================
