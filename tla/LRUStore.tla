------------------------------ MODULE LRUStore ------------------------------
(***************************************************************************)
(* What internal/state/store.go (interface Store) and the comments of      *)
(* in_memory.go promise: a dictionary with one entry per key, bounded by a *)
(* capacity, that makes room by dropping the least recently used entry.    *)
(* "Used" is Get with a hit, or Put; List and Count do not count as a use. *)
(*                                                                         *)
(* There is no list here: "older" is the set of pairs <<a, b>> of held     *)
(* keys such that a was used less recently than b.                         *)
(***************************************************************************)
EXTENDS Integers, FiniteSets

CONSTANTS Namespaces, Scopes, Ids, Data, Capacity, NotFound

VARIABLES
    store,      \* held keys to data
    older,      \* order of last use
    reply       \* what the last call returned

vars == <<store, older, reply>>

Keys == Namespaces \X Scopes \X Ids

held == DOMAIN store

\* A capacity of 0 or less means unlimited.
HasRoom == Capacity <= 0 \/ Cardinality(held) < Capacity

LeastRecentlyUsed(k) ==
    k \in held /\ \A x \in held \ {k} : <<k, x>> \in older

Forget(order, k) == {p \in order : p[1] # k /\ p[2] # k}

Use(order, k, others) == Forget(order, k) \cup {<<x, k>> : x \in others \ {k}}

Init ==
    /\ store = [k \in {} |-> k]
    /\ older = {}
    /\ reply = <<"New">>

GetHit(k) ==
    /\ k \in held
    /\ older' = Use(older, k, held)
    /\ reply' = <<"Get", store[k]>>
    /\ UNCHANGED store

GetMiss(k) ==
    /\ k \notin held
    /\ reply' = <<"Get", NotFound>>
    /\ UNCHANGED <<store, older>>

Replace(k, d) ==
    /\ k \in held
    /\ store' = [store EXCEPT ![k] = d]
    /\ older' = Use(older, k, held)
    /\ reply' = <<"Put">>

\* Store k, keeping exactly the held keys in "kept".
Add(k, d, kept, order) ==
    /\ store' = [x \in kept \cup {k} |-> IF x = k THEN d ELSE store[x]]
    /\ older' = Use(order, k, kept)
    /\ reply' = <<"Put">>

Create(k, d) ==
    /\ k \notin held
    /\ HasRoom
    /\ Add(k, d, held, older)

CreateEvicting(k, d) ==
    /\ k \notin held
    /\ ~HasRoom
    /\ \E v \in held :
          /\ LeastRecentlyUsed(v)
          /\ Add(k, d, held \ {v}, Forget(older, v))

DeleteHit(k) ==
    /\ k \in held
    /\ store' = [x \in held \ {k} |-> store[x]]
    /\ older' = Forget(older, k)
    /\ reply' = <<"Delete", TRUE>>

DeleteMiss(k) ==
    /\ k \notin held
    /\ reply' = <<"Delete", FALSE>>
    /\ UNCHANGED <<store, older>>

InScope(ns, sc) ==
    [id \in {i \in Ids : <<ns, sc, i>> \in held} |-> store[<<ns, sc, id>>]]

\* The elements of a finite set of numbers in ascending order.
Ascending(S) ==
    CHOOSE s \in [1..Cardinality(S) -> S] : \A i, j \in DOMAIN s : i < j => s[i] < s[j]

InIdOrder(entries) ==
    LET order == Ascending(DOMAIN entries)
    IN  [i \in DOMAIN order |-> entries[order[i]]]

\* The data of one scope in ascending order of id; not a use.
List(ns, sc) ==
    /\ reply' = <<"List", InIdOrder(InScope(ns, sc))>>
    /\ UNCHANGED <<store, older>>

Count ==
    /\ reply' = <<"Count", Cardinality(held)>>
    /\ UNCHANGED <<store, older>>

Reset ==
    /\ store' = [k \in {} |-> k]
    /\ older' = {}
    /\ reply' = <<"Reset">>

Next ==
    \/ \E k \in Keys :
          \/ GetHit(k)
          \/ GetMiss(k)
          \/ DeleteHit(k)
          \/ DeleteMiss(k)
          \/ \E d \in Data : Replace(k, d) \/ Create(k, d) \/ CreateEvicting(k, d)
    \/ \E ns \in Namespaces, sc \in Scopes : List(ns, sc)
    \/ Count
    \/ Reset

Spec == Init /\ [][Next]_vars
=============================================================================
