--------------------------- MODULE StatefulHandler --------------------------
(***************************************************************************)
(* Concurrent requests in stateful mode (internal/router/stateful.go) over *)
(* the resource store.  net/http runs every request in a goroutine of its  *)
(* own and nothing but the store's mutex orders them, so a handler is cut  *)
(* at its store calls: one for create, fetch, list and delete, two for     *)
(* update.  The store is the abstract one, which InMemory implements.      *)
(*                                                                         *)
(* Each request is used once.  A value of a resource's field is the name   *)
(* of the request that sent it, or Generated.                              *)
(***************************************************************************)
EXTENDS Integers, FiniteSets, Sequences

CONSTANTS
    Requests,                   \* the requests of a behaviour
    Namespaces, Scopes, Ids,    \* where resources live
    Capacity,                   \* --max-resources
    Types,                      \* the types of operation each request may be for
    Fields,                     \* fields of a resource
    Bodies,                     \* sets of fields a request body may give
    Generated,                  \* a value made by the data generator
    Malformed,                  \* a body parseRequestBody rejects
    NotFound,                   \* what the store answers for a missing key
    None

ASSUME BodiesAssumption == Bodies \subseteq SUBSET Fields
ASSUME CapacityAssumption == Capacity \in Int
ASSUME IdsAssumption == Ids \subseteq Nat

VARIABLES
    store, older, reply,        \* the store: LRUStore
    op,                         \* what each request asks for
    stage,                      \* "new", "called", "merging", "answered"
    seen,                       \* the resource an update has read
    answer,                     \* [status, body]
    before                      \* the requests answered when this one came

handler == <<op, stage, seen, answer, before>>
vars == <<store, older, reply, handler>>

Keys == Namespaces \X Scopes \X Ids

Resources == UNION {[D -> Requests \cup {Generated}] : D \in SUBSET Fields}

Store == INSTANCE LRUStore WITH Data <- Resources

(***************************************************************************)
(* The calls of the interface Store.  reply' is what they return.          *)
(***************************************************************************)
\* Mutant: a lookup that forgets the parent scope.
GetInAnyScope(k) ==
    \E sc \in Scopes :
        LET x == <<k[1], sc, k[3]>> IN Store!GetHit(x) \/ Store!GetMiss(x)

Get(k) == Store!GetHit(k) \/ Store!GetMiss(k)

Put(k, d) == Store!Replace(k, d) \/ Store!Create(k, d) \/ Store!CreateEvicting(k, d)

\* Mutant: the answer of a deletion without its effect.
DeleteNothing(k) ==
    /\ reply' = <<"Delete", k \in DOMAIN store>>
    /\ UNCHANGED <<store, older>>

Delete(k) == Store!DeleteHit(k) \/ Store!DeleteMiss(k)

\* shallowMerge: the fields of a body over a copy of a resource.
Merge(resource, r, fields) ==
    [f \in DOMAIN resource \cup fields |-> IF f \in fields THEN r ELSE resource[f]]

(***************************************************************************)
(* What a request may ask for.  The key of a POST is the one its generated *)
(* body or its own body identifies (module Identity); here it may be any.  *)
(* "generates" is FALSE when the generator fails on the response schema.   *)
(***************************************************************************)
Operations ==
    [type : {"create", "update"}, key : Keys, body : Bodies \cup {Malformed},
     generates : {TRUE}]
    \cup [type : {"create", "delete"}, key : Keys, body : {{}}, generates : BOOLEAN]
    \cup [type : {"fetch", "list"}, key : Keys, body : {{}}, generates : {TRUE}]
    \cup [type : {"reset"}, key : {None}, body : {{}}, generates : {TRUE}]

Init ==
    /\ Store!Init
    /\ op = [r \in Requests |-> None]
    /\ stage = [r \in Requests |-> "new"]
    /\ seen = [r \in Requests |-> None]
    /\ answer = [r \in Requests |-> None]
    /\ before = [r \in Requests |-> {}]

Calls(r, type) == stage[r] = "called" /\ op[r].type = type

Answer(r, status, body) ==
    /\ stage' = [stage EXCEPT ![r] = "answered"]
    /\ answer' = [answer EXCEPT ![r] = [status |-> status, body |-> body]]
    /\ seen' = [seen EXCEPT ![r] = None]
    /\ UNCHANGED <<op, before>>

\* The request has been routed and validated.
Arrive(r) ==
    /\ stage[r] = "new"
    /\ \E o \in Operations : o.type \in Types[r] /\ op' = [op EXCEPT ![r] = o]
    /\ stage' = [stage EXCEPT ![r] = "called"]
    /\ before' = [before EXCEPT ![r] = {q \in Requests : stage[q] = "answered"}]
    /\ UNCHANGED <<store, older, reply, seen, answer>>

-----------------------------------------------------------------------------
(***************************************************************************)
(* Create.  A body that does not parse is left out of the merge, it is no  *)
(* error here.                                                             *)
(***************************************************************************)
CreateFails(r) ==
    /\ Calls(r, "create")
    /\ ~op[r].generates
    /\ Answer(r, 500, None)
    /\ UNCHANGED <<store, older, reply>>

CreatedResource(r) ==
    Merge([f \in Fields |-> Generated], r,
          IF op[r].body = Malformed THEN {} ELSE op[r].body)

HandleCreate(r) ==
    /\ Calls(r, "create")
    /\ op[r].generates
    /\ Put(op[r].key, CreatedResource(r))
    /\ Answer(r, 201, CreatedResource(r))

HandleFetch(r) ==
    /\ Calls(r, "fetch")
    /\ Get(op[r].key)
    /\ IF reply'[2] = NotFound THEN Answer(r, 404, None) ELSE Answer(r, 200, reply'[2])

\* The items; the envelope around them is no resource.
HandleList(r) ==
    /\ Calls(r, "list")
    /\ Store!List(op[r].key[1], op[r].key[2])
    /\ Answer(r, 200, reply'[2])

(***************************************************************************)
(* Update: read, then parse and merge outside the lock, then write.        *)
(***************************************************************************)
UpdateMisses(r) ==
    /\ Calls(r, "update")
    /\ Store!GetMiss(op[r].key)
    /\ Answer(r, 404, None)

UpdateReads(r) ==
    /\ Calls(r, "update")
    /\ Store!GetHit(op[r].key)
    /\ seen' = [seen EXCEPT ![r] = reply'[2]]
    /\ stage' = [stage EXCEPT ![r] = "merging"]
    /\ UNCHANGED <<op, answer, before>>

UpdateRejects(r) ==
    /\ stage[r] = "merging"
    /\ op[r].body = Malformed
    /\ Answer(r, 400, None)
    /\ UNCHANGED <<store, older, reply>>

\* Mutant: replaced, not merged.
ReplacedResource(r) == [f \in op[r].body |-> r]

UpdatedResource(r) == Merge(seen[r], r, op[r].body)

UpdateWrites(r) ==
    /\ stage[r] = "merging"
    /\ op[r].body # Malformed
    /\ Put(op[r].key, UpdatedResource(r))
    /\ Answer(r, 200, UpdatedResource(r))

\* The answer of a deletion may fail to generate; the resource is gone then.
HandleDelete(r) ==
    /\ Calls(r, "delete")
    /\ Delete(op[r].key)
    /\ Answer(r, IF ~reply'[2] THEN 404 ELSE IF op[r].generates THEN 204 ELSE 500, None)

\* manage_state with action "reset" goes to the store, not through a handler.
HandleReset(r) ==
    /\ Calls(r, "reset")
    /\ Store!Reset
    /\ Answer(r, 200, None)

Step(r) ==
    \/ Arrive(r)
    \/ CreateFails(r) \/ HandleCreate(r)
    \/ HandleFetch(r)
    \/ HandleList(r)
    \/ UpdateMisses(r) \/ UpdateReads(r) \/ UpdateRejects(r) \/ UpdateWrites(r)
    \/ HandleDelete(r)
    \/ HandleReset(r)

Next == \E r \in Requests : Step(r)

Spec == Init /\ [][Next]_vars

-----------------------------------------------------------------------------
(***************************************************************************)
(* Properties.                                                             *)
(***************************************************************************)
answered(r, type, statuses) ==
    /\ stage[r] = "answered"
    /\ op[r].type = type
    /\ answer[r].status \in statuses

Deletes(r, k) ==
    \/ answered(r, "delete", {204, 500}) /\ op[r].key = k
    \/ answered(r, "reset", {200})

Writes(r, k) ==
    \/ answered(r, "create", {201}) /\ op[r].key = k
    \/ answered(r, "update", {200}) /\ op[r].key = k
    \/ Deletes(r, k)

\* An update that has not been rejected yet may still write.
MayWrite(r, k) ==
    \/ Writes(r, k)
    \/ /\ stage[r] \in {"called", "merging"}
       /\ op[r].type = "reset" \/ (op[r].type \in {"create", "update", "delete"} /\ op[r].key = k)

Writers(k) == {r \in Requests : MayWrite(r, k)}

\* No two of the requests overlap, and each of them was answered before r.
InSequence(rs, r) ==
    /\ rs \subseteq before[r]
    /\ \A a, b \in rs : a = b \/ a \in before[b] \/ b \in before[a]

Latest(rs) == CHOOSE r \in rs : rs \ {r} \subseteq before[r]

(***************************************************************************)
(* What a client that sends one request at a time expects to find at k     *)
(* after the writes rs: the fields of the last POST, each overwritten by   *)
(* the last later update that gives it; nothing after a deletion.          *)
(***************************************************************************)
Expected(rs, k) ==
    IF rs = {} \/ Deletes(Latest(rs), k) THEN NotFound
    ELSE LET birth == Latest({r \in rs : op[r].type = "create"})
             later == {r \in rs : birth \in before[r]} \cup {birth}
             Givers(f) == {r \in later : op[r].body # Malformed /\ f \in op[r].body}
         IN  [f \in Fields |-> IF Givers(f) = {} THEN Generated ELSE Latest(Givers(f))]

\* As many other resources as fit were written.
Crowded(k) ==
    /\ Capacity > 0
    /\ \E others \in SUBSET (Keys \ {k}) :
          /\ IsFiniteSet(others) /\ Cardinality(others) >= Capacity
          /\ \A x \in others : Writers(x) # {}

(***************************************************************************)
(* README, "In stateful mode": a fetch that no write to its resource       *)
(* overlaps, after writes that did not overlap each other, answers what    *)
(* they say, whatever runs on other resources meanwhile.  With a capacity, *)
(* the resource may have been evicted instead, but only if as many others  *)
(* as fit were written too.                                                *)
(***************************************************************************)
SequentialFetch ==
    \A r \in Requests :
        answered(r, "fetch", {200, 404}) =>
            LET k == op[r].key
                found == IF answer[r].status = 404 THEN NotFound ELSE answer[r].body
            IN  InSequence(Writers(k), r) =>
                    \/ found = Expected(Writers(k), k)
                    \/ found = NotFound /\ Crowded(k)

(***************************************************************************)
(* A resource found after its deletion was answered was written by a       *)
(* request that the deletion did not follow: a POST, or an update that had *)
(* already arrived when the deletion was answered.                         *)
(***************************************************************************)
RevivedOnlyByRace ==
    \A r, d \in Requests :
        /\ answered(r, "fetch", {200})
        /\ d \in before[r]
        /\ Deletes(d, op[r].key)
        => \E w \in Writers(op[r].key) \ before[d] :
              \/ op[w].type = "create"
              \/ op[w].type = "update" /\ d \notin before[w]

Senders(resource) == {resource[f] : f \in DOMAIN resource} \ {Generated}

(***************************************************************************)
(* What a client wrote under one resource, or below one parent, never      *)
(* shows up under another: neither when requests overlap nor when an       *)
(* eviction removes the maps of a scope.                                   *)
(***************************************************************************)
NoLeak ==
    \A r \in Requests :
        /\ answered(r, "fetch", {200}) =>
              \A s \in Senders(answer[r].body) : op[s].key = op[r].key
        /\ answered(r, "list", {200}) =>
              \A i \in DOMAIN answer[r].body : \A s \in Senders(answer[r].body[i]) :
                  op[s].key[1] = op[r].key[1] /\ op[s].key[2] = op[r].key[2]
=============================================================================
