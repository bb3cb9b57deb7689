------------------------ MODULE StatefulHandlerProofs ------------------------
(***************************************************************************)
(* Concurrent requests in stateful mode (module StatefulHandler), for any  *)
(* number of them, any resources and every capacity.                       *)
(*                                                                         *)
(* Each step of a request is one of ten effects (Does).  Over those, three *)
(* things are inductive.  Owned: what the store holds, an update has read  *)
(* or an answer says came from requests for that key.  Revivals: what is   *)
(* held after a deletion was put there by a request that the deletion did  *)
(* not follow.  Sequential: while the answered writes to a key are in      *)
(* sequence, the store holds what they say (Tells), or nothing where they  *)
(* say so (Gone) or enough other keys were written to lose the place       *)
(* (Evicted); an update that follows them has read just that.              *)
(***************************************************************************)
EXTENDS StatefulHandler, FiniteSetTheorems, WellFoundedInduction, TLAPS

-----------------------------------------------------------------------------
(***************************************************************************)
(* Ascending order.                                                        *)
(***************************************************************************)
\* A nonempty set of numbers has a least one.
LEMMA Least ==
  ASSUME NEW T \in SUBSET Nat, T # {}
  PROVE  \E x \in T : \A y \in T : x <= y
<1> DEFINE R == OpToRel(<, Nat)
<1>1. IsWellFoundedOn(R, Nat)
  BY NatLessThanWellFounded
<1>2. \A x, y \in Nat : y < x => <<y, x>> \in R
  BY DEF OpToRel
<1> HIDE DEF R
<1>3. PICK x \in T : \A y \in T : <<y, x>> \notin R
  BY <1>1, WFMin, Zenon
<1>4. \A y \in T : ~(y < x)
  BY <1>2, <1>3
<1>5. \A y \in T : x <= y
  BY <1>4
<1>6. QED BY <1>5

IsAscending(s, S) ==
    s \in [1..Cardinality(S) -> S] /\ \A i, j \in DOMAIN s : i < j => s[i] < s[j]

\* Put the least element before the others.
LEMMA AscendingStep ==
  ASSUME NEW S \in SUBSET Nat, IsFiniteSet(S), S # {},
         \A x \in S : \E s : IsAscending(s, S \ {x})
  PROVE  \E s : IsAscending(s, S)
<1>1. PICK x \in S : \A y \in S : x <= y
  BY Least
<1>2. PICK rest : IsAscending(rest, S \ {x})
  OBVIOUS
<1> DEFINE n == Cardinality(S)
           s == [i \in 1..n |-> IF i = 1 THEN x ELSE rest[i - 1]]
<1>3. n \in Nat /\ Cardinality(S \ {x}) = n - 1
  BY FS_CardinalityType, FS_RemoveElement
<1> HIDE DEF n
<1>4. rest \in [1..(n - 1) -> S \ {x}]
  BY <1>2, <1>3 DEF IsAscending
<1>5. \A i \in 1..n : i # 1 => rest[i - 1] \in S \ {x}
  BY <1>3, <1>4
<1>6. s \in [1..n -> S]
  BY <1>5
<1>7. ASSUME NEW i \in 1..n, NEW j \in 1..n, i < j PROVE s[i] < s[j]
  <2>1. rest[j - 1] \in S \ {x}
    BY <1>3, <1>5, <1>7
  <2>2. CASE i = 1
    <3>1. s[i] = x /\ s[j] = rest[j - 1]
      BY <1>3, <1>7, <2>2
    <3>2. x <= rest[j - 1] /\ x # rest[j - 1] /\ x \in Nat /\ rest[j - 1] \in Nat
      BY <1>1, <2>1
    <3>3. QED BY <3>1, <3>2
  <2>3. CASE i # 1
    <3>1. i - 1 \in 1..(n - 1) /\ j - 1 \in 1..(n - 1) /\ i - 1 < j - 1
      BY <1>3, <1>7, <2>3
    <3>2. rest[i - 1] < rest[j - 1]
      BY <1>2, <1>4, <3>1 DEF IsAscending
    <3>3. QED BY <1>3, <1>7, <2>3, <3>2
  <2>4. QED BY <2>2, <2>3
<1>8. IsAscending(s, S)
  <2>1. DOMAIN s = 1..n
    OBVIOUS
  <2> HIDE DEF s
  <2>2. QED BY <1>6, <1>7, <2>1 DEF IsAscending, n
<1>9. QED BY <1>8

\* Every finite set of numbers can be put in order.
LEMMA AscendingExists ==
  ASSUME NEW S \in SUBSET Nat, IsFiniteSet(S)
  PROVE  \E s : IsAscending(s, S)
<1> DEFINE Bad(T) == T \in SUBSET S /\ ~\E s : IsAscending(s, T)
           Sizes == {Cardinality(T) : T \in {U \in SUBSET S : Bad(U)}}
<1> SUFFICES ASSUME Bad(S) PROVE FALSE
  OBVIOUS
<1>1. \A T \in SUBSET S : IsFiniteSet(T) /\ Cardinality(T) \in Nat
  BY FS_Subset, FS_CardinalityType
<1>2. Sizes \in SUBSET Nat /\ Sizes # {}
  BY <1>1
<1>3. PICK n \in Sizes : \A m \in Sizes : n <= m
  <2> HIDE DEF Sizes
  <2>1. QED BY <1>2, Least
<1>4. PICK T \in SUBSET S : Bad(T) /\ Cardinality(T) = n
  BY <1>3
<1>5. CASE T = {}
  <2>1. Cardinality(T) = 0
    BY <1>5, FS_EmptySet
  <2>2. IsAscending([i \in 1..0 |-> i], T)
    BY <2>1 DEF IsAscending
  <2>3. QED BY <1>4, <2>2
<1>6. CASE T # {}
  <2>1. ASSUME NEW x \in T PROVE \E s : IsAscending(s, T \ {x})
    <3>1. Cardinality(T \ {x}) = Cardinality(T) - 1
      BY <1>1, FS_RemoveElement
    <3>2. Cardinality(T \ {x}) \notin Sizes
      BY <1>1, <1>2, <1>3, <1>4, <3>1
    <3>3. QED BY <3>2
  <2>2. QED BY <1>1, <1>4, <1>6, <2>1, AscendingStep
<1>7. QED BY <1>5, <1>6

-----------------------------------------------------------------------------
(***************************************************************************)
(* What each step does.                                                    *)
(***************************************************************************)
Answered == {q \in Requests : stage[q] = "answered"}

Shape ==
    /\ DOMAIN op = Requests /\ DOMAIN stage = Requests /\ DOMAIN seen = Requests
    /\ DOMAIN answer = Requests /\ DOMAIN before = Requests
    /\ \A r \in Requests :
          /\ stage[r] \in {"new", "called", "merging", "answered"}
          /\ stage[r] # "new" => op[r] \in Operations
          /\ stage[r] = "merging" => op[r].type = "update"
          /\ before[r] \subseteq Answered
    /\ IsFiniteSet(DOMAIN store)
    /\ DOMAIN store \subseteq Keys

\* The requests other than r.
Apart(r) ==
    \A q \in Requests \ {r} :
        /\ op'[q] = op[q] /\ stage'[q] = stage[q] /\ seen'[q] = seen[q]
        /\ answer'[q] = answer[q] /\ before'[q] = before[q]

Domains ==
    /\ DOMAIN op' = Requests /\ DOMAIN stage' = Requests /\ DOMAIN seen' = Requests
    /\ DOMAIN answer' = Requests /\ DOMAIN before' = Requests

Arrives(r) ==
    /\ stage[r] = "new" /\ stage'[r] = "called"
    /\ op'[r] \in Operations
    /\ before'[r] = Answered
    /\ store' = store

\* r has called, and is answered by this step.
Ends(r, statuses) ==
    /\ stage[r] \in {"called", "merging"} /\ stage'[r] = "answered"
    /\ op'[r] = op[r] /\ before'[r] = before[r]
    /\ answer'[r].status \in statuses

Reads(r) ==
    /\ stage[r] = "called" /\ stage'[r] = "merging"
    /\ op[r].type = "update"
    /\ op'[r] = op[r] /\ before'[r] = before[r]
    /\ op[r].key \in DOMAIN store
    /\ seen'[r] = store[op[r].key]
    /\ store' = store

Fails(r) ==
    /\ \/ op[r].type = "create" /\ Ends(r, {500})
       \/ op[r].type = "update" /\ Ends(r, {400, 404})
       \/ op[r].type = "delete" /\ Ends(r, {404})
    /\ store' = store

Finds(r) ==
    /\ op[r].type = "fetch" /\ Ends(r, {200})
    /\ op[r].key \in DOMAIN store
    /\ answer'[r].body = store[op[r].key]
    /\ store' = store

FindsNot(r) ==
    /\ op[r].type = "fetch" /\ Ends(r, {404})
    /\ op[r].key \in DOMAIN store => store[op[r].key] = NotFound
    /\ store' = store

Lists(r) ==
    /\ op[r].type = "list" /\ Ends(r, {200})
    /\ answer'[r].body = Store!InIdOrder(Store!InScope(op[r].key[1], op[r].key[2]))
    /\ store' = store

\* d is at k now, and at most one other resource is gone, for lack of room.
Puts(k, d) ==
    /\ k \in DOMAIN store' /\ store'[k] = d
    /\ DOMAIN store' \subseteq DOMAIN store \cup {k}
    /\ \A x \in DOMAIN store' \ {k} : store'[x] = store[x]
    /\ \A x \in DOMAIN store \ DOMAIN store' :
          Capacity > 0 /\ Cardinality(DOMAIN store) >= Capacity /\ k \notin DOMAIN store

Creates(r) ==
    /\ op[r].type = "create" /\ Ends(r, {201})
    /\ Puts(op[r].key, CreatedResource(r))

Updates(r) ==
    /\ stage[r] = "merging" /\ op[r].body # Malformed
    /\ op[r].type = "update" /\ Ends(r, {200})
    /\ Puts(op[r].key, UpdatedResource(r))

Removes(r) ==
    /\ op[r].type = "delete" /\ Ends(r, {204, 500})
    /\ DOMAIN store' = DOMAIN store \ {op[r].key}
    /\ \A x \in DOMAIN store' : store'[x] = store[x]

Clears(r) ==
    /\ op[r].type = "reset" /\ Ends(r, {200})
    /\ DOMAIN store' = {}

Does(r) ==
    \/ Arrives(r) \/ Reads(r) \/ Fails(r) \/ Finds(r) \/ FindsNot(r) \/ Lists(r)
    \/ Creates(r) \/ Updates(r) \/ Removes(r) \/ Clears(r)

\* A request that asks for something about one resource has a key.
LEMMA OperationFacts ==
  ASSUME NEW o \in Operations
  PROVE  /\ o.type \in {"create", "update", "delete", "fetch", "list", "reset"}
         /\ o.type # "reset" => o.key \in Keys
         /\ o.body \in Bodies \cup {Malformed, {}}
BY DEF Operations

LEMMA StoreCardinality ==
  ASSUME NEW S
  PROVE  Store!Cardinality(S) = Cardinality(S)
BY DEF Store!Cardinality, Cardinality, Store!IsFiniteSet, IsFiniteSet

LEMMA AnswerEffect ==
  ASSUME Shape, NEW r \in Requests, NEW status, NEW body, Answer(r, status, body),
         stage[r] \in {"called", "merging"}
  PROVE  /\ Apart(r) /\ Domains
         /\ \A statuses : status \in statuses => Ends(r, statuses)
         /\ answer'[r].body = body
<1>1. answer'[r] = [status |-> status, body |-> body]
  BY DEF Answer, Shape
<1>2. Apart(r) /\ Domains
  BY DEF Answer, Shape, Apart, Domains
<1>3. stage'[r] = "answered" /\ op' = op /\ before' = before
  BY DEF Answer, Shape
<1>4. answer'[r].status = status /\ answer'[r].body = body
  BY <1>1
<1>5. QED BY <1>2, <1>3, <1>4 DEF Ends

LEMMA PutEffect ==
  ASSUME IsFiniteSet(DOMAIN store), NEW k \in Keys, NEW d, Put(k, d)
  PROVE  /\ Puts(k, d)
         /\ IsFiniteSet(DOMAIN store')
<1>1. IsFiniteSet(DOMAIN store \cup {k})
  BY FS_AddElement
<1>2. CASE Store!Replace(k, d)
  <2>1. k \in DOMAIN store /\ store' = [store EXCEPT ![k] = d]
    BY <1>2 DEF Store!Replace, Store!held
  <2>2. QED BY <2>1 DEF Puts
<1>3. CASE Store!Create(k, d)
  <2>1. store' = [x \in DOMAIN store \cup {k} |-> IF x = k THEN d ELSE store[x]]
    BY <1>3 DEF Store!Create, Store!Add, Store!held
  <2>2. QED BY <1>1, <2>1 DEF Puts
<1>4. CASE Store!CreateEvicting(k, d)
  <2>1. PICK v \in DOMAIN store :
          store' = [x \in (DOMAIN store \ {v}) \cup {k} |-> IF x = k THEN d ELSE store[x]]
    BY <1>4 DEF Store!CreateEvicting, Store!Add, Store!held
  <2>2. k \notin DOMAIN store /\ ~(Capacity <= 0 \/ Cardinality(DOMAIN store) < Capacity)
    BY <1>4, StoreCardinality DEF Store!CreateEvicting, Store!HasRoom, Store!held
  <2>3. Capacity > 0 /\ Cardinality(DOMAIN store) >= Capacity
    BY <2>2, FS_CardinalityType, CapacityAssumption
  <2>4. DOMAIN store' = (DOMAIN store \ {v}) \cup {k}
    BY <2>1
  <2>5. DOMAIN store' \in SUBSET (DOMAIN store \cup {k})
    BY <2>4
  <2>6. IsFiniteSet(DOMAIN store')
    BY <1>1, <2>5, FS_Subset
  <2>7. QED BY <2>1, <2>2, <2>3, <2>4, <2>5, <2>6 DEF Puts
<1>5. QED BY <1>2, <1>3, <1>4 DEF Put

\* What the step of a request does to the rest.
Frame(r) ==
    /\ Apart(r) /\ Domains
    /\ IsFiniteSet(DOMAIN store') /\ DOMAIN store' \subseteq Keys

LEMMA CalledFacts ==
  ASSUME Shape, NEW r \in Requests, stage[r] \in {"called", "merging"}
  PROVE  /\ op[r].type \in {"create", "update", "delete", "fetch", "list", "reset"}
         /\ op[r].type # "reset" => op[r].key \in Keys
         /\ op[r].body \in Bodies \cup {Malformed, {}}
BY OperationFacts DEF Shape

LEMMA StepDoes ==
  ASSUME Shape, NEW r \in Requests, Step(r)
  PROVE  Frame(r) /\ Does(r)
<1>1. IsFiniteSet(DOMAIN store) /\ DOMAIN store \subseteq Keys
  BY DEF Shape
<1>2. CASE Arrive(r)
  <2>1. Apart(r) /\ Domains /\ store' = store
    BY <1>2 DEF Arrive, Shape, Apart, Domains
  <2>2. Arrives(r)
    BY <1>2 DEF Arrive, Shape, Arrives, Answered
  <2>3. QED BY <1>1, <2>1, <2>2 DEF Frame, Does
<1>3. CASE CreateFails(r)
  <2>1. stage[r] = "called" /\ op[r].type = "create" /\ Answer(r, 500, None) /\ store' = store
    BY <1>3 DEF CreateFails, Calls
  <2>2. Apart(r) /\ Domains /\ Ends(r, {500})
    BY <2>1, AnswerEffect
  <2>3. QED BY <1>1, <2>1, <2>2 DEF Frame, Does, Fails
<1>4. CASE HandleCreate(r)
  <2>1. /\ stage[r] = "called" /\ op[r].type = "create"
        /\ Put(op[r].key, CreatedResource(r)) /\ Answer(r, 201, CreatedResource(r))
    BY <1>4 DEF HandleCreate, Calls
  <2>2. Apart(r) /\ Domains /\ Ends(r, {201})
    BY <2>1, AnswerEffect
  <2>3. op[r].key \in Keys
    BY <2>1, CalledFacts
  <2>4. Puts(op[r].key, CreatedResource(r)) /\ IsFiniteSet(DOMAIN store')
    BY <1>1, <2>1, <2>3, PutEffect
  <2>5. DOMAIN store' \subseteq Keys
    BY <1>1, <2>3, <2>4 DEF Puts
  <2>6. QED BY <2>1, <2>2, <2>4, <2>5 DEF Frame, Does, Creates
<1>5. CASE HandleFetch(r)
  <2>1. stage[r] = "called" /\ op[r].type = "fetch" /\ Get(op[r].key)
    BY <1>5 DEF HandleFetch, Calls
  <2>2. store' = store
    BY <2>1 DEF Get, Store!GetHit, Store!GetMiss
  <2>3. reply'[2] # NotFound => op[r].key \in DOMAIN store
    BY <2>1 DEF Get, Store!GetHit, Store!GetMiss, Store!held
  <2>4. op[r].key \in DOMAIN store => reply'[2] = store[op[r].key]
    BY <2>1 DEF Get, Store!GetHit, Store!GetMiss, Store!held
  <2>5. CASE reply'[2] = NotFound
    <3>1. Answer(r, 404, None)
      BY <1>5, <2>5 DEF HandleFetch
    <3>2. Apart(r) /\ Domains /\ Ends(r, {404})
      BY <2>1, <3>1, AnswerEffect
    <3>3. QED BY <1>1, <2>1, <2>2, <2>4, <2>5, <3>2 DEF Frame, Does, FindsNot
  <2>6. CASE reply'[2] # NotFound
    <3>1. Answer(r, 200, reply'[2])
      BY <1>5, <2>6 DEF HandleFetch
    <3>2. Apart(r) /\ Domains /\ Ends(r, {200}) /\ answer'[r].body = store[op[r].key]
      BY <2>1, <2>3, <2>4, <2>6, <3>1, AnswerEffect
    <3>3. QED BY <1>1, <2>1, <2>2, <2>3, <2>6, <3>2 DEF Frame, Does, Finds
  <2>7. QED BY <2>5, <2>6
<1>6. CASE HandleList(r)
  <2>1. /\ stage[r] = "called" /\ op[r].type = "list" /\ Answer(r, 200, reply'[2])
        /\ Store!List(op[r].key[1], op[r].key[2])
    BY <1>6 DEF HandleList, Calls
  <2>2. /\ store' = store
        /\ reply'[2] = Store!InIdOrder(Store!InScope(op[r].key[1], op[r].key[2]))
    BY <2>1 DEF Store!List
  <2>3. Apart(r) /\ Domains /\ Ends(r, {200}) /\ answer'[r].body = reply'[2]
    BY <2>1, AnswerEffect
  <2>4. QED BY <1>1, <2>1, <2>2, <2>3 DEF Frame, Does, Lists
<1>7. CASE UpdateMisses(r)
  <2>1. stage[r] = "called" /\ op[r].type = "update" /\ Answer(r, 404, None)
    BY <1>7 DEF UpdateMisses, Calls
  <2>2. store' = store
    BY <1>7 DEF UpdateMisses, Store!GetMiss
  <2>3. Apart(r) /\ Domains /\ Ends(r, {400, 404})
    BY <2>1, AnswerEffect
  <2>4. QED BY <1>1, <2>1, <2>2, <2>3 DEF Frame, Does, Fails
<1>8. CASE UpdateReads(r)
  <2>1. stage[r] = "called" /\ op[r].type = "update" /\ Store!GetHit(op[r].key)
    BY <1>8 DEF UpdateReads, Calls
  <2>2. store' = store /\ op[r].key \in DOMAIN store /\ reply'[2] = store[op[r].key]
    BY <2>1 DEF Store!GetHit, Store!held
  <2>3. Apart(r) /\ Domains
    BY <1>8 DEF UpdateReads, Shape, Apart, Domains
  <2>4. Reads(r)
    BY <1>8, <2>1, <2>2 DEF UpdateReads, Shape, Reads
  <2>5. QED BY <1>1, <2>2, <2>3, <2>4 DEF Frame, Does
<1>9. CASE UpdateRejects(r)
  <2>1. stage[r] = "merging" /\ Answer(r, 400, None) /\ store' = store
    BY <1>9 DEF UpdateRejects
  <2>2. Apart(r) /\ Domains /\ Ends(r, {400, 404})
    BY <2>1, AnswerEffect
  <2>3. op[r].type = "update"
    BY <2>1 DEF Shape
  <2>4. QED BY <1>1, <2>1, <2>2, <2>3 DEF Frame, Does, Fails
<1>10. CASE UpdateWrites(r)
  <2>1. /\ stage[r] = "merging" /\ op[r].body # Malformed
        /\ Put(op[r].key, UpdatedResource(r)) /\ Answer(r, 200, UpdatedResource(r))
    BY <1>10 DEF UpdateWrites
  <2>2. op[r].type = "update"
    BY <2>1 DEF Shape
  <2>3. Apart(r) /\ Domains /\ Ends(r, {200})
    BY <2>1, AnswerEffect
  <2>4. op[r].key \in Keys
    BY <2>1, <2>2, CalledFacts
  <2>5. Puts(op[r].key, UpdatedResource(r)) /\ IsFiniteSet(DOMAIN store')
    BY <1>1, <2>1, <2>4, PutEffect
  <2>6. DOMAIN store' \subseteq Keys
    BY <1>1, <2>4, <2>5 DEF Puts
  <2>7. QED BY <2>1, <2>2, <2>3, <2>5, <2>6 DEF Frame, Does, Updates
<1>11. CASE HandleDelete(r)
  <2> DEFINE status == IF ~reply'[2] THEN 404 ELSE IF op[r].generates THEN 204 ELSE 500
  <2>1. stage[r] = "called" /\ op[r].type = "delete" /\ Answer(r, status, None)
    BY <1>11 DEF HandleDelete, Calls
  <2>2. Apart(r) /\ Domains /\ \A statuses : status \in statuses => Ends(r, statuses)
    <3> HIDE DEF status
    <3>1. QED BY <2>1, AnswerEffect
  <2>3. CASE Store!DeleteHit(op[r].key)
    <3>1. store' = [x \in DOMAIN store \ {op[r].key} |-> store[x]] /\ reply'[2] = TRUE
      BY <2>3 DEF Store!DeleteHit, Store!held
    <3>2. status \in {204, 500}
      BY <3>1
    <3>3. Ends(r, {204, 500})
      BY <2>2, <3>2
    <3>4. IsFiniteSet(DOMAIN store')
      BY <1>1, <3>1, FS_RemoveElement
    <3>5. QED BY <1>1, <2>1, <2>2, <3>1, <3>3, <3>4 DEF Frame, Does, Removes
  <2>4. CASE Store!DeleteMiss(op[r].key)
    <3>1. store' = store /\ reply'[2] = FALSE
      BY <2>4 DEF Store!DeleteMiss
    <3>2. Ends(r, {404})
      BY <2>2, <3>1
    <3>3. QED BY <1>1, <2>1, <2>2, <3>1, <3>2 DEF Frame, Does, Fails
  <2>5. QED BY <1>11, <2>3, <2>4 DEF HandleDelete, Delete
<1>12. CASE HandleReset(r)
  <2>1. stage[r] = "called" /\ op[r].type = "reset" /\ Answer(r, 200, None)
    BY <1>12 DEF HandleReset, Calls
  <2>2. DOMAIN store' = {}
    BY <1>12 DEF HandleReset, Store!Reset
  <2>3. Apart(r) /\ Domains /\ Ends(r, {200})
    BY <2>1, AnswerEffect
  <2>4. QED BY <2>1, <2>2, <2>3, FS_EmptySet DEF Frame, Does, Clears
<1>13. QED
  BY <1>2, <1>3, <1>4, <1>5, <1>6, <1>7, <1>8, <1>9, <1>10, <1>11, <1>12 DEF Step

LEMMA ShapeNext ==
  ASSUME Shape, NEW r \in Requests, Frame(r), Does(r)
  PROVE  Shape'
<1>1. /\ stage[r] \in {"new", "called", "merging"}
      /\ stage'[r] \in {"called", "merging", "answered"}
      /\ op'[r] \in Operations
      /\ stage'[r] = "merging" => op'[r].type = "update"
      /\ before'[r] \subseteq Answered
  BY DEF Does, Shape, Arrives, Ends, Reads, Fails, Finds, FindsNot, Lists, Creates, Updates,
     Removes, Clears
<1>2. Answered' \subseteq Requests /\ Answered \subseteq Answered'
  <2>1. \A q \in Requests : stage[q] = "answered" => q # r /\ stage'[q] = "answered"
    BY <1>1 DEF Frame, Apart
  <2>2. QED BY <2>1 DEF Answered
<1>3. ASSUME NEW q \in Requests
      PROVE  /\ stage'[q] \in {"new", "called", "merging", "answered"}
             /\ stage'[q] # "new" => op'[q] \in Operations
             /\ stage'[q] = "merging" => op'[q].type = "update"
             /\ before'[q] \subseteq Answered'
  <2>1. CASE q = r
    BY <1>1, <1>2, <2>1
  <2>2. CASE q # r
    BY <1>2, <2>2 DEF Shape, Frame, Apart
  <2>3. QED BY <2>1, <2>2
<1>4. QED BY <1>3 DEF Shape, Frame, Domains

LEMMA InitShape == Init => Shape
BY FS_EmptySet DEF Init, Shape, Store!Init

-----------------------------------------------------------------------------
(***************************************************************************)
(* Whose values a resource holds.                                          *)
(***************************************************************************)
\* All fields of a resource, each Generated or the name of a request for k
\* that has arrived.
OwnedBy(resource, k, stages, ops) ==
    /\ resource \in [Fields -> Requests \cup {Generated}]
    /\ \A s \in Senders(resource) : stages[s] # "new" /\ ops[s].key = k

\* What a list holds is owned by resources of its scope.
OwnedBelow(resources, k, stages, ops) ==
    \A i \in DOMAIN resources :
        \E x \in Keys : x[1] = k[1] /\ x[2] = k[2] /\ OwnedBy(resources[i], x, stages, ops)

Owned ==
    /\ \A k \in DOMAIN store : OwnedBy(store[k], k, stage, op)
    /\ \A r \in Requests :
          /\ stage[r] = "merging" => OwnedBy(seen[r], op[r].key, stage, op)
          /\ answered(r, "fetch", {200}) => OwnedBy(answer[r].body, op[r].key, stage, op)
          /\ answered(r, "list", {200}) => OwnedBelow(answer[r].body, op[r].key, stage, op)

LEMMA SendersAreRequests ==
  ASSUME NEW resource \in [Fields -> Requests \cup {Generated}]
  PROVE  Senders(resource) \subseteq Requests
BY DEF Senders

\* A request that has arrived keeps asking for the same.
LEMMA Settled ==
  ASSUME Shape, NEW r \in Requests, Frame(r), Does(r), NEW s \in Requests, stage[s] # "new"
  PROVE  stage'[s] # "new" /\ op'[s] = op[s]
<1>1. CASE s = r
  BY <1>1 DEF Does, Arrives, Ends, Reads, Fails, Finds, FindsNot, Lists, Creates, Updates,
     Removes, Clears
<1>2. CASE s # r
  BY <1>2 DEF Frame, Apart
<1>3. QED BY <1>1, <1>2

LEMMA OwnedStays ==
  ASSUME Shape, NEW r \in Requests, Frame(r), Does(r),
         NEW resource, NEW k, OwnedBy(resource, k, stage, op)
  PROVE  OwnedBy(resource, k, stage', op')
BY SendersAreRequests, Settled DEF OwnedBy

LEMMA OwnedBelowStays ==
  ASSUME Shape, NEW r \in Requests, Frame(r), Does(r),
         NEW resources, NEW k, OwnedBelow(resources, k, stage, op)
  PROVE  OwnedBelow(resources, k, stage', op')
BY OwnedStays DEF OwnedBelow

\* Merging adds the fields of the request itself.
LEMMA MergeOwned ==
  ASSUME NEW r \in Requests, NEW fields \in SUBSET Fields, NEW k, NEW stages, NEW ops,
         NEW resource, OwnedBy(resource, k, stages, ops), stages[r] # "new", ops[r].key = k
  PROVE  OwnedBy(Merge(resource, r, fields), k, stages, ops)
<1>1. resource \in [Fields -> Requests \cup {Generated}]
  BY DEF OwnedBy
<1>2. Merge(resource, r, fields) = [f \in Fields |-> IF f \in fields THEN r ELSE resource[f]]
  BY <1>1 DEF Merge
<1>3. Senders(Merge(resource, r, fields)) \subseteq Senders(resource) \cup {r}
  BY <1>1, <1>2 DEF Senders
<1>4. QED BY <1>1, <1>2, <1>3 DEF OwnedBy

LEMMA WrittenOwned ==
  ASSUME Shape, Owned, NEW r \in Requests, Creates(r) \/ Updates(r)
  PROVE  LET d == IF op[r].type = "create" THEN CreatedResource(r) ELSE UpdatedResource(r)
         IN  OwnedBy(d, op[r].key, stage, op) /\ Puts(op[r].key, d)
<1>1. stage[r] \in {"called", "merging"}
  BY DEF Creates, Updates, Ends
<1>2. op[r].body \in Bodies \cup {Malformed, {}}
  BY <1>1, CalledFacts
<1>3. op[r].body # Malformed => op[r].body \in SUBSET Fields
  BY <1>2, BodiesAssumption
<1>4. CASE Creates(r)
  <2> DEFINE generated == [f \in Fields |-> Generated]
             fields == IF op[r].body = Malformed THEN {} ELSE op[r].body
  <2>1. OwnedBy(generated, op[r].key, stage, op)
    BY DEF OwnedBy, Senders
  <2>2. fields \in SUBSET Fields
    BY <1>3
  <2>3. CreatedResource(r) = Merge(generated, r, fields)
    BY DEF CreatedResource
  <2> HIDE DEF generated, fields
  <2>4. OwnedBy(CreatedResource(r), op[r].key, stage, op)
    BY <1>1, <2>1, <2>2, <2>3, MergeOwned
  <2>5. QED BY <1>4, <2>4 DEF Creates
<1>5. CASE Updates(r)
  <2>1. /\ stage[r] = "merging" /\ op[r].body # Malformed /\ op[r].type = "update"
        /\ Puts(op[r].key, UpdatedResource(r))
    BY <1>5 DEF Updates
  <2>2. OwnedBy(seen[r], op[r].key, stage, op)
    BY <2>1 DEF Owned
  <2>3. OwnedBy(UpdatedResource(r), op[r].key, stage, op)
    BY <1>3, <2>1, <2>2, MergeOwned DEF UpdatedResource
  <2>4. QED BY <2>1, <2>3
<1>6. QED BY <1>4, <1>5

\* A list answers resources of its scope.
LEMMA ListedOwned ==
  ASSUME Shape, Owned, NEW ns, NEW sc
  PROVE  \A i \in DOMAIN Store!InIdOrder(Store!InScope(ns, sc)) :
            \E x \in DOMAIN store :
                /\ x[1] = ns /\ x[2] = sc
                /\ Store!InIdOrder(Store!InScope(ns, sc))[i] = store[x]
<1> DEFINE entries == Store!InScope(ns, sc)
           order == Store!Ascending(DOMAIN entries)
<1>1. DOMAIN entries = {id \in Ids : <<ns, sc, id>> \in DOMAIN store}
  BY DEF Store!InScope, Store!held
<1>2. \A id \in DOMAIN entries : entries[id] = store[<<ns, sc, id>>]
  BY DEF Store!InScope, Store!held
<1>3. DOMAIN entries \in SUBSET Nat
  BY <1>1, IdsAssumption
<1>4. IsFiniteSet(DOMAIN entries)
  <2> DEFINE ids == {id \in Ids : <<ns, sc, id>> \in DOMAIN store}
             held == {x \in DOMAIN store : x[1] = ns /\ x[2] = sc /\ x[3] \in ids}
             third == [x \in held |-> x[3]]
  <2>1. held \in SUBSET DOMAIN store
    OBVIOUS
  <2>2. IsFiniteSet(held)
    <3> HIDE DEF held
    <3>1. QED BY <2>1, FS_Subset DEF Shape
  <2>3. third \in [held -> ids]
    OBVIOUS
  <2>4. ASSUME NEW id \in ids PROVE \E x \in held : third[x] = id
    <3>1. <<ns, sc, id>> \in held
      OBVIOUS
    <3>2. third[<<ns, sc, id>>] = id
      BY <3>1
    <3>3. QED BY <3>1, <3>2
  <2> HIDE DEF held, ids, third
  <2>5. third \in Surjection(held, ids)
    BY <2>3, <2>4 DEF Surjection
  <2>6. IsFiniteSet(ids)
    BY <2>2, <2>5, FS_Surjection
  <2>7. QED BY <1>1, <2>6 DEF ids
<1>5. order \in [1..Cardinality(DOMAIN entries) -> DOMAIN entries]
  <2> HIDE DEF entries
  <2>1. \E s : IsAscending(s, DOMAIN entries)
    BY <1>3, <1>4, AscendingExists
  <2>2. QED BY <2>1, StoreCardinality DEF IsAscending, Store!Ascending
<1> HIDE DEF order
<1>6. Store!InIdOrder(entries) = [i \in DOMAIN order |-> entries[order[i]]]
  BY DEF Store!InIdOrder, order
<1>7. ASSUME NEW i \in DOMAIN order
      PROVE  /\ order[i] \in Ids /\ <<ns, sc, order[i]>> \in DOMAIN store
             /\ Store!InIdOrder(entries)[i] = store[<<ns, sc, order[i]>>]
  <2> HIDE DEF entries
  <2>1. order[i] \in DOMAIN entries
    BY <1>5, <1>7
  <2>2. QED BY <1>1, <1>2, <1>6, <2>1
<1>8. DOMAIN Store!InIdOrder(entries) = DOMAIN order
  BY <1>6
<1> HIDE DEF entries
<1>9. \A i \in DOMAIN Store!InIdOrder(entries) :
         \E x \in DOMAIN store :
             x[1] = ns /\ x[2] = sc /\ Store!InIdOrder(entries)[i] = store[x]
  BY <1>7, <1>8
<1>10. QED BY <1>9 DEF entries

LEMMA InitOwned == Init => Owned
BY DEF Init, Owned, Store!Init, answered

\* What an answer says is owned when it is given.
LEMMA AnswerOwned ==
  ASSUME Shape, Owned, NEW r \in Requests, Frame(r), Does(r)
  PROVE  /\ stage'[r] = "merging" => OwnedBy(seen'[r], op'[r].key, stage', op')
         /\ answered(r, "fetch", {200})' => OwnedBy(answer'[r].body, op'[r].key, stage', op')
         /\ answered(r, "list", {200})' => OwnedBelow(answer'[r].body, op'[r].key, stage', op')
<1>1. CASE Arrives(r)
  BY <1>1 DEF Arrives, answered
<1>2. CASE Reads(r)
  <2>1. stage'[r] = "merging" /\ op'[r] = op[r] /\ seen'[r] = store[op[r].key]
    BY <1>2 DEF Reads
  <2>2. OwnedBy(store[op[r].key], op[r].key, stage, op)
    BY <1>2 DEF Reads, Owned
  <2>3. OwnedBy(store[op[r].key], op[r].key, stage', op')
    BY <2>2, OwnedStays
  <2>4. QED BY <2>1, <2>3 DEF answered
<1>3. CASE Finds(r)
  <2>1. /\ stage'[r] = "answered" /\ op'[r] = op[r] /\ op[r].type = "fetch"
        /\ answer'[r].body = store[op[r].key]
    BY <1>3 DEF Finds, Ends
  <2>2. OwnedBy(store[op[r].key], op[r].key, stage, op)
    BY <1>3 DEF Finds, Owned
  <2>3. OwnedBy(store[op[r].key], op[r].key, stage', op')
    BY <2>2, OwnedStays
  <2>4. QED BY <2>1, <2>3 DEF answered
<1>4. CASE Lists(r)
  <2> DEFINE body == Store!InIdOrder(Store!InScope(op[r].key[1], op[r].key[2]))
  <2>1. /\ stage'[r] = "answered" /\ op'[r] = op[r] /\ op[r].type = "list"
        /\ answer'[r].body = body
    BY <1>4 DEF Lists, Ends
  <2>2. OwnedBelow(body, op[r].key, stage, op)
    <3>1. DOMAIN store \subseteq Keys /\ \A x \in DOMAIN store : OwnedBy(store[x], x, stage, op)
      BY DEF Shape, Owned
    <3>2. \A i \in DOMAIN body : \E x \in DOMAIN store :
             x[1] = op[r].key[1] /\ x[2] = op[r].key[2] /\ body[i] = store[x]
      BY ListedOwned
    <3> HIDE DEF body
    <3>3. QED BY <3>1, <3>2 DEF OwnedBelow
  <2> HIDE DEF body
  <2>3. OwnedBelow(body, op[r].key, stage', op')
    BY <2>2, OwnedBelowStays
  <2>4. QED BY <2>1, <2>3 DEF answered
<1>5. CASE FindsNot(r)
  BY <1>5 DEF FindsNot, Ends, answered
<1>6. CASE Fails(r) \/ Creates(r) \/ Updates(r) \/ Removes(r) \/ Clears(r)
  BY <1>6 DEF Fails, Creates, Updates, Removes, Clears, Ends, answered
<1>7. QED BY <1>1, <1>2, <1>3, <1>4, <1>5, <1>6 DEF Does

LEMMA StoreOwned ==
  ASSUME Shape, Owned, NEW r \in Requests, Frame(r), Does(r), NEW k \in DOMAIN store'
  PROVE  OwnedBy(store'[k], k, stage', op')
<1>1. ASSUME k \in DOMAIN store, store'[k] = store[k]
      PROVE  OwnedBy(store'[k], k, stage', op')
  <2>1. OwnedBy(store[k], k, stage, op)
    BY <1>1 DEF Owned
  <2>2. OwnedBy(store[k], k, stage', op')
    BY <2>1, OwnedStays
  <2>3. QED BY <1>1, <2>2
<1>2. CASE Creates(r) \/ Updates(r)
  <2> DEFINE d == IF op[r].type = "create" THEN CreatedResource(r) ELSE UpdatedResource(r)
  <2>1. OwnedBy(d, op[r].key, stage, op) /\ Puts(op[r].key, d)
    BY <1>2, WrittenOwned
  <2> HIDE DEF d
  <2>2. OwnedBy(d, op[r].key, stage', op')
    BY <2>1, OwnedStays
  <2>3. CASE k = op[r].key
    BY <2>1, <2>2, <2>3 DEF Puts
  <2>4. CASE k # op[r].key
    BY <1>1, <2>1, <2>4 DEF Puts
  <2>5. QED BY <2>3, <2>4
<1>3. CASE Removes(r)
  BY <1>1, <1>3 DEF Removes
<1>4. CASE Clears(r)
  BY <1>4 DEF Clears
<1>5. CASE Arrives(r) \/ Reads(r) \/ Fails(r) \/ Finds(r) \/ FindsNot(r) \/ Lists(r)
  BY <1>1, <1>5 DEF Arrives, Reads, Fails, Finds, FindsNot, Lists
<1>6. QED BY <1>2, <1>3, <1>4, <1>5 DEF Does

LEMMA NextOwned ==
  ASSUME Shape, Owned, NEW r \in Requests, Frame(r), Does(r)
  PROVE  Owned'
<1>1. ASSUME NEW q \in Requests
      PROVE  /\ stage'[q] = "merging" => OwnedBy(seen'[q], op'[q].key, stage', op')
             /\ answered(q, "fetch", {200})' => OwnedBy(answer'[q].body, op'[q].key, stage', op')
             /\ answered(q, "list", {200})' =>
                   OwnedBelow(answer'[q].body, op'[q].key, stage', op')
  <2>1. CASE q = r
    BY <2>1, AnswerOwned
  <2>2. CASE q # r
    <3>1. /\ op'[q] = op[q] /\ stage'[q] = stage[q] /\ seen'[q] = seen[q]
          /\ answer'[q] = answer[q]
      BY <2>2 DEF Frame, Apart
    <3>2. stage[q] = "merging" => OwnedBy(seen[q], op[q].key, stage', op')
      BY OwnedStays DEF Owned
    <3>3. answered(q, "fetch", {200}) => OwnedBy(answer[q].body, op[q].key, stage', op')
      BY OwnedStays DEF Owned
    <3>4. answered(q, "list", {200}) => OwnedBelow(answer[q].body, op[q].key, stage', op')
      BY OwnedBelowStays DEF Owned
    <3>5. QED BY <3>1, <3>2, <3>3, <3>4 DEF answered
  <2>3. QED BY <2>1, <2>2
<1>2. \A k \in DOMAIN store' : OwnedBy(store'[k], k, stage', op')
  BY StoreOwned
<1>3. QED BY <1>1, <1>2 DEF Owned

LEMMA OwnedNoLeak == Shape /\ Owned => NoLeak
<1> SUFFICES ASSUME Shape, Owned, NEW r \in Requests
             PROVE  /\ answered(r, "fetch", {200}) =>
                          \A s \in Senders(answer[r].body) : op[s].key = op[r].key
                    /\ answered(r, "list", {200}) =>
                          \A i \in DOMAIN answer[r].body :
                              \A s \in Senders(answer[r].body[i]) :
                                  op[s].key[1] = op[r].key[1] /\ op[s].key[2] = op[r].key[2]
  BY DEF NoLeak
<1>1. QED BY DEF Owned, OwnedBy, OwnedBelow

-----------------------------------------------------------------------------
(***************************************************************************)
(* Who has written what.                                                   *)
(***************************************************************************)
\* The step of r writes to k.
Hits(r, k) ==
    \/ (Creates(r) \/ Updates(r) \/ Removes(r)) /\ op[r].key = k
    \/ Clears(r)

\* The answers that are there say what they did.
LEMMA WritesStay ==
  ASSUME Shape, NEW r \in Requests, Frame(r), Does(r), NEW q \in Requests, q # r, NEW k
  PROVE  (Writes(q, k)' <=> Writes(q, k)) /\ (Deletes(q, k)' <=> Deletes(q, k))
BY DEF Frame, Apart, Writes, Deletes, answered

LEMMA WritesNow ==
  ASSUME Shape, NEW r \in Requests, Frame(r), Does(r), NEW k
  PROVE  /\ r \notin Answered
         /\ ~Writes(r, k) /\ ~Deletes(r, k)
         /\ Writes(r, k)' <=> Hits(r, k)
         /\ Deletes(r, k)' <=> Hits(r, k) /\ (Removes(r) \/ Clears(r))
<1>1. stage[r] # "answered"
  BY DEF Does, Arrives, Ends, Reads, Fails, Finds, FindsNot, Lists, Creates, Updates, Removes,
     Clears
<1>2. CASE Arrives(r) \/ Reads(r)
  BY <1>1, <1>2 DEF Arrives, Reads, Writes, Deletes, answered, Answered, Hits, Creates, Updates,
     Removes, Clears, Ends
<1>3. CASE Fails(r) \/ Finds(r) \/ FindsNot(r) \/ Lists(r)
  BY <1>1, <1>3 DEF Fails, Finds, FindsNot, Lists, Ends, Writes, Deletes, answered, Answered,
     Hits, Creates, Updates, Removes, Clears
<1>4. CASE Creates(r) \/ Updates(r)
  BY <1>1, <1>4 DEF Creates, Updates, Ends, Writes, Deletes, answered, Answered, Hits, Removes,
     Clears
<1>5. CASE Removes(r) \/ Clears(r)
  BY <1>1, <1>5 DEF Removes, Clears, Ends, Writes, Deletes, answered, Answered, Hits, Creates,
     Updates
<1>6. QED BY <1>2, <1>3, <1>4, <1>5 DEF Does

\* The answered are settled.
LEMMA AnsweredStay ==
  ASSUME Shape, NEW r \in Requests, Frame(r), Does(r), NEW q \in Answered
  PROVE  /\ q \in Requests /\ q # r
         /\ stage'[q] = "answered" /\ op'[q] = op[q] /\ answer'[q] = answer[q]
         /\ before'[q] = before[q] /\ before[q] \subseteq Answered
<1>1. q \in Requests /\ q # r
  BY WritesNow DEF Answered
<1>2. QED BY <1>1 DEF Frame, Apart, Shape, Answered

-----------------------------------------------------------------------------
(***************************************************************************)
(* What is found after a deletion.                                         *)
(***************************************************************************)
Revives(w, d, k) ==
    /\ w \notin before[d]
    /\ op[w].key = k
    /\ answered(w, "create", {201}) \/ (answered(w, "update", {200}) /\ d \notin before[w])

Revived(d, k) == \E w \in Requests : Revives(w, d, k)

\* An update that has read the resource will write it.
Revivals ==
    \A d \in Requests, k \in Keys : Deletes(d, k) =>
        /\ k \in DOMAIN store => Revived(d, k)
        /\ \A r \in Requests :
              /\ op[r].key = k /\ d \in before[r]
              /\ stage[r] = "merging" \/ answered(r, "fetch", {200})
              => Revived(d, k)

LEMMA RevivedStays ==
  ASSUME Shape, NEW r \in Requests, Frame(r), Does(r), NEW d \in Requests, NEW k,
         Deletes(d, k), Revived(d, k)
  PROVE  Revived(d, k)'
<1>1. d \in Answered
  BY DEF Deletes, answered, Answered
<1>2. PICK w \in Requests : Revives(w, d, k)
  BY DEF Revived
<1>3. w \in Answered
  BY <1>2 DEF Revives, answered, Answered
<1>4. before'[d] = before[d]
  BY <1>1, AnsweredStay
<1>5. /\ stage'[w] = "answered" /\ op'[w] = op[w] /\ answer'[w] = answer[w]
      /\ before'[w] = before[w]
  BY <1>3, AnsweredStay
<1>6. Revives(w, d, k)'
  BY <1>2, <1>4, <1>5 DEF Revives, answered
<1>7. QED BY <1>6 DEF Revived

LEMMA NextRevivals ==
  ASSUME Shape, Revivals, NEW r \in Requests, Frame(r), Does(r)
  PROVE  Revivals'
<1> SUFFICES ASSUME NEW d \in Requests, NEW k \in Keys, Deletes(d, k)'
             PROVE  /\ k \in DOMAIN store' => Revived(d, k)'
                    /\ \A q \in Requests :
                          /\ op'[q].key = k /\ d \in before'[q]
                          /\ stage'[q] = "merging" \/ answered(q, "fetch", {200})'
                          => Revived(d, k)'
  BY DEF Revivals, Keys
<1>1. CASE d = r
  <2>1. (Removes(r) /\ op[r].key = k) \/ Clears(r)
    BY <1>1, WritesNow DEF Hits, Removes, Clears
  <2>2. k \notin DOMAIN store'
    BY <2>1 DEF Removes, Clears
  <2>3. ASSUME NEW q \in Requests, d \in before'[q],
               stage'[q] = "merging" \/ answered(q, "fetch", {200})'
        PROVE  FALSE
    <3>1. q # r
      BY <2>1, <2>3 DEF Removes, Clears, Ends, answered
    <3>2. before'[q] \subseteq Answered
      BY <3>1 DEF Frame, Apart, Shape
    <3>3. QED BY <1>1, <2>3, <3>2, WritesNow
  <2>4. QED BY <2>2, <2>3
<1>2. CASE d # r
  <2>1. Deletes(d, k)
    BY <1>2, WritesStay
  <2>2. d \in Answered
    BY <2>1 DEF Deletes, answered, Answered
  <2>3. before'[d] = before[d] /\ before[d] \subseteq Answered
    BY <2>2, AnsweredStay
  <2>4. CASE Revived(d, k)
    BY <2>1, <2>4, RevivedStays
  <2>5. CASE ~Revived(d, k)
    <3>1. k \notin DOMAIN store
      BY <2>1, <2>5 DEF Revivals
    <3>2. ASSUME NEW q \in Requests, op[q].key = k, d \in before[q],
                 stage[q] = "merging" \/ answered(q, "fetch", {200})
          PROVE  FALSE
      BY <2>1, <2>5, <3>2 DEF Revivals
    <3>3. k \in DOMAIN store' => Revived(d, k)'
      <4>1. SUFFICES ASSUME k \in DOMAIN store' PROVE Revives(r, d, k)'
        BY DEF Revived
      <4>2. (Creates(r) \/ Updates(r)) /\ op[r].key = k
        BY <3>1, <4>1 DEF Does, Arrives, Reads, Fails, Finds, FindsNot, Lists, Creates, Updates,
           Puts, Removes, Clears
      <4>3. r \notin before'[d]
        BY <2>3, WritesNow
      <4>4. CASE Creates(r)
        BY <4>2, <4>3, <4>4 DEF Creates, Ends, Revives, answered
      <4>5. CASE Updates(r)
        <5>1. d \notin before[r]
          BY <3>2, <4>2, <4>5 DEF Updates
        <5>2. QED BY <4>2, <4>3, <4>5, <5>1 DEF Updates, Ends, Revives, answered
      <4>6. QED BY <4>2, <4>4, <4>5
    <3>4. ASSUME NEW q \in Requests, op'[q].key = k, d \in before'[q],
                 stage'[q] = "merging" \/ answered(q, "fetch", {200})'
          PROVE  FALSE
      <4>1. CASE q # r
        <5>1. /\ op'[q] = op[q] /\ before'[q] = before[q] /\ stage'[q] = stage[q]
              /\ answer'[q] = answer[q]
          BY <4>1 DEF Frame, Apart
        <5>2. QED BY <3>2, <3>4, <5>1 DEF answered
      <4>2. CASE q = r
        <5>1. Reads(r) \/ Finds(r)
          BY <3>4, <4>2 DEF Does, Arrives, Ends, Fails, FindsNot, Lists, Creates, Updates,
             Removes, Clears, answered
        <5>2. op[r].key \in DOMAIN store /\ op'[r] = op[r]
          BY <5>1 DEF Reads, Finds, Ends
        <5>3. QED BY <3>1, <3>4, <4>2, <5>2
      <4>3. QED BY <4>1, <4>2
    <3>5. QED BY <3>3, <3>4
  <2>6. QED BY <2>4, <2>5
<1>3. QED BY <1>1, <1>2

LEMMA InitRevivals == Init => Revivals
BY DEF Init, Revivals, Deletes, answered

LEMMA RevivalsRace == Shape /\ Revivals => RevivedOnlyByRace
<1> SUFFICES ASSUME Shape, Revivals, NEW r \in Requests, NEW d \in Requests,
                    answered(r, "fetch", {200}), d \in before[r], Deletes(d, op[r].key)
             PROVE  \E w \in Writers(op[r].key) \ before[d] :
                       \/ op[w].type = "create"
                       \/ op[w].type = "update" /\ d \notin before[w]
  BY DEF RevivedOnlyByRace
<1>1. op[r].key \in Keys
  BY OperationFacts DEF answered, Shape
<1>2. PICK w \in Requests : Revives(w, d, op[r].key)
  BY <1>1 DEF Revivals, Revived
<1>3. w \in Writers(op[r].key)
  BY <1>2 DEF Revives, Writers, MayWrite, Writes
<1>4. QED BY <1>2, <1>3 DEF Revives, answered

-----------------------------------------------------------------------------
(***************************************************************************)
(* What a sequence of writes says, as a relation: rs are the writes, dels  *)
(* the deletions among them, ops and bef what they ask for and follow.     *)
(***************************************************************************)
Last(rs, r, bef) == r \in rs /\ rs \ {r} \subseteq bef[r]

Chained(rs, bef) == \A a, b \in rs : a = b \/ a \in bef[b] \/ b \in bef[a]

Births(rs, ops) == {r \in rs : ops[r].type = "create"}

Givers(rs, birth, f, ops, bef) ==
    {r \in rs : (r = birth \/ birth \in bef[r]) /\ ops[r].body # Malformed /\ f \in ops[r].body}

\* The value of f after them.
Gives(rs, birth, f, value, ops, bef) ==
    IF Givers(rs, birth, f, ops, bef) = {} THEN value = Generated
    ELSE Last(Givers(rs, birth, f, ops, bef), value, bef)

\* d is what they leave.
Tells(rs, dels, d, ops, bef) ==
    \E birth, last \in rs :
        /\ Last(Births(rs, ops), birth, bef)
        /\ Last(rs, last, bef) /\ last \notin dels
        /\ d \in [Fields -> Requests \cup {Generated}]
        /\ \A f \in Fields : Gives(rs, birth, f, d[f], ops, bef)

\* They leave nothing.
Gone(rs, dels, bef) == rs = {} \/ \E last \in rs : Last(rs, last, bef) /\ last \in dels

LEMMA ChainedSame ==
  ASSUME NEW rs, NEW bef1, NEW bef2, \A r \in rs : bef1[r] = bef2[r]
  PROVE  Chained(rs, bef1) <=> Chained(rs, bef2)
BY DEF Chained

LEMMA GivesSame ==
  ASSUME NEW rs, NEW ops1, NEW ops2, NEW bef1, NEW bef2, NEW birth \in rs, NEW f, NEW value,
         \A r \in rs : ops1[r] = ops2[r] /\ bef1[r] = bef2[r],
         Gives(rs, birth, f, value, ops1, bef1)
  PROVE  Gives(rs, birth, f, value, ops2, bef2)
<1>1. Givers(rs, birth, f, ops1, bef1) = Givers(rs, birth, f, ops2, bef2)
  BY DEF Givers
<1>2. Givers(rs, birth, f, ops1, bef1) \subseteq rs
  BY DEF Givers
<1>3. QED BY <1>1, <1>2 DEF Gives, Last

\* Only what the writes themselves are and follow matters.
LEMMA TellsSame ==
  ASSUME NEW rs, NEW ops1, NEW ops2, NEW bef1, NEW bef2, NEW dels1, NEW dels2, NEW d,
         \A r \in rs : ops1[r] = ops2[r] /\ bef1[r] = bef2[r] /\ (r \in dels1 <=> r \in dels2),
         Tells(rs, dels1, d, ops1, bef1)
  PROVE  Tells(rs, dels2, d, ops2, bef2)
<1>1. PICK birth \in rs, last \in rs :
        /\ Last(Births(rs, ops1), birth, bef1)
        /\ Last(rs, last, bef1) /\ last \notin dels1
        /\ d \in [Fields -> Requests \cup {Generated}]
        /\ \A f \in Fields : Gives(rs, birth, f, d[f], ops1, bef1)
  BY DEF Tells
<1>2. Births(rs, ops1) = Births(rs, ops2)
  BY DEF Births
<1>3. Last(Births(rs, ops2), birth, bef2) /\ Last(rs, last, bef2) /\ last \notin dels2
  BY <1>1, <1>2 DEF Last
<1>4. \A f \in Fields : Gives(rs, birth, f, d[f], ops2, bef2)
  BY <1>1, GivesSame
<1>5. QED BY <1>1, <1>3, <1>4 DEF Tells

LEMMA GoneSame ==
  ASSUME NEW rs, NEW bef1, NEW bef2, NEW dels1, NEW dels2,
         \A r \in rs : bef1[r] = bef2[r] /\ (r \in dels1 <=> r \in dels2),
         Gone(rs, dels1, bef1)
  PROVE  Gone(rs, dels2, bef2)
BY DEF Gone, Last

(***************************************************************************)
(* One more write w, that none of the others follows.                      *)
(***************************************************************************)
LEMMA ChainedBefore ==
  ASSUME NEW rs, NEW w, NEW bef, w \notin rs, \A r \in rs : w \notin bef[r],
         Chained(rs \cup {w}, bef)
  PROVE  Chained(rs, bef) /\ rs \subseteq bef[w]
BY DEF Chained

LEMMA CreateTells ==
  ASSUME NEW rs, NEW w \in Requests, NEW ops, NEW bef, NEW dels, w \notin rs, w \notin dels,
         \A r \in rs : w \notin bef[r], rs \subseteq bef[w], ops[w].type = "create",
         NEW d \in [Fields -> Requests \cup {Generated}],
         \A f \in Fields :
            d[f] = IF ops[w].body # Malformed /\ f \in ops[w].body THEN w ELSE Generated
  PROVE  Tells(rs \cup {w}, dels, d, ops, bef)
<1> DEFINE all == rs \cup {w}
<1>1. Last(all, w, bef) /\ Last(Births(all, ops), w, bef)
  BY DEF Last, Births
<1>2. ASSUME NEW f \in Fields PROVE Gives(all, w, f, d[f], ops, bef)
  <2>1. Givers(all, w, f, ops, bef) =
          IF ops[w].body # Malformed /\ f \in ops[w].body THEN {w} ELSE {}
    BY DEF Givers
  <2>2. QED BY <2>1 DEF Gives, Last
<1>3. QED BY <1>1, <1>2 DEF Tells

LEMMA UpdateTells ==
  ASSUME NEW rs, NEW w \in Requests, NEW ops, NEW bef, NEW dels, NEW dels1,
         w \notin rs, w \notin dels,
         \A r \in rs : w \notin bef[r], rs \subseteq bef[w], ops[w].type # "create",
         ops[w].body # Malformed,
         NEW d1, Tells(rs, dels1, d1, ops, bef),
         NEW d \in [Fields -> Requests \cup {Generated}],
         \A f \in Fields : d[f] = IF f \in ops[w].body THEN w ELSE d1[f]
  PROVE  Tells(rs \cup {w}, dels, d, ops, bef)
<1> DEFINE all == rs \cup {w}
<1>1. PICK birth \in rs :
        /\ Last(Births(rs, ops), birth, bef)
        /\ \A f \in Fields : Gives(rs, birth, f, d1[f], ops, bef)
  BY DEF Tells
<1>2. Births(all, ops) = Births(rs, ops)
  BY DEF Births
<1>3. Last(all, w, bef)
  BY DEF Last
<1>4. ASSUME NEW f \in Fields PROVE Gives(all, birth, f, d[f], ops, bef)
  <2>1. birth \in bef[w]
    OBVIOUS
  <2>2. CASE f \in ops[w].body
    <3>1. w \in Givers(all, birth, f, ops, bef)
      BY <2>1, <2>2 DEF Givers
    <3>2. Givers(all, birth, f, ops, bef) \ {w} \subseteq bef[w]
      BY DEF Givers
    <3>3. QED BY <2>2, <3>1, <3>2 DEF Gives, Last
  <2>3. CASE f \notin ops[w].body
    <3>1. Givers(all, birth, f, ops, bef) = Givers(rs, birth, f, ops, bef)
      BY <2>3 DEF Givers
    <3>2. QED BY <1>1, <2>3, <3>1 DEF Gives
  <2>4. QED BY <2>2, <2>3
<1>5. QED BY <1>1, <1>2, <1>3, <1>4 DEF Tells

LEMMA DeleteGone ==
  ASSUME NEW rs, NEW w, NEW bef, NEW dels, w \in dels, rs \subseteq bef[w]
  PROVE  Gone(rs \cup {w}, dels, bef)
BY DEF Gone, Last

(***************************************************************************)
(* The relation is the function Expected, because no two requests each     *)
(* came after the other.                                                   *)
(***************************************************************************)
Ordered == \A a, b \in Requests : ~(a \in before[b] /\ b \in before[a])

Deletions(k) == {r \in Requests : Deletes(r, k)}

LEMMA LatestIsLast ==
  ASSUME Ordered, NEW rs \in SUBSET Requests, NEW r, Last(rs, r, before)
  PROVE  Latest(rs) = r
<1>1. \A q \in rs : rs \ {q} \subseteq before[q] => q = r
  BY DEF Last, Ordered
<1>2. r \in rs /\ rs \ {r} \subseteq before[r]
  BY DEF Last
<1>3. QED BY <1>1, <1>2 DEF Latest

LEMMA GoneExpected ==
  ASSUME Ordered, NEW rs \in SUBSET Requests, NEW k, Gone(rs, Deletions(k), before)
  PROVE  Expected(rs, k) = NotFound
<1>1. CASE rs = {}
  BY <1>1 DEF Expected
<1>2. CASE rs # {}
  <2>1. PICK last \in rs : Last(rs, last, before) /\ last \in Deletions(k)
    BY <1>2 DEF Gone
  <2>2. Deletes(Latest(rs), k)
    BY <2>1, LatestIsLast DEF Deletions
  <2>3. QED BY <2>2 DEF Expected
<1>3. QED BY <1>1, <1>2

LEMMA TellsExpected ==
  ASSUME Ordered, NEW rs \in SUBSET Requests, NEW k, NEW d,
         Tells(rs, Deletions(k), d, op, before)
  PROVE  Expected(rs, k) = d
<1>1. PICK birth \in rs, last \in rs :
        /\ Last(Births(rs, op), birth, before)
        /\ Last(rs, last, before) /\ last \notin Deletions(k)
        /\ d \in [Fields -> Requests \cup {Generated}]
        /\ \A f \in Fields : Gives(rs, birth, f, d[f], op, before)
  BY DEF Tells
<1>2. Latest(rs) = last /\ ~Deletes(last, k)
  BY <1>1, LatestIsLast DEF Deletions
<1>3. Births(rs, op) \in SUBSET Requests
  BY DEF Births
<1>4. Latest({r \in rs : op[r].type = "create"}) = birth
  BY <1>1, <1>3, LatestIsLast DEF Births
<1> DEFINE later == {r \in rs : birth \in before[r]} \cup {birth}
           Named(f) == {r \in later : op[r].body # Malformed /\ f \in op[r].body}
<1>5. \A f : Named(f) = Givers(rs, birth, f, op, before)
  BY DEF Givers
<1>6. ASSUME NEW f \in Fields
      PROVE  (IF Named(f) = {} THEN Generated ELSE Latest(Named(f))) = d[f]
  <2>1. Gives(rs, birth, f, d[f], op, before)
    BY <1>1
  <2>2. Givers(rs, birth, f, op, before) \in SUBSET Requests
    BY DEF Givers
  <2>3. CASE Givers(rs, birth, f, op, before) = {}
    BY <1>5, <2>1, <2>3 DEF Gives
  <2>4. CASE Givers(rs, birth, f, op, before) # {}
    <3>1. Latest(Givers(rs, birth, f, op, before)) = d[f]
      BY <2>1, <2>2, <2>4, LatestIsLast DEF Gives
    <3>2. QED BY <1>5, <2>4, <3>1
  <2>5. QED BY <2>3, <2>4
<1>7. Expected(rs, k) = [f \in Fields |-> IF Named(f) = {} THEN Generated ELSE Latest(Named(f))]
  <2>1. rs # {} /\ ~Deletes(Latest(rs), k)
    BY <1>2
  <2>2. QED BY <1>4, <2>1 DEF Expected
<1> HIDE DEF Named
<1>8. d = [f \in Fields |-> d[f]]
  BY <1>1
<1>9. QED BY <1>6, <1>7, <1>8

LEMMA InitOrdered == Init => Ordered
BY DEF Init, Ordered

LEMMA NextOrdered ==
  ASSUME Shape, Ordered, NEW r \in Requests, Frame(r), Does(r)
  PROVE  Ordered'
<1>1. \A q \in Requests : before[q] \subseteq Answered
  BY DEF Shape
<1>2. r \notin Answered
  BY WritesNow
<1>3. \A q \in Requests \ {r} : before'[q] = before[q]
  BY DEF Frame, Apart
<1>4. before'[r] \in {before[r], Answered}
  BY DEF Does, Arrives, Ends, Reads, Fails, Finds, FindsNot, Lists, Creates, Updates, Removes,
     Clears
<1>5. \A q \in Requests : r \notin before'[q]
  BY <1>1, <1>2, <1>3, <1>4
<1>6. QED BY <1>3, <1>5 DEF Ordered

-----------------------------------------------------------------------------
(***************************************************************************)
(* The store, what updates have read and what fetches have found, against  *)
(* the writes that have been answered.                                     *)
(***************************************************************************)
Wrote(k) == {r \in Requests : Writes(r, k)}

\* As many others as fit have been written.
Evicted(k) ==
    /\ Capacity > 0
    /\ \E others \in SUBSET (Keys \ {k}) :
          /\ IsFiniteSet(others) /\ Cardinality(others) >= Capacity
          /\ \A x \in others : Wrote(x) # {}

Holds(k, d) == Tells(Wrote(k), Deletions(k), d, op, before)

Lacks(k) == Gone(Wrote(k), Deletions(k), before) \/ Evicted(k)

\* The writes to k are in sequence, and r follows them.
Follows(r, k) == Chained(Wrote(k), before) /\ Wrote(k) \subseteq before[r]

Found(r) == IF answer[r].status = 404 THEN NotFound ELSE answer[r].body

Kept ==
    /\ \A k \in DOMAIN store : Wrote(k) # {}
    /\ \A k \in Keys : Chained(Wrote(k), before) =>
          IF k \in DOMAIN store THEN Holds(k, store[k]) ELSE Lacks(k)

Read ==
    \A r \in Requests, k \in Keys :
        stage[r] = "merging" /\ op[r].key = k /\ Follows(r, k) => Holds(k, seen[r])

Told ==
    \A r \in Requests, k \in Keys :
        answered(r, "fetch", {200, 404}) /\ op[r].key = k /\ Follows(r, k) =>
            Holds(k, Found(r)) \/ (Found(r) = NotFound /\ Lacks(k))

Sequential == Ordered /\ Kept /\ Read /\ Told

LEMMA WroteStep ==
  ASSUME Shape, NEW r \in Requests, Frame(r), Does(r), NEW k
  PROVE  /\ Wrote(k) \subseteq Answered
         /\ Hits(r, k) => Wrote(k)' = Wrote(k) \cup {r}
         /\ ~Hits(r, k) => Wrote(k)' = Wrote(k)
         /\ \A q \in Wrote(k) : q \in Deletions(k)' <=> q \in Deletions(k)
         /\ r \in Deletions(k)' <=> Hits(r, k) /\ (Removes(r) \/ Clears(r))
<1>1. Wrote(k) \subseteq Answered
  BY DEF Wrote, Writes, Deletes, answered, Answered
<1>2. Wrote(k)' = {q \in Requests : Writes(q, k)'}
  BY DEF Wrote
<1>3. Deletions(k)' = {q \in Requests : Deletes(q, k)'}
  BY DEF Deletions
<1>4. Writes(r, k)' <=> Hits(r, k)
  BY WritesNow
<1>5. ~Writes(r, k)
  BY WritesNow
<1>6. \A q \in Requests \ {r} :
         (Writes(q, k)' <=> Writes(q, k)) /\ (Deletes(q, k)' <=> Deletes(q, k))
  BY WritesStay
<1>7. Hits(r, k) => Wrote(k)' = Wrote(k) \cup {r}
  BY <1>2, <1>4, <1>6 DEF Wrote
<1>8. ~Hits(r, k) => Wrote(k)' = Wrote(k)
  BY <1>2, <1>4, <1>5, <1>6 DEF Wrote
<1>9. \A q \in Wrote(k) : q \in Requests \ {r}
  BY <1>5 DEF Wrote
<1>10. \A q \in Wrote(k) : q \in Deletions(k)' <=> q \in Deletions(k)
  BY <1>3, <1>6, <1>9 DEF Deletions
<1>11. r \in Deletions(k)' <=> Hits(r, k) /\ (Removes(r) \/ Clears(r))
  BY <1>3, WritesNow
<1>12. QED BY <1>1, <1>7, <1>8, <1>10, <1>11

LEMMA EvictedStays ==
  ASSUME Shape, NEW r \in Requests, Frame(r), Does(r), NEW k, Evicted(k)
  PROVE  Evicted(k)'
<1>1. \A x \in Keys : Wrote(x) # {} => Wrote(x)' # {}
  BY WroteStep
<1>2. QED BY <1>1 DEF Evicted, Keys

\* Nothing that is said of k changes with a step that does not write to it.
LEMMA OtherSteps ==
  ASSUME Shape, NEW r \in Requests, Frame(r), Does(r), NEW k, ~Hits(r, k)
  PROVE  /\ Wrote(k)' = Wrote(k)
         /\ Chained(Wrote(k), before)' <=> Chained(Wrote(k), before)
         /\ \A d : Holds(k, d) => Tells(Wrote(k)', Deletions(k)', d, op', before')
         /\ Lacks(k) => Lacks(k)'
<1>1. Wrote(k)' = Wrote(k)
  BY WroteStep
<1>2. \A q \in Wrote(k) : before[q] = before'[q] /\ op[q] = op'[q]
  BY WroteStep, AnsweredStay
<1>3. \A q \in Wrote(k) : q \in Deletions(k) <=> q \in Deletions(k)'
  BY WroteStep
<1>4. Chained(Wrote(k), before') <=> Chained(Wrote(k), before)
  BY <1>2, ChainedSame
<1>5. \A d : Tells(Wrote(k), Deletions(k), d, op, before)
             => Tells(Wrote(k), Deletions(k)', d, op', before')
  BY <1>2, <1>3, TellsSame
<1>6. Gone(Wrote(k), Deletions(k), before) => Gone(Wrote(k), Deletions(k)', before')
  BY <1>2, <1>3, GoneSame
<1>7. QED BY <1>1, <1>4, <1>5, <1>6, EvictedStays DEF Holds, Lacks

\* Nobody who has arrived follows the write that is made now.
LEMMA NotFollowed ==
  ASSUME Shape, NEW r \in Requests, Frame(r), Does(r), NEW q \in Requests, q # r, NEW k,
         Hits(r, k)
  PROVE  ~(Wrote(k)' \subseteq before'[q])
<1>1. r \in Wrote(k)' /\ r \notin Answered
  BY WroteStep, WritesNow
<1>2. before'[q] \subseteq Answered
  BY DEF Frame, Apart, Shape
<1>3. QED BY <1>1, <1>2

\* The write that is made now, when it is in sequence.
LEMMA WriteInSequence ==
  ASSUME Shape, NEW r \in Requests, Frame(r), Does(r), NEW k, Hits(r, k),
         Chained(Wrote(k)', before')
  PROVE  /\ r \notin Wrote(k) /\ \A q \in Wrote(k) : r \notin before'[q]
         /\ before'[r] = before[r] /\ op'[r] = op[r]
         /\ Follows(r, k) /\ Wrote(k) \subseteq before'[r]
<1>1. Wrote(k)' = Wrote(k) \cup {r} /\ Wrote(k) \subseteq Answered
  BY WroteStep
<1>2. r \notin Answered
  BY WritesNow
<1>3. \A q \in Wrote(k) : before'[q] = before[q] /\ before[q] \subseteq Answered
  BY <1>1, AnsweredStay
<1>4. \A q \in Wrote(k) : r \notin before'[q]
  BY <1>2, <1>3
<1>5. r \notin Wrote(k)
  BY <1>1, <1>2
<1>6. Chained(Wrote(k), before') /\ Wrote(k) \subseteq before'[r]
  BY <1>1, <1>4, <1>5, ChainedBefore
<1>7. Chained(Wrote(k), before)
  BY <1>3, <1>6, ChainedSame
<1>8. before'[r] = before[r] /\ op'[r] = op[r]
  BY DEF Hits, Creates, Updates, Removes, Clears, Ends
<1>9. QED BY <1>4, <1>5, <1>6, <1>7, <1>8 DEF Follows

LEMMA BodyFields ==
  ASSUME Shape, NEW r \in Requests, stage[r] \in {"called", "merging"}, op[r].body # Malformed
  PROVE  op[r].body \in SUBSET Fields
BY CalledFacts, BodiesAssumption

LEMMA CreateKept ==
  ASSUME Shape, NEW r \in Requests, Frame(r), Does(r), Creates(r), NEW k, k = op[r].key,
         Chained(Wrote(k)', before')
  PROVE  k \in DOMAIN store' /\ Tells(Wrote(k)', Deletions(k)', store'[k], op', before')
<1> DEFINE d == CreatedResource(r)
           fields == IF op[r].body = Malformed THEN {} ELSE op[r].body
<1>1. op[r].type = "create" /\ stage[r] \in {"called", "merging"} /\ Hits(r, k)
  BY DEF Creates, Ends, Hits
<1>2. k \in DOMAIN store' /\ store'[k] = d
  BY DEF Creates, Puts
<1>3. fields \in SUBSET Fields
  BY <1>1, BodyFields
<1>4. d = [f \in Fields |-> IF f \in fields THEN r ELSE Generated]
  BY <1>3 DEF CreatedResource, Merge
<1>5. r \notin Deletions(k)'
  BY <1>1, WroteStep DEF Removes, Clears
<1>6. /\ r \notin Wrote(k) /\ \A q \in Wrote(k) : r \notin before'[q]
      /\ Wrote(k) \subseteq before'[r] /\ op'[r] = op[r]
  BY <1>1, WriteInSequence
<1>7. Wrote(k)' = Wrote(k) \cup {r}
  BY <1>1, WroteStep
<1>8. d \in [Fields -> Requests \cup {Generated}]
  BY <1>4
<1>9. \A f \in Fields :
         d[f] = IF op'[r].body # Malformed /\ f \in op'[r].body THEN r ELSE Generated
  BY <1>4, <1>6
<1> HIDE DEF d
<1>10. op'[r].type = "create"
  BY <1>1, <1>6
<1>11. Tells(Wrote(k) \cup {r}, Deletions(k)', d, op', before')
  BY <1>5, <1>6, <1>8, <1>9, <1>10, CreateTells
<1>12. QED BY <1>2, <1>7, <1>11

LEMMA UpdateKept ==
  ASSUME Shape, Read, NEW r \in Requests, Frame(r), Does(r), Updates(r), NEW k, k = op[r].key,
         Chained(Wrote(k)', before')
  PROVE  k \in DOMAIN store' /\ Tells(Wrote(k)', Deletions(k)', store'[k], op', before')
<1> DEFINE d == UpdatedResource(r)
<1>1. /\ op[r].type = "update" /\ stage[r] = "merging" /\ op[r].body # Malformed
      /\ Hits(r, k)
  BY DEF Updates, Hits
<1>2. k \in DOMAIN store' /\ store'[k] = d
  BY DEF Updates, Puts
<1>3. op[r].body \in SUBSET Fields
  BY <1>1, BodyFields
<1>4. r \notin Deletions(k)'
  BY <1>1, WroteStep DEF Removes, Clears
<1>5. /\ r \notin Wrote(k) /\ \A q \in Wrote(k) : r \notin before'[q]
      /\ Wrote(k) \subseteq before'[r] /\ op'[r] = op[r] /\ Follows(r, k)
  BY <1>1, WriteInSequence
<1>6. Wrote(k)' = Wrote(k) \cup {r}
  BY <1>1, WroteStep
<1>7. Tells(Wrote(k), Deletions(k), seen[r], op, before)
  <2>1. k \in Keys
    BY <1>1, CalledFacts
  <2>2. QED BY <1>1, <1>5, <2>1 DEF Read, Holds
<1>8. \A q \in Wrote(k) : op[q] = op'[q] /\ before[q] = before'[q]
                          /\ (q \in Deletions(k) <=> q \in Deletions(k)')
  BY WroteStep, AnsweredStay
<1>9. Tells(Wrote(k), Deletions(k)', seen[r], op', before')
  BY <1>7, <1>8, TellsSame
<1>10. seen[r] \in [Fields -> Requests \cup {Generated}]
  BY <1>7 DEF Tells
<1>11. d = [f \in Fields |-> IF f \in op[r].body THEN r ELSE seen[r][f]]
  BY <1>3, <1>10 DEF UpdatedResource, Merge
<1>12. d \in [Fields -> Requests \cup {Generated}]
  BY <1>10, <1>11
<1>13. \A f \in Fields : d[f] = IF f \in op'[r].body THEN r ELSE seen[r][f]
  BY <1>5, <1>11
<1> HIDE DEF d
<1>14. op'[r].type # "create" /\ op'[r].body # Malformed
  BY <1>1, <1>5
<1>15. Tells(Wrote(k) \cup {r}, Deletions(k)', d, op', before')
  BY <1>4, <1>5, <1>9, <1>12, <1>13, <1>14, UpdateTells
<1>16. QED BY <1>2, <1>6, <1>15

LEMMA DeleteKept ==
  ASSUME Shape, NEW r \in Requests, Frame(r), Does(r), NEW k, Hits(r, k),
         Removes(r) \/ Clears(r), Chained(Wrote(k)', before')
  PROVE  k \notin DOMAIN store' /\ Lacks(k)'
<1>1. k \notin DOMAIN store'
  BY DEF Hits, Removes, Clears, Creates, Updates
<1>2. r \in Deletions(k)' /\ Wrote(k)' = Wrote(k) \cup {r}
  BY WroteStep
<1>3. Wrote(k) \subseteq before'[r]
  BY WriteInSequence
<1>4. Gone(Wrote(k) \cup {r}, Deletions(k)', before')
  BY <1>2, <1>3, DeleteGone
<1>5. QED BY <1>1, <1>2, <1>4 DEF Lacks

\* Who loses its place has been crowded out: the others that are held, and
\* the new one, are as many as fit.
LEMMA EvictionCrowds ==
  ASSUME Shape, Kept, NEW r \in Requests, Frame(r), Does(r), Creates(r) \/ Updates(r),
         NEW k \in DOMAIN store, k \notin DOMAIN store'
  PROVE  Evicted(k)'
<1> DEFINE new == op[r].key
           others == (DOMAIN store \ {k}) \cup {new}
<1>1. /\ Capacity > 0 /\ Cardinality(DOMAIN store) >= Capacity /\ new \notin DOMAIN store
      /\ Hits(r, new)
  BY DEF Creates, Updates, Puts, Hits
<1>2. new \in Keys /\ DOMAIN store \subseteq Keys /\ IsFiniteSet(DOMAIN store)
  BY CalledFacts DEF Creates, Updates, Ends, Shape
<1> HIDE DEF new
<1>3. others \in SUBSET (Keys \ {k})
  BY <1>1, <1>2
<1>4. IsFiniteSet(others) /\ Cardinality(others) = Cardinality(DOMAIN store)
  <2>1. /\ IsFiniteSet(DOMAIN store \ {k})
        /\ Cardinality(DOMAIN store \ {k}) = Cardinality(DOMAIN store) - 1
    BY <1>2, FS_RemoveElement
  <2>2. new \notin DOMAIN store \ {k}
    BY <1>1
  <2>3. IsFiniteSet(others) /\ Cardinality(others) = Cardinality(DOMAIN store \ {k}) + 1
    BY <2>1, <2>2, FS_AddElement
  <2>4. Cardinality(DOMAIN store) \in Nat
    BY <1>2, FS_CardinalityType
  <2> HIDE DEF others
  <2>5. QED BY <2>1, <2>3, <2>4
<1>5. ASSUME NEW x \in others PROVE Wrote(x)' # {}
  <2>1. CASE x = new
    BY <1>1, <2>1, WroteStep
  <2>2. CASE x # new
    <3>1. Wrote(x) # {}
      BY <2>2 DEF Kept
    <3>2. QED BY <3>1, WroteStep
  <2>3. QED BY <2>1, <2>2
<1> HIDE DEF others
<1>6. Cardinality(others) >= Capacity
  BY <1>1, <1>4
<1>7. \E S \in SUBSET (Keys \ {k}) :
         IsFiniteSet(S) /\ Cardinality(S) >= Capacity /\ \A x \in S : Wrote(x)' # {}
  BY <1>3, <1>4, <1>5, <1>6
<1>8. QED BY <1>1, <1>7 DEF Evicted, Keys

\* Every resource that is held after a step was held before or is written.
LEMMA StoreStep ==
  ASSUME Shape, NEW r \in Requests, Frame(r), Does(r), NEW k, ~Hits(r, k)
  PROVE  /\ k \in DOMAIN store' => k \in DOMAIN store /\ store'[k] = store[k]
         /\ k \in DOMAIN store /\ k \notin DOMAIN store' => Creates(r) \/ Updates(r)
<1>1. CASE Arrives(r) \/ Reads(r) \/ Fails(r) \/ Finds(r) \/ FindsNot(r) \/ Lists(r)
  BY <1>1 DEF Arrives, Reads, Fails, Finds, FindsNot, Lists
<1>2. CASE Creates(r) \/ Updates(r)
  BY <1>2 DEF Creates, Updates, Puts, Hits
<1>3. CASE Removes(r) \/ Clears(r)
  BY <1>3 DEF Removes, Clears, Hits
<1>4. QED BY <1>1, <1>2, <1>3 DEF Does

LEMMA NextKept ==
  ASSUME Shape, Kept, Read, NEW r \in Requests, Frame(r), Does(r)
  PROVE  Kept'
<1>1. ASSUME NEW k \in DOMAIN store' PROVE Wrote(k)' # {}
  <2>1. CASE Hits(r, k)
    BY <2>1, WroteStep
  <2>2. CASE ~Hits(r, k)
    <3>1. Wrote(k) # {}
      BY <2>2, StoreStep DEF Kept
    <3>2. QED BY <2>2, <3>1, WroteStep
  <2>3. QED BY <2>1, <2>2
<1>2. ASSUME NEW k \in Keys, Chained(Wrote(k)', before')
      PROVE  IF k \in DOMAIN store'
             THEN Tells(Wrote(k)', Deletions(k)', store'[k], op', before')
             ELSE Lacks(k)'
  <2>1. CASE Hits(r, k) /\ Creates(r)
    <3>1. k = op[r].key
      BY <2>1 DEF Hits, Creates, Clears
    <3>2. QED BY <1>2, <2>1, <3>1, CreateKept
  <2>2. CASE Hits(r, k) /\ Updates(r)
    <3>1. k = op[r].key
      BY <2>2 DEF Hits, Updates, Clears
    <3>2. QED BY <1>2, <2>2, <3>1, UpdateKept
  <2>3. CASE Hits(r, k) /\ (Removes(r) \/ Clears(r))
    BY <1>2, <2>3, DeleteKept
  <2>4. CASE ~Hits(r, k)
    <3>1. Chained(Wrote(k), before)
      BY <1>2, <2>4, OtherSteps
    <3>2. CASE k \in DOMAIN store'
      <4>1. k \in DOMAIN store /\ store'[k] = store[k]
        BY <2>4, <3>2, StoreStep
      <4>2. Holds(k, store[k])
        BY <3>1, <4>1 DEF Kept
      <4>3. Tells(Wrote(k)', Deletions(k)', store[k], op', before')
        BY <2>4, <4>2, OtherSteps
      <4>4. QED BY <3>2, <4>1, <4>3
    <3>3. CASE k \notin DOMAIN store' /\ k \in DOMAIN store
      <4>1. Creates(r) \/ Updates(r)
        BY <2>4, <3>3, StoreStep
      <4>2. Evicted(k)'
        BY <3>3, <4>1, EvictionCrowds
      <4>3. QED BY <3>3, <4>2 DEF Lacks
    <3>4. CASE k \notin DOMAIN store' /\ k \notin DOMAIN store
      <4>1. Lacks(k)
        BY <3>1, <3>4 DEF Kept
      <4>2. Lacks(k)'
        BY <2>4, <4>1, OtherSteps
      <4>3. QED BY <3>4, <4>2
    <3>5. QED BY <3>2, <3>3, <3>4
  <2>5. QED BY <2>1, <2>2, <2>3, <2>4 DEF Hits
<1>3. QED BY <1>1, <1>2 DEF Kept, Holds, Keys

LEMMA NextRead ==
  ASSUME Shape, Kept, Read, NEW r \in Requests, Frame(r), Does(r)
  PROVE  Read'
<1> SUFFICES ASSUME NEW q \in Requests, NEW k \in Keys, stage'[q] = "merging", op'[q].key = k,
                    Chained(Wrote(k)', before'), Wrote(k)' \subseteq before'[q]
             PROVE  Tells(Wrote(k)', Deletions(k)', seen'[q], op', before')
  BY DEF Read, Follows, Holds, Keys
<1>1. CASE q # r
  <2>1. op'[q] = op[q] /\ stage'[q] = stage[q] /\ seen'[q] = seen[q] /\ before'[q] = before[q]
    BY <1>1 DEF Frame, Apart
  <2>2. ~Hits(r, k)
    BY <1>1, <2>1, NotFollowed
  <2>3. Follows(q, k)
    BY <2>1, <2>2, OtherSteps DEF Follows
  <2>4. Holds(k, seen[q])
    BY <2>1, <2>3 DEF Read
  <2>5. Tells(Wrote(k)', Deletions(k)', seen[q], op', before')
    BY <2>2, <2>4, OtherSteps
  <2>6. QED BY <2>1, <2>5
<1>2. CASE q = r
  <2>1. Reads(r)
    BY <1>2 DEF Does, Arrives, Ends, Fails, Finds, FindsNot, Lists, Creates, Updates, Removes,
       Clears
  <2>2. /\ op'[q] = op[q] /\ op[r].key = k /\ k \in DOMAIN store /\ seen'[q] = store[k]
        /\ stage[r] # stage'[r]
    BY <1>2, <2>1 DEF Reads
  <2>3. ~Hits(r, k)
    BY <2>1, <2>2 DEF Reads, Hits, Creates, Updates, Removes, Clears, Ends
  <2>4. Chained(Wrote(k), before)
    BY <2>2, <2>3, OtherSteps
  <2>5. Holds(k, store[k])
    BY <2>2, <2>4 DEF Kept, Shape
  <2>6. Tells(Wrote(k)', Deletions(k)', store[k], op', before')
    BY <2>3, <2>5, OtherSteps
  <2>7. QED BY <2>2, <2>6
<1>3. QED BY <1>1, <1>2

LEMMA NextTold ==
  ASSUME Shape, Kept, Told, NEW r \in Requests, Frame(r), Does(r)
  PROVE  Told'
<1> SUFFICES ASSUME NEW q \in Requests, NEW k \in Keys, answered(q, "fetch", {200, 404})',
                    op'[q].key = k,
                    Chained(Wrote(k)', before'), Wrote(k)' \subseteq before'[q]
             PROVE  \/ Tells(Wrote(k)', Deletions(k)', Found(q)', op', before')
                    \/ (Found(q)' = NotFound /\ Lacks(k)')
  BY DEF Told, Follows, Holds, Keys
<1>1. CASE q # r
  <2>1. /\ op'[q] = op[q] /\ stage'[q] = stage[q] /\ answer'[q] = answer[q]
        /\ before'[q] = before[q]
    BY <1>1 DEF Frame, Apart
  <2>2. ~Hits(r, k)
    BY <1>1, <2>1, NotFollowed
  <2>3. Follows(q, k) /\ Found(q)' = Found(q)
    BY <2>1, <2>2, OtherSteps DEF Follows, Found
  <2>4. answered(q, "fetch", {200, 404})
    BY <2>1 DEF answered
  <2>5. Holds(k, Found(q)) \/ (Found(q) = NotFound /\ Lacks(k))
    BY <2>1, <2>3, <2>4 DEF Told
  <2>6. Holds(k, Found(q)) => Tells(Wrote(k)', Deletions(k)', Found(q), op', before')
    BY <2>2, OtherSteps
  <2>7. Lacks(k) => Lacks(k)'
    BY <2>2, OtherSteps
  <2>8. QED BY <2>1, <2>3, <2>5, <2>6, <2>7
<1>2. CASE q = r
  <2>1. Finds(r) \/ FindsNot(r)
    BY <1>2 DEF answered, Does, Arrives, Ends, Reads, Fails, Lists, Creates, Updates, Removes,
       Clears
  <2>2. op'[q] = op[q] /\ op[r].type = "fetch" /\ stage[r] \in {"called", "merging"}
    BY <1>2, <2>1 DEF Finds, FindsNot, Ends
  <2>3. op[r].key = k
    BY <1>2, <2>2
  <2>4. ~Hits(r, k)
    BY <2>2 DEF Hits, Creates, Updates, Removes, Clears
  <2>5. Chained(Wrote(k), before)
    BY <2>2, <2>4, OtherSteps
  <2>6. CASE k \in DOMAIN store
    <3>1. Found(q)' = store[k]
      BY <1>2, <2>1, <2>3, <2>6 DEF Finds, FindsNot, Ends, Found
    <3>2. Holds(k, store[k])
      BY <2>5, <2>6 DEF Kept
    <3>3. Tells(Wrote(k)', Deletions(k)', store[k], op', before')
      BY <2>4, <3>2, OtherSteps
    <3>4. QED BY <2>2, <3>1, <3>3
  <2>7. CASE k \notin DOMAIN store
    <3>1. Found(q)' = NotFound
      BY <1>2, <2>1, <2>3, <2>7 DEF Finds, FindsNot, Ends, Found
    <3>2. Lacks(k)
      BY <2>5, <2>7 DEF Kept
    <3>3. Lacks(k)'
      BY <2>4, <3>2, OtherSteps
    <3>4. QED BY <2>2, <3>1, <3>3
  <2>8. QED BY <2>6, <2>7
<1>3. QED BY <1>1, <1>2

LEMMA InitSequential == Init => Sequential
<1> SUFFICES ASSUME Init PROVE Sequential
  OBVIOUS
<1>1. \A r \in Requests : stage[r] = "new"
  BY DEF Init
<1>2. DOMAIN store = {}
  BY DEF Init, Store!Init
<1>3. \A k \in Keys : Wrote(k) = {}
  BY <1>1 DEF Wrote, Writes, Deletes, answered
<1>4. \A k \in Keys : Lacks(k)
  BY <1>3 DEF Lacks, Gone
<1>5. Kept
  BY <1>2, <1>4 DEF Kept
<1>6. QED BY <1>1, <1>5, InitOrdered DEF Sequential, Read, Told, answered

\* Once the fetch is answered and no write to its resource is under way, the
\* writers are those that have been answered.
LEMMA SequentialIsFetched == Shape /\ Sequential => SequentialFetch
<1> SUFFICES ASSUME Shape, Sequential, NEW r \in Requests, answered(r, "fetch", {200, 404}),
                    InSequence(Writers(op[r].key), r)
             PROVE  \/ Found(r) = Expected(Writers(op[r].key), op[r].key)
                    \/ Found(r) = NotFound /\ Crowded(op[r].key)
  BY DEF SequentialFetch, Found
<1> DEFINE k == op[r].key
<1>1. k \in Keys
  BY OperationFacts DEF answered, Shape
<1>2. Writers(k) \subseteq Answered
  BY DEF InSequence, Shape
<1>3. Writers(k) = Wrote(k)
  BY <1>2 DEF Writers, Wrote, MayWrite, Answered
<1>4. Follows(r, k)
  BY <1>3 DEF Follows, InSequence, Chained
<1> HIDE DEF k
<1>5. Holds(k, Found(r)) \/ (Found(r) = NotFound /\ Lacks(k))
  BY <1>1, <1>4 DEF Sequential, Told, k
<1>6. Wrote(k) \in SUBSET Requests
  BY DEF Wrote
<1>7. CASE Holds(k, Found(r))
  BY <1>3, <1>6, <1>7, TellsExpected DEF Holds, Sequential, k
<1>8. CASE Found(r) = NotFound /\ Gone(Wrote(k), Deletions(k), before)
  BY <1>3, <1>6, <1>8, GoneExpected DEF Sequential, k
<1>9. CASE Found(r) = NotFound /\ Evicted(k)
  <2>1. \A x : Wrote(x) \subseteq Writers(x)
    BY DEF Wrote, Writers, MayWrite
  <2>2. Crowded(k)
    BY <1>9, <2>1 DEF Evicted, Crowded
  <2>3. QED BY <1>9, <2>2 DEF k
<1>10. QED BY <1>5, <1>7, <1>8, <1>9 DEF Lacks

-----------------------------------------------------------------------------
(***************************************************************************)
(* The inductive invariant.                                                *)
(***************************************************************************)
Inv == Shape /\ Owned /\ Revivals /\ Sequential

LEMMA InitInv == Init => Inv
BY InitShape, InitOwned, InitRevivals, InitSequential DEF Inv

LEMMA StepInv == ASSUME Inv, NEW r \in Requests, Step(r) PROVE Inv'
<1>1. Frame(r) /\ Does(r)
  BY StepDoes DEF Inv
<1>2. Shape' /\ Owned' /\ Revivals' /\ Ordered'
  BY <1>1, ShapeNext, NextOwned, NextRevivals, NextOrdered DEF Inv, Sequential
<1>3. Kept' /\ Read' /\ Told'
  BY <1>1, NextKept, NextRead, NextTold DEF Inv, Sequential
<1>4. QED BY <1>2, <1>3 DEF Inv, Sequential

LEMMA StutterInv == Inv /\ UNCHANGED vars => Inv'
<1> SUFFICES ASSUME Inv, UNCHANGED vars PROVE Inv'
  OBVIOUS
<1>1. /\ store' = store /\ op' = op /\ stage' = stage /\ seen' = seen /\ answer' = answer
      /\ before' = before
  BY DEF vars, handler
<1>2. Shape'
  BY <1>1 DEF Inv, Shape, Answered
<1>3. \A q, type, statuses : answered(q, type, statuses)' <=> answered(q, type, statuses)
  BY <1>1 DEF answered
<1>4. Owned'
  BY <1>1, <1>3 DEF Inv, Owned
<1>5. \A q, k : (Deletes(q, k)' <=> Deletes(q, k)) /\ (Writes(q, k)' <=> Writes(q, k))
  BY <1>1, <1>3 DEF Deletes, Writes
<1>6. \A d, k : Revived(d, k)' <=> Revived(d, k)
  BY <1>1, <1>3 DEF Revived, Revives
<1>7. Revivals'
  BY <1>1, <1>3, <1>5, <1>6 DEF Inv, Revivals, Keys
<1>8. \A k : Wrote(k)' = Wrote(k) /\ Deletions(k)' = Deletions(k)
  BY <1>5 DEF Wrote, Deletions
<1>9. \A k : Evicted(k)' <=> Evicted(k)
  BY <1>8 DEF Evicted, Keys
<1>10. \A k : (Lacks(k)' <=> Lacks(k)) /\ (\A d : Holds(k, d)' <=> Holds(k, d))
  BY <1>1, <1>8, <1>9 DEF Lacks, Holds
<1>11. \A q, k : Follows(q, k)' <=> Follows(q, k)
  BY <1>1, <1>8 DEF Follows
<1>12. Ordered'
  BY <1>1 DEF Inv, Sequential, Ordered
<1>13. Kept'
  <2>1. \A k \in DOMAIN store' : Wrote(k)' # {}
    BY <1>1, <1>8 DEF Inv, Sequential, Kept
  <2>2. ASSUME NEW k \in Keys, Chained(Wrote(k)', before')
        PROVE  IF k \in DOMAIN store'
               THEN Tells(Wrote(k)', Deletions(k)', store'[k], op', before')
               ELSE Lacks(k)'
    BY <1>1, <1>8, <1>10, <2>2 DEF Inv, Sequential, Kept, Holds
  <2>3. QED BY <2>1, <2>2 DEF Kept, Holds, Keys
<1>14. Read'
  <2>1. ASSUME NEW q \in Requests, NEW k \in Keys, stage'[q] = "merging", op'[q].key = k,
               Follows(q, k)'
        PROVE  Tells(Wrote(k)', Deletions(k)', seen'[q], op', before')
    BY <1>1, <1>8, <1>11, <2>1 DEF Inv, Sequential, Read, Holds
  <2>2. QED BY <2>1 DEF Read, Holds, Keys
<1>15. Told'
  <2>1. ASSUME NEW q \in Requests, NEW k \in Keys, answered(q, "fetch", {200, 404})',
               op'[q].key = k, Follows(q, k)'
        PROVE  \/ Tells(Wrote(k)', Deletions(k)', Found(q)', op', before')
               \/ (Found(q)' = NotFound /\ Lacks(k)')
    <3>1. Found(q)' = Found(q)
      BY <1>1 DEF Found
    <3>2. Holds(k, Found(q)) \/ (Found(q) = NotFound /\ Lacks(k))
      BY <1>1, <1>3, <1>11, <2>1 DEF Inv, Sequential, Told
    <3>3. QED BY <1>1, <1>8, <1>10, <3>1, <3>2 DEF Holds
  <2>2. QED BY <2>1 DEF Told, Holds, Keys
<1>16. QED BY <1>2, <1>4, <1>7, <1>12, <1>13, <1>14, <1>15 DEF Inv, Sequential

LEMMA Invariance == Spec => []Inv
<1>1. Inv /\ [Next]_vars => Inv'
  BY StepInv, StutterInv DEF Next
<1>2. QED BY <1>1, InitInv, PTL DEF Spec

(***************************************************************************)
(* What a client wrote shows up nowhere else.                              *)
(***************************************************************************)
THEOREM NoLeakTheorem == Spec => []NoLeak
<1>1. Inv => NoLeak
  BY OwnedNoLeak DEF Inv
<1>2. QED BY <1>1, Invariance, PTL

(***************************************************************************)
(* What is found after its deletion was written by a request that the      *)
(* deletion did not follow.                                                *)
(***************************************************************************)
THEOREM RevivedOnlyByRaceTheorem == Spec => []RevivedOnlyByRace
<1>1. Inv => RevivedOnlyByRace
  BY RevivalsRace DEF Inv
<1>2. QED BY <1>1, Invariance, PTL

(***************************************************************************)
(* A fetch that follows a sequence of writes finds what they say, or less  *)
(* if others have taken its place.                                         *)
(***************************************************************************)
THEOREM SequentialFetchTheorem == Spec => []SequentialFetch
<1>1. Inv => SequentialFetch
  BY SequentialIsFetched DEF Inv
<1>2. QED BY <1>1, Invariance, PTL
=============================================================================
