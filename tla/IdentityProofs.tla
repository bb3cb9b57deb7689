--------------------------- MODULE IdentityProofs ---------------------------
(***************************************************************************)
(* Proofs about IdentityCheck, for every family of resources, every set of *)
(* compiled schemas, every set of fields and every number of parents.      *)
(*                                                                         *)
(* The state tells what happened and nothing else: the invariant is that   *)
(* what loading, POST and GET left in it is what the operators make of the *)
(* family and of the bodies.  The properties are then facts about these    *)
(* operators, one lemma each.                                              *)
(***************************************************************************)
EXTENDS IdentityCheck, FiniteSetTheorems, SequenceTheorems, TLAPS

-----------------------------------------------------------------------------
(* Positions in a path.                                                    *)

Rank(S, i) == Cardinality({j \in S : j <= i})

\* The positions of a finite set are counted from 1, each has its own count,
\* and every count up to the size of the set is that of some position.
LEMMA RankIsBijection ==
  ASSUME NEW S \in SUBSET Nat, IsFiniteSet(S)
  PROVE  /\ \A i \in S : Rank(S, i) \in 1..Cardinality(S)
         /\ \A i, j \in S : Rank(S, i) = Rank(S, j) => i = j
         /\ \A k \in 1..Cardinality(S) : \E i \in S : Rank(S, i) = k
<1> DEFINE upto(i) == {j \in S : j <= i}
           n == Cardinality(S)
<1>1. ASSUME NEW i \in S
      PROVE  /\ IsFiniteSet(upto(i)) /\ Cardinality(upto(i)) \in Nat
             /\ Cardinality(upto(i)) <= n /\ n \in Nat
             /\ i \in upto(i) /\ Cardinality(upto(i)) > 0
  <2>1. upto(i) \subseteq S /\ i \in upto(i)
    OBVIOUS
  <2> HIDE DEF upto
  <2>2. IsFiniteSet(upto(i)) /\ Cardinality(upto(i)) <= n
    BY <2>1, FS_Subset
  <2>3. Cardinality(upto(i)) \in Nat /\ n \in Nat
    BY <2>2, FS_CardinalityType
  <2>4. Cardinality(upto(i)) # 0
    BY <2>1, <2>2, FS_EmptySet
  <2>5. QED BY <2>1, <2>2, <2>3, <2>4
<1>2. ASSUME NEW i \in S, NEW j \in S, i < j
      PROVE  Cardinality(upto(i)) < Cardinality(upto(j))
  <2>1. upto(i) \subseteq upto(j) \ {j}
    <3>1. ASSUME NEW x \in upto(i) PROVE x \in upto(j) \ {j}
      <4>1. x \in S /\ x <= i
        OBVIOUS
      <4>2. x \in Nat /\ i \in Nat /\ j \in Nat
        BY <4>1
      <4>3. x <= j /\ x # j
        BY <1>2, <4>1, <4>2
      <4>4. QED BY <4>1, <4>3
    <3>2. QED BY <3>1
  <2>2. /\ IsFiniteSet(upto(j)) /\ j \in upto(j) /\ Cardinality(upto(j)) \in Nat
        /\ Cardinality(upto(i)) \in Nat
    BY <1>1
  <2> HIDE DEF upto
  <2>3. /\ IsFiniteSet(upto(j) \ {j})
        /\ Cardinality(upto(j) \ {j}) = Cardinality(upto(j)) - 1
    BY <2>2, FS_RemoveElement
  <2>4. Cardinality(upto(i)) <= Cardinality(upto(j) \ {j})
    BY <2>1, <2>3, FS_Subset
  <2>5. QED BY <2>2, <2>3, <2>4
<1>3. ASSUME NEW i \in S, NEW j \in S, Cardinality(upto(i)) = Cardinality(upto(j))
      PROVE  i = j
  <2> HIDE DEF upto
  <2>1. ~(i < j) /\ ~(j < i)
    BY <1>1, <1>2, <1>3
  <2>2. QED BY <2>1
<1> DEFINE f == [i \in S |-> Cardinality(upto(i))]
<1>4. f \in Injection(S, 1..n)
  <2> HIDE DEF upto, n
  <2>1. f \in [S -> 1..n]
    BY <1>1
  <2>2. QED BY <1>3, <2>1 DEF Injection, IsInjective
<1>5. n \in Nat /\ IsFiniteSet(1..n) /\ Cardinality(1..n) = n
  BY FS_CardinalityType, FS_Interval
<1>6. f \in Surjection(S, 1..n)
  <2> HIDE DEF f
  <2>1. QED BY <1>4, <1>5, FS_Injection
<1>7. ASSUME NEW k \in 1..n PROVE \E i \in S : Cardinality(upto(i)) = k
  <2> HIDE DEF upto, n
  <2>1. QED BY <1>6, <1>7 DEF Surjection
<1>8. \A i \in S : Rank(S, i) = Cardinality(upto(i))
  BY DEF Rank
<1> HIDE DEF upto
<1>9. QED BY <1>1, <1>3, <1>5, <1>7, <1>8

\* Nth finds a position, and the one with that count.
LEMMA NthIsPosition ==
  ASSUME NEW S \in SUBSET Nat, IsFiniteSet(S)
  PROVE  /\ \A k \in 1..Cardinality(S) : Nth(S, k) \in S
         /\ \A i \in S : Nth(S, Rank(S, i)) = i
<1>1. \A k : Nth(S, k) = CHOOSE i \in S : Rank(S, i) = k
  BY DEF Nth, Rank
<1>2. /\ \A i \in S : Rank(S, i) \in 1..Cardinality(S)
      /\ \A i, j \in S : Rank(S, i) = Rank(S, j) => i = j
      /\ \A k \in 1..Cardinality(S) : \E i \in S : Rank(S, i) = k
  BY RankIsBijection
<1>3. ASSUME NEW k \in 1..Cardinality(S)
      PROVE  Nth(S, k) \in S /\ Rank(S, Nth(S, k)) = k
  BY <1>1, <1>2
<1>4. ASSUME NEW i \in S PROVE Nth(S, Rank(S, i)) = i
  <2>1. Rank(S, i) \in 1..Cardinality(S)
    BY <1>2
  <2>2. Nth(S, Rank(S, i)) \in S /\ Rank(S, Nth(S, Rank(S, i))) = Rank(S, i)
    BY <1>3, <2>1
  <2>3. QED BY <1>2, <2>2
<1>5. QED BY <1>3, <1>4

-----------------------------------------------------------------------------
(* The paths of a family.                                                  *)

Parents(segments, params) ==
    {i \in DOMAIN segments : segments[i].param /\ segments[i].name \in DOMAIN params}

\* The paths of a collection and of its items are sequences of segments,
\* and both are looked up in the collection.
LEMMA PathsOfFamily ==
  ASSUME family \in Families
  PROVE  /\ Len(Collection) \in Nat /\ DOMAIN Collection = 1..Len(Collection)
         /\ DOMAIN family.parent = 1..(Len(Collection) - 1)
         /\ \A i \in DOMAIN family.parent : Collection[i] = family.parent[i]
         /\ Len(Collection) > 0
         /\ Collection[Len(Collection)] = Literal(family.word)
         /\ Item = Append(Collection, Parameter(family.param))
         /\ CollectionPath(Collection) = Collection
         /\ CollectionPath(Item) = Collection
<1> DEFINE parent == family.parent
           S == {parent[i] : i \in DOMAIN parent}
           T == S \cup {Literal(family.word), Parameter(family.param)}
<1>1. parent \in Seq(S)
  BY FamiliesAssumption
<1> HIDE DEF S
<1>2. parent \in Seq(T)
  BY <1>1
<1>3. Collection = Append(parent, Literal(family.word)) /\ Literal(family.word) \in T
  BY DEF Collection
<1>4. Item = Append(Collection, Parameter(family.param)) /\ Parameter(family.param) \in T
  BY DEF Item
<1> HIDE DEF T, parent
<1>5. /\ Collection \in Seq(T) /\ Collection # <<>> /\ Len(Collection) = Len(parent) + 1
      /\ \A i \in 1..Len(parent) : Collection[i] = parent[i]
      /\ Collection[Len(Collection)] = Literal(family.word)
  BY <1>2, <1>3, AppendProperties
<1>6. /\ Item \in Seq(T) /\ Item # <<>> /\ Len(Item) = Len(Collection) + 1
      /\ \A i \in 1..Len(Collection) : Item[i] = Collection[i]
      /\ Item[Len(Item)] = Parameter(family.param)
  BY <1>4, <1>5, AppendProperties
<1>7. CollectionPath(Collection) = Collection
  <2>1. ~Last(Collection).param
    BY <1>5 DEF Last, Literal
  <2>2. QED BY <2>1 DEF CollectionPath, IsItemPath
<1>8. CollectionPath(Item) = Collection
  <2>1. Last(Item).param
    BY <1>6 DEF Last, Parameter
  <2>2. Front(Item) = Collection
    <3>1. /\ Front(Item) \in Seq(T)
          /\ Len(Front(Item)) = Len(Item) - 1
          /\ \A i \in 1..(Len(Item) - 1) : Front(Item)[i] = Item[i]
      BY <1>6 DEF Front
    <3>2. QED BY <1>5, <1>6, <3>1, SeqEqual
  <2>3. QED BY <1>6, <2>1, <2>2 DEF CollectionPath, IsItemPath
<1>9. /\ Len(parent) \in Nat /\ DOMAIN parent = 1..Len(parent)
      /\ Len(Collection) \in Nat /\ DOMAIN Collection = 1..Len(Collection)
  BY <1>2, <1>5
<1>10. QED
  BY <1>4, <1>5, <1>7, <1>8, <1>9 DEF parent

\* The parameter of an item's path is the last one.
LEMMA ItemParam ==
  ASSUME family \in Families
  PROVE  LastPathParam(Item) = family.param
<1> DEFINE n == Len(Collection)
           I == {i \in DOMAIN Item : Item[i].param}
<1>1. Len(Collection) \in Nat /\ DOMAIN Collection = 1..Len(Collection)
  BY PathsOfFamily
<1>2. DOMAIN Item = 1..(n + 1) /\ Item[n + 1] = Parameter(family.param)
  BY <1>1, PathsOfFamily
<1> HIDE DEF n
<1>3. n + 1 \in I /\ \A i \in I : i \in 1..(n + 1)
  BY <1>1, <1>2 DEF Parameter, n
<1> HIDE DEF I
<1>4. Max(I) = n + 1
  BY <1>1, <1>3 DEF Max, n
<1>5. LastPathParam(Item) = Item[Max(I)].name
  BY <1>3 DEF LastPathParam, LastName, I
<1>6. QED BY <1>2, <1>4, <1>5 DEF Parameter

\* The values of the prefix of a collection make the scope; that of an item
\* adds nothing to it.
LEMMA ScopeOfItem ==
  ASSUME family \in Families, family.param \notin ParamNames(family.parent),
         parentParams \in [ParamNames(family.parent) -> ParentValues],
         NEW value, NEW params,
         params = ShallowMerge(parentParams, [p \in {family.param} |-> value])
  PROVE  /\ ResourceType(Item) = ResourceType(Collection)
         /\ ParentScope(Item, params) = ParentScope(Collection, parentParams)
<1> DEFINE P == Parents(Collection, parentParams)
<1>1. CollectionPath(Item) = Collection /\ CollectionPath(Collection) = Collection
  BY PathsOfFamily
<1>2. ResourceType(Item) = ResourceType(Collection)
  BY <1>1 DEF ResourceType
<1>3. DOMAIN params = ParamNames(family.parent) \cup {family.param}
      /\ \A x \in ParamNames(family.parent) : params[x] = parentParams[x]
  BY DEF ShallowMerge
<1>4. \A i \in DOMAIN Collection : Collection[i].param =>
         Collection[i].name \in ParamNames(family.parent)
  <2> SUFFICES ASSUME NEW i \in DOMAIN Collection, Collection[i].param
               PROVE  Collection[i].name \in ParamNames(family.parent)
    OBVIOUS
  <2>1. i # Len(Collection)
    BY PathsOfFamily DEF Literal
  <2>2. i \in DOMAIN family.parent /\ Collection[i] = family.parent[i]
    BY <2>1, PathsOfFamily
  <2>3. QED BY <2>2 DEF ParamNames
<1>5. Parents(Collection, params) = P
  BY <1>3, <1>4 DEF Parents
<1>6. P \in SUBSET Nat /\ IsFiniteSet(P)
  <2>1. P \subseteq 1..Len(Collection) /\ Len(Collection) \in Nat
    BY PathsOfFamily DEF Parents
  <2> HIDE DEF P
  <2>2. IsFiniteSet(1..Len(Collection))
    BY <2>1, FS_Interval
  <2>3. IsFiniteSet(P)
    BY <2>1, <2>2, FS_Subset
  <2>4. QED BY <2>1, <2>3
<1>7. /\ ParentScope(Item, params) =
           [k \in 1..Cardinality(P) |-> params[Collection[Nth(P, k)].name]]
      /\ ParentScope(Collection, parentParams) =
           [k \in 1..Cardinality(P) |-> parentParams[Collection[Nth(P, k)].name]]
  BY <1>1, <1>5 DEF ParentScope, Parents
<1>8. ASSUME NEW k \in 1..Cardinality(P)
      PROVE  params[Collection[Nth(P, k)].name] = parentParams[Collection[Nth(P, k)].name]
  <2>1. Nth(P, k) \in P
    BY <1>6, NthIsPosition
  <2>2. QED BY <1>3, <1>4, <2>1 DEF Parents
<1>9. QED BY <1>2, <1>7, <1>8

\* The scope tells all the values of the prefix.
LEMMA ScopeTellsParents ==
  ASSUME family \in Families,
         NEW a \in [ParamNames(family.parent) -> ParentValues],
         NEW b \in [ParamNames(family.parent) -> ParentValues],
         ParentScope(Collection, a) = ParentScope(Collection, b)
  PROVE  a = b
<1> DEFINE P == Parents(Collection, a)
<1>1. CollectionPath(Collection) = Collection
  BY PathsOfFamily
<1>2. Parents(Collection, b) = P
  BY DEF Parents
<1>3. /\ ParentScope(Collection, a) =
           [k \in 1..Cardinality(P) |-> a[Collection[Nth(P, k)].name]]
      /\ ParentScope(Collection, b) =
           [k \in 1..Cardinality(P) |-> b[Collection[Nth(P, k)].name]]
  BY <1>1, <1>2 DEF ParentScope, Parents
<1>4. P \in SUBSET Nat /\ IsFiniteSet(P)
  <2>1. P \subseteq 1..Len(Collection) /\ Len(Collection) \in Nat
    BY PathsOfFamily DEF Parents
  <2> HIDE DEF P
  <2>2. IsFiniteSet(1..Len(Collection))
    BY <2>1, FS_Interval
  <2>3. IsFiniteSet(P)
    BY <2>1, <2>2, FS_Subset
  <2>4. QED BY <2>1, <2>3
<1>5. ASSUME NEW x \in ParamNames(family.parent) PROVE a[x] = b[x]
  <2>1. PICK i \in DOMAIN family.parent : family.parent[i].param /\ x = family.parent[i].name
    BY DEF ParamNames
  <2>2. i \in DOMAIN Collection /\ Collection[i] = family.parent[i]
    BY PathsOfFamily
  <2>3. i \in P
    BY <2>1, <2>2 DEF Parents
  <2>4. Rank(P, i) \in 1..Cardinality(P) /\ Nth(P, Rank(P, i)) = i
    BY <1>4, <2>3, NthIsPosition, RankIsBijection
  <2> DEFINE k == Rank(P, i)
  <2>5. [n \in 1..Cardinality(P) |-> a[Collection[Nth(P, n)].name]][k] =
        [n \in 1..Cardinality(P) |-> b[Collection[Nth(P, n)].name]][k]
    BY <1>3
  <2> HIDE DEF P, k
  <2>6. a[Collection[Nth(P, k)].name] = b[Collection[Nth(P, k)].name]
    BY <2>4, <2>5 DEF k
  <2>7. QED BY <2>1, <2>2, <2>4, <2>6 DEF k
<1>6. QED BY <1>5

-----------------------------------------------------------------------------
(* The invariant.                                                          *)

Loaded ==
    /\ family \in Families
    /\ family.param \notin ParamNames(family.parent)
    /\ parentParams \in [ParamNames(family.parent) -> ParentValues]
    /\ entries = Annotated
    /\ Described(family.create, CreateCode) => OwnFields(layers.generated)
    /\ OwnFields(layers.request)

Resource ==
    Unwrap(Merged(layers.generated, layers.example, layers.request,
                  entries.create, Collection, entries.hint,
                  Described(family.create, CreateCode)),
           entries.create)

Posted ==
    /\ created.resource = Resource
    /\ created.key \in Keys(Collection, parentParams,
                           IDsOfBody(Collection, parentParams, Resource, entries.hint))

ItemParams(value) == ShallowMerge(parentParams, [p \in {family.param} |-> value])

FetchedKeys(value) ==
    Keys(Item, ItemParams(value), IDsOfPath(Item, ItemParams(value), None))

Got ==
    /\ IsObject(created.resource)
    /\ fetched.field \in DOMAIN created.resource[2]
    /\ created.resource[2][fetched.field] # Null
    /\ fetched.keys = FetchedKeys(URLParam(created.resource[2][fetched.field]))

Inv ==
    /\ Loaded
    /\ stage # "request" => Posted
    /\ stage = "fetched" => Got

\* A request has no value of an example.
LEMMA RequestOwnFields == \A body \in Overlays("request") : OwnFields(body)
<1> SUFFICES ASSUME NEW body \in Overlays("request"), IsObject(body), NEW f \in DOMAIN body[2]
             PROVE  /\ Own(body[2][f])
                    /\ IsObject(body[2][f]) =>
                          \A g \in DOMAIN body[2][f][2] : Own(body[2][f][2][g])
  BY DEF OwnFields
<1> DEFINE fields(D) == [g \in D |-> <<"request", g>>]
<1>1. \A D : \A g \in DOMAIN fields(D) : Own(fields(D)[g]) /\ ~IsObject(fields(D)[g])
  BY DEF Own, IsObject
<1>2. \/ \E D, place : body = Wrap(Setting("request", D), place)
      \/ \E D : body = Setting("request", D)
      \/ body = <<"array", {}>>
  BY DEF Overlays
<1> HIDE DEF fields
<1>3. \A D : Setting("request", D) = Object(fields(D))
  BY Zenon DEF Setting, fields
<1>4. CASE \E D : body = Setting("request", D)
  <2>1. PICK D : body = Setting("request", D)
    BY <1>4
  <2>2. body[2] = fields(D)
    BY <1>3, <2>1 DEF Object
  <2>3. QED BY <1>1, <2>2
<1>5. CASE \E D, place : place # None /\ body = Wrap(Setting("request", D), place)
  <2>1. PICK D, place : place # None /\ body = Wrap(Object(fields(D)), place)
    BY <1>3, <1>5
  <2>2. body[2] = [k \in {place} |-> Object(fields(D))]
    BY <2>1 DEF Wrap, Object
  <2>3. body[2][f] = Object(fields(D))
    BY <2>2
  <2>4. body[2][f][1] = "object" /\ body[2][f][2] = fields(D)
    BY <2>3 DEF Object
  <2>5. QED BY <1>1, <2>4 DEF Own
<1>6. CASE body = <<"array", {}>>
  BY <1>6 DEF IsObject
<1>7. QED BY <1>2, <1>4, <1>5, <1>6 DEF Wrap

LEMMA InitInv == Init => Inv
<1> SUFFICES ASSUME Init PROVE Inv
  OBVIOUS
<1>1. /\ layers.request \in Overlays("request")
      /\ Described(family.create, CreateCode) =>
            layers.generated \in Generated(family.create, CreateCode)
  BY Zenon DEF Init
<1>2. QED BY <1>1, RequestOwnFields, GenerableAssumption DEF Init, Inv, Loaded

\* What each step leaves in the state is what the operators make of it.
LEMMA NextInv == Inv /\ [Next]_vars => Inv'
<1> SUFFICES ASSUME Inv, [Next]_vars PROVE Inv'
  OBVIOUS
<1> USE DEF Inv
<1>1. UNCHANGED <<family, parentParams, entries, layers>>
  BY DEF Next, vars, Create, Fetch, List
<1>2. /\ Annotated' = Annotated /\ Resource' = Resource
      /\ Collection' = Collection /\ Item' = Item
  <2>1. Collection' = Collection
    BY <1>1 DEF Collection
  <2>2. Item' = Item
    BY <1>1, <2>1 DEF Item
  <2>3. Annotated' = Annotated
    BY <1>1, <2>1, <2>2, Zenon DEF Annotated, PathsOfTypes
  <2>4. Resource' = Resource
    BY <1>1, <2>1, Zenon DEF Resource
  <2>5. QED BY <2>1, <2>2, <2>3, <2>4
<1>3. Loaded'
  BY <1>1, <1>2 DEF Loaded
<1>4. CASE Create
  <2>1. /\ stage' = "created"
        /\ created'.resource = Resource
        /\ created'.key \in Keys(Collection, parentParams,
                                 IDsOfBody(Collection, parentParams, Resource, entries.hint))
    BY <1>4 DEF Create, Resource
  <2>2. Posted'
    BY <1>1, <1>2, <2>1 DEF Posted
  <2>3. QED BY <1>3, <2>1, <2>2
<1>5. CASE Fetch
  <2>1. /\ stage = "created" /\ stage' = "fetched" /\ created' = created
        /\ IsObject(created.resource)
    BY <1>5 DEF Fetch
  <2>2. PICK f \in DOMAIN created.resource[2] :
          /\ created.resource[2][f] # Null
          /\ \E answer :
                fetched' = [field |-> f, answer |-> answer,
                            keys |-> FetchedKeys(URLParam(created.resource[2][f]))]
    BY <1>5, Zenon DEF Fetch, FetchedKeys, ItemParams
  <2>3. Posted'
    BY <1>1, <1>2, <2>1 DEF Posted
  <2>4. Got'
    BY <1>1, <1>2, <2>1, <2>2 DEF Got, FetchedKeys, ItemParams
  <2>5. QED BY <1>3, <2>1, <2>3, <2>4
<1>6. CASE List
  <2>1. stage = "created" /\ stage' = "listed" /\ created' = created
    BY <1>6 DEF List
  <2>2. Posted'
    BY <1>1, <1>2, <2>1 DEF Posted
  <2>3. QED BY <1>3, <2>1, <2>2
<1>7. CASE UNCHANGED vars
  BY <1>2, <1>3, <1>7 DEF vars, Posted, Got, FetchedKeys, ItemParams
<1>8. QED BY <1>4, <1>5, <1>6, <1>7 DEF Next

\* The invariant holds in every state.
LEMMA Invariance == Spec => []Inv
  BY InitInv, NextInv, PTL DEF Spec

-----------------------------------------------------------------------------
(* Where POST and GET look for the ID.                                     *)

\* A fetch has the ID from the item parameter.
LEMMA FetchKeys ==
  ASSUME family \in Families, NEW value
  PROVE  FetchedKeys(value) =
            {<<ResourceType(Item), ParentScope(Item, ItemParams(value)), value>>}
<1> DEFINE params == ItemParams(value)
<1>1. LastPathParam(Item) = family.param
  BY ItemParam
<1>2. family.param \in DOMAIN params /\ params[family.param] = value
  BY DEF ShallowMerge, ItemParams
<1>3. IDsOfPath(Item, params, None) = {value}
  BY <1>1, <1>2 DEF IDsOfPath
<1>4. QED BY <1>3 DEF Keys, FetchedKeys

\* A field that is the only one like a name is what is found under it.
LEMMA FoundAlone ==
  ASSUME NEW body, NEW name, name # None, NEW field,
         {f \in DOMAIN body : EqualFold(f, name)} = {field}
  PROVE  FindField(body, name) = {body[field]}
<1>1. name \in DOMAIN body => name = field
  BY DEF EqualFold
<1>2. QED BY <1>1 DEF FindField

\* Where nothing else is like a name, it finds that field or nothing.
LEMMA FoundAtMost ==
  ASSUME NEW body, NEW name, NEW field,
         name # None => {f \in DOMAIN body : EqualFold(f, name)} \subseteq {field}
  PROVE  FindField(body, name) \subseteq {Null, body[field]}
<1>1. CASE name = None
  BY <1>1 DEF FindField
<1>2. CASE name # None
  <2>1. name \in DOMAIN body => name = field
    BY <1>2 DEF EqualFold
  <2>2. QED BY <1>2, <2>1 DEF FindField
<1>3. QED BY <1>1, <1>2

\* Strategies that find a value or nothing, one of them the value for sure,
\* give that value.
LEMMA FirstFound ==
  ASSUME NEW value, value # Null, NEW A, NEW B, NEW C, NEW D, NEW E,
         A \subseteq {Null, value}, B \subseteq {Null, value},
         A # {}, B # {},
         C = {value} \/ (C = {Null} /\ D = {value})
  PROVE  OrElse(A, OrElse(B, OrElse(C, OrElse(D, E)))) = {value}
<1> DEFINE last == OrElse(C, OrElse(D, E))
<1>1. last = {value}
  BY DEF OrElse
<1> HIDE DEF last
<1>2. OrElse(B, last) = {value}
  BY <1>1 DEF OrElse
<1>3. QED BY <1>2 DEF OrElse, last
-----------------------------------------------------------------------------
(***************************************************************************)
(* Creations under different parents are apart: their keys differ in the   *)
(* scope.                                                                  *)
(***************************************************************************)
THEOREM ParentsIsolatedTheorem == Spec => []ParentsIsolated
<1>1. Inv => ParentsIsolated
  <2> SUFFICES ASSUME Inv, stage # "request",
                      NEW other \in [ParamNames(family.parent) -> ParentValues],
                      ParentScope(Collection, other) = created.key[2]
               PROVE  other = parentParams
    BY DEF ParentsIsolated
  <2>1. created.key[2] = ParentScope(Collection, parentParams)
    BY DEF Inv, Posted, Keys
  <2>2. QED BY <2>1, ScopeTellsParents DEF Inv, Loaded
<1>2. QED BY <1>1, Invariance, PTL

(***************************************************************************)
(* A created resource can be read by the ID its answer shows, whatever the *)
(* names of the paths, parameters and fields are.  POST finds the ID with  *)
(* the third or the fourth strategy; that the first two find the same or   *)
(* nothing is what NoParentField is for.                                   *)
(***************************************************************************)
THEOREM RetrievableByIdTheorem == Spec => []RetrievableById
<1>1. Inv => RetrievableById
  <2> SUFFICES ASSUME Inv, stage = "fetched", ReadAsWritten, NoParentField,
                      FieldsLike(AdvertisedName) = {fetched.field}
               PROVE  fetched.keys = {created.key}
    BY DEF RetrievableById
  <2> DEFINE field == fetched.field
             body == created.resource[2]
             value == body[field]
             last == LastPathParam(Collection)
             stripped == StrippedParam(Collection)
             hint == entries.hint
             found(name) == FindField(body, name)
  <2>1. value # Null /\ fetched.keys = FetchedKeys(value) /\ IsObject(created.resource)
    BY DEF Inv, Got, ReadAsWritten
  <2>2. created.key \in Keys(Collection, parentParams,
                            IDsOfBody(Collection, parentParams, created.resource, hint))
    BY DEF Inv, Posted
  <2>3. fetched.keys = {<<ResourceType(Collection), ParentScope(Collection, parentParams), value>>}
    <3> HIDE DEF value
    <3>1. FetchedKeys(value) =
             {<<ResourceType(Item), ParentScope(Item, ItemParams(value)), value>>}
      BY FetchKeys DEF Inv, Loaded
    <3>2. /\ ResourceType(Item) = ResourceType(Collection)
          /\ ParentScope(Item, ItemParams(value)) = ParentScope(Collection, parentParams)
      BY ScopeOfItem DEF Inv, Loaded, ItemParams
    <3>3. QED BY <2>1, <3>1, <3>2
  <2>4. \A name \in {last, stripped} :
           name # None => {f \in DOMAIN body : EqualFold(f, name)} \subseteq {field}
    BY DEF NoParentField, FieldsLike
  <2>5. found(last) \subseteq {Null, value} /\ found(stripped) \subseteq {Null, value}
    BY <2>4, FoundAtMost
  <2>6. \A name : found(name) # {}
    BY DEF FindField
  <2>7. found(hint) = {value} \/ (found(hint) = {Null} /\ found(IdName) = {value})
    <3>1. CASE hint = None
      <4>1. found(hint) = {Null}
        BY <3>1 DEF FindField
      <4>2. {f \in DOMAIN body : EqualFold(f, IdName)} = {field}
        BY <3>1 DEF FieldsLike, AdvertisedName
      <4>3. IdName # None => found(IdName) = {value}
        BY <4>2, FoundAlone
      <4>4. QED BY <4>1, <4>3, IdNameAssumption
    <3>2. CASE hint # None
      <4>1. {f \in DOMAIN body : EqualFold(f, hint)} = {field}
        BY <3>2 DEF FieldsLike, AdvertisedName
      <4>2. QED BY <3>2, <4>1, FoundAlone
    <3>3. QED BY <3>1, <3>2
  <2>8. \A E : OrElse(found(last), OrElse(found(stripped),
                 OrElse(found(hint), OrElse(found(IdName), E)))) = {value}
    <3> HIDE DEF found, value, last, stripped, hint
    <3>1. QED BY <2>1, <2>5, <2>6, <2>7, FirstFound
  <2>9. IDsOfBody(Collection, parentParams, created.resource, hint) = {value}
    BY <2>1, <2>8 DEF IDsOfBody, IDFields
  <2>10. QED BY <2>2, <2>3, <2>9 DEF Keys
<1>2. QED BY <1>1, Invariance, PTL
-----------------------------------------------------------------------------
(* Which layer the ID of a created resource comes from.                    *)

\* A field looked for is a field protected from the example.
LEMMA FoundIsIDField ==
  ASSUME NEW path, NEW hint, NEW body,
         NEW name \in {LastPathParam(path), StrippedParam(path), hint, IdName},
         NEW id \in FindField(body, name), id # Null
  PROVE  \E f \in DOMAIN body : IsIDField(f, path, hint) /\ id = body[f]
<1>1. name # None
  BY DEF FindField
<1>2. name \in ProtectedFields(path, hint)
  BY <1>1 DEF ProtectedFields
<1>3. PICK f \in DOMAIN body : id = body[f] /\ (f = name \/ EqualFold(f, name))
  BY <1>1 DEF FindField
<1>4. EqualFold(f, name)
  BY <1>3 DEF EqualFold
<1>5. QED BY <1>2, <1>3, <1>4 DEF IsIDField

\* The ID of a body is that of a protected field, or not from the body.
LEMMA IDIsProtected ==
  ASSUME NEW path, NEW params, NEW hint, NEW body,
         NEW id \in IDsOfBody(path, params, body, hint)
  PROVE  \/ /\ IsObject(body)
            /\ \E f \in DOMAIN body[2] :
                  IsIDField(f, path, hint) /\ id = body[2][f] /\ id # Null
         \/ id \in IDsOfPath(path, params, body)
<1> SUFFICES ASSUME IsObject(body)
             PROVE  \/ \E f \in DOMAIN body[2] :
                          IsIDField(f, path, hint) /\ id = body[2][f] /\ id # Null
                    \/ id \in IDsOfPath(path, params, body)
  BY DEF IDsOfBody
<1> DEFINE field == IDFields(path, hint)
<1>1. \A A, B : id \in OrElse(A, B) => (id \in A /\ id # Null) \/ id \in B
  BY DEF OrElse
<1>2. \/ id \in FindField(body[2], field[1]) /\ id # Null
      \/ id \in FindField(body[2], field[2]) /\ id # Null
      \/ id \in FindField(body[2], field[3]) /\ id # Null
      \/ id \in FindField(body[2], field[4]) /\ id # Null
      \/ id \in IDsOfPath(path, params, body)
  <2> DEFINE D == OrElse(FindField(body[2], field[4]), IDsOfPath(path, params, body))
             C == OrElse(FindField(body[2], field[3]), D)
             B == OrElse(FindField(body[2], field[2]), C)
  <2>1. id \in OrElse(FindField(body[2], field[1]), B)
    BY DEF IDsOfBody
  <2> HIDE DEF field
  <2>2. (id \in FindField(body[2], field[1]) /\ id # Null) \/ id \in B
    <3> HIDE DEF B
    <3>1. QED BY <1>1, <2>1
  <2>3. id \in B => (id \in FindField(body[2], field[2]) /\ id # Null) \/ id \in C
    <3> HIDE DEF C
    <3>1. QED BY <1>1
  <2>4. id \in C => (id \in FindField(body[2], field[3]) /\ id # Null) \/ id \in D
    <3> HIDE DEF D
    <3>1. QED BY <1>1
  <2>5. id \in D => \/ id \in FindField(body[2], field[4]) /\ id # Null
                    \/ id \in IDsOfPath(path, params, body)
    BY <1>1
  <2> HIDE DEF B, C, D
  <2>6. QED BY <2>2, <2>3, <2>4, <2>5
<1>3. /\ field[1] = LastPathParam(path) /\ field[2] = StrippedParam(path)
      /\ field[3] = hint /\ field[4] = IdName
  BY DEF IDFields
<1> HIDE DEF field
<1> DEFINE found == \E f \in DOMAIN body[2] :
                       IsIDField(f, path, hint) /\ id = body[2][f] /\ id # Null
<1>4. ASSUME NEW name \in {LastPathParam(path), StrippedParam(path), hint, IdName},
             id \in FindField(body[2], name), id # Null
      PROVE  found
  BY <1>4, FoundIsIDField
<1>5. \A k \in 1..4 : id \in FindField(body[2], field[k]) /\ id # Null => found
  <2> HIDE DEF found
  <2>1. QED BY <1>3, <1>4
<1> HIDE DEF found
<1>6. found \/ id \in IDsOfPath(path, params, body)
  BY <1>2, <1>5
<1>7. QED BY <1>6 DEF found

\* What is in a body of own fields is own, in the envelope or without.
LEMMA UnwrapOwn ==
  ASSUME NEW body, OwnFields(body), NEW key, IsObject(Unwrap(body, key)),
         NEW f \in DOMAIN Unwrap(body, key)[2]
  PROVE  Own(Unwrap(body, key)[2][f])
BY DEF OwnFields, Unwrap

LEMMA ParsedOwn ==
  ASSUME NEW body, OwnFields(body), NEW key, NEW f \in DOMAIN ParseRequestBody(body, key)
  PROVE  Own(ParseRequestBody(body, key)[f])
<1>1. CASE ~IsObject(body)
  BY <1>1 DEF ParseRequestBody, NoFields
<1>2. CASE IsObject(body) /\ IsObject(Unwrap(body, key))
  BY <1>2, UnwrapOwn DEF ParseRequestBody
<1>3. CASE IsObject(body) /\ ~IsObject(Unwrap(body, key))
  BY <1>3 DEF ParseRequestBody, OwnFields
<1>4. QED BY <1>1, <1>2, <1>3

\* Every protected field of the resource in a body is own.
Guarded(body, key, path, hint) ==
    IsObject(Unwrap(body, key)) =>
        \A f \in DOMAIN Unwrap(body, key)[2] :
            IsIDField(f, path, hint) => Own(Unwrap(body, key)[2][f])

\* The envelope goes on and comes off again.
LEMMA UnwrapWrap ==
  ASSUME NEW fields, NEW key, IsObject(Unwrap(Wrap(Object(fields), key), key))
  PROVE  Unwrap(Wrap(Object(fields), key), key)[2] = fields
<1>1. CASE key = None
  BY <1>1 DEF Unwrap, Wrap, Object
<1>2. CASE key # None
  <2> DEFINE envelope == [k \in {key} |-> Object(fields)]
  <2>1. Wrap(Object(fields), key) = <<"object", envelope>>
    BY <1>2 DEF Wrap, Object
  <2>2. IsObject(<<"object", envelope>>)
    BY <1>2, <2>1 DEF Unwrap
  <2>3. envelope[key] = Object(fields) /\ key \in DOMAIN envelope
    OBVIOUS
  <2> HIDE DEF envelope
  <2>4. Unwrap(Wrap(Object(fields), key), key) = Object(fields)
    BY <1>2, <2>1, <2>2, <2>3 DEF Unwrap
  <2>5. QED BY <2>4 DEF Object
<1>3. QED BY <1>1, <1>2

\* What is laid over a guarded body keeps it guarded, if its own protected
\* fields are.
LEMMA LayOverGuarded ==
  ASSUME NEW body, NEW fields, NEW allowed, NEW key, NEW path, NEW hint,
         Guarded(body, key, path, hint),
         \A f \in DOMAIN allowed : IsIDField(f, path, hint) => Own(allowed[f])
  PROVE  Guarded(LayOver(body, fields, allowed, key), key, path, hint)
<1>1. CASE LayOver(body, fields, allowed, key) = body
  BY <1>1
<1>2. CASE /\ IsObject(Unwrap(body, key))
           /\ LayOver(body, fields, allowed, key) =
                 Wrap(Object(ShallowMerge(Unwrap(body, key)[2], allowed)), key)
  <2> DEFINE base == Unwrap(body, key)[2]
             merged == ShallowMerge(base, allowed)
  <2>1. \A f \in DOMAIN merged : IsIDField(f, path, hint) => Own(merged[f])
    <3>1. \A f \in DOMAIN base : IsIDField(f, path, hint) => Own(base[f])
      BY <1>2 DEF Guarded
    <3> HIDE DEF base
    <3>2. QED BY <3>1 DEF ShallowMerge
  <2> HIDE DEF merged
  <2>2. IsObject(Unwrap(Wrap(Object(merged), key), key)) =>
           Unwrap(Wrap(Object(merged), key), key)[2] = merged
    BY UnwrapWrap
  <2>3. LayOver(body, fields, allowed, key) = Wrap(Object(merged), key)
    BY <1>2 DEF merged
  <2>4. QED BY <2>1, <2>2, <2>3 DEF Guarded
<1>3. QED BY <1>1, <1>2 DEF LayOver

\* A protected field of a created resource is not the example's.
LEMMA ProtectedNotExample ==
  ASSUME Loaded, Described(family.create, CreateCode), IsObject(Resource),
         NEW f \in DOMAIN Resource[2], IsIDField(f, Collection, entries.hint)
  PROVE  Own(Resource[2][f])
<1> DEFINE key == entries.create
           hint == entries.hint
           shown == ExampleAsMap(layers.example, key)
           sent == ParseRequestBody(layers.request, key)
           allowed == Unprotected(shown, Collection, hint)
           first == LayOver(layers.generated, shown, allowed, key)
           second == LayOver(first, sent, sent, key)
<1>1. Guarded(layers.generated, key, Collection, hint)
  BY UnwrapOwn DEF Guarded, Loaded
<1>2. \A g \in DOMAIN allowed : ~IsIDField(g, Collection, hint)
  BY DEF Unprotected
<1>3. \A g \in DOMAIN sent : Own(sent[g])
  BY ParsedOwn DEF Loaded
<1>4. Resource = Unwrap(second, key)
  BY DEF Resource, Merged
<1> HIDE DEF allowed, sent, shown, key, hint
<1>5. Guarded(first, key, Collection, hint)
  BY <1>1, <1>2, LayOverGuarded
<1> HIDE DEF first
<1>6. Guarded(second, key, Collection, hint)
  BY <1>3, <1>5, LayOverGuarded
<1> HIDE DEF second
<1>7. QED BY <1>4, <1>6 DEF Guarded, hint

\* A UUID made of a request is not a value that a document has for an example.
UuidsAreFresh == \A path, body : Uuid(path, body)[1] # "example"

(***************************************************************************)
(* No media-type example ever gives two creations the same ID when the     *)
(* answer has a schema; what was generated from one may (see the comment   *)
(* on the property).                                                       *)
(***************************************************************************)
THEOREM ExampleNeverSetsIdTheorem ==
  ASSUME UuidsAreFresh
  PROVE  Spec => []ExampleNeverSetsId
<1>1. Inv => ExampleNeverSetsId
  <2> SUFFICES ASSUME Inv, stage # "request", Described(family.create, CreateCode)
               PROVE  created.key[3][1] # "example"
    BY DEF ExampleNeverSetsId
  <2> DEFINE id == created.key[3]
  <2>1. id \in IDsOfBody(Collection, parentParams, Resource, entries.hint)
    BY DEF Inv, Posted, Keys
  <2> HIDE DEF id
  <2>2. CASE /\ IsObject(Resource)
             /\ \E f \in DOMAIN Resource[2] :
                   IsIDField(f, Collection, entries.hint) /\ id = Resource[2][f] /\ id # Null
    BY <2>2, ProtectedNotExample DEF Inv, Own, id
  <2>3. CASE id \in IDsOfPath(Collection, parentParams, Resource)
    <3>1. CASE LastPathParam(Collection) \in DOMAIN parentParams
      <4>1. id = parentParams[LastPathParam(Collection)]
        BY <2>3, <3>1 DEF IDsOfPath
      <4>2. id \in ParentValues
        BY <3>1, <4>1 DEF Inv, Loaded
      <4>3. QED BY <4>2, ParentValuesAssumption DEF id
    <3>2. CASE LastPathParam(Collection) \notin DOMAIN parentParams
      <4>1. id = Uuid(Collection, Resource)
        BY <2>3, <3>2 DEF IDsOfPath
      <4>2. QED BY <4>1 DEF UuidsAreFresh, id
    <3>3. QED BY <3>1, <3>2
  <2>4. QED BY <2>1, <2>2, <2>3, IDIsProtected
<1>2. QED BY <1>1, Invariance, PTL
=============================================================================
