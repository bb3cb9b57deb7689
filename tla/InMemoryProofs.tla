--------------------------- MODULE InMemoryProofs ---------------------------
(***************************************************************************)
(* Proofs about InMemory, for every set of namespaces, scopes, ids and     *)
(* data and every capacity: the nested maps and the list agree and keep to *)
(* the capacity; they implement LRUStore, a flat dictionary and an order   *)
(* of use; and whom an eviction hits has been overtaken by all others.     *)
(***************************************************************************)
EXTENDS LRUHistory, FiniteSetTheorems, SequenceTheorems, TLAPS

-----------------------------------------------------------------------------
(* Lists of distinct elements.                                             *)

\* Where Unlink looks: the position of k in a list that contains it.
LEMMA PositionOf ==
    ASSUME NEW s, NEW k, k \in Elements(s), DOMAIN s = 1..Len(s)
    PROVE  Position(s, k) \in 1..Len(s) /\ s[Position(s, k)] = k
  BY DEF Position, Elements

\* What list.Remove leaves: the other elements, in the order they had.
LEMMA UnlinkElementwise ==
    ASSUME NEW S, NEW s \in Seq(S), NEW k \in Elements(s)
    PROVE  /\ Unlink(s, k) \in Seq(S)
           /\ Len(Unlink(s, k)) = Len(s) - 1
           /\ \A j \in 1..(Len(s) - 1) :
                 Unlink(s, k)[j] = IF j < Position(s, k) THEN s[j] ELSE s[j + 1]
  <1> DEFINE p == Position(s, k)
  <1>1. p \in 1..Len(s) /\ Len(s) \in Nat
    BY PositionOf
  <1>2. /\ SubSeq(s, 1, p - 1) \in Seq(S)
        /\ Len(SubSeq(s, 1, p - 1)) = p - 1
        /\ \A j \in 1..(p - 1) : SubSeq(s, 1, p - 1)[j] = s[j]
    BY <1>1
  <1>3. /\ SubSeq(s, p + 1, Len(s)) \in Seq(S)
        /\ Len(SubSeq(s, p + 1, Len(s))) = Len(s) - p
        /\ \A j \in 1..(Len(s) - p) : SubSeq(s, p + 1, Len(s))[j] = s[p + j]
    BY <1>1
  <1> DEFINE before == SubSeq(s, 1, p - 1)
             after == SubSeq(s, p + 1, Len(s))
  <1>4. Unlink(s, k) = before \o after
    BY DEF Unlink, RemoveAt
  <1> HIDE DEF before, after
  <1>5. /\ before \in Seq(S) /\ Len(before) = p - 1
        /\ \A j \in 1..(p - 1) : before[j] = s[j]
        /\ after \in Seq(S) /\ Len(after) = Len(s) - p
        /\ \A j \in 1..(Len(s) - p) : after[j] = s[p + j]
    BY <1>2, <1>3 DEF before, after
  <1> HIDE DEF p
  <1>6. /\ before \o after \in Seq(S)
        /\ Len(before \o after) = Len(s) - 1
        /\ \A j \in 1..(Len(s) - 1) : (before \o after)[j] =
              IF j <= Len(before) THEN before[j] ELSE after[j - Len(before)]
    <2>1. before \in Seq(S) /\ after \in Seq(S)
      BY <1>5
    <2>2. /\ before \o after \in Seq(S)
          /\ Len(before \o after) = Len(before) + Len(after)
          /\ \A j \in 1..(Len(before) + Len(after)) : (before \o after)[j] =
                IF j <= Len(before) THEN before[j] ELSE after[j - Len(before)]
      BY <2>1, ConcatProperties, Zenon
    <2>3. Len(before) + Len(after) = Len(s) - 1
      BY <1>1, <1>5
    <2>4. QED BY <2>2, <2>3
  <1>7. ASSUME NEW j \in 1..(Len(s) - 1)
        PROVE  (before \o after)[j] = IF j < p THEN s[j] ELSE s[j + 1]
    <2>1. CASE j < p
      BY <1>1, <1>5, <1>6, <2>1
    <2>2. CASE j >= p
      <3>1. PICK m \in 1..(Len(s) - p) : m = j - (p - 1) /\ p + m = j + 1
        BY <1>1, <2>2
      <3>2. (before \o after)[j] = after[m]
        <4>1. m = j - Len(before) /\ ~(j <= Len(before))
          BY <1>1, <1>5, <2>2, <3>1
        <4>2. QED BY <4>1, <1>6
      <3>3. after[m] = s[p + m]
        BY <1>5
      <3>4. QED BY <1>1, <2>2, <3>1, <3>2, <3>3
    <2>3. j < p \/ j >= p
      BY <1>1
    <2>4. QED BY <2>1, <2>2, <2>3, Zenon
  <1>8. QED
    BY <1>4, <1>6, <1>7 DEF p

\* list.Remove on distinct elements removes exactly one, and PushFront of a
\* new element keeps them distinct.
LEMMA UnlinkDistinct ==
    ASSUME NEW S, NEW s \in Seq(S), NEW k \in Elements(s), Distinct(s)
    PROVE  /\ Distinct(Unlink(s, k))
           /\ Elements(Unlink(s, k)) = Elements(s) \ {k}
  <1> DEFINE p == Position(s, k)
             u == Unlink(s, k)
  <1>1. p \in 1..Len(s) /\ s[p] = k /\ Len(s) \in Nat
    BY PositionOf
  <1>2. /\ u \in Seq(S)
        /\ Len(u) = Len(s) - 1
        /\ \A j \in 1..(Len(s) - 1) : u[j] = IF j < p THEN s[j] ELSE s[j + 1]
    BY UnlinkElementwise
  <1>3. DOMAIN s = 1..Len(s) /\ DOMAIN u = 1..(Len(s) - 1)
    BY <1>2
  <1> HIDE DEF p, u
  <1>4. Distinct(u)
    <2> SUFFICES ASSUME NEW i \in 1..(Len(s) - 1), NEW j \in 1..(Len(s) - 1),
                        u[i] = u[j]
                 PROVE  i = j
      BY <1>3 DEF Distinct
    <2> DEFINE at(n) == IF n < p THEN n ELSE n + 1
    <2>1. /\ at(i) \in DOMAIN s /\ s[at(i)] = u[i]
          /\ at(j) \in DOMAIN s /\ s[at(j)] = u[j]
      BY <1>1, <1>2, <1>3
    <2>2. at(i) = at(j)
      BY <2>1 DEF Distinct
    <2>3. QED BY <1>1, <2>2
  <1>5. ASSUME NEW x \in Elements(u) PROVE x \in Elements(s) \ {k}
    BY <1>1, <1>2, <1>3, <1>5 DEF Elements, Distinct
  <1>6. ASSUME NEW x \in Elements(s) \ {k} PROVE x \in Elements(u)
    <2>1. PICK i \in 1..Len(s) : s[i] = x /\ i # p
      BY <1>1, <1>3 DEF Elements
    <2>2. CASE i < p
      BY <2>1, <2>2, <1>1, <1>2, <1>3 DEF Elements
    <2>3. CASE i > p
      <3>1. i - 1 \in DOMAIN u /\ u[i - 1] = x
        BY <2>1, <2>3, <1>1, <1>2, <1>3
      <3>2. QED BY <3>1 DEF Elements
    <2>4. QED BY <2>1, <2>2, <2>3, <1>1
  <1>7. QED BY <1>4, <1>5, <1>6 DEF u

\* The list stays free of duplicates when a key that is not in it goes to the front.
LEMMA PushFrontDistinct ==
    ASSUME NEW S, NEW s \in Seq(S), NEW k \in S, k \notin Elements(s), Distinct(s)
    PROVE  /\ PushFront(s, k) \in Seq(S)
           /\ Len(PushFront(s, k)) = Len(s) + 1
           /\ Distinct(PushFront(s, k))
           /\ Elements(PushFront(s, k)) = Elements(s) \cup {k}
  <1> DEFINE t == PushFront(s, k)
  <1>1. /\ t \in Seq(S)
        /\ Len(t) = Len(s) + 1
        /\ t[1] = k
        /\ \A j \in 1..Len(s) : t[j + 1] = s[j]
    BY DEF PushFront
  <1>2. /\ DOMAIN s = 1..Len(s)
        /\ DOMAIN t = 1..(Len(s) + 1)
        /\ Len(s) \in Nat
    BY <1>1
  <1>3. \A j \in DOMAIN t : j = 1 \/ (j - 1 \in DOMAIN s /\ t[j] = s[j - 1])
    BY <1>1, <1>2
  <1> HIDE DEF t
  <1>4. Distinct(t)
    BY <1>1, <1>2, <1>3 DEF Distinct, Elements
  <1>5. Elements(t) \subseteq Elements(s) \cup {k}
    BY <1>1, <1>3 DEF Elements
  <1>6. Elements(s) \subseteq Elements(t)
    <2>1. ASSUME NEW j \in DOMAIN s PROVE j + 1 \in DOMAIN t /\ t[j + 1] = s[j]
      BY <1>1, <1>2
    <2>2. QED BY <2>1 DEF Elements
  <1>7. k \in Elements(t)
    BY <1>1, <1>2 DEF Elements
  <1>8. QED BY <1>1, <1>4, <1>5, <1>6, <1>7 DEF t

\* evict() removes the back element, which is Unlink of the last one.
LEMMA FrontDistinct ==
    ASSUME NEW S, NEW s \in Seq(S), s # <<>>, Distinct(s)
    PROVE  /\ Last(s) \in Elements(s)
           /\ Front(s) \in Seq(S)
           /\ Len(Front(s)) = Len(s) - 1
           /\ Distinct(Front(s))
           /\ Elements(Front(s)) = Elements(s) \ {Last(s)}
  <1> DEFINE f == Front(s)
  <1>1. Len(s) \in Nat /\ Len(s) > 0 /\ DOMAIN s = 1..Len(s)
    OBVIOUS
  <1>2. /\ f \in Seq(S)
        /\ Len(f) = Len(s) - 1
        /\ DOMAIN f = 1..(Len(s) - 1)
        /\ \A j \in 1..(Len(s) - 1) : f[j] = s[j]
    BY <1>1 DEF Front
  <1> HIDE DEF f
  <1>3. Last(s) \in Elements(s)
    BY <1>1 DEF Last, Elements
  <1>4. Distinct(f)
    BY <1>1, <1>2 DEF Distinct
  <1>5. Elements(f) = Elements(s) \ {Last(s)}
    BY <1>1, <1>2 DEF Elements, Last, Distinct
  <1>6. QED BY <1>2, <1>3, <1>4, <1>5 DEF f

-----------------------------------------------------------------------------
(* The nested maps.                                                        *)

Lookup(m, k) == m[k[1]][k[2]][k[3]]

\* Creating a resource, intermediate maps included, adds its key and leaves
\* every other resource as it was.
LEMMA InsertPointwise ==
    ASSUME NEW m, NEW ns, NEW sc, NEW id, NEW d,
           NEW new, new = Insert(m, ns, sc, id, d),
           NEW a, NEW b, NEW c
    PROVE  /\ Has(new, a, b, c) <=> Has(m, a, b, c) \/ <<a, b, c>> = <<ns, sc, id>>
           /\ <<a, b, c>> = <<ns, sc, id>> => new[a][b][c] = d
           /\ Has(m, a, b, c) /\ <<a, b, c>> # <<ns, sc, id>> =>
                 new[a][b][c] = m[a][b][c]
  <1>1. /\ DOMAIN new = DOMAIN m \cup {ns}
        /\ a # ns /\ a \in DOMAIN m => new[a] = m[a]
        /\ new[ns] = Assign(Inner(m, ns), sc, Assign(Inner(Inner(m, ns), sc), id, d))
    BY DEF Insert, Assign
  <1>2. /\ DOMAIN new[ns] = DOMAIN Inner(m, ns) \cup {sc}
        /\ b # sc /\ b \in DOMAIN Inner(m, ns) => new[ns][b] = Inner(m, ns)[b]
        /\ new[ns][sc] = Assign(Inner(Inner(m, ns), sc), id, d)
    BY <1>1 DEF Assign
  <1>3. /\ DOMAIN new[ns][sc] = DOMAIN Inner(Inner(m, ns), sc) \cup {id}
        /\ c # id /\ c \in DOMAIN Inner(Inner(m, ns), sc) =>
              new[ns][sc][c] = Inner(Inner(m, ns), sc)[c]
        /\ new[ns][sc][id] = d
    BY <1>2 DEF Assign
  <1>4. \A f, x : Inner(f, x) = IF x \in DOMAIN f THEN f[x] ELSE EmptyMap
    BY DEF Inner
  <1>5. DOMAIN EmptyMap = {}
    BY DEF EmptyMap
  <1>6. CASE a # ns
    BY <1>1, <1>6 DEF Has
  <1>7. CASE a = ns /\ b # sc
    BY <1>1, <1>2, <1>4, <1>5, <1>7 DEF Has
  <1>8. CASE a = ns /\ b = sc
    BY <1>1, <1>2, <1>3, <1>4, <1>5, <1>8 DEF Has
  <1>9. QED BY <1>6, <1>7, <1>8

\* Removing a resource, with the clean-up of the maps left empty, removes
\* its key and leaves every other resource as it was.
LEMMA RemovePointwise ==
    ASSUME NEW m, NEW ns, NEW sc, NEW id, Has(m, ns, sc, id),
           NEW new, new = Remove3(m, ns, sc, id),
           NEW a, NEW b, NEW c
    PROVE  /\ Has(new, a, b, c) <=> Has(m, a, b, c) /\ <<a, b, c>> # <<ns, sc, id>>
           /\ Has(new, a, b, c) => new[a][b][c] = m[a][b][c]
  <1> DEFINE ids == Drop(m[ns][sc], id)
             scopes == AssignOrDrop(m[ns], sc, ids)
  <1>1. /\ DOMAIN ids = DOMAIN m[ns][sc] \ {id}
        /\ \A x \in DOMAIN ids : ids[x] = m[ns][sc][x]
    BY DEF Drop
  <1>2. \A x : x # sc =>
           /\ x \in DOMAIN scopes <=> x \in DOMAIN m[ns]
           /\ x \in DOMAIN scopes => scopes[x] = m[ns][x]
    BY DEF AssignOrDrop, Assign, Drop
  <1>3. /\ sc \in DOMAIN scopes <=> DOMAIN ids # {}
        /\ sc \in DOMAIN scopes => scopes[sc] = ids
    BY DEF AssignOrDrop, Assign, Drop
  <1>4. /\ \A x : x # ns =>
              /\ x \in DOMAIN new <=> x \in DOMAIN m
              /\ x \in DOMAIN new => new[x] = m[x]
        /\ ns \in DOMAIN new <=> DOMAIN scopes # {}
        /\ ns \in DOMAIN new => new[ns] = scopes
    <2> HIDE DEF scopes
    <2>1. new = AssignOrDrop(m, ns, scopes)
      BY DEF Remove3, scopes
    <2>2. CASE DOMAIN scopes = {}
      <3>1. new = Drop(m, ns)
        BY <2>1, <2>2 DEF AssignOrDrop
      <3>2. DOMAIN new = DOMAIN m \ {ns} /\ \A x \in DOMAIN new : new[x] = m[x]
        BY <3>1 DEF Drop
      <3>3. QED BY <2>2, <3>2
    <2>3. CASE DOMAIN scopes # {}
      <3>1. new = Assign(m, ns, scopes)
        BY <2>1, <2>3 DEF AssignOrDrop
      <3>2. /\ DOMAIN new = DOMAIN m \cup {ns}
            /\ \A x \in DOMAIN new : new[x] = IF x = ns THEN scopes ELSE m[x]
        BY <3>1 DEF Assign
      <3>3. QED BY <2>3, <3>2
    <2>4. QED BY <2>2, <2>3
  <1> HIDE DEF ids, scopes
  <1>5. CASE a # ns
    BY <1>4, <1>5 DEF Has
  <1>6. CASE a = ns /\ b # sc
    BY <1>2, <1>4, <1>6 DEF Has
  <1>7. CASE a = ns /\ b = sc
    BY <1>1, <1>3, <1>4, <1>7 DEF Has
  <1>8. QED BY <1>5, <1>6, <1>7

\* Replacing the data of a held resource changes nothing else.
LEMMA ReplacePointwise ==
    ASSUME NEW m, NEW ns, NEW sc, NEW id, NEW d, Has(m, ns, sc, id),
           NEW new, new = Overwrite(m, ns, sc, id, d),
           NEW a, NEW b, NEW c
    PROVE  /\ Has(new, a, b, c) <=> Has(m, a, b, c)
           /\ <<a, b, c>> = <<ns, sc, id>> => new[a][b][c] = d
           /\ Has(m, a, b, c) /\ <<a, b, c>> # <<ns, sc, id>> =>
                 new[a][b][c] = m[a][b][c]
  BY DEF Has, Overwrite
\* A key is held when the maps lead to it.
LEMMA HeldPointwise ==
    ASSUME NEW m, NEW k
    PROVE  k \in HeldIn(m) <=>
             \E a \in Namespaces, b \in Scopes, c \in Ids :
                k = <<a, b, c>> /\ Has(m, a, b, c)
  BY DEF HeldIn, Keys

\* Maps without empty inner maps are well typed when the resources they lead
\* to are.
LEMMA TypedPointwise ==
    ASSUME NEW m, NoEmptyInner(m),
           \A a, b, c : Has(m, a, b, c) =>
              <<a, b, c>> \in Keys /\ m[a][b][c] \in Data
    PROVE  WellTyped(m)
  <1>1. \A a, b, c : Has(m, a, b, c) =>
           a \in Namespaces /\ b \in Scopes /\ c \in Ids /\ m[a][b][c] \in Data
    BY DEF Keys
  <1>2. ASSUME NEW a \in DOMAIN m
        PROVE  /\ a \in Namespaces
               /\ DOMAIN m[a] \subseteq Scopes
               /\ \A b \in DOMAIN m[a] :
                     /\ DOMAIN m[a][b] \subseteq Ids
                     /\ \A c \in DOMAIN m[a][b] : m[a][b][c] \in Data
    <2>1. PICK b \in DOMAIN m[a] : DOMAIN m[a][b] # {}
      BY DEF NoEmptyInner
    <2>2. PICK c \in DOMAIN m[a][b] : TRUE
      BY <2>1
    <2>3. a \in Namespaces
      BY <1>1, <2>1, <2>2 DEF Has
    <2>4. ASSUME NEW e \in DOMAIN m[a]
          PROVE  /\ e \in Scopes
                 /\ DOMAIN m[a][e] \subseteq Ids
                 /\ \A i \in DOMAIN m[a][e] : m[a][e][i] \in Data
      <3>1. PICK i \in DOMAIN m[a][e] : TRUE
        BY DEF NoEmptyInner
      <3>2. QED BY <1>1, <3>1 DEF Has
    <2>5. QED BY <2>3, <2>4
  <1>3. QED BY <1>2 DEF WellTyped

\* The converse: maps that are typed at every key are typed.
LEMMA PointwiseTyped ==
    ASSUME NEW m, WellTyped(m), NEW a, NEW b, NEW c, Has(m, a, b, c)
    PROVE  <<a, b, c>> \in Keys /\ m[a][b][c] \in Data
  BY DEF WellTyped, Has, Keys

\* Neither creating, replacing nor removing leaves an empty inner map.
LEMMA NoEmptyPreserved ==
    ASSUME NEW m, NoEmptyInner(m), NEW ns, NEW sc, NEW id, NEW d
    PROVE  /\ NoEmptyInner(Insert(m, ns, sc, id, d))
           /\ Has(m, ns, sc, id) => NoEmptyInner(Remove3(m, ns, sc, id))
           /\ Has(m, ns, sc, id) => NoEmptyInner(Overwrite(m, ns, sc, id, d))
  <1>1. NoEmptyInner(Insert(m, ns, sc, id, d))
    <2> DEFINE ids == Assign(Inner(Inner(m, ns), sc), id, d)
               scopes == Assign(Inner(m, ns), sc, ids)
    <2>1. DOMAIN ids # {}
      BY DEF Assign
    <2> HIDE DEF ids
    <2>2. DOMAIN scopes # {} /\ \A x \in DOMAIN scopes : DOMAIN scopes[x] # {}
      BY <2>1 DEF Assign, Inner, EmptyMap, NoEmptyInner
    <2> HIDE DEF scopes
    <2>3. NoEmptyInner(Assign(m, ns, scopes))
      BY <2>2 DEF Assign, NoEmptyInner
    <2>4. QED BY <2>3 DEF Insert, ids, scopes
  <1>2. ASSUME Has(m, ns, sc, id) PROVE NoEmptyInner(Remove3(m, ns, sc, id))
    <2> DEFINE ids == Drop(m[ns][sc], id)
               scopes == AssignOrDrop(m[ns], sc, ids)
    <2>1. \A x \in DOMAIN m[ns] : DOMAIN m[ns][x] # {}
      BY <1>2 DEF NoEmptyInner, Has
    <2> HIDE DEF ids
    <2>2. \A x \in DOMAIN scopes : DOMAIN scopes[x] # {}
      BY <2>1 DEF AssignOrDrop, Assign, Drop
    <2> HIDE DEF scopes
    <2>3. NoEmptyInner(AssignOrDrop(m, ns, scopes))
      BY <2>2 DEF AssignOrDrop, Assign, Drop, NoEmptyInner
    <2>4. QED BY <2>3 DEF Remove3, ids, scopes
  <1>3. ASSUME Has(m, ns, sc, id) PROVE NoEmptyInner(Overwrite(m, ns, sc, id, d))
    BY <1>3 DEF NoEmptyInner, Has, Overwrite
  <1>4. QED BY <1>1, <1>2, <1>3
-----------------------------------------------------------------------------
(* Maps and list together.                                                 *)

Agree(m, s) ==
    /\ WellTyped(m)
    /\ NoEmptyInner(m)
    /\ s \in Seq(Keys)
    /\ Distinct(s)
    /\ HeldIn(m) = Elements(s)

\* The number of held keys is the length of the list.
LEMMA CountIsLength ==
    ASSUME NEW s \in Seq(Keys), Distinct(s)
    PROVE  IsFiniteSet(Elements(s)) /\ Cardinality(Elements(s)) = Len(s)
  <1>1. DOMAIN s = 1..Len(s) /\ Len(s) \in Nat
    OBVIOUS
  <1>2. s \in Bijection(1..Len(s), Elements(s))
    BY <1>1 DEF Bijection, Injection, Surjection, IsInjective, Elements, Distinct
  <1>3. ExistsBijection(1..Len(s), Elements(s))
    BY <1>2 DEF ExistsBijection
  <1>4. QED BY <1>1, <1>3, FS_CountingElements, FS_NatBijection

\* Removing a held key from the maps and its element from the list.
LEMMA AgreeRemove ==
    ASSUME NEW m, NEW s, Agree(m, s),
           NEW ns, NEW sc, NEW id, <<ns, sc, id>> \in HeldIn(m),
           NEW t \in Seq(Keys), Distinct(t), Elements(t) = Elements(s) \ {<<ns, sc, id>>}
    PROVE  Agree(Remove3(m, ns, sc, id), t)
  <1> DEFINE new == Remove3(m, ns, sc, id)
  <1>1. Has(m, ns, sc, id)
    BY HeldPointwise
  <1>2. NoEmptyInner(new)
    BY <1>1, NoEmptyPreserved DEF Agree
  <1>3. ASSUME NEW a, NEW b, NEW c
        PROVE  /\ Has(new, a, b, c) <=> Has(m, a, b, c) /\ <<a, b, c>> # <<ns, sc, id>>
               /\ Has(new, a, b, c) => new[a][b][c] = m[a][b][c]
    BY <1>1, RemovePointwise
  <1> HIDE DEF new
  <1>4. WellTyped(new)
    BY <1>2, <1>3, PointwiseTyped, TypedPointwise DEF Agree
  <1>5. HeldIn(new) = HeldIn(m) \ {<<ns, sc, id>>}
    BY <1>3, HeldPointwise
  <1>6. QED BY <1>2, <1>4, <1>5 DEF Agree, new

\* The list without one of its keys, and the maps without that key, still agree.
LEMMA AgreeUnlink ==
    ASSUME NEW m, NEW s, Agree(m, s),
           NEW ns, NEW sc, NEW id, <<ns, sc, id>> \in HeldIn(m)
    PROVE  /\ Agree(Remove3(m, ns, sc, id), Unlink(s, <<ns, sc, id>>))
           /\ Len(Unlink(s, <<ns, sc, id>>)) = Len(s) - 1
  <1> DEFINE k == <<ns, sc, id>>
             u == Unlink(s, k)
  <1>1. k \in Elements(s) /\ s \in Seq(Keys)
    BY DEF Agree
  <1>2. u \in Seq(Keys) /\ Len(u) = Len(s) - 1
    BY <1>1, UnlinkElementwise
  <1>3. Distinct(u) /\ Elements(u) = Elements(s) \ {k}
    BY <1>1, UnlinkDistinct DEF Agree
  <1> HIDE DEF u
  <1>4. Agree(Remove3(m, ns, sc, id), u)
    BY <1>2, <1>3, AgreeRemove
  <1>5. QED BY <1>2, <1>4 DEF u

\* evict(): the back of the list and the resource it belongs to.
LEMMA AgreeEvict ==
    ASSUME NEW m, NEW s, Agree(m, s), s # <<>>,
           NEW v, v = Last(s)
    PROVE  /\ v \in HeldIn(m)
           /\ Agree(Remove3(m, v[1], v[2], v[3]), Front(s))
           /\ Len(Front(s)) = Len(s) - 1
  <1>1. /\ v \in Elements(s)
        /\ Front(s) \in Seq(Keys)
        /\ Len(Front(s)) = Len(s) - 1
        /\ Distinct(Front(s))
        /\ Elements(Front(s)) = Elements(s) \ {v}
    BY FrontDistinct DEF Agree
  <1>2. v \in HeldIn(m) /\ v \in Keys
    BY <1>1 DEF Agree, HeldIn
  <1>3. v = <<v[1], v[2], v[3]>>
    BY <1>2 DEF Keys
  <1>4. Agree(Remove3(m, v[1], v[2], v[3]), Front(s))
    BY <1>1, <1>2, <1>3, AgreeRemove
  <1>5. QED BY <1>1, <1>2, <1>4

\* A new resource at the front of the list.
LEMMA AgreeInsert ==
    ASSUME NEW m, NEW s, Agree(m, s),
           NEW ns \in Namespaces, NEW sc \in Scopes, NEW id \in Ids, NEW d \in Data,
           <<ns, sc, id>> \notin HeldIn(m)
    PROVE  /\ Agree(Insert(m, ns, sc, id, d), PushFront(s, <<ns, sc, id>>))
           /\ Len(PushFront(s, <<ns, sc, id>>)) = Len(s) + 1
  <1> DEFINE new == Insert(m, ns, sc, id, d)
             k == <<ns, sc, id>>
  <1>1. k \in Keys
    BY DEF Keys
  <1>2. NoEmptyInner(new)
    BY NoEmptyPreserved DEF Agree
  <1>3. ASSUME NEW a, NEW b, NEW c
        PROVE  /\ Has(new, a, b, c) <=> Has(m, a, b, c) \/ <<a, b, c>> = k
               /\ <<a, b, c>> = k => new[a][b][c] = d
               /\ Has(m, a, b, c) /\ <<a, b, c>> # k => new[a][b][c] = m[a][b][c]
    BY InsertPointwise
  <1> HIDE DEF new
  <1>4. ASSUME NEW a, NEW b, NEW c, Has(new, a, b, c)
        PROVE  <<a, b, c>> \in Keys /\ new[a][b][c] \in Data
    <2>1. CASE <<a, b, c>> = k
      BY <1>1, <1>3, <2>1
    <2>2. CASE <<a, b, c>> # k
      BY <1>3, <1>4, <2>2, PointwiseTyped DEF Agree
    <2>3. QED BY <2>1, <2>2
  <1>5. WellTyped(new)
    BY <1>2, <1>4, TypedPointwise
  <1>6. HeldIn(new) = HeldIn(m) \cup {k}
    BY <1>3, HeldPointwise
  <1>7. /\ PushFront(s, k) \in Seq(Keys)
        /\ Len(PushFront(s, k)) = Len(s) + 1
        /\ Distinct(PushFront(s, k))
        /\ Elements(PushFront(s, k)) = Elements(s) \cup {k}
    BY <1>1, PushFrontDistinct DEF Agree
  <1>8. HeldIn(m) = Elements(s)
    BY DEF Agree
  <1> HIDE DEF k
  <1>9. Agree(new, PushFront(s, k))
    BY <1>2, <1>5, <1>6, <1>7, <1>8 DEF Agree
  <1>10. QED BY <1>7, <1>9 DEF new, k

\* A replaced or just read resource moves to the front.
LEMMA AgreeMove ==
    ASSUME NEW m, NEW s, Agree(m, s), NEW k \in HeldIn(m)
    PROVE  /\ Agree(m, MoveToFront(s, k))
           /\ Len(MoveToFront(s, k)) = Len(s)
  <1> DEFINE u == Unlink(s, k)
  <1>1. k \in Keys /\ k \in Elements(s) /\ Len(s) \in Nat
    BY DEF Agree, HeldIn
  <1>2. /\ u \in Seq(Keys) /\ Len(u) = Len(s) - 1
        /\ Distinct(u) /\ Elements(u) = Elements(s) \ {k}
    BY <1>1, UnlinkElementwise, UnlinkDistinct DEF Agree
  <1> HIDE DEF u
  <1>3. /\ PushFront(u, k) \in Seq(Keys)
        /\ Len(PushFront(u, k)) = Len(u) + 1
        /\ Distinct(PushFront(u, k))
        /\ Elements(PushFront(u, k)) = Elements(u) \cup {k}
    BY <1>1, <1>2, PushFrontDistinct
  <1>4. QED BY <1>1, <1>2, <1>3 DEF Agree, MoveToFront, u

\* Put of a held key: new data in the maps, the key at the front of the list.
LEMMA AgreeReplace ==
    ASSUME NEW m, NEW s, Agree(m, s), NEW d \in Data,
           NEW ns, NEW sc, NEW id, <<ns, sc, id>> \in HeldIn(m)
    PROVE  Agree(Overwrite(m, ns, sc, id, d), s)
  <1> DEFINE new == Overwrite(m, ns, sc, id, d)
             k == <<ns, sc, id>>
  <1>1. Has(m, ns, sc, id)
    BY HeldPointwise
  <1>2. NoEmptyInner(new)
    BY <1>1, NoEmptyPreserved DEF Agree
  <1>3. ASSUME NEW a, NEW b, NEW c
        PROVE  /\ Has(new, a, b, c) <=> Has(m, a, b, c)
               /\ <<a, b, c>> = k => new[a][b][c] = d
               /\ Has(m, a, b, c) /\ <<a, b, c>> # k => new[a][b][c] = m[a][b][c]
    BY <1>1, ReplacePointwise
  <1> HIDE DEF new
  <1>4. ASSUME NEW a, NEW b, NEW c, Has(new, a, b, c)
        PROVE  <<a, b, c>> \in Keys /\ new[a][b][c] \in Data
    BY <1>3, <1>4, PointwiseTyped DEF Agree
  <1>5. WellTyped(new)
    BY <1>2, <1>4, TypedPointwise
  <1>6. HeldIn(new) = HeldIn(m)
    <2>1. \A a, b, c : Has(new, a, b, c) <=> Has(m, a, b, c)
      BY <1>3
    <2>2. QED BY <2>1 DEF HeldIn
  <1>7. QED
    BY <1>2, <1>5, <1>6 DEF Agree, new
-----------------------------------------------------------------------------
(* The invariant.                                                          *)

(***************************************************************************)
(* MapsMatchList alone is not inductive: NoEmptyMaps is needed to know     *)
(* that a map with no key of the store is empty, and the bound has to be   *)
(* on the list, which is what Put compares with the capacity.              *)
(***************************************************************************)
IInv ==
    /\ Agree(resources, lru)
    /\ capacity > 0 => Len(lru) <= capacity

\* After evict() there is room for one more resource.
LEMMA EvictionMakesRoom ==
    ASSUME IInv
    PROVE  /\ Agree(AfterEviction.resources, AfterEviction.lru)
           /\ HeldIn(AfterEviction.resources) \subseteq Held
           /\ capacity > 0 => Len(AfterEviction.lru) < capacity
  <1>1. capacity \in Nat /\ Len(lru) \in Nat
    BY CapacityAssumption DEF capacity, IInv, Agree
  <1>2. CASE AtCapacity /\ lru # <<>>
    <2>1. /\ Agree(Remove3(resources, Victim[1], Victim[2], Victim[3]), Front(lru))
          /\ Len(Front(lru)) = Len(lru) - 1
      BY <1>2, AgreeEvict DEF IInv, Victim
    <2>2. Elements(Front(lru)) \subseteq Elements(lru)
      BY <1>2, FrontDistinct DEF IInv, Agree
    <2>3. /\ AfterEviction.resources = Remove3(resources, Victim[1], Victim[2], Victim[3])
          /\ AfterEviction.lru = Front(lru)
      BY <1>2 DEF AfterEviction
    <2>4. QED BY <1>1, <2>1, <2>2, <2>3 DEF IInv, Agree, Held
  <1>3. CASE ~(AtCapacity /\ lru # <<>>)
    <2>1. AfterEviction.resources = resources /\ AfterEviction.lru = lru
      BY <1>3 DEF AfterEviction
    <2>2. capacity > 0 => Len(lru) < capacity
      BY <1>1, <1>3 DEF AtCapacity, IInv, Agree
    <2>3. QED BY <2>1, <2>2 DEF IInv, Held
  <1>4. QED BY <1>2, <1>3

\* The empty store satisfies the inductive invariant.
LEMMA InitIInv == Init => IInv
  <1> SUFFICES ASSUME Init PROVE IInv
    OBVIOUS
  <1>1. DOMAIN resources = {} /\ lru = <<>>
    BY DEF Init, EmptyMap
  <1>2. HeldIn(resources) = {} /\ Elements(lru) = {}
    BY <1>1 DEF HeldIn, Has, Elements
  <1>3. Agree(resources, lru)
    BY <1>1, <1>2 DEF Agree, WellTyped, NoEmptyInner, Distinct
  <1>4. Len(lru) = 0
    BY <1>1
  <1>5. QED BY <1>3, <1>4, CapacityAssumption DEF IInv, capacity

\* Every method of the store preserves the inductive invariant.
LEMMA NextIInv == IInv /\ [Next]_vars => IInv'
  <1> SUFFICES ASSUME IInv, [Next]_vars PROVE IInv'
    OBVIOUS
  <1>0. ASSUME Agree(resources', lru'), Len(lru') = Len(lru) PROVE IInv'
    BY <1>0 DEF IInv, capacity
  <1>1. ASSUME NEW ns \in Namespaces, NEW sc \in Scopes, NEW id \in Ids, Get(ns, sc, id)
        PROVE  IInv'
    <2> DEFINE k == <<ns, sc, id>>
    <2>1. CASE Has(resources, ns, sc, id)
      <3>1. k \in HeldIn(resources)
        BY <2>1, HeldPointwise
      <3>2. resources' = resources /\ lru' = MoveToFront(lru, k)
        BY <1>1, <2>1 DEF Get
      <3>3. Agree(resources, lru') /\ Len(lru') = Len(lru)
        BY <3>1, <3>2, AgreeMove DEF IInv
      <3>4. QED BY <1>0, <3>2, <3>3
    <2>2. CASE ~Has(resources, ns, sc, id)
      BY <1>1, <2>2, <1>0 DEF Get, IInv
    <2>3. QED BY <2>1, <2>2
  <1>2. ASSUME NEW ns \in Namespaces, NEW sc \in Scopes, NEW id \in Ids, NEW d \in Data,
               Put(ns, sc, id, d)
        PROVE  IInv'
    <2> DEFINE k == <<ns, sc, id>>
    <2>1. CASE Has(resources, ns, sc, id)
      <3>1. k \in HeldIn(resources)
        BY <2>1, HeldPointwise
      <3>2. resources' = Overwrite(resources, ns, sc, id, d) /\ lru' = MoveToFront(lru, k)
        BY <1>2, <2>1 DEF Put
      <3>3. Agree(resources, lru') /\ Len(lru') = Len(lru)
        BY <3>1, <3>2, AgreeMove DEF IInv
      <3>4. Agree(resources', lru')
        BY <3>1, <3>2, <3>3, AgreeReplace
      <3>5. QED BY <1>0, <3>3, <3>4
    <2>2. CASE ~Has(resources, ns, sc, id)
      <3> DEFINE m == AfterEviction.resources
                 s == AfterEviction.lru
      <3>1. /\ resources' = Insert(m, ns, sc, id, d)
            /\ lru' = PushFront(s, k)
        BY <1>2, <2>2 DEF Put
      <3>2. Agree(m, s) /\ (capacity > 0 => Len(s) < capacity)
        BY EvictionMakesRoom
      <3>3. k \notin HeldIn(m)
        BY <2>2, EvictionMakesRoom, HeldPointwise DEF Held
      <3> HIDE DEF m, s
      <3>4. Agree(resources', lru') /\ Len(lru') = Len(s) + 1
        BY <3>1, <3>2, <3>3, AgreeInsert
      <3>5. Len(s) \in Nat /\ capacity \in Nat
        BY <3>2, CapacityAssumption DEF Agree, capacity
      <3>6. QED BY <3>2, <3>4, <3>5 DEF IInv, capacity
    <2>3. QED BY <2>1, <2>2
  <1>3. ASSUME NEW ns \in Namespaces, NEW sc \in Scopes, NEW id \in Ids, Delete(ns, sc, id)
        PROVE  IInv'
    <2>1. CASE Has(resources, ns, sc, id)
      <3>1. <<ns, sc, id>> \in HeldIn(resources)
        BY <2>1, HeldPointwise
      <3>2. /\ resources' = Remove3(resources, ns, sc, id)
            /\ lru' = Unlink(lru, <<ns, sc, id>>)
        BY <1>3, <2>1 DEF Delete
      <3>3. Agree(resources', lru') /\ Len(lru') = Len(lru) - 1
        BY <3>1, <3>2, AgreeUnlink DEF IInv
      <3>4. Len(lru) \in Nat /\ capacity \in Nat
        BY CapacityAssumption DEF IInv, Agree, capacity
      <3>5. QED BY <3>3, <3>4 DEF IInv, capacity
    <2>2. CASE ~Has(resources, ns, sc, id)
      BY <1>3, <2>2, <1>0 DEF Delete, IInv
    <2>3. QED BY <2>1, <2>2
  <1>4. ASSUME NEW ns \in Namespaces, NEW sc \in Scopes, List(ns, sc)
        PROVE  IInv'
    BY <1>4, <1>0 DEF List, IInv
  <1>5. CASE Count
    BY <1>5, <1>0 DEF Count, IInv
  <1>6. CASE Reset
    <2>1. (resources = EmptyMap /\ lru = <<>>)'
      BY <1>6 DEF Reset
    <2>2. HeldIn(resources') = {} /\ Elements(lru') = {}
      BY <2>1 DEF HeldIn, Has, Elements, EmptyMap
    <2>3. Agree(resources', lru') /\ Len(lru') = 0
      BY <2>1, <2>2 DEF Agree, WellTyped, NoEmptyInner, Distinct, EmptyMap
    <2>4. QED BY <2>3, CapacityAssumption DEF IInv, capacity
  <1>7. CASE UNCHANGED vars
    BY <1>7 DEF vars, IInv, capacity
  <1>8. QED
    BY <1>1, <1>2, <1>3, <1>4, <1>5, <1>6, <1>7 DEF Next

\* So it holds in every state of the store.
LEMMA Invariance == Spec => []IInv
  BY InitIInv, NextIInv, PTL DEF Spec

\* Type correctness of the maps and the list (in_memory.go, all methods).
THEOREM TypeCorrect == Spec => []TypeOK
  <1>1. IInv => TypeOK
    BY DEF IInv, Agree, TypeOK
  <1>2. QED BY <1>1, Invariance, PTL

\* The maps and the list never disagree on which resources are held.
THEOREM MapsMatchListAlways == Spec => []MapsMatchList
  <1>1. IInv => MapsMatchList
    BY DEF IInv, Agree, MapsMatchList, Held
  <1>2. QED BY <1>1, Invariance, PTL

\* No call leaves an empty intermediate map behind.
THEOREM NoEmptyMapsAlways == Spec => []NoEmptyMaps
  <1>1. IInv => NoEmptyMaps
    BY DEF IInv, Agree, NoEmptyMaps
  <1>2. QED BY <1>1, Invariance, PTL

\* A store with a capacity never holds more resources than it.
THEOREM WithinCapacityAlways == Spec => []WithinCapacity
  <1>1. IInv => WithinCapacity
    BY CountIsLength DEF IInv, Agree, WithinCapacity, Held
  <1>2. QED BY <1>1, Invariance, PTL
-----------------------------------------------------------------------------
(* The order of use.                                                       *)

Forget(order, k) == {p \in order : p[1] # k /\ p[2] # k}

\* Which pairs the order of use of a list holds.
LEMMA OlderPointwise ==
    ASSUME NEW s, NEW x, NEW y
    PROVE  <<x, y>> \in OlderIn(s) <=>
             \E i, j \in DOMAIN s : i < j /\ x = s[j] /\ y = s[i]
  <1>1. ASSUME NEW i \in DOMAIN s, NEW j \in DOMAIN s, i < j, x = s[j], y = s[i]
        PROVE  <<x, y>> \in OlderIn(s)
    <2>1. <<i, j>> \in {q \in (DOMAIN s) \X (DOMAIN s) : q[1] < q[2]}
      BY <1>1
    <2>2. QED BY <1>1, <2>1 DEF OlderIn
  <1>2. ASSUME <<x, y>> \in OlderIn(s)
        PROVE  \E i, j \in DOMAIN s : i < j /\ x = s[j] /\ y = s[i]
    BY <1>2 DEF OlderIn
  <1>3. QED BY <1>1, <1>2

\* The order of use is a relation on keys.
LEMMA OlderArePairs ==
    ASSUME NEW s, NEW p \in OlderIn(s)
    PROVE  p = <<p[1], p[2]>>
  BY DEF OlderIn

\* The relation only speaks of the elements of the list.
LEMMA OlderElements ==
    ASSUME NEW s, NEW x, NEW y, <<x, y>> \in OlderIn(s)
    PROVE  x \in Elements(s) /\ y \in Elements(s)
  BY OlderPointwise DEF Elements

\* Removing an element forgets its pairs and keeps the others.
LEMMA OlderUnlink ==
    ASSUME NEW S, NEW s \in Seq(S), NEW k \in Elements(s), Distinct(s)
    PROVE  OlderIn(Unlink(s, k)) = Forget(OlderIn(s), k)
  <1> DEFINE p == Position(s, k)
             u == Unlink(s, k)
  <1>1. p \in 1..Len(s) /\ s[p] = k /\ Len(s) \in Nat /\ DOMAIN s = 1..Len(s)
    BY PositionOf
  <1>2. /\ u \in Seq(S)
        /\ Len(u) = Len(s) - 1
        /\ \A j \in 1..(Len(s) - 1) : u[j] = IF j < p THEN s[j] ELSE s[j + 1]
    BY UnlinkElementwise
  <1>3. DOMAIN u = 1..(Len(s) - 1)
    BY <1>2
  <1> HIDE DEF p, u
  <1>4. ASSUME NEW x, NEW y, <<x, y>> \in OlderIn(u)
        PROVE  <<x, y>> \in OlderIn(s) /\ x # k /\ y # k
    <2>1. PICK i \in DOMAIN u, j \in DOMAIN u : i < j /\ x = u[j] /\ y = u[i]
      BY <1>4, OlderPointwise
    <2> DEFINE at(n) == IF n < p THEN n ELSE n + 1
    <2>2. /\ at(i) \in DOMAIN s /\ s[at(i)] = y /\ at(i) # p
          /\ at(j) \in DOMAIN s /\ s[at(j)] = x /\ at(j) # p
          /\ at(i) < at(j)
      BY <1>1, <1>2, <1>3, <2>1
    <2> HIDE DEF at
    <2>3. x # k /\ y # k
      BY <1>1, <2>2 DEF Distinct
    <2>4. QED BY <2>2, <2>3, OlderPointwise
  <1>5. ASSUME NEW x, NEW y, <<x, y>> \in OlderIn(s), x # k, y # k
        PROVE  <<x, y>> \in OlderIn(u)
    <2>1. PICK i \in DOMAIN s, j \in DOMAIN s : i < j /\ x = s[j] /\ y = s[i]
      BY <1>5, OlderPointwise
    <2> DEFINE to(n) == IF n < p THEN n ELSE n - 1
    <2>2. i # p /\ j # p
      BY <1>1, <1>5, <2>1
    <2>3. /\ to(i) \in DOMAIN u /\ u[to(i)] = y
          /\ to(j) \in DOMAIN u /\ u[to(j)] = x
          /\ to(i) < to(j)
      BY <1>1, <1>2, <1>3, <2>1, <2>2
    <2> HIDE DEF to
    <2>4. QED BY <2>3, OlderPointwise
  <1>6. ASSUME NEW q \in OlderIn(u) PROVE q \in Forget(OlderIn(s), k)
    BY <1>4, <1>6, OlderArePairs DEF Forget
  <1>7. ASSUME NEW q \in Forget(OlderIn(s), k) PROVE q \in OlderIn(u)
    <2>1. q \in OlderIn(s) /\ q[1] # k /\ q[2] # k
      BY <1>7 DEF Forget
    <2>2. q = <<q[1], q[2]>>
      BY <2>1, OlderArePairs
    <2>3. QED BY <2>1, <2>2, <1>5
  <1>8. QED BY <1>6, <1>7 DEF u

\* A new front element is newer than all others.
LEMMA OlderPushFront ==
    ASSUME NEW S, NEW s \in Seq(S), NEW k \in S
    PROVE  OlderIn(PushFront(s, k)) = OlderIn(s) \cup {<<x, k>> : x \in Elements(s)}
  <1> DEFINE t == PushFront(s, k)
  <1>1. /\ Len(t) = Len(s) + 1
        /\ t \in Seq(S)
        /\ t[1] = k
        /\ \A j \in 1..Len(s) : t[j + 1] = s[j]
    BY DEF PushFront
  <1>2. DOMAIN s = 1..Len(s) /\ DOMAIN t = 1..(Len(s) + 1) /\ Len(s) \in Nat
    BY <1>1
  <1> HIDE DEF t
  <1>3. ASSUME NEW x, NEW y, <<x, y>> \in OlderIn(t)
        PROVE  <<x, y>> \in OlderIn(s) \/ (y = k /\ x \in Elements(s))
    <2>1. PICK i \in DOMAIN t, j \in DOMAIN t : i < j /\ x = t[j] /\ y = t[i]
      BY <1>3, OlderPointwise
    <2>2. j - 1 \in DOMAIN s /\ x = s[j - 1]
      BY <1>1, <1>2, <2>1
    <2>3. CASE i = 1
      BY <1>1, <2>1, <2>2, <2>3 DEF Elements
    <2>4. CASE i # 1
      <3>1. i - 1 \in DOMAIN s /\ y = s[i - 1] /\ i - 1 < j - 1
        BY <1>1, <1>2, <2>1, <2>4
      <3>2. QED BY <2>2, <3>1, OlderPointwise
    <2>5. QED BY <2>3, <2>4
  <1>4. ASSUME NEW x, NEW y, <<x, y>> \in OlderIn(s)
        PROVE  <<x, y>> \in OlderIn(t)
    <2>1. PICK i \in DOMAIN s, j \in DOMAIN s : i < j /\ x = s[j] /\ y = s[i]
      BY <1>4, OlderPointwise
    <2>2. /\ i + 1 \in DOMAIN t /\ t[i + 1] = y
          /\ j + 1 \in DOMAIN t /\ t[j + 1] = x
          /\ i + 1 < j + 1
      BY <1>1, <1>2, <2>1
    <2>3. QED BY <2>2, OlderPointwise
  <1>5. ASSUME NEW x \in Elements(s)
        PROVE  <<x, k>> \in OlderIn(t)
    <2>1. PICK j \in DOMAIN s : x = s[j]
      BY <1>5 DEF Elements
    <2>2. /\ 1 \in DOMAIN t /\ t[1] = k
          /\ j + 1 \in DOMAIN t /\ t[j + 1] = x
          /\ 1 < j + 1
      BY <1>1, <1>2, <2>1
    <2>3. QED BY <2>2, OlderPointwise
  <1>6. ASSUME NEW q \in OlderIn(t)
        PROVE  q \in OlderIn(s) \cup {<<x, k>> : x \in Elements(s)}
    <2>1. q = <<q[1], q[2]>>
      BY OlderArePairs
    <2>2. QED BY <2>1, <1>3
  <1>7. ASSUME NEW q \in OlderIn(s) \cup {<<x, k>> : x \in Elements(s)}
        PROVE  q \in OlderIn(t)
    <2>1. CASE q \in OlderIn(s)
      <3>1. q = <<q[1], q[2]>>
        BY <2>1, OlderArePairs
      <3>2. QED BY <2>1, <3>1, <1>4
    <2>2. CASE q \in {<<x, k>> : x \in Elements(s)}
      BY <2>2, <1>5
    <2>3. QED BY <2>1, <2>2
  <1>8. QED BY <1>6, <1>7 DEF t

\* The back element is the one every other element is newer than, and
\* dropping it is unlinking it.
LEMMA BackIsLeastRecent ==
    ASSUME NEW S, NEW s \in Seq(S), s # <<>>, Distinct(s)
    PROVE  /\ \A x \in Elements(s) \ {Last(s)} : <<Last(s), x>> \in OlderIn(s)
           /\ OlderIn(Front(s)) = Forget(OlderIn(s), Last(s))
  <1>1. Len(s) \in Nat /\ Len(s) > 0 /\ DOMAIN s = 1..Len(s) /\ Last(s) = s[Len(s)]
    BY DEF Last
  <1>2. ASSUME NEW x \in Elements(s) \ {Last(s)}
        PROVE  <<Last(s), x>> \in OlderIn(s)
    <2>1. PICK i \in DOMAIN s : x = s[i]
      BY DEF Elements
    <2>2. i # Len(s) /\ i < Len(s) /\ Len(s) \in DOMAIN s
      BY <1>1, <2>1
    <2>3. QED BY <1>1, <2>1, <2>2, OlderPointwise
  <1>3. Last(s) \in Elements(s)
    BY FrontDistinct
  <1>4. Position(s, Last(s)) = Len(s)
    <2>1. /\ Position(s, Last(s)) \in 1..Len(s)
          /\ s[Position(s, Last(s))] = Last(s)
      BY <1>1, <1>3, PositionOf
    <2>2. Position(s, Last(s)) \in DOMAIN s /\ Len(s) \in DOMAIN s
      BY <1>1, <2>1
    <2>3. s[Position(s, Last(s))] = s[Len(s)]
      BY <1>1, <2>1
    <2>4. QED BY <2>2, <2>3 DEF Distinct
  <1>5. Front(s) = Unlink(s, Last(s))
    <2>1. /\ Unlink(s, Last(s)) \in Seq(S)
          /\ Len(Unlink(s, Last(s))) = Len(s) - 1
          /\ \A j \in 1..(Len(s) - 1) : Unlink(s, Last(s))[j] = s[j]
      <3> DEFINE u == Unlink(s, Last(s))
                 p == Position(s, Last(s))
      <3>1. /\ u \in Seq(S)
            /\ Len(u) = Len(s) - 1
            /\ \A j \in 1..(Len(s) - 1) : u[j] = IF j < p THEN s[j] ELSE s[j + 1]
        BY <1>3, UnlinkElementwise
      <3>2. p = Len(s)
        BY <1>4
      <3> HIDE DEF u, p
      <3>3. \A j \in 1..(Len(s) - 1) : u[j] = s[j]
        BY <1>1, <3>1, <3>2
      <3>4. QED BY <3>1, <3>3 DEF u
    <2>2. /\ Front(s) \in Seq(S)
          /\ Len(Front(s)) = Len(s) - 1
          /\ \A j \in 1..(Len(s) - 1) : Front(s)[j] = s[j]
      BY <1>1 DEF Front
    <2>3. QED BY <2>1, <2>2, SeqEqual
  <1>6. QED BY <1>2, <1>3, <1>5, OlderUnlink
-----------------------------------------------------------------------------
(* The flat dictionary.                                                    *)

FlatOf(m) == [k \in HeldIn(m) |-> Lookup(m, k)]

\* The abstract dictionary of a state, and of the next.
LEMMA FlatIsFlatOf == Flat = FlatOf(resources) /\ Flat' = FlatOf(resources')
  BY DEF Flat, FlatOf, Held, Lookup

\* A key written into the nested maps is written into the dictionary.
LEMMA FlatInsert ==
    ASSUME NEW m, NEW ns \in Namespaces, NEW sc \in Scopes, NEW id \in Ids, NEW d,
           NEW k, k = <<ns, sc, id>>
    PROVE  /\ HeldIn(Insert(m, ns, sc, id, d)) = HeldIn(m) \cup {k}
           /\ \A x \in HeldIn(m) \cup {k} :
                 FlatOf(Insert(m, ns, sc, id, d))[x] = IF x = k THEN d ELSE FlatOf(m)[x]
  <1> DEFINE new == Insert(m, ns, sc, id, d)
  <1>1. ASSUME NEW a, NEW b, NEW c
        PROVE  /\ Has(new, a, b, c) <=> Has(m, a, b, c) \/ <<a, b, c>> = k
               /\ <<a, b, c>> = k => new[a][b][c] = d
               /\ Has(m, a, b, c) /\ <<a, b, c>> # k => new[a][b][c] = m[a][b][c]
    BY InsertPointwise
  <1> HIDE DEF new
  <1>2. HeldIn(new) = HeldIn(m) \cup {k}
    BY <1>1, HeldPointwise
  <1>3. ASSUME NEW x \in HeldIn(new)
        PROVE  Lookup(new, x) = IF x = k THEN d ELSE FlatOf(m)[x]
    <2>1. PICK a \in Namespaces, b \in Scopes, c \in Ids :
             x = <<a, b, c>> /\ Has(new, a, b, c)
      BY HeldPointwise
    <2>2. Lookup(new, x) = new[a][b][c] /\ Lookup(m, x) = m[a][b][c]
      BY <2>1 DEF Lookup
    <2>3. x # k => x \in HeldIn(m) /\ FlatOf(m)[x] = Lookup(m, x)
      BY <1>2 DEF FlatOf
    <2>4. x # k => Has(m, a, b, c)
      BY <1>1, <2>1
    <2>5. QED BY <1>1, <2>1, <2>2, <2>3, <2>4
  <1>4. QED BY <1>2, <1>3 DEF FlatOf, new

\* A key removed from the nested maps is removed from the dictionary.
LEMMA FlatRemove ==
    ASSUME NEW m, NEW ns, NEW sc, NEW id, NEW k, k = <<ns, sc, id>>, k \in HeldIn(m)
    PROVE  /\ HeldIn(Remove3(m, ns, sc, id)) = HeldIn(m) \ {k}
           /\ \A x \in HeldIn(m) \ {k} :
                 FlatOf(Remove3(m, ns, sc, id))[x] = FlatOf(m)[x]
  <1> DEFINE new == Remove3(m, ns, sc, id)
  <1>1. Has(m, ns, sc, id)
    BY HeldPointwise
  <1>2. ASSUME NEW a, NEW b, NEW c
        PROVE  /\ Has(new, a, b, c) <=> Has(m, a, b, c) /\ <<a, b, c>> # k
               /\ Has(new, a, b, c) => new[a][b][c] = m[a][b][c]
    BY <1>1, RemovePointwise
  <1> HIDE DEF new
  <1>3. HeldIn(new) = HeldIn(m) \ {k}
    BY <1>2, HeldPointwise
  <1>4. ASSUME NEW x \in HeldIn(new)
        PROVE  Lookup(new, x) = FlatOf(m)[x]
    <2>1. PICK a \in Namespaces, b \in Scopes, c \in Ids :
             x = <<a, b, c>> /\ Has(new, a, b, c)
      BY HeldPointwise
    <2>2. Lookup(new, x) = Lookup(m, x)
      BY <1>2, <2>1 DEF Lookup
    <2>3. QED BY <1>3, <2>2 DEF FlatOf
  <1>5. QED BY <1>3, <1>4 DEF FlatOf, new

\* Data replaced in the nested maps is replaced in the dictionary.
LEMMA FlatOverwrite ==
    ASSUME NEW m, NEW ns, NEW sc, NEW id, NEW d, NEW k, k = <<ns, sc, id>>,
           k \in HeldIn(m)
    PROVE  FlatOf(Overwrite(m, ns, sc, id, d)) = [FlatOf(m) EXCEPT ![k] = d]
  <1> DEFINE new == Overwrite(m, ns, sc, id, d)
  <1>1. Has(m, ns, sc, id)
    BY HeldPointwise
  <1>2. ASSUME NEW a, NEW b, NEW c
        PROVE  /\ Has(new, a, b, c) <=> Has(m, a, b, c)
               /\ <<a, b, c>> = k => new[a][b][c] = d
               /\ Has(m, a, b, c) /\ <<a, b, c>> # k => new[a][b][c] = m[a][b][c]
    BY <1>1, ReplacePointwise
  <1> HIDE DEF new
  <1>3. HeldIn(new) = HeldIn(m)
    <2>1. \A a, b, c : Has(new, a, b, c) <=> Has(m, a, b, c)
      BY <1>2
    <2>2. QED BY <2>1 DEF HeldIn
  <1>4. ASSUME NEW x \in HeldIn(m)
        PROVE  Lookup(new, x) = IF x = k THEN d ELSE FlatOf(m)[x]
    <2>1. PICK a \in Namespaces, b \in Scopes, c \in Ids :
             x = <<a, b, c>> /\ Has(m, a, b, c)
      BY HeldPointwise
    <2>2. Lookup(new, x) = new[a][b][c] /\ Lookup(m, x) = m[a][b][c]
      BY <2>1 DEF Lookup
    <2>3. FlatOf(m)[x] = Lookup(m, x)
      BY DEF FlatOf
    <2>4. QED BY <1>2, <2>1, <2>2, <2>3
  <1>5. QED BY <1>3, <1>4 DEF FlatOf, new
-----------------------------------------------------------------------------
(* Every step of the code is a step of the abstract store.                 *)

\* The two copies of the library operators, the instance's and this
\* module's, are the same.
LEMMA SameCardinality ==
    ASSUME NEW S
    PROVE  Abstract!Cardinality(S) = Cardinality(S)
  BY DEF Abstract!Cardinality, Cardinality, Abstract!IsFiniteSet, IsFiniteSet

\* List sorts the same resources by ID on both sides.
LEMMA SameOrder ==
    ASSUME NEW entries
    PROVE  Abstract!InIdOrder(entries) = InIdOrder(entries)
  BY DEF Abstract!InIdOrder, InIdOrder, Abstract!Ascending, Ascending,
         Abstract!Cardinality, Cardinality, Abstract!IsFiniteSet, IsFiniteSet

\* A key is held by the maps when the dictionary has it.
LEMMA HeldIsDomain ==
    Abstract!held = HeldIn(resources) /\ Abstract!Keys = Keys
  BY DEF Abstract!held, Flat, Held, Abstract!Keys, Keys

\* Moving a key to the front of the list is using it.
LEMMA MoveIsUse ==
    ASSUME NEW m, NEW s, Agree(m, s), NEW k \in HeldIn(m)
    PROVE  OlderIn(MoveToFront(s, k)) = Abstract!Use(OlderIn(s), k, HeldIn(m))
  <1>1. k \in Keys /\ k \in Elements(s) /\ s \in Seq(Keys) /\ Distinct(s)
    BY DEF Agree, HeldIn
  <1>2. Unlink(s, k) \in Seq(Keys) /\ Elements(Unlink(s, k)) = HeldIn(m) \ {k}
    BY <1>1, UnlinkElementwise, UnlinkDistinct DEF Agree
  <1>3. OlderIn(MoveToFront(s, k)) =
          Forget(OlderIn(s), k) \cup {<<x, k>> : x \in HeldIn(m) \ {k}}
    BY <1>1, <1>2, OlderUnlink, OlderPushFront DEF MoveToFront
  <1>4. QED BY <1>3 DEF Abstract!Use, Abstract!Forget, Forget

\* Pushing a new key to the front of the list is using it.
LEMMA PushIsUse ==
    ASSUME NEW m, NEW s, Agree(m, s), NEW k \in Keys, k \notin HeldIn(m)
    PROVE  OlderIn(PushFront(s, k)) = Abstract!Use(OlderIn(s), k, HeldIn(m))
  <1>1. OlderIn(PushFront(s, k)) = OlderIn(s) \cup {<<x, k>> : x \in HeldIn(m) \ {k}}
    BY OlderPushFront DEF Agree
  <1>2. Forget(OlderIn(s), k) = OlderIn(s)
    <2>1. ASSUME NEW q \in OlderIn(s) PROVE q[1] # k /\ q[2] # k
      BY OlderArePairs, OlderElements DEF Agree
    <2>2. QED BY <2>1 DEF Forget
  <1>3. QED BY <1>1, <1>2 DEF Abstract!Use, Abstract!Forget, Forget

\* The empty store is the empty dictionary.
LEMMA InitRefines == Init => Abstract!Init
  <1> SUFFICES ASSUME Init PROVE Abstract!Init
    OBVIOUS
  <1>1. Flat = [k \in {} |-> k]
    BY DEF Init, Flat, Held, HeldIn, Has, EmptyMap
  <1>2. OlderIn(lru) = {}
    BY DEF Init, OlderIn
  <1>3. QED BY <1>1, <1>2 DEF Init, Abstract!Init

\* Get is a hit or a miss of the dictionary.
LEMMA GetRefines ==
    ASSUME IInv, NEW ns \in Namespaces, NEW sc \in Scopes, NEW id \in Ids,
           Get(ns, sc, id)
    PROVE  Abstract!Next
  <1> DEFINE k == <<ns, sc, id>>
  <1>0. k \in Abstract!Keys
    BY DEF Abstract!Keys
  <1>1. CASE Has(resources, ns, sc, id)
    <2>1. k \in HeldIn(resources)
      BY <1>1, HeldPointwise
    <2>2. OlderIn(lru') = Abstract!Use(OlderIn(lru), k, Abstract!held)
      BY <1>1, <2>1, MoveIsUse, HeldIsDomain DEF Get, IInv
    <2>3. Flat[k] = resources[ns][sc][id] /\ Flat' = Flat
      BY <1>1, <2>1 DEF Get, Flat, Held
    <2>4. Abstract!GetHit(k)
      BY <1>1, <2>1, <2>2, <2>3, HeldIsDomain DEF Get, Abstract!GetHit
    <2>5. QED BY <1>0, <2>4 DEF Abstract!Next
  <1>2. CASE ~Has(resources, ns, sc, id)
    <2>1. k \notin HeldIn(resources)
      BY <1>2, HeldPointwise
    <2>2. Flat' = Flat /\ OlderIn(lru') = OlderIn(lru)
      BY <1>2 DEF Get, Flat, Held
    <2>3. Abstract!GetMiss(k)
      BY <1>2, <2>1, <2>2, HeldIsDomain DEF Get, Abstract!GetMiss
    <2>4. QED BY <1>0, <2>3 DEF Abstract!Next
  <1>3. QED BY <1>1, <1>2

\* Delete is a hit or a miss of the dictionary.
LEMMA DeleteRefines ==
    ASSUME IInv, NEW ns \in Namespaces, NEW sc \in Scopes, NEW id \in Ids,
           Delete(ns, sc, id)
    PROVE  Abstract!Next
  <1> DEFINE k == <<ns, sc, id>>
  <1>0. k \in Abstract!Keys
    BY DEF Abstract!Keys
  <1>1. CASE Has(resources, ns, sc, id)
    <2>1. k \in HeldIn(resources)
      BY <1>1, HeldPointwise
    <2>2. OlderIn(lru') = Abstract!Forget(OlderIn(lru), k)
      BY <1>1, <2>1, OlderUnlink DEF Delete, IInv, Agree, Abstract!Forget, Forget
    <2>3. Flat' = [x \in Abstract!held \ {k} |-> Flat[x]]
      <3>1. resources' = Remove3(resources, ns, sc, id)
        BY <1>1 DEF Delete
      <3>2. /\ HeldIn(resources') = HeldIn(resources) \ {k}
            /\ \A x \in HeldIn(resources) \ {k} :
                  FlatOf(resources')[x] = FlatOf(resources)[x]
        BY <2>1, <3>1, FlatRemove
      <3>3. FlatOf(resources') = [x \in HeldIn(resources) \ {k} |-> FlatOf(resources)[x]]
        BY <3>2 DEF FlatOf
      <3>4. QED BY <3>3, FlatIsFlatOf, HeldIsDomain
    <2>4. Abstract!DeleteHit(k)
      BY <1>1, <2>1, <2>2, <2>3, HeldIsDomain DEF Delete, Abstract!DeleteHit
    <2>5. QED BY <1>0, <2>4 DEF Abstract!Next
  <1>2. CASE ~Has(resources, ns, sc, id)
    <2>1. k \notin HeldIn(resources)
      BY <1>2, HeldPointwise
    <2>2. Flat' = Flat /\ OlderIn(lru') = OlderIn(lru)
      BY <1>2 DEF Delete, Flat, Held
    <2>3. Abstract!DeleteMiss(k)
      BY <1>2, <2>1, <2>2, HeldIsDomain DEF Delete, Abstract!DeleteMiss
    <2>4. QED BY <1>0, <2>3 DEF Abstract!Next
  <1>3. QED BY <1>1, <1>2

\* Put replaces, creates, or creates evicting the least recently used.
LEMMA PutRefines ==
    ASSUME IInv, NEW ns \in Namespaces, NEW sc \in Scopes, NEW id \in Ids,
           NEW d \in Data, Put(ns, sc, id, d)
    PROVE  Abstract!Next
  <1> DEFINE k == <<ns, sc, id>>
  <1>0. k \in Abstract!Keys /\ k \in Keys
    BY DEF Abstract!Keys, Keys
  <1>1. CASE Has(resources, ns, sc, id)
    <2>1. k \in HeldIn(resources)
      BY <1>1, HeldPointwise
    <2>2. /\ resources' = Overwrite(resources, ns, sc, id, d)
          /\ lru' = MoveToFront(lru, k)
          /\ reply' = <<"Put">>
      BY <1>1 DEF Put
    <2>3. Flat' = [Flat EXCEPT ![k] = d]
      BY <2>1, <2>2, FlatOverwrite, FlatIsFlatOf
    <2>4. OlderIn(lru') = Abstract!Use(OlderIn(lru), k, Abstract!held)
      BY <2>1, <2>2, MoveIsUse, HeldIsDomain DEF IInv
    <2>5. Abstract!Replace(k, d)
      BY <2>1, <2>2, <2>3, <2>4, HeldIsDomain DEF Abstract!Replace
    <2>6. QED BY <1>0, <2>5 DEF Abstract!Next
  <1>2. CASE ~Has(resources, ns, sc, id)
    <2> DEFINE m == AfterEviction.resources
               s == AfterEviction.lru
    <2>1. /\ resources' = Insert(m, ns, sc, id, d)
          /\ lru' = PushFront(s, k)
          /\ reply' = <<"Put">>
      BY <1>2 DEF Put
    <2>2. k \notin HeldIn(resources) /\ k \notin HeldIn(m) /\ Agree(m, s)
      BY <1>2, HeldPointwise, EvictionMakesRoom DEF Held
    <2>3. IsFiniteSet(HeldIn(resources)) /\ Cardinality(HeldIn(resources)) = Len(lru)
      BY CountIsLength DEF IInv, Agree
    <2>4. Len(lru) \in Nat /\ capacity \in Nat
      BY CapacityAssumption DEF IInv, Agree, capacity
    <2>5. Abstract!HasRoom <=> ~AtCapacity
      <3>1. Abstract!Cardinality(Abstract!held) = Len(lru)
        BY <2>3, HeldIsDomain, SameCardinality
      <3>2. Abstract!HasRoom <=> Capacity <= 0 \/ Len(lru) < Capacity
        BY <3>1, Zenon DEF Abstract!HasRoom
      <3>3. QED BY <2>4, <3>2, CapacityAssumption DEF AtCapacity, capacity
    <2>6. Flat' = [x \in HeldIn(m) \cup {k} |-> IF x = k THEN d ELSE FlatOf(m)[x]]
      <3> HIDE DEF m, s
      <3>1. /\ HeldIn(resources') = HeldIn(m) \cup {k}
            /\ \A x \in HeldIn(m) \cup {k} :
                  FlatOf(resources')[x] = IF x = k THEN d ELSE FlatOf(m)[x]
        <4>1. k = <<ns, sc, id>> /\ resources' = Insert(m, ns, sc, id, d)
          BY <2>1
        <4> HIDE DEF k
        <4>2. QED BY <4>1, FlatInsert
      <3>2. QED BY <3>1, FlatIsFlatOf DEF FlatOf
    <2>7. OlderIn(lru') = Abstract!Use(OlderIn(s), k, HeldIn(m))
      BY <1>0, <2>1, <2>2, PushIsUse
    <2>8. CASE ~AtCapacity
      <3>1. m = resources /\ s = lru
        BY <2>8 DEF AfterEviction
      <3>2. Flat' = [x \in HeldIn(resources) \cup {k} |-> IF x = k THEN d ELSE Flat[x]]
        BY <2>6, <3>1, FlatIsFlatOf
      <3>3. OlderIn(lru') = Abstract!Use(OlderIn(lru), k, HeldIn(resources))
        BY <2>7, <3>1
      <3>4. Abstract!Create(k, d)
        BY <2>1, <2>2, <2>5, <2>8, <3>2, <3>3, HeldIsDomain DEF Abstract!Create, Abstract!Add
      <3>5. QED BY <1>0, <3>4 DEF Abstract!Next
    <2>9. CASE AtCapacity
      <3> DEFINE v == Victim
      <3>1. lru # <<>> /\ v = Last(lru)
        BY <2>4, <2>9 DEF AtCapacity, Victim
      <3>2. m = Remove3(resources, v[1], v[2], v[3]) /\ s = Front(lru)
        BY <2>9, <3>1 DEF AfterEviction
      <3>3. v \in HeldIn(resources) /\ v \in Keys
        BY <3>1, AgreeEvict DEF IInv, HeldIn
      <3>4. v = <<v[1], v[2], v[3]>>
        BY <3>3 DEF Keys
      <3> HIDE DEF v
      <3>5. \A x \in HeldIn(resources) \ {v} : FlatOf(m)[x] = Flat[x]
        BY <3>2, <3>3, <3>4, FlatRemove, FlatIsFlatOf
      <3>6. HeldIn(m) = HeldIn(resources) \ {v}
        BY <3>2, <3>3, <3>4, FlatRemove
      <3>7. Flat' = [x \in (HeldIn(resources) \ {v}) \cup {k} |->
                        IF x = k THEN d ELSE Flat[x]]
        <4> HIDE DEF m, k
        <4>1. \A x \in HeldIn(m) : FlatOf(m)[x] = Flat[x]
          BY <3>5, <3>6
        <4>2. QED BY <2>6, <3>6, <4>1
      <3>8. /\ \A x \in HeldIn(resources) \ {v} : <<v, x>> \in OlderIn(lru)
            /\ OlderIn(s) = Abstract!Forget(OlderIn(lru), v)
        BY <3>1, <3>2, BackIsLeastRecent DEF IInv, Agree, Forget, Abstract!Forget
      <3>9. Abstract!LeastRecentlyUsed(v)
        BY <3>3, <3>8, HeldIsDomain DEF Abstract!LeastRecentlyUsed
      <3>10. OlderIn(lru') =
               Abstract!Use(Abstract!Forget(OlderIn(lru), v), k, HeldIn(resources) \ {v})
        BY <2>7, <3>6, <3>8
      <3> HIDE DEF m, s, k
      <3>11. Abstract!Add(k, d, HeldIn(resources) \ {v}, Abstract!Forget(OlderIn(lru), v))
        BY <2>1, <3>7, <3>10 DEF Abstract!Add
      <3>12. Abstract!CreateEvicting(k, d)
        BY <2>2, <2>5, <2>9, <3>3, <3>9, <3>11, HeldIsDomain DEF Abstract!CreateEvicting
      <3>13. QED BY <1>0, <3>12 DEF Abstract!Next
    <2>10. QED BY <2>8, <2>9
  <1>3. QED BY <1>1, <1>2

\* List answers the same and changes nothing.
LEMMA ListRefines ==
    ASSUME IInv, NEW ns \in Namespaces, NEW sc \in Scopes, List(ns, sc)
    PROVE  Abstract!Next
  <1>1. Flat' = Flat /\ OlderIn(lru') = OlderIn(lru)
    BY DEF List, Flat, Held
  <1>2. \A id \in Ids : <<ns, sc, id>> \in HeldIn(resources) <=> Has(resources, ns, sc, id)
    BY HeldPointwise
  <1>3. \A id \in Ids : Has(resources, ns, sc, id) =>
           Flat[<<ns, sc, id>>] = resources[ns][sc][id]
    BY <1>2 DEF Flat, Held
  <1>4. Abstract!InScope(ns, sc) = InScope(resources, ns, sc)
    BY <1>2, <1>3, HeldIsDomain DEF Abstract!InScope, InScope
  <1>5. Abstract!List(ns, sc)
    BY <1>1, <1>4, SameOrder DEF List, Abstract!List
  <1>6. QED BY <1>5 DEF Abstract!Next

\* Count answers the same and changes nothing.
LEMMA CountRefines == ASSUME IInv, Count PROVE Abstract!Count
  <1>1. Flat' = Flat /\ OlderIn(lru') = OlderIn(lru)
    BY DEF Count, Flat, Held
  <1>2. Abstract!Cardinality(Abstract!held) = Len(lru)
    BY CountIsLength, HeldIsDomain, SameCardinality DEF IInv, Agree
  <1>3. QED BY <1>1, <1>2 DEF Count, Abstract!Count

\* Reset empties both.
LEMMA ResetRefines == ASSUME Reset PROVE Abstract!Reset
  <1>1. Flat' = [k \in {} |-> k]
    BY DEF Reset, Flat, Held, HeldIn, Has, EmptyMap
  <1>2. OlderIn(lru') = {}
    BY DEF Reset, OlderIn
  <1>3. QED BY <1>1, <1>2 DEF Reset, Abstract!Reset

(***************************************************************************)
(* The store implements the abstract one: every call returns what the      *)
(* dictionary with an order of use returns, and evicts whom it evicts.     *)
(***************************************************************************)
THEOREM Refinement == Spec => ImplementsLRUStore
  <1>1. Init => Abstract!Init
    BY InitRefines
  <1>2. IInv /\ [Next]_vars => [Abstract!Next]_(Abstract!vars)
    <2> SUFFICES ASSUME IInv, [Next]_vars PROVE [Abstract!Next]_(Abstract!vars)
      OBVIOUS
    <2>1. ASSUME NEW ns \in Namespaces, NEW sc \in Scopes, NEW id \in Ids, Get(ns, sc, id)
          PROVE  Abstract!Next
      BY <2>1, GetRefines
    <2>2. ASSUME NEW ns \in Namespaces, NEW sc \in Scopes, NEW id \in Ids, NEW d \in Data,
                 Put(ns, sc, id, d)
          PROVE  Abstract!Next
      BY <2>2, PutRefines
    <2>3. ASSUME NEW ns \in Namespaces, NEW sc \in Scopes, NEW id \in Ids, Delete(ns, sc, id)
          PROVE  Abstract!Next
      BY <2>3, DeleteRefines
    <2>4. ASSUME NEW ns \in Namespaces, NEW sc \in Scopes, List(ns, sc)
          PROVE  Abstract!Next
      BY <2>4, ListRefines
    <2>5. CASE Count
      BY <2>5, CountRefines DEF Abstract!Next
    <2>6. CASE Reset
      BY <2>6, ResetRefines DEF Abstract!Next
    <2>7. CASE UNCHANGED vars
      BY <2>7 DEF vars, Abstract!vars, Flat, Held
    <2>8. QED
      BY <2>1, <2>2, <2>3, <2>4, <2>5, <2>6, <2>7 DEF Next
  <1>3. QED
    BY <1>1, <1>2, Invariance, PTL DEF Spec, ImplementsLRUStore, Abstract!Spec
-----------------------------------------------------------------------------
(* Who is evicted.                                                         *)

(***************************************************************************)
(* EvictedOnlyWhenStale compares two moments that any number of calls lie  *)
(* between.  What carries over each of them: every key in front of the     *)
(* watched one in the list has been used since.                            *)
(***************************************************************************)
Overtaken(order) == \A x : <<watched, x>> \in order => x \in since

HInv ==
    /\ IInv
    /\ watched \in Keys
    /\ IsFiniteSet(since)
    /\ watched \in Held => Overtaken(OlderIn(lru))

\* A key that is used comes to the front of what is left of the list; one
\* that is not stays behind those it was behind.
LEMMA OvertakenByUse ==
    ASSUME NEW k, NEW left, left \subseteq OlderIn(lru), NEW others,
           \A x : <<k, x>> \notin left,
           watched # k => watched \in Held,
           Overtaken(OlderIn(lru)) \/ watched \notin Held,
           OlderIn(lru') = left \cup {<<x, k>> : x \in others \ {k}},
           Used = {k},
           since' = IF watched \in Used \/ watched \notin Held \/ watched \notin Held'
                    THEN {} ELSE since \cup Used,
           watched' = watched, watched \in Held'
    PROVE  Overtaken(OlderIn(lru))'
  <1> SUFFICES ASSUME NEW x, <<watched, x>> \in OlderIn(lru')
               PROVE  x \in since'
    BY DEF Overtaken
  <1>1. CASE watched = k
    BY <1>1
  <1>2. CASE watched # k
    <2>1. since' = since \cup {k}
      BY <1>2
    <2>2. <<watched, x>> \in left \/ x = k
      OBVIOUS
    <2>3. QED BY <1>2, <2>1, <2>2 DEF Overtaken
  <1>3. QED BY <1>1, <1>2

\* What a Get or a Put of a held key does to the list and to its keys.
LEMMA UseOfHeld ==
    ASSUME IInv, NEW k \in Held, lru' = MoveToFront(lru, k)
    PROVE  OlderIn(lru') = Forget(OlderIn(lru), k) \cup {<<x, k>> : x \in Held \ {k}}
  BY MoveIsUse DEF IInv, Held, Abstract!Use, Abstract!Forget, Forget

\* What a Put of a new key does: room is made, the new key goes to the front.
LEMMA UseOfNew ==
    ASSUME IInv, NEW ns \in Namespaces, NEW sc \in Scopes, NEW id \in Ids, NEW d \in Data,
           Put(ns, sc, id, d), ~Has(resources, ns, sc, id),
           NEW k, k = <<ns, sc, id>>
    PROVE  /\ k \in Keys /\ k \notin Held
           /\ reply' = <<"Put">> /\ Head(lru') = k
           /\ Held' = HeldIn(AfterEviction.resources) \cup {k}
           /\ HeldIn(AfterEviction.resources) \subseteq Held
           /\ \E left : /\ left \subseteq OlderIn(lru)
                        /\ \A x : <<k, x>> \notin left
                        /\ OlderIn(lru') =
                             left \cup {<<x, k>> : x \in HeldIn(AfterEviction.resources) \ {k}}
  <1> DEFINE m == AfterEviction.resources
             s == AfterEviction.lru
  <1>1. /\ resources' = Insert(m, ns, sc, id, d)
        /\ lru' = PushFront(s, k)
        /\ reply' = <<"Put">>
    BY DEF Put
  <1>2. k \in Keys /\ k \notin Held /\ Agree(m, s) /\ HeldIn(m) \subseteq Held
    BY HeldPointwise, EvictionMakesRoom DEF Held, Keys
  <1>3. OlderIn(s) \subseteq OlderIn(lru)
    <2>1. CASE AtCapacity /\ lru # <<>>
      <3>1. s = Front(lru)
        BY <2>1 DEF AfterEviction
      <3>2. OlderIn(Front(lru)) = Forget(OlderIn(lru), Last(lru))
        BY <2>1, BackIsLeastRecent DEF IInv, Agree
      <3>3. QED BY <3>1, <3>2 DEF Forget
    <2>2. CASE ~(AtCapacity /\ lru # <<>>)
      BY <2>2 DEF AfterEviction
    <2>3. QED BY <2>1, <2>2
  <1> HIDE DEF m, s
  <1>4. Held' = HeldIn(m) \cup {k}
    BY <1>1, FlatInsert DEF Held
  <1>5. OlderIn(lru') = OlderIn(s) \cup {<<x, k>> : x \in HeldIn(m) \ {k}}
    <2>1. OlderIn(lru') = OlderIn(s) \cup {<<x, k>> : x \in Elements(s)}
      BY <1>1, <1>2, OlderPushFront DEF Agree
    <2>2. Elements(s) = HeldIn(m) \ {k}
      BY <1>2 DEF Agree
    <2>3. QED BY <2>1, <2>2
  <1>6. \A x : <<k, x>> \notin OlderIn(s)
    BY <1>2, OlderElements DEF Agree
  <1>7. Head(lru') = k
    BY <1>1, <1>2 DEF PushFront, Agree
  <1>8. QED BY <1>1, <1>2, <1>3, <1>4, <1>5, <1>6, <1>7 DEF m

\* Every step keeps the watched key behind none but those used since.
LEMMA NextHInv == HInv /\ [HNext]_hvars => HInv'
  <1> SUFFICES ASSUME HInv, [HNext]_hvars PROVE HInv'
    OBVIOUS
  <1>1. IInv'
    BY NextIInv DEF HInv, HNext, hvars, vars
  <1>2. watched' = watched /\ watched' \in Keys
    BY DEF HInv, HNext, hvars
  <1>3. IsFiniteSet(Used)
    BY FS_EmptySet, FS_Singleton DEF Used
  <1>4. IsFiniteSet(since')
    <2>1. IsFiniteSet(since) /\ IsFiniteSet({}) /\ IsFiniteSet(since \cup Used)
      BY <1>3, FS_EmptySet, FS_Union DEF HInv
    <2>2. since' \in {since, {}, since \cup Used}
      BY DEF HNext, hvars
    <2>3. QED BY <2>1, <2>2
  <1>5. ASSUME watched' \in Held' PROVE Overtaken(OlderIn(lru))'
    <2>1. CASE UNCHANGED hvars
      BY <1>5, <2>1 DEF hvars, vars, HInv, Overtaken, Held
    <2> SUFFICES ASSUME HNext PROVE Overtaken(OlderIn(lru))'
      BY <2>1
    <2>2. since' = IF watched \in Used \/ watched \notin Held \/ watched \notin Held'
                   THEN {} ELSE since \cup Used
      BY DEF HNext
    <2>3. watched \in Held'
      BY <1>2, <1>5
    <2>4. ASSUME UNCHANGED <<resources, lru>>, Used = {}
          PROVE  Overtaken(OlderIn(lru))'
      <3>1. watched \in Held /\ Overtaken(OlderIn(lru)) /\ since' = since
        BY <2>2, <2>3, <2>4 DEF Held, HInv
      <3>2. QED BY <1>2, <2>4, <3>1 DEF Overtaken
    <2>5. ASSUME NEW k \in Held, lru' = MoveToFront(lru, k), Held' = Held, Used = {k}
          PROVE  Overtaken(OlderIn(lru))'
      <3>1. OlderIn(lru') = Forget(OlderIn(lru), k) \cup {<<x, k>> : x \in Held \ {k}}
        BY <2>5, UseOfHeld DEF HInv
      <3>2. Forget(OlderIn(lru), k) \subseteq OlderIn(lru)
            /\ \A x : <<k, x>> \notin Forget(OlderIn(lru), k)
        BY DEF Forget
      <3>3. Overtaken(OlderIn(lru)) /\ watched \in Held
        BY <2>3, <2>5 DEF HInv
      <3> HIDE DEF HInv
      <3>4. QED BY <1>2, <2>2, <2>3, <2>5, <3>1, <3>2, <3>3, OvertakenByUse
    <2>6. ASSUME NEW ns \in Namespaces, NEW sc \in Scopes, NEW id \in Ids, Get(ns, sc, id)
          PROVE  Overtaken(OlderIn(lru))'
      <3> DEFINE k == <<ns, sc, id>>
      <3>1. CASE Has(resources, ns, sc, id)
        <4>1. k \in Held
          BY <3>1, HeldPointwise DEF Held
        <4>2. lru' = MoveToFront(lru, k) /\ Held' = Held
              /\ reply' = <<"Get", resources[ns][sc][id]>>
          BY <3>1, <2>6 DEF Get, Held
        <4>3. Head(lru') = k
          BY <4>2 DEF MoveToFront, PushFront
        <4>4. resources[ns][sc][id] # NotFound
          BY <3>1, PointwiseTyped, NotFoundAssumption DEF HInv, IInv, Agree
        <4>5. Used = {k}
          BY <4>2, <4>3, <4>4 DEF Used
        <4>6. QED BY <2>5, <4>1, <4>2, <4>5
      <3>2. CASE ~Has(resources, ns, sc, id)
        BY <2>4, <2>6, <3>2 DEF Get, Used
      <3>3. QED BY <3>1, <3>2
    <2>7. ASSUME NEW ns \in Namespaces, NEW sc \in Scopes, NEW id \in Ids, NEW d \in Data,
                 Put(ns, sc, id, d)
          PROVE  Overtaken(OlderIn(lru))'
      <3> DEFINE k == <<ns, sc, id>>
      <3>1. CASE Has(resources, ns, sc, id)
        <4>1. k \in HeldIn(resources)
          BY <3>1, HeldPointwise
        <4>2. /\ lru' = MoveToFront(lru, k) /\ reply' = <<"Put">>
              /\ resources' = Overwrite(resources, ns, sc, id, d)
          BY <3>1, <2>7 DEF Put
        <4>3. Head(lru') = k
          BY <4>2 DEF MoveToFront, PushFront
        <4>4. Used = {k}
          BY <4>2, <4>3 DEF Used
        <4>5. DOMAIN FlatOf(resources') = DOMAIN FlatOf(resources)
          BY <4>1, <4>2, FlatOverwrite
        <4>6. Held' = Held
          BY <4>5 DEF FlatOf, Held
        <4>7. QED BY <2>5, <4>1, <4>2, <4>4, <4>6 DEF Held
      <3>2. CASE ~Has(resources, ns, sc, id)
        <4>1. /\ k \notin Held /\ reply' = <<"Put">> /\ Head(lru') = k
              /\ Held' = HeldIn(AfterEviction.resources) \cup {k}
              /\ HeldIn(AfterEviction.resources) \subseteq Held
              /\ \E left : /\ left \subseteq OlderIn(lru)
                           /\ \A x : <<k, x>> \notin left
                           /\ OlderIn(lru') = left \cup
                                {<<x, k>> : x \in HeldIn(AfterEviction.resources) \ {k}}
          BY <2>7, <3>2, UseOfNew DEF HInv
        <4>2. Used = {k}
          BY <4>1 DEF Used
        <4> HIDE DEF k
        <4>3. watched # k => watched \in Held
          BY <2>3, <4>1
        <4>4. Overtaken(OlderIn(lru)) \/ watched \notin Held
          BY DEF HInv
        <4> HIDE DEF HInv
        <4>5. PICK left : /\ left \subseteq OlderIn(lru)
                          /\ \A x : <<k, x>> \notin left
                          /\ OlderIn(lru') = left \cup
                               {<<x, k>> : x \in HeldIn(AfterEviction.resources) \ {k}}
          BY <4>1
        <4>6. QED BY <1>2, <2>2, <2>3, <4>2, <4>3, <4>4, <4>5, OvertakenByUse
      <3>3. QED BY <3>1, <3>2
    <2>8. ASSUME NEW ns \in Namespaces, NEW sc \in Scopes, NEW id \in Ids, Delete(ns, sc, id)
          PROVE  Overtaken(OlderIn(lru))'
      <3> DEFINE k == <<ns, sc, id>>
      <3>1. CASE Has(resources, ns, sc, id)
        <4>1. k \in HeldIn(resources)
          BY <3>1, HeldPointwise
        <4>2. OlderIn(lru') = Forget(OlderIn(lru), k)
          BY <2>8, <3>1, <4>1, OlderUnlink DEF Delete, HInv, IInv, Agree
        <4>3. Held' \subseteq Held
          BY <2>8, <3>1, <4>1, FlatRemove DEF Delete, Held
        <4>4. Used = {}
          BY <2>8, <3>1 DEF Delete, Used
        <4>5. Overtaken(OlderIn(lru)) /\ since' = since
          BY <2>2, <2>3, <4>3, <4>4 DEF HInv
        <4>6. QED BY <1>2, <4>2, <4>5 DEF Overtaken, Forget
      <3>2. CASE ~Has(resources, ns, sc, id)
        BY <2>4, <2>8, <3>2 DEF Delete, Used
      <3>3. QED BY <3>1, <3>2
    <2>9. ASSUME NEW ns \in Namespaces, NEW sc \in Scopes, List(ns, sc)
          PROVE  Overtaken(OlderIn(lru))'
      BY <2>4, <2>9 DEF List, Used
    <2>10. CASE Count
      BY <2>4, <2>10 DEF Count, Used
    <2>11. CASE Reset
      BY <2>3, <2>11 DEF Reset, Held, HeldIn, Has, EmptyMap
    <2>12. QED
      BY <2>6, <2>7, <2>8, <2>9, <2>10, <2>11 DEF HNext, Next
  <1>6. QED BY <1>1, <1>2, <1>4, <1>5 DEF HInv

\* Only a Put can cost a key its place without naming it, and whom it costs
\* it is the back of a full list, which all others have overtaken.
LEMMA EvictedIsStale ==
    ASSUME HInv, HNext, watched \in Held \ Held', reply'[1] = "Put"
    PROVE  Cardinality(since \cup Used) >= capacity
  <1>1. PICK ns \in Namespaces, sc \in Scopes, id \in Ids, d \in Data : Put(ns, sc, id, d)
    <2>1. Next
      BY DEF HNext
    <2>2. ASSUME NEW ns \in Namespaces, NEW sc \in Scopes, NEW id \in Ids,
                 Get(ns, sc, id) \/ Delete(ns, sc, id)
          PROVE  FALSE
      <3>1. /\ Get(ns, sc, id) => \E d : reply' = <<"Get", d>>
            /\ Delete(ns, sc, id) => \E d : reply' = <<"Delete", d>>
        BY Zenon DEF Get, Delete
      <3>2. QED BY <2>2, <3>1
    <2>3. ASSUME NEW ns \in Namespaces, NEW sc \in Scopes, List(ns, sc)
          PROVE  FALSE
      BY <2>3 DEF List
    <2>4. ~Count /\ ~Reset
      BY DEF Count, Reset
    <2>5. QED BY <2>1, <2>2, <2>3, <2>4 DEF Next
  <1> DEFINE k == <<ns, sc, id>>
  <1>2. ~Has(resources, ns, sc, id)
    <2> SUFFICES ASSUME Has(resources, ns, sc, id) PROVE FALSE
      OBVIOUS
    <2>1. k \in HeldIn(resources) /\ resources' = Overwrite(resources, ns, sc, id, d)
      BY <1>1, HeldPointwise DEF Put
    <2>2. DOMAIN FlatOf(resources') = DOMAIN FlatOf(resources)
      BY <2>1, FlatOverwrite
    <2>3. QED BY <2>2 DEF FlatOf, Held
  <1>3. /\ k \in Keys /\ k \notin Held /\ Head(lru') = k /\ reply' = <<"Put">>
        /\ Held' = HeldIn(AfterEviction.resources) \cup {k}
    BY <1>1, <1>2, UseOfNew DEF HInv
  <1>4. Used = {k}
    BY <1>3 DEF Used
  <1> HIDE DEF k
  <1>5. watched \notin HeldIn(AfterEviction.resources)
    BY <1>3
  <1>6. AtCapacity /\ lru # <<>>
    BY <1>5 DEF AfterEviction, Held
  <1>7. /\ Victim \in HeldIn(resources)
        /\ AfterEviction.resources = Remove3(resources, Victim[1], Victim[2], Victim[3])
    BY <1>6, AgreeEvict DEF HInv, IInv, AfterEviction, Victim
  <1>8. Victim = <<Victim[1], Victim[2], Victim[3]>>
    BY <1>7 DEF HeldIn, Keys
  <1>9. watched = Last(lru)
    <2>1. HeldIn(AfterEviction.resources) = HeldIn(resources) \ {Victim}
      BY <1>7, <1>8, FlatRemove
    <2>2. QED BY <1>5, <2>1 DEF Held, Victim
  <1>10. \A x \in Elements(lru) \ {watched} : x \in since
    BY <1>6, <1>9, BackIsLeastRecent DEF HInv, IInv, Agree, Overtaken
  <1>11. (Elements(lru) \ {watched}) \cup {k} \subseteq since \cup Used
    BY <1>4, <1>10
  <1>12. /\ IsFiniteSet(Elements(lru)) /\ Cardinality(Elements(lru)) = Len(lru)
         /\ Len(lru) \in Nat /\ Elements(lru) = Held
    BY CountIsLength DEF HInv, IInv, Agree, Held
  <1>13. /\ IsFiniteSet(Elements(lru) \ {watched})
         /\ Cardinality(Elements(lru) \ {watched}) = Len(lru) - 1
    BY <1>12, FS_RemoveElement
  <1>14. Cardinality((Elements(lru) \ {watched}) \cup {k}) = Len(lru)
    <2>1. k \notin Elements(lru) \ {watched}
      BY <1>3, <1>12
    <2>2. Cardinality((Elements(lru) \ {watched}) \cup {k}) =
            Cardinality(Elements(lru) \ {watched}) + 1
      BY <1>13, <2>1, FS_AddElement
    <2>3. QED BY <1>12, <1>13, <2>2
  <1>15. IsFiniteSet(since \cup Used)
    BY <1>4, FS_Singleton, FS_Union DEF HInv
  <1>16. /\ Cardinality((Elements(lru) \ {watched}) \cup {k}) <= Cardinality(since \cup Used)
         /\ Cardinality(since \cup Used) \in Nat
    BY <1>11, <1>15, FS_Subset, FS_CardinalityType
  <1>17. Len(lru) >= capacity /\ capacity \in Nat
    BY <1>6, CapacityAssumption DEF AtCapacity, capacity
  <1>18. QED BY <1>12, <1>14, <1>16, <1>17

(***************************************************************************)
(* Whichever key is watched, it is evicted only after at least as many     *)
(* others as the store can hold were used since it was itself.             *)
(***************************************************************************)
THEOREM EvictedOnlyWhenStaleTheorem == HSpec => EvictedOnlyWhenStale
  <1> DEFINE Evicted == watched \in Held \ Held' /\ reply'[1] = "Put"
  <1>1. HInit => HInv
    <2> SUFFICES ASSUME HInit PROVE HInv
      OBVIOUS
    <2>1. IInv
      BY InitIInv DEF HInit
    <2>2. Held = {}
      BY DEF HInit, Init, Held, HeldIn, Has, EmptyMap
    <2>3. QED BY <2>1, <2>2, FS_EmptySet DEF HInit, HInv
  <1>2. HInv /\ [HNext]_hvars =>
          [Evicted => Cardinality(since \cup Used) >= capacity]_hvars
    BY EvictedIsStale
  <1>3. QED
    BY <1>1, <1>2, NextHInv, PTL DEF HSpec, EvictedOnlyWhenStale
=============================================================================
