--------------------------- MODULE GenerationProofs ---------------------------
(***************************************************************************)
(* What the generator makes of a schema (module Generation), for every     *)
(* document, cycles included, every seed and every limit.                  *)
(*                                                                         *)
(* The functions of Generation are recursive, in the calls left, the depth *)
(* and the levels of the answer.  RecursionEnds shows once that functions  *)
(* with these equations exist; the proofs then use the equations alone,    *)
(* and look at the least argument at which a claim might fail (Least).     *)
(*                                                                         *)
(* A value is put together from the closure of its schema, which shrinks   *)
(* with each reference, choice and member of an allOf that is followed     *)
(* (PartIsSmaller): two calls for each schema of the closure are enough.   *)
(* What lies in a value was made, one level deeper, for something that the *)
(* closure contains (Origin).  Complete and LimitCuts follow along these   *)
(* two lines; IntegersValid from the arithmetic of module Primitive.       *)
(***************************************************************************)
EXTENDS Generation, FiniteSetTheorems, WellFoundedInduction, TLAPS

-----------------------------------------------------------------------------
(***************************************************************************)
(* The integers: where a multiple lies between the bounds, rounding the    *)
(* draw down, or else the lower bound up, gives one.                       *)
(***************************************************************************)
\* Rounding down, as Go's division does from zero upwards.
LEMMA RoundDown ==
  ASSUME NEW a \in Nat, NEW m \in Nat \ {0}
  PROVE  /\ Quotient(a, m) \in Nat
         /\ Quotient(a, m) * m <= a
         /\ a < Quotient(a, m) * m + m
<1>1. Quotient(a, m) = a \div m
  BY DEF Quotient
<1>2. /\ a \div m \in Nat
      /\ (a \div m) * m <= a
      /\ a < (a \div m) * m + m
  OBVIOUS
<1> QED BY <1>1, <1>2

LEMMA WholeIsItself ==
  ASSUME NEW r, r[1] \in Nat, r[2] = 1
  PROVE  RatToInt64(r) = r[1]
BY DEF RatToInt64, Quotient

\* Whatever is drawn between two bounds with a multiple between them, the
\* result is a multiple between them.
LEMMA SnapKeepsBounds ==
  ASSUME NEW lo \in Nat, NEW hi \in Nat, NEW m \in Nat \ {0},
         NEW k \in Nat, lo <= k * m, k * m <= hi,
         NEW v \in lo..hi
  PROVE  \E q \in Nat : /\ SnapToMultiple(v, m, lo, hi) = q * m
                        /\ lo <= q * m /\ q * m <= hi
<1> DEFINE q == Quotient(v, m)
           p == Quotient(lo + m - 1, m)
<1>1. q \in Nat /\ q * m <= v
  <2>1. v \in Nat /\ v <= hi
    OBVIOUS
  <2> QED BY <2>1, RoundDown
<1>2. p \in Nat /\ p * m <= lo + m - 1 /\ lo + m - 1 < p * m + m
  <2>1. lo + m - 1 \in Nat
    OBVIOUS
  <2> QED BY <2>1, RoundDown
<1>3. SnapToMultiple(v, m, lo, hi) =
        LET up == IF q * m < lo THEN p * m ELSE q * m
        IN  IF up > hi THEN Quotient(hi, m) * m ELSE up
  BY DEF SnapToMultiple
<1>6. v <= hi /\ v \in Nat
  OBVIOUS
<1> HIDE DEF p, q
<1>4. CASE q * m < lo
  <2>1. lo <= p * m
    BY <1>2
  <2>2. p <= k
    <3> SUFFICES ASSUME k + 1 <= p PROVE FALSE
      BY <1>2
    <3>1. (k + 1) * m <= p * m
      BY <1>2
    <3>2. (k + 1) * m = k * m + m
      OBVIOUS
    <3> QED BY <1>2, <3>1, <3>2
  <2>3. p * m <= k * m
    BY <1>2, <2>2
  <2>4. p * m <= hi
    BY <1>2, <2>3
  <2>5. SnapToMultiple(v, m, lo, hi) = p * m
    BY <1>2, <1>3, <1>4, <2>4
  <2> QED BY <1>2, <2>1, <2>4, <2>5
<1>5. CASE ~(q * m < lo)
  <2>1. q * m <= hi /\ lo <= q * m
    BY <1>1, <1>5, <1>6
  <2>2. SnapToMultiple(v, m, lo, hi) = q * m
    BY <1>1, <1>3, <1>5, <2>1
  <2> QED BY <1>1, <2>1, <2>2
<1> QED BY <1>4, <1>5

\* A value that keeps to the bounds lies between those that are computed, and
\* what lies between them keeps to all bounds but multipleOf.
LEMMA BoundsOf ==
  ASSUME NEW b \in Bounds, Whole(b),
         NEW s \in 0..DefaultIntMax, Satisfies(s, b)
  PROVE  LET c == NormalizeBounds(b)
         IN  /\ MinVal(c) \in Nat /\ MaxVal(c) \in Nat
             /\ MinVal(c) <= s /\ s <= MaxVal(c)
             /\ \A v \in MinVal(c)..MaxVal(c) :
                   Satisfies(v, [b EXCEPT !.multipleOf = None])
<1> DEFINE c == NormalizeBounds(b)
           d == [b EXCEPT !.multipleOf = None]
           Above(v) == /\ c.minimum # None => c.minimum[1] <= v
                       /\ c.exclusiveMinimum # None => c.exclusiveMinimum[1] < v
           Below(v) == /\ c.maximum # None => v <= c.maximum[1]
                       /\ c.exclusiveMaximum # None => v < c.exclusiveMaximum[1]
<1>1. /\ c.minimum = (IF b.notAtMin THEN None ELSE b.minimum)
      /\ c.exclusiveMinimum = (IF b.notAtMin THEN b.minimum ELSE b.exclusiveMinimum)
      /\ c.maximum = (IF b.notAtMax THEN None ELSE b.maximum)
      /\ c.exclusiveMaximum = (IF b.notAtMax THEN b.maximum ELSE b.exclusiveMaximum)
  BY DEF NormalizeBounds, Bounds
<1>2. \A r \in {b.minimum, b.maximum, b.exclusiveMinimum, b.exclusiveMaximum} :
         r # None => r[1] \in Nat /\ r[2] = 1
  BY DEF Bounds, Rationals, Whole
<1>3. ASSUME NEW v \in Nat
      PROVE  Satisfies(v, d) <=> Above(v) /\ Below(v)
  <2>1. /\ d.minimum = b.minimum /\ d.maximum = b.maximum
        /\ d.exclusiveMinimum = b.exclusiveMinimum
        /\ d.exclusiveMaximum = b.exclusiveMaximum
        /\ d.notAtMin = b.notAtMin /\ d.notAtMax = b.notAtMax
        /\ d.multipleOf = None
    BY DEF Bounds
  <2>2. /\ b.notAtMin \in BOOLEAN /\ b.notAtMax \in BOOLEAN
        /\ b.notAtMin => b.exclusiveMinimum = None
        /\ b.notAtMax => b.exclusiveMaximum = None
    BY DEF Bounds
  <2> HIDE DEF c, d
  <2>3. /\ (d.minimum # None =>
               /\ AtLeast(v, d.minimum)
               /\ d.notAtMin => v * d.minimum[2] # d.minimum[1])
        /\ (d.exclusiveMinimum # None => ~AtMost(v, d.exclusiveMinimum))
        <=> Above(v)
    BY <1>1, <1>2, <2>1, <2>2 DEF AtLeast, AtMost
  <2>4. /\ (d.maximum # None =>
               /\ AtMost(v, d.maximum)
               /\ d.notAtMax => v * d.maximum[2] # d.maximum[1])
        /\ (d.exclusiveMaximum # None => ~AtLeast(v, d.exclusiveMaximum))
        <=> Below(v)
    BY <1>1, <1>2, <2>1, <2>2 DEF AtLeast, AtMost
  <2> HIDE DEF Above, Below
  <2> QED BY <2>1, <2>3, <2>4 DEF Satisfies
<1>4. s \in Nat /\ s <= DefaultIntMax
  BY DefaultIntMaxAssumption
<1>5. Above(s) /\ Below(s)
  <2>1. Satisfies(s, d)
    BY DEF Satisfies, Bounds
  <2> QED BY <1>3, <1>4, <2>1
<1>6. \A r \in {c.minimum, c.maximum, c.exclusiveMinimum, c.exclusiveMaximum} :
         r # None => r[1] \in Nat /\ RatToInt64(r) = r[1]
  BY <1>1, <1>2, WholeIsItself
<1> HIDE DEF c, d
<1>7. /\ MinVal(c) \in Nat /\ MinVal(c) <= s
      /\ \A v \in Nat : MinVal(c) <= v => Above(v)
  BY <1>4, <1>5, <1>6 DEF MinVal, Larger, defaultIntMin
<1>8. /\ MaxVal(c) \in Nat /\ s <= MaxVal(c)
      /\ \A v \in Nat : v <= MaxVal(c) => Below(v)
  BY <1>4, <1>5, <1>6, <1>7, DefaultIntMaxAssumption DEF MaxVal, Larger, Smaller
<1> HIDE DEF Above, Below
<1>9. \A v \in MinVal(c)..MaxVal(c) : Satisfies(v, d)
  BY <1>3, <1>7, <1>8
<1> QED BY <1>7, <1>8, <1>9 DEF c, d

\* "Generic generation satisfies schema constraints" (primitive.go): whatever
\* the seed, an integer keeps to the bounds of its schema, when these are whole
\* numbers, not negative, and some value below the default maximum keeps to
\* them too.
THEOREM IntegersKeepBounds ==
  ASSUME NEW b \in Bounds, Whole(b), LeavesRoom(b)
  PROVE  \A v \in GenerateInteger(b) : Satisfies(v, b)
<1> DEFINE c == NormalizeBounds(b)
           lo == MinVal(c)
           hi == MaxVal(c)
<1>1. PICK s \in 0..DefaultIntMax : Satisfies(s, b)
  BY DEF LeavesRoom, defaultIntMin
<1>2. /\ lo \in Nat /\ hi \in Nat /\ lo <= s /\ s <= hi
      /\ \A v \in lo..hi : Satisfies(v, [b EXCEPT !.multipleOf = None])
  BY <1>1, BoundsOf
<1>3. c.multipleOf = b.multipleOf
  BY DEF NormalizeBounds, Bounds
<1> HIDE DEF c, lo, hi
<1>4. CASE b.multipleOf = None
  <2>1. GenerateInteger(b) = lo..hi
    BY <1>3, <1>4 DEF GenerateInteger, c, lo, hi
  <2>2. [b EXCEPT !.multipleOf = None] = b
    BY <1>4 DEF Bounds
  <2> QED BY <1>2, <2>1, <2>2
<1>5. CASE b.multipleOf # None
  <2> DEFINE m == b.multipleOf[1]
  <2>1. m \in Nat \ {0} /\ b.multipleOf[2] = 1 /\ RatToInt64(b.multipleOf) = m
    <3>1. b.multipleOf[1] \in Nat \ {0} /\ b.multipleOf[2] = 1
      BY <1>5 DEF Bounds, Rationals, Whole
    <3> QED BY <3>1, WholeIsItself
  <2>2. s % m = 0
    <3>1. (s * b.multipleOf[2]) % b.multipleOf[1] = 0
      BY <1>1, <1>5 DEF Satisfies
    <3>2. s * 1 = s
      BY <1>1
    <3> QED BY <2>1, <3>1, <3>2
  <2> HIDE DEF m
  <2>3. PICK k \in Nat : s = k * m
    <3>1. s \in Nat /\ m \in Nat \ {0}
      BY <1>1, <2>1, DefaultIntMaxAssumption
    <3>2. s = (s \div m) * m /\ s \div m \in Nat
      BY <2>2, <3>1
    <3> QED BY <3>2
  <2>4. ASSUME NEW w \in GenerateInteger(b)
        PROVE  Satisfies(w, b)
    <3>1. PICK v \in lo..hi : w = SnapToMultiple(v, m, lo, hi)
      BY <1>3, <1>5, <2>1 DEF GenerateInteger, c, lo, hi
    <3>2. PICK q \in Nat : w = q * m /\ lo <= q * m /\ q * m <= hi
      BY <1>2, <2>1, <2>3, <3>1, SnapKeepsBounds
    <3>3. w \in lo..hi /\ w % m = 0
      <4>1. \A a \in Nat, n \in Nat \ {0} : a * n \in Nat /\ (a * n) % n = 0
        OBVIOUS
      <4>2. w \in Nat /\ w % m = 0
        BY <2>1, <3>2, <4>1
      <4> QED BY <1>2, <3>2, <4>2
    <3>4. Satisfies(w, [b EXCEPT !.multipleOf = None])
      BY <1>2, <3>3
    <3>5. (w * b.multipleOf[2]) % b.multipleOf[1] = 0
      <4>1. w * 1 = w
        BY <1>2, <3>3
      <4> QED BY <2>1, <3>3, <4>1 DEF m
    <3> QED BY <3>4, <3>5 DEF Satisfies, Bounds
  <2> QED BY <2>4
<1> QED BY <1>4, <1>5

-----------------------------------------------------------------------------
(***************************************************************************)
(* Recursion.                                                              *)
(***************************************************************************)
LEMMA Least ==
  ASSUME NEW T \in SUBSET Nat, T # {}
  PROVE  \E x \in T : \A y \in T : x <= y
<1> DEFINE R == OpToRel(<, Nat)
<1>1. IsWellFoundedOn(R, Nat)
  BY NatLessThanWellFounded
<1>2. \A x, y \in Nat : y < x => <<y, x>> \in R
  BY DEF OpToRel
<1> HIDE DEF R
<1>3. PICK x \in T : \A y \in T : <<y, x>> \notin R
  BY <1>1, WFMin, Zenon
<1>4. \A y \in T : ~(y < x)
  BY <1>2, <1>3
<1>5. \A y \in T : x <= y
  BY <1>4
<1> QED BY <1>5

\* A call has fewer calls left, by as many as it counts for.
LEMMA SpendsLess ==
  ASSUME NEW k \in Nat, NEW calls \in Nat \ {0}
  PROVE  /\ Spend(k, calls) \in Nat
         /\ k # 0 => Spend(k, calls) < k
         /\ k - calls <= Spend(k, calls)
BY DEF Spend

\* The right-hand sides of the four recursive definitions.
ValuesRow(V, k) ==
    [depth \in Nat |-> [n \in Nodes |->
        IF k = 0 THEN {Nil} ELSE Generated(V[Spend(k, 1)], V[Spend(k, 2)], depth, n)]]

ReachedRow(S, V, k) ==
    IF k = 0 THEN S ELSE V[k - 1] \cup UNION {Parts(n) : n \in V[k - 1]}

SchemasRow(V, k) ==
    IF k = 0 THEN Closure({Root}) ELSE Closure(UNION {Contents(n) : n \in V[k - 1]})

LevelRow(V, k) == IF k = 0 THEN {answer} ELSE UNION {Inside(v) : v \in V[k - 1]}

\* Each reads its function only at smaller arguments.
LEMMA RowsReadBelow ==
  ASSUME NEW S, NEW V, NEW W, NEW k \in Nat, \A i \in Nat : i < k => V[i] = W[i]
  PROVE  /\ ValuesRow(V, k) = ValuesRow(W, k)
         /\ ReachedRow(S, V, k) = ReachedRow(S, W, k)
         /\ SchemasRow(V, k) = SchemasRow(W, k)
         /\ LevelRow(V, k) = LevelRow(W, k)
<1>1. k # 0 => /\ V[k - 1] = W[k - 1]
               /\ V[Spend(k, 1)] = W[Spend(k, 1)]
               /\ V[Spend(k, 2)] = W[Spend(k, 2)]
  BY SpendsLess
<1>2. ValuesRow(V, k) = ValuesRow(W, k)
  <2>1. CASE k = 0
    <3>1. ValuesRow(V, k) = [depth \in Nat |-> [n \in Nodes |-> {Nil}]]
      BY <2>1 DEF ValuesRow
    <3>2. ValuesRow(W, k) = [depth \in Nat |-> [n \in Nodes |-> {Nil}]]
      BY <2>1 DEF ValuesRow
    <3> QED BY <3>1, <3>2
  <2>2. CASE k # 0
    <3> DEFINE one == V[Spend(k, 1)]
               two == V[Spend(k, 2)]
    <3>1. one = W[Spend(k, 1)] /\ two = W[Spend(k, 2)]
      BY <1>1, <2>2
    <3>2. ValuesRow(V, k) =
            [depth \in Nat |-> [n \in Nodes |->
                IF k = 0 THEN {Nil} ELSE Generated(one, two, depth, n)]]
      BY DEF ValuesRow
    <3> HIDE DEF one, two
    <3>3. ValuesRow(W, k) =
            [depth \in Nat |-> [n \in Nodes |->
                IF k = 0 THEN {Nil} ELSE Generated(one, two, depth, n)]]
      BY <3>1 DEF ValuesRow
    <3> QED BY <3>2, <3>3
  <2> QED BY <2>1, <2>2
<1> QED BY <1>1, <1>2, Zenon DEF ReachedRow, SchemasRow, LevelRow
(***************************************************************************)
(* All that is defined by recursion, in one function of records: there is  *)
(* a function that meets the equations, put together from finite stages    *)
(* that agree where they overlap.                                          *)
(***************************************************************************)
Rows(S, V, k) ==
    [values |-> ValuesRow([i \in Nat |-> V[i].values], k),
     reached |-> ReachedRow(S, [i \in Nat |-> V[i].reached], k),
     schemas |-> SchemasRow([i \in Nat |-> V[i].schemas], k),
     level |-> LevelRow([i \in Nat |-> V[i].level], k)]

LEMMA ReadsBelow ==
  ASSUME NEW S, NEW V, NEW W, NEW k \in Nat, \A i \in Nat : i < k => V[i] = W[i]
  PROVE  Rows(S, V, k) = Rows(S, W, k)
<1> DEFINE values(U) == [i \in Nat |-> U[i].values]
           reached(U) == [i \in Nat |-> U[i].reached]
           schemas(U) == [i \in Nat |-> U[i].schemas]
           level(U) == [i \in Nat |-> U[i].level]
<1>1. \A i \in Nat : i < k => /\ values(V)[i] = values(W)[i]
                             /\ reached(V)[i] = reached(W)[i]
                             /\ schemas(V)[i] = schemas(W)[i]
                             /\ level(V)[i] = level(W)[i]
  OBVIOUS
<1>2. \A U : Rows(S, U, k) = [values |-> ValuesRow(values(U), k),
                              reached |-> ReachedRow(S, reached(U), k),
                              schemas |-> SchemasRow(schemas(U), k),
                              level |-> LevelRow(level(U), k)]
  BY DEF Rows
<1> HIDE DEF values, reached, schemas, level
<1>3. /\ ValuesRow(values(V), k) = ValuesRow(values(W), k)
      /\ ReachedRow(S, reached(V), k) = ReachedRow(S, reached(W), k)
      /\ SchemasRow(schemas(V), k) = SchemasRow(schemas(W), k)
      /\ LevelRow(level(V), k) = LevelRow(level(W), k)
  BY <1>1, RowsReadBelow
<1> QED BY <1>2, <1>3, Zenon

LEMMA RecursionEnds ==
  ASSUME NEW T
  PROVE  \E f : f = [k \in Nat |-> Rows(T, f, k)]
<1> DEFINE Row(V, k) == Rows(T, V, k)
           Stage(g, k) == g = [i \in 0..k |-> Row(g, i)]
<1>1. ASSUME NEW V, NEW W, NEW k \in Nat, \A i \in Nat : i < k => V[i] = W[i]
      PROVE  Row(V, k) = Row(W, k)
  BY <1>1, ReadsBelow
<1> HIDE DEF Row
<1>2. ASSUME NEW k \in Nat PROVE \E g : Stage(g, k)
  <2> DEFINE Bad == {j \in Nat : ~\E g : Stage(g, j)}
  <2> SUFFICES ASSUME Bad # {} PROVE FALSE
    BY Zenon
  <2>1. PICK j \in Bad : \A i \in Bad : j <= i
    <3>1. Bad \subseteq Nat
      OBVIOUS
    <3> HIDE DEF Bad
    <3> QED BY <3>1, Least
  <2>2. j \in Nat /\ ~\E g : Stage(g, j)
    OBVIOUS
  <2>3. PICK h : j # 0 => Stage(h, j - 1)
    <3>1. j # 0 => j - 1 \in Nat /\ j - 1 \notin Bad
      BY <2>1
    <3> QED BY <3>1
  <2> DEFINE g == [i \in 0..j |-> Row(h, i)]
  <2>4. \A i \in Nat : i < j => g[i] = h[i]
    <3> SUFFICES ASSUME NEW i \in Nat, i < j PROVE g[i] = h[i]
      OBVIOUS
    <3>1. h = [l \in 0..(j - 1) |-> Row(h, l)] /\ i \in 0..(j - 1) /\ i \in 0..j
      BY <2>2, <2>3
    <3>2. h[i] = Row(h, i)
      BY <3>1, Zenon
    <3> QED BY <3>1, <3>2, Zenon
  <2> HIDE DEF g
  <2>5. \A i \in 0..j : Row(h, i) = Row(g, i)
    <3> SUFFICES ASSUME NEW i \in 0..j PROVE Row(h, i) = Row(g, i)
      OBVIOUS
    <3>1. i \in Nat /\ \A l \in Nat : l < i => h[l] = g[l]
      BY <2>2, <2>4
    <3> QED BY <3>1, <1>1
  <2>6. g = [i \in 0..j |-> Row(g, i)]
    BY <2>5, Zenon DEF g
  <2> QED BY <2>2, <2>6, Zenon
<1>3. ASSUME NEW k \in Nat, NEW l \in Nat, NEW g, NEW h, Stage(g, k), Stage(h, l)
      PROVE  \A i \in Nat : i <= k /\ i <= l => g[i] = h[i]
  <2> DEFINE Bad == {i \in Nat : i <= k /\ i <= l /\ g[i] # h[i]}
  <2> SUFFICES ASSUME Bad # {} PROVE FALSE
    BY Zenon
  <2>1. PICK i \in Bad : \A j \in Bad : i <= j
    <3>1. Bad \subseteq Nat
      OBVIOUS
    <3> HIDE DEF Bad
    <3> QED BY <3>1, Least
  <2>2. i \in Nat /\ i \in 0..k /\ i \in 0..l /\ g[i] # h[i]
    OBVIOUS
  <2>3. \A j \in Nat : j < i => g[j] = h[j]
    BY <2>1, <2>2
  <2>4. g[i] = Row(g, i) /\ h[i] = Row(h, i)
    BY <1>3, <2>2, Zenon
  <2> QED BY <1>1, <2>2, <2>3, <2>4
<1> DEFINE S(k) == CHOOSE g : Stage(g, k)
           f == [k \in Nat |-> S(k)[k]]
<1>4. \A k \in Nat : Stage(S(k), k)
  BY <1>2, Zenon
<1>5. ASSUME NEW k \in Nat PROVE S(k)[k] = Row(f, k)
  <2>1. k \in 0..k /\ S(k) = [i \in 0..k |-> Row(S(k), i)]
    BY <1>4
  <2>2. S(k)[k] = Row(S(k), k)
    BY <2>1, Zenon
  <2>3. \A i \in Nat : i < k => S(k)[i] = f[i]
    <3> SUFFICES ASSUME NEW i \in Nat, i < k PROVE S(k)[i] = f[i]
      OBVIOUS
    <3>1. Stage(S(k), k) /\ Stage(S(i), i)
      BY <1>4
    <3> HIDE DEF S, Stage
    <3>2. S(k)[i] = S(i)[i]
      BY <1>3, <3>1
    <3> QED BY <3>2
  <2> HIDE DEF f, S
  <2> QED BY <1>1, <2>2, <2>3
<1>6. f = [k \in Nat |-> Row(f, k)]
  BY <1>5, Zenon
<1> QED BY <1>6, Zenon DEF Row

LEMMA ValuesAre == Values = [k \in Nat |-> ValuesRow(Values, k)]
<1>1. PICK F : F = [k \in Nat |-> Rows({}, F, k)]
  BY RecursionEnds
<1> DEFINE f == [k \in Nat |-> F[k].values]
<1>2. ASSUME NEW k \in Nat PROVE F[k].values = ValuesRow(f, k)
  <2>1. F[k] = Rows({}, F, k)
    BY <1>1, Zenon
  <2> QED BY <2>1 DEF Rows
<1>3. f = [k \in Nat |-> ValuesRow(f, k)]
  BY <1>2, Zenon
<1>4. Values = CHOOSE V : V = [k \in Nat |-> ValuesRow(V, k)]
  BY DEF Values, ValuesRow
<1> HIDE DEF f
<1> QED BY <1>3, <1>4, Zenon

LEMMA LevelsAre == Level = [k \in Nat |-> LevelRow(Level, k)]
<1>1. PICK F : F = [k \in Nat |-> Rows({}, F, k)]
  BY RecursionEnds
<1> DEFINE f == [k \in Nat |-> F[k].level]
<1>2. ASSUME NEW k \in Nat PROVE F[k].level = LevelRow(f, k)
  <2>1. F[k] = Rows({}, F, k)
    BY <1>1, Zenon
  <2> QED BY <2>1 DEF Rows
<1>3. f = [k \in Nat |-> LevelRow(f, k)]
  BY <1>2, Zenon
<1>4. Level = CHOOSE V : V = [k \in Nat |-> LevelRow(V, k)]
  BY DEF Level, LevelRow
<1> HIDE DEF f
<1> QED BY <1>3, <1>4, Zenon

LEMMA SchemasAre == AtDepth = [k \in Nat |-> SchemasRow(AtDepth, k)]
<1>1. PICK F : F = [k \in Nat |-> Rows({}, F, k)]
  BY RecursionEnds
<1> DEFINE f == [k \in Nat |-> F[k].schemas]
<1>2. ASSUME NEW k \in Nat PROVE F[k].schemas = SchemasRow(f, k)
  <2>1. F[k] = Rows({}, F, k)
    BY <1>1, Zenon
  <2> QED BY <2>1 DEF Rows
<1>3. f = [k \in Nat |-> SchemasRow(f, k)]
  BY <1>2, Zenon
<1>4. AtDepth = CHOOSE V : V = [k \in Nat |-> SchemasRow(V, k)]
  BY DEF AtDepth, SchemasRow
<1> HIDE DEF f
<1> QED BY <1>3, <1>4, Zenon

LEMMA ReachedIs ==
  ASSUME NEW S
  PROVE  \E f : /\ Closure(S) = f[Cardinality(Nodes)]
                /\ f = [k \in Nat |-> ReachedRow(S, f, k)]
<1>1. PICK F : F = [k \in Nat |-> Rows(S, F, k)]
  BY RecursionEnds
<1> DEFINE f == [k \in Nat |-> F[k].reached]
           R == CHOOSE V : V = [k \in Nat |-> ReachedRow(S, V, k)]
<1>2. ASSUME NEW k \in Nat PROVE F[k].reached = ReachedRow(S, f, k)
  <2>1. F[k] = Rows(S, F, k)
    BY <1>1, Zenon
  <2> QED BY <2>1 DEF Rows
<1>3. f = [k \in Nat |-> ReachedRow(S, f, k)]
  BY <1>2, Zenon
<1>4. Closure(S) = R[Cardinality(Nodes)]
  BY DEF Closure, ReachedRow
<1> HIDE DEF f
<1>5. R = [k \in Nat |-> ReachedRow(S, R, k)]
  BY <1>3, Zenon
<1> QED BY <1>4, <1>5, Zenon

-----------------------------------------------------------------------------
(***************************************************************************)
(* The document: what a schema names are schemas, and what a value is put  *)
(* together from.                                                          *)
(***************************************************************************)
LEMMA SchemaIs ==
  ASSUME document \in Documents, NEW n \in Nodes
  PROVE  Compiled(Schema(n))
<1> DEFINE s == document[n]
<1>1. Compiled(s)
  BY DocumentsAssumption
<1> HIDE DEF s
<1>2. CASE s.nullable /\ s.type = Untyped /\ s.ref # None
  <2> DEFINE t == [s EXCEPT !.ref = None, !.oneOf = <<s.ref, Null>>]
  <2>1. Schema(n) = t
    BY <1>2 DEF Schema, s
  <2>2. DOMAIN s = DOMAIN Plain
    BY <1>1 DEF Compiled
  <2>3. DOMAIN Plain = {"ref", "nullable", "type", "allOf", "oneOf", "properties", "additional",
           "items", "tuple", "minItems", "maxItems", "example", "bounds"}
    BY DEF Plain
  <2>4. /\ DOMAIN t = DOMAIN s /\ t.ref = None /\ t.oneOf = <<s.ref, Null>>
        /\ t.type = s.type /\ t.allOf = s.allOf /\ t.properties = s.properties
        /\ t.additional = s.additional /\ t.items = s.items /\ t.tuple = s.tuple
        /\ t.bounds = s.bounds
    BY <2>2, <2>3
  <2>5. s.ref \in Nodes
    BY <1>1, <1>2 DEF Compiled
  <2>6. <<s.ref, Null>> \in Seq(Nodes)
    BY <2>5, NodesAssumption
  <2> HIDE DEF t
  <2>7. Compiled(t)
    BY <1>1, <2>4, <2>6 DEF Compiled
  <2> QED BY <2>1, <2>7
<1>3. CASE ~(s.nullable /\ s.type = Untyped /\ s.ref # None)
  BY <1>1, <1>3 DEF Schema, s
<1> QED BY <1>2, <1>3

LEMMA PartsAreNodes ==
  ASSUME document \in Documents, NEW n \in Nodes
  PROVE  /\ Branches(Schema(n)) \subseteq Nodes
         /\ Parts(n) \subseteq Nodes
         /\ Contents(n) \subseteq Nodes
<1> DEFINE s == Schema(n)
<1>1. Compiled(s)
  BY SchemaIs
<1> HIDE DEF s
<1>2. Branches(s) \subseteq Nodes
  BY <1>1 DEF Branches, Compiled
<1>3. Parts(n) \subseteq Nodes
  <2>1. Parts(n) = IF s.ref # None THEN {s.ref}
                   ELSE IF s.allOf # <<>> THEN {s.allOf[i] : i \in DOMAIN s.allOf}
                   ELSE Branches(s)
    BY DEF Parts, s
  <2>2. s.ref # None => s.ref \in Nodes
    BY <1>1 DEF Compiled
  <2>3. {s.allOf[i] : i \in DOMAIN s.allOf} \subseteq Nodes
    BY <1>1 DEF Compiled
  <2> QED BY <1>2, <2>1, <2>2, <2>3
<1>4. Contents(n) \subseteq Nodes
  <2>1. Contents(n) = {s.properties[f] : f \in DOMAIN s.properties}
        \cup {s.tuple[i] : i \in DOMAIN s.tuple}
        \cup ({s.additional, s.items} \ {None})
    BY DEF Contents, s
  <2>2. {s.tuple[i] : i \in DOMAIN s.tuple} \subseteq Nodes
    BY <1>1 DEF Compiled
  <2>3. {s.properties[f] : f \in DOMAIN s.properties} \subseteq Nodes
    BY <1>1 DEF Compiled
  <2>4. {s.additional, s.items} \ {None} \subseteq Nodes
    BY <1>1 DEF Compiled
  <2> QED BY <2>1, <2>2, <2>3, <2>4
<1> QED BY <1>2, <1>3, <1>4 DEF s

\* With a schema, all of its parts.
Closed(C) == \A n \in C : Parts(n) \subseteq C

(* The closure is the smallest set of schemas that contains S and, with a  *)
(* schema, its parts: a walk that still grows after k steps has reached    *)
(* more than k schemas, so that it stops before it has taken all.          *)
LEMMA ClosureIsLeast ==
  ASSUME document \in Documents, NEW S \in SUBSET Nodes
  PROVE  /\ Closure(S) \in SUBSET Nodes
         /\ S \subseteq Closure(S)
         /\ Closed(Closure(S))
         /\ \A C : S \subseteq C /\ Closed(C) => Closure(S) \subseteq C
<1> DEFINE N == Cardinality(Nodes)
           Grow(T) == T \cup UNION {Parts(n) : n \in T}
<1>1. PICK f : /\ Closure(S) = f[N]
               /\ f = [k \in Nat |-> ReachedRow(S, f, k)]
  BY ReachedIs
<1>2. f[0] = S /\ \A k \in Nat : f[k + 1] = Grow(f[k])
  <2>1. f[0] = ReachedRow(S, f, 0)
    BY <1>1, Zenon
  <2>2. ASSUME NEW k \in Nat PROVE f[k + 1] = Grow(f[k])
    <3>1. k + 1 \in Nat /\ k + 1 # 0 /\ (k + 1) - 1 = k
      OBVIOUS
    <3>2. f[k + 1] = ReachedRow(S, f, k + 1)
      BY <1>1, <3>1, Zenon
    <3> QED BY <3>1, <3>2, Zenon DEF ReachedRow
  <2> QED BY <2>1, <2>2 DEF ReachedRow
<1>3. N \in Nat /\ \A T \in SUBSET Nodes : IsFiniteSet(T) /\ Cardinality(T) \in Nat
                                        /\ Cardinality(T) <= N
  BY NodesAssumption, FS_CardinalityType, FS_Subset
<1>4. \A T \in SUBSET Nodes : Grow(T) \in SUBSET Nodes
  BY PartsAreNodes
<1>5. \A T : T \subseteq Grow(T) /\ (Grow(T) = T => Closed(T))
  BY DEF Closed
<1> HIDE DEF N
<1> DEFINE Good(k) ==
             /\ f[k] \in SUBSET Nodes /\ S \subseteq f[k]
             /\ \A C : S \subseteq C /\ Closed(C) => f[k] \subseteq C
             /\ Closed(f[k]) \/ Cardinality(f[k]) >= k
           Bad == {k \in Nat : ~Good(k)}
<1>6. Good(0)
  BY <1>2, <1>3
<1>7. ASSUME NEW k \in Nat, Good(k) PROVE Good(k + 1)
  <2> DEFINE T == f[k]
             U == Grow(T)
  <2>1. f[k + 1] = U
    BY <1>2
  <2>2. /\ T \in SUBSET Nodes /\ S \subseteq T
        /\ \A C : S \subseteq C /\ Closed(C) => T \subseteq C
        /\ Closed(T) \/ Cardinality(T) >= k
    BY <1>7
  <2>3. U \in SUBSET Nodes /\ S \subseteq U
    BY <1>4, <1>5, <2>2, Zenon
  <2>4. \A C : S \subseteq C /\ Closed(C) => U \subseteq C
    BY <2>2 DEF Closed
  <2>5. Closed(U) \/ Cardinality(U) >= k + 1
    <3>1. CASE U = T
      BY <1>5, <3>1
    <3>2. CASE U # T
      <4>1. Cardinality(T) < Cardinality(U)
        <5>1. T \subseteq U /\ IsFiniteSet(U)
          BY <1>3, <1>5, <2>3
        <5>2. Cardinality(T) \in Nat /\ Cardinality(U) \in Nat
          BY <1>3, <2>2, <2>3
        <5> HIDE DEF T, U
        <5>3. Cardinality(T) <= Cardinality(U) /\ Cardinality(T) # Cardinality(U)
          BY <3>2, <5>1, FS_Subset
        <5> QED BY <5>2, <5>3
      <4>2. ~Closed(T)
        <5>1. Closed(T) => U = T
          BY DEF Closed
        <5> QED BY <3>2, <5>1
      <4>3. Cardinality(T) \in Nat /\ Cardinality(U) \in Nat
        BY <1>3, <2>2, <2>3
      <4> QED BY <2>2, <4>1, <4>2, <4>3
    <3> QED BY <3>1, <3>2
  <2> QED BY <2>1, <2>3, <2>4, <2>5
<1>8. \A k \in Nat : Good(k)
  <2> SUFFICES ASSUME Bad # {} PROVE FALSE
    OBVIOUS
  <2>1. PICK k \in Bad : \A j \in Bad : k <= j
    <3>1. Bad \subseteq Nat
      OBVIOUS
    <3> HIDE DEF Bad
    <3> QED BY <3>1, Least
  <2> HIDE DEF Good
  <2>2. k \in Nat /\ k # 0 /\ ~Good(k)
    BY <1>6
  <2>3. k - 1 \in Nat /\ Good(k - 1)
    BY <2>1, <2>2
  <2>4. Good((k - 1) + 1)
    BY <1>7, <2>3
  <2> QED BY <2>2, <2>4
<1>9. Good(N)
  BY <1>3, <1>8
<1>10. Closed(f[N])
  <2>1. CASE Cardinality(f[N]) >= N
    <3>1. f[N] = Nodes
      BY <1>3, <1>9, <2>1, NodesAssumption, FS_Subset DEF N
    <3> QED BY <3>1, PartsAreNodes DEF Closed
  <2> QED BY <1>9, <2>1
<1> QED BY <1>1, <1>9, <1>10

\* The closure of a schema is the schema and the closures of its parts.
LEMMA ClosureOf ==
  ASSUME document \in Documents, NEW n \in Nodes
  PROVE  /\ Closure({n}) \in SUBSET Nodes
         /\ Cardinality(Closure({n})) \in Nat \ {0}
         /\ Closure({n}) = {n} \cup UNION {Closure({m}) : m \in Parts(n)}
<1>1. Parts(n) \in SUBSET Nodes
  BY PartsAreNodes
<1>2. /\ Closure({n}) \in SUBSET Nodes /\ n \in Closure({n}) /\ Closed(Closure({n}))
      /\ \A C : n \in C /\ Closed(C) => Closure({n}) \subseteq C
  <2>1. {n} \in SUBSET Nodes
    OBVIOUS
  <2> QED BY <2>1, ClosureIsLeast
<1>3. ASSUME NEW m \in Parts(n)
      PROVE  /\ m \in Closure({m}) /\ Closed(Closure({m}))
             /\ Closure({m}) \subseteq Closure({n})
  <2>1. {m} \in SUBSET Nodes
    BY <1>1
  <2>2. m \in Closure({n})
    BY <1>2 DEF Closed
  <2> QED BY <1>2, <2>1, <2>2, ClosureIsLeast
<1> DEFINE U == {n} \cup UNION {Closure({m}) : m \in Parts(n)}
<1>4. U \subseteq Closure({n})
  BY <1>2, <1>3
<1>5. Closed(U)
  <2> SUFFICES ASSUME NEW p \in U, NEW q \in Parts(p) PROVE q \in U
    BY DEF Closed
  <2>1. CASE p = n
    BY <1>3, <2>1
  <2>2. CASE p # n
    <3>1. PICK m \in Parts(n) : p \in Closure({m})
      BY <2>2
    <3>2. q \in Closure({m})
      BY <1>3, <3>1 DEF Closed
    <3> QED BY <3>1, <3>2
  <2> QED BY <2>1, <2>2
<1>6. Closure({n}) = U
  <2>1. Closure({n}) \subseteq U
    BY <1>2, <1>5
  <2> QED BY <1>4, <2>1
<1>7. Cardinality(Closure({n})) \in Nat \ {0}
  <2>1. IsFiniteSet(Closure({n}))
    BY <1>2, NodesAssumption, FS_Subset
  <2> QED BY <1>2, <2>1, FS_CardinalityType, FS_EmptySet
<1> QED BY <1>2, <1>6, <1>7

(* A part is put together from fewer schemas, if none is made of itself. *)
LEMMA PartIsSmaller ==
  ASSUME document \in Documents, NEW n \in Nodes, ~Circular(n), NEW m \in Parts(n)
  PROVE  /\ m \in Nodes /\ Closure({m}) \subseteq Closure({n})
         /\ Cardinality(Closure({m})) + 1 <= Cardinality(Closure({n}))
<1>1. Parts(n) \in SUBSET Nodes /\ m \in Nodes
  BY PartsAreNodes
<1>2. Closure({m}) \subseteq Closure({n}) /\ n \in Closure({n})
  <2>1. Closure({n}) = {n} \cup UNION {Closure({p}) : p \in Parts(n)}
    BY ClosureOf
  <2> QED BY <2>1, Zenon
<1>3. n \notin Closure({m})
  <2>1. n \notin Closure(Parts(n))
    BY DEF Circular
  <2>2. m \in Closure(Parts(n)) /\ Closed(Closure(Parts(n)))
    BY <1>1, ClosureIsLeast
  <2>3. Closure({m}) \subseteq Closure(Parts(n))
    <3>1. {m} \in SUBSET Nodes /\ {m} \subseteq Closure(Parts(n))
      BY <1>1, <2>2
    <3> QED BY <2>2, <3>1, ClosureIsLeast
  <2> QED BY <2>1, <2>3
<1>4. IsFiniteSet(Closure({n}))
  BY ClosureOf, NodesAssumption, FS_Subset
<1>5. Cardinality(Closure({m})) \in Nat /\ Cardinality(Closure({n})) \in Nat
  BY <1>1, ClosureOf
<1>6. Cardinality(Closure({m})) <= Cardinality(Closure({n}))
      /\ Cardinality(Closure({m})) # Cardinality(Closure({n}))
  BY <1>2, <1>3, <1>4, FS_Subset
<1> QED BY <1>1, <1>2, <1>5, <1>6

-----------------------------------------------------------------------------
(***************************************************************************)
(* Values, what lies in them, and what a merge makes of them.              *)
(***************************************************************************)
LEMMA Greatest ==
  ASSUME NEW k \in Nat, NEW T \in SUBSET (0..k), T # {}
  PROVE  \E x \in T : \A y \in T : y <= x
<1> DEFINE U == {k - y : y \in T}
<1>1. U \in SUBSET Nat /\ U # {}
  <2>1. \A y \in T : k - y \in Nat
    OBVIOUS
  <2>2. PICK y \in T : TRUE
    OBVIOUS
  <2>3. k - y \in U
    OBVIOUS
  <2> QED BY <2>1, <2>3
<1>2. PICK u \in U : \A z \in U : u <= z
  <2> HIDE DEF U
  <2> QED BY <1>1, Least
<1>3. PICK x \in T : u = k - x
  OBVIOUS
<1>4. \A y \in T : k - y \in U
  OBVIOUS
<1>5. \A y \in T : y <= x
  <2>1. \A y \in T : y \in Int
    OBVIOUS
  <2> HIDE DEF U
  <2>2. \A y \in T : k - x <= k - y
    BY <1>2, <1>3, <1>4
  <2> QED BY <2>1, <2>2
<1> QED BY <1>5

LEMMA Kinds ==
  /\ Nil.kind = "null" /\ Leaf.kind = "leaf"
  /\ \A x : Integer(x).kind = "integer" /\ Integer(x).value = x
  /\ \A x : Object(x).kind = "object" /\ Object(x).fields = x
  /\ \A x : Array(x).kind = "array" /\ Array(x).items = x
BY DEF Nil, Leaf, Integer, Object, Array

LEMMA InsideOf ==
  /\ Inside(Nil) = {} /\ Inside(Leaf) = {}
  /\ \A x : Inside(Integer(x)) = {}
  /\ \A x : Inside(Object(x)) = {x[f] : f \in DOMAIN x}
  /\ \A x : Inside(Array(x)) = {x[i] : i \in DOMAIN x}
<1>1. \A v : v.kind \notin {"object", "array"} => Inside(v) = {}
  BY DEF Inside
<1>2. \A v : v.kind = "object" => Inside(v) = {v.fields[f] : f \in DOMAIN v.fields}
  BY DEF Inside
<1>3. \A v : v.kind = "array" => Inside(v) = {v.items[i] : i \in DOMAIN v.items}
  BY DEF Inside
<1>4. Inside(Nil) = {} /\ Inside(Leaf) = {} /\ \A x : Inside(Integer(x)) = {}
  BY <1>1, Kinds
<1>5. ASSUME NEW x PROVE Inside(Object(x)) = {x[f] : f \in DOMAIN x}
  <2> DEFINE v == Object(x)
  <2>1. v.kind = "object" /\ v.fields = x
    BY Kinds
  <2> HIDE DEF v
  <2>2. Inside(v) = {v.fields[f] : f \in DOMAIN v.fields}
    BY <1>2, <2>1
  <2>3. Inside(v) = {x[f] : f \in DOMAIN x}
    BY <2>1, <2>2
  <2> QED BY <2>3 DEF v
<1>6. ASSUME NEW x PROVE Inside(Array(x)) = {x[i] : i \in DOMAIN x}
  <2> DEFINE v == Array(x)
  <2>1. v.kind = "array" /\ v.items = x
    BY Kinds
  <2> HIDE DEF v
  <2>2. Inside(v) = {v.items[i] : i \in DOMAIN v.items}
    BY <1>3, <2>1
  <2>3. Inside(v) = {x[i] : i \in DOMAIN x}
    BY <2>1, <2>2
  <2> QED BY <2>3 DEF v
<1> QED BY <1>4, <1>5, <1>6

\* All fields of all objects among the parts, and no others.
Overlaid(k, parts, fields) ==
    /\ DOMAIN fields = UNION {DOMAIN parts[i].fields :
                                i \in {j \in 0..k : parts[j].kind = "object"}}
    /\ \A f \in DOMAIN fields :
          \E i \in 0..k : /\ parts[i].kind = "object"
                          /\ f \in DOMAIN parts[i].fields
                          /\ fields[f] = parts[i].fields[f]

Merged(k, parts, v) ==
    \/ \E i \in 0..k : parts[i].kind \notin {"object", "null"} /\ v = parts[i]
    \/ /\ \A i \in 0..k : parts[i].kind \in {"object", "null"}
       /\ \E fields : v = Object(fields) /\ Overlaid(k, parts, fields)

LEMMA MergeIs ==
  ASSUME NEW k \in Nat, NEW parts, DOMAIN parts = 0..k
  PROVE  Merged(k, parts, MergeParts(parts))
<1> DEFINE others == {i \in DOMAIN parts : parts[i].kind \notin {"object", "null"}}
           maps == {i \in DOMAIN parts : parts[i].kind = "object"}
           With(f) == {i \in maps : f \in DOMAIN parts[i].fields}
           Last(S) == CHOOSE i \in S : \A j \in S : j <= i
           first == CHOOSE i \in others : \A j \in others : i <= j
           fields == [f \in UNION {DOMAIN parts[i].fields : i \in maps} |->
                        parts[Last(With(f))].fields[f]]
<1>1. MergeParts(parts) = IF others # {} THEN parts[first] ELSE Object(fields)
  BY DEF MergeParts
<1>2. CASE others # {}
  <2>1. others \in SUBSET Nat
    OBVIOUS
  <2>2. \E i \in others : \A j \in others : i <= j
    <3> HIDE DEF others
    <3> QED BY <1>2, <2>1, Least
  <2>3. first \in others
    BY <2>2, Zenon
  <2>4. first \in 0..k /\ parts[first].kind \notin {"object", "null"}
    BY <2>3
  <2> HIDE DEF others, first, fields
  <2> QED BY <1>1, <1>2, <2>4 DEF Merged
<1>3. CASE others = {}
  <2>1. MergeParts(parts) = Object(fields)
    BY <1>1, <1>3
  <2>2. \A i \in 0..k : parts[i].kind \in {"object", "null"}
    BY <1>3
  <2>3. DOMAIN fields = UNION {DOMAIN parts[i].fields :
                                 i \in {j \in 0..k : parts[j].kind = "object"}}
    <3>1. maps = {j \in 0..k : parts[j].kind = "object"}
      OBVIOUS
    <3>2. DOMAIN fields = UNION {DOMAIN parts[i].fields : i \in maps}
      BY Zenon
    <3> QED BY <3>1, <3>2, Zenon
  <2>4. ASSUME NEW f \in DOMAIN fields
        PROVE  \E i \in 0..k : /\ parts[i].kind = "object"
                               /\ f \in DOMAIN parts[i].fields
                               /\ fields[f] = parts[i].fields[f]
    <3>1. fields[f] = parts[Last(With(f))].fields[f]
      BY Zenon
    <3>2. With(f) \in SUBSET (0..k) /\ With(f) # {}
      <4>1. PICK i \in maps : f \in DOMAIN parts[i].fields
        BY Zenon
      <4> QED BY <4>1
    <3> DEFINE T == With(f)
    <3>3. Last(T) \in T
      <4> HIDE DEF T
      <4>1. \E i \in T : \A j \in T : j <= i
        BY <3>2, Greatest DEF T
      <4> QED BY <4>1, Zenon
    <3>4. Last(T) \in 0..k /\ parts[Last(T)].kind = "object" /\ f \in DOMAIN parts[Last(T)].fields
      BY <3>3, Zenon
    <3> HIDE DEF fields, Last, With
    <3> QED BY <3>1, <3>4
  <2> HIDE DEF fields
  <2>5. Overlaid(k, parts, fields)
    BY <2>3, <2>4 DEF Overlaid
  <2> QED BY <2>1, <2>2, <2>5 DEF Merged
<1> QED BY <1>2, <1>3

-----------------------------------------------------------------------------
(***************************************************************************)
(* One call of generate, whatever the calls it makes return.               *)
(***************************************************************************)
\* What lies in v comes from the calls for what n contains.
FilledFrom(calls, depth, n, v) ==
    \A w \in Inside(v) : \E m \in Contents(n) : w \in calls[depth + 1][m]

LEMMA SequenceIs ==
  ASSUME NEW S, NEW q \in Seq(S)
  PROVE  Len(q) \in Nat /\ DOMAIN q = 1..Len(q)
OBVIOUS

LEMMA Chosen ==
  ASSUME NEW sets, NEW c \in Choices(sets)
  PROVE  DOMAIN c = DOMAIN sets /\ \A i \in DOMAIN sets : c[i] \in sets[i]
BY DEF Choices

\* An object with a field for each property.
LEMMA OwnFields ==
  ASSUME NEW n, NEW calls, NEW depth, NEW fields,
         fields \in Choices([f \in DOMAIN Schema(n).properties |->
                               calls[depth + 1][Schema(n).properties[f]]])
  PROVE  /\ DOMAIN fields = DOMAIN Schema(n).properties
         /\ FilledFrom(calls, depth, n, Object(fields))
<1> DEFINE p == Schema(n).properties
           sets == [f \in DOMAIN p |-> calls[depth + 1][p[f]]]
<1>1. fields \in Choices(sets)
  OBVIOUS
<1>2. DOMAIN sets = DOMAIN p /\ \A f \in DOMAIN p : sets[f] = calls[depth + 1][p[f]]
  OBVIOUS
<1>3. \A f \in DOMAIN p : p[f] \in Contents(n)
  BY DEF Contents
<1> HIDE DEF p, sets
<1>4. DOMAIN fields = DOMAIN p /\ \A f \in DOMAIN p : fields[f] \in calls[depth + 1][p[f]]
  BY <1>1, <1>2, Chosen
<1>5. FilledFrom(calls, depth, n, Object(fields))
  <2>1. Inside(Object(fields)) = {fields[f] : f \in DOMAIN fields}
    BY InsideOf
  <2> QED BY <1>3, <1>4, <2>1 DEF FilledFrom
<1> QED BY <1>4, <1>5 DEF p

\* References, choices and allOf.
LEMMA GeneratedComposite ==
  ASSUME document \in Documents, NEW n \in Nodes, NEW one, NEW two, NEW depth,
         NEW v \in Generated(one, two, depth, n)
  PROVE  /\ Schema(n).ref # None =>
               Schema(n).ref \in Parts(n) /\ v \in one[depth][Schema(n).ref]
         /\ Schema(n).ref = None /\ Schema(n).allOf = <<>> /\ Schema(n).oneOf # <<>> =>
               \E m \in Parts(n) : v \in two[depth][m]
         /\ Schema(n).ref = None /\ Schema(n).allOf # <<>> =>
               \E parts : 
                  /\ DOMAIN parts = 0..Len(Schema(n).allOf)
                  /\ v = MergeParts(parts)
                  /\ \E fields : /\ parts[0] = Object(fields)
                                 /\ DOMAIN fields = DOMAIN Schema(n).properties
                                 /\ FilledFrom(two, depth, n, Object(fields))
                  /\ \A i \in 1..Len(Schema(n).allOf) :
                        /\ Schema(n).allOf[i] \in Parts(n)
                        /\ parts[i] \in two[depth][Schema(n).allOf[i]]
<1> DEFINE s == Schema(n)
<1>1. Compiled(s)
  BY SchemaIs
<1>2. CASE s.ref # None
  <2>1. v \in one[depth][s.ref]
    BY <1>2 DEF Generated
  <2>2. s.ref \in Parts(n)
    BY <1>2 DEF Parts
  <2> QED BY <1>2, <2>1, <2>2
<1>3. CASE s.ref = None /\ s.allOf = <<>> /\ s.oneOf # <<>>
  <2>1. v \in UNION {two[depth][m] : m \in Branches(s)}
    BY <1>3 DEF Generated
  <2>2. Parts(n) = Branches(s)
    BY <1>3 DEF Parts
  <2> QED BY <1>3, <2>1, <2>2
<1>4. CASE s.ref = None /\ s.allOf # <<>>
  <2> DEFINE k == Len(s.allOf)
             Fields == {Object(fields) : fields \in
                          Choices([f \in DOMAIN s.properties |-> two[depth + 1][s.properties[f]]])}
             Own == IF DOMAIN s.properties = {} THEN {Object(NoFields)} ELSE Fields
             Members == [i \in 0..k |-> IF i = 0 THEN Own ELSE two[depth][s.allOf[i]]]
  <2>1. v \in {MergeParts(parts) : parts \in Choices(Members)}
    BY <1>4 DEF Generated
  <2>2. PICK parts \in Choices(Members) : v = MergeParts(parts)
    BY <2>1
  <2>3. k \in Nat /\ DOMAIN s.allOf = 1..k
    <3>1. s.allOf \in Seq(Nodes)
      BY <1>1 DEF Compiled
    <3> DEFINE q == s.allOf
    <3> HIDE DEF q
    <3>2. Len(q) \in Nat /\ DOMAIN q = 1..Len(q)
      BY <3>1, SequenceIs DEF q
    <3> QED BY <3>2 DEF q
  <2>4. DOMAIN Members = 0..k /\ Members[0] = Own
        /\ \A i \in 1..k : Members[i] = two[depth][s.allOf[i]]
    <3>1. \A i \in 0..k : Members[i] = IF i = 0 THEN Own ELSE two[depth][s.allOf[i]]
      BY Zenon
    <3>2. DOMAIN Members = 0..k
      BY Zenon
    <3> HIDE DEF k, Own, Members
    <3>3. 0 \in 0..k /\ \A i \in 1..k : i \in 0..k /\ i # 0
      BY <2>3
    <3> QED BY <3>1, <3>2, <3>3, Zenon
  <2>5. /\ DOMAIN parts = 0..k /\ parts[0] \in Own
        /\ \A i \in 1..k : parts[i] \in two[depth][s.allOf[i]]
    <3> HIDE DEF Members, Own, k, s
    <3>1. DOMAIN parts = 0..k /\ \A i \in 0..k : parts[i] \in Members[i]
      BY <2>2, <2>4, Chosen
    <3>2. 0 \in 0..k /\ \A i \in 1..k : i \in 0..k
      BY <2>3
    <3> QED BY <2>4, <3>1, <3>2
  <2>6. \A i \in 1..k : s.allOf[i] \in Parts(n)
    <3>1. Parts(n) = {s.allOf[i] : i \in DOMAIN s.allOf}
      BY <1>4 DEF Parts
    <3> QED BY <2>3, <3>1
  <2>7. \E fields : /\ parts[0] = Object(fields)
                    /\ DOMAIN fields = DOMAIN s.properties
                    /\ FilledFrom(two, depth, n, Object(fields))
    <3>1. CASE DOMAIN s.properties = {}
      <4>1. parts[0] = Object(NoFields) /\ DOMAIN NoFields = {}
        BY <2>5, <3>1 DEF NoFields
      <4>2. FilledFrom(two, depth, n, Object(NoFields))
        BY <4>1, InsideOf DEF FilledFrom
      <4> QED BY <3>1, <4>1, <4>2
    <3>2. CASE DOMAIN s.properties # {}
      <4>1. PICK fields \in Choices([f \in DOMAIN s.properties |->
                                       two[depth + 1][s.properties[f]]]) :
               parts[0] = Object(fields)
        BY <2>5, <3>2
      <4> QED BY <4>1, OwnFields
    <3> QED BY <3>1, <3>2
  <2> HIDE DEF Members, Own
  <2> QED BY <1>4, <2>2, <2>5, <2>6, <2>7
<1> QED BY <1>2, <1>3, <1>4

\* All other schemas.
LEMMA GeneratedPlain ==
  ASSUME document \in Documents, NEW n \in Nodes, NEW one, NEW two, NEW depth,
         NEW v \in Generated(one, two, depth, n),
         ~Composite(n), Schema(n).oneOf = <<>>
  PROVE  LET s == Schema(n)
             type == ResolveComplexType(s)
         IN  \/ type = "null" /\ v = Nil
             \/ type = "integer" /\ \E x \in GenerateInteger(s.bounds) : v = Integer(x)
             \/ type = "string" /\ v = Leaf
             \/ type \in {"object", "array"} /\ s.example # None
             \/ type = "object" /\ AtLimit(depth) /\ v = Nil
             \/ type = "array" /\ AtLimit(depth) /\ v = Array(<<>>)
             \/ /\ type = "object" /\ ~AtLimit(depth)
                /\ \E fields : /\ v = Object(fields)
                               /\ s.additional = None =>
                                     DOMAIN fields = DOMAIN s.properties
                /\ FilledFrom(one, depth, n, v)
             \/ /\ type = "array" /\ ~AtLimit(depth)
                /\ \E items : v = Array(items)
                /\ FilledFrom(one, depth, n, v)
<1> DEFINE s == Schema(n)
           type == ResolveComplexType(s)
<1>1. Compiled(s)
  BY SchemaIs
<1>2. s.ref = None /\ s.allOf = <<>> /\ s.oneOf = <<>>
  BY DEF Composite
<1>3. type \in {"null", "integer", "string", "object", "array"}
  BY <1>1 DEF ResolveComplexType, Compiled
<1> HIDE DEF type
<1> DEFINE Fields == {Object(fields) : fields \in
                        Choices([f \in DOMAIN s.properties |-> one[depth + 1][s.properties[f]]])}
           Entries ==
             IF s.additional = None THEN {Object(NoFields)}
             ELSE {Object(fields) : fields \in [MapKeys -> one[depth + 1][s.additional]]}
           Items ==
             IF s.tuple # <<>>
             THEN Choices([i \in DOMAIN s.tuple |-> one[depth + 1][s.tuple[i]]])
             ELSE IF s.items = None THEN {<<>>}
             ELSE [1..ArrayLength(s) -> one[depth + 1][s.items]]
<1>4. v \in CASE type = "null" -> {Nil}
               [] type = "integer" -> {Integer(x) : x \in GenerateInteger(s.bounds)}
               [] type = "string" -> {Leaf}
               [] type = "object" ->
                    IF s.example # None THEN {s.example}
                    ELSE IF AtLimit(depth) THEN {Nil}
                    ELSE IF DOMAIN s.properties # {} THEN Fields
                    ELSE Entries
               [] type = "array" ->
                    IF s.example # None THEN {s.example}
                    ELSE IF AtLimit(depth) THEN {Array(<<>>)}
                    ELSE {Array(items) : items \in Items}
  BY <1>2, Zenon DEF Generated, type
<1> HIDE DEF Fields, Entries, Items
<1>5. CASE type \in {"null", "integer", "string"}
  BY <1>4, <1>5 DEF type
<1>6. CASE type = "object"
  <2>1. \/ s.example # None
        \/ AtLimit(depth) /\ v = Nil
        \/ ~AtLimit(depth) /\ DOMAIN s.properties # {} /\ v \in Fields
        \/ ~AtLimit(depth) /\ DOMAIN s.properties = {} /\ v \in Entries
    BY <1>4, <1>6
  <2>2. ASSUME v \in Fields
        PROVE  /\ \E fields : v = Object(fields) /\ DOMAIN fields = DOMAIN s.properties
               /\ FilledFrom(one, depth, n, v)
    BY <2>2, OwnFields DEF Fields
  <2>3. ASSUME v \in Entries, DOMAIN s.properties = {}
        PROVE  /\ \E fields : /\ v = Object(fields)
                              /\ s.additional = None => DOMAIN fields = DOMAIN s.properties
               /\ FilledFrom(one, depth, n, v)
    <3>1. CASE s.additional = None
      <4>1. v = Object(NoFields) /\ DOMAIN NoFields = {}
        BY <2>3, <3>1 DEF Entries, NoFields
      <4>2. FilledFrom(one, depth, n, v)
        BY <4>1, InsideOf DEF FilledFrom
      <4> QED BY <2>3, <4>1, <4>2
    <3>2. CASE s.additional # None
      <4>1. PICK fields \in [MapKeys -> one[depth + 1][s.additional]] : v = Object(fields)
        BY <2>3, <3>2 DEF Entries
      <4>2. s.additional \in Contents(n)
        BY <3>2 DEF Contents
      <4>3. FilledFrom(one, depth, n, v)
        <5>1. Inside(v) = {fields[f] : f \in DOMAIN fields}
          BY <4>1, InsideOf, Zenon
        <5>2. \A f \in DOMAIN fields : fields[f] \in one[depth + 1][s.additional]
          BY <4>1
        <5> QED BY <4>2, <5>1, <5>2 DEF FilledFrom
      <4> QED BY <3>2, <4>1, <4>3
    <3> QED BY <3>1, <3>2
  <2> QED BY <1>6, <2>1, <2>2, <2>3 DEF type
<1>7. CASE type = "array"
  <2>1. \/ s.example # None
        \/ AtLimit(depth) /\ v = Array(<<>>)
        \/ ~AtLimit(depth) /\ \E items \in Items : v = Array(items)
    BY <1>4, <1>7
  <2>2. ASSUME NEW items \in Items, v = Array(items)
        PROVE  FilledFrom(one, depth, n, v)
    <3>0. Inside(v) = {items[i] : i \in DOMAIN items}
      BY <2>2, InsideOf
    <3>1. CASE s.tuple # <<>>
      <4> DEFINE sets == [i \in DOMAIN s.tuple |-> one[depth + 1][s.tuple[i]]]
      <4>1. items \in Choices(sets)
        BY <2>2, <3>1 DEF Items
      <4>2. DOMAIN sets = DOMAIN s.tuple
            /\ \A i \in DOMAIN s.tuple : sets[i] = one[depth + 1][s.tuple[i]]
        OBVIOUS
      <4> HIDE DEF sets
      <4>3. DOMAIN items = DOMAIN s.tuple
            /\ \A i \in DOMAIN s.tuple : items[i] \in one[depth + 1][s.tuple[i]]
        BY <4>1, <4>2, Chosen
      <4>4. \A i \in DOMAIN s.tuple : s.tuple[i] \in Contents(n)
        BY DEF Contents
      <4> QED BY <3>0, <4>3, <4>4 DEF FilledFrom
    <3>2. CASE s.tuple = <<>> /\ s.items = None
      <4>1. items = <<>> /\ DOMAIN items = {}
        BY <2>2, <3>2 DEF Items
      <4> QED BY <3>0, <4>1 DEF FilledFrom
    <3>3. CASE s.tuple = <<>> /\ s.items # None
      <4>1. items \in [1..ArrayLength(s) -> one[depth + 1][s.items]]
        BY <2>2, <3>3 DEF Items
      <4>2. s.items \in Contents(n)
        BY <3>3 DEF Contents
      <4>3. \A i \in DOMAIN items : items[i] \in one[depth + 1][s.items]
        BY <4>1
      <4> QED BY <3>0, <4>2, <4>3 DEF FilledFrom
    <3> QED BY <3>1, <3>2, <3>3
  <2> QED BY <1>7, <2>1, <2>2 DEF type
<1> QED BY <1>3, <1>5, <1>6, <1>7

-----------------------------------------------------------------------------
(***************************************************************************)
(* The same of the generator itself.                                       *)
(***************************************************************************)
\* What n generates at depth with left calls to go.
Made(left, depth, n) == Values[left][depth][n]

\* What a call made with left calls to go has left.
Callee(left, l) == l \in Nat /\ l < left /\ left <= l + 2

\* What lies in v comes from calls for what n contains.
Filled(left, depth, n, v) ==
    \A w \in Inside(v) : \E m \in Contents(n) : w \in Made(left, depth + 1, m)

LEMMA ValuesOf ==
  ASSUME NEW left \in Nat, NEW depth \in Nat, NEW n \in Nodes
  PROVE  /\ left = 0 => Made(left, depth, n) = {Nil}
         /\ left # 0 => Made(left, depth, n) =
                           Generated(Values[Spend(left, 1)], Values[Spend(left, 2)], depth, n)
<1> DEFINE G(d, m) == IF left = 0 THEN {Nil}
                      ELSE Generated(Values[Spend(left, 1)], Values[Spend(left, 2)], d, m)
<1>1. Values[left] = ValuesRow(Values, left)
  BY ValuesAre, Zenon
<1>2. PICK V : V = Values[left]
  BY Zenon
<1>3. V = [d \in Nat |-> [m \in Nodes |-> G(d, m)]]
  BY <1>1, <1>2 DEF ValuesRow
<1> HIDE DEF G
<1>4. V[depth][n] = G(depth, n)
  BY <1>3
<1>5. Made(left, depth, n) = G(depth, n)
  BY <1>2, <1>4, Zenon DEF Made
<1> QED BY <1>5, Zenon DEF G

LEMMA Callees ==
  ASSUME NEW left \in Nat, left # 0
  PROVE  Callee(left, Spend(left, 1)) /\ Callee(left, Spend(left, 2))
BY DEF Callee, Spend

LEMMA FilledIs ==
  ASSUME NEW l, NEW depth, NEW n, NEW v
  PROVE  FilledFrom(Values[l], depth, n, v) <=> Filled(l, depth, n, v)
BY DEF Filled, FilledFrom, Made

\* Objects with the properties of n, and a value for each member of its allOf.
PartsOf(left, depth, n, parts) ==
    /\ DOMAIN parts = 0..Len(Schema(n).allOf)
    /\ \E fields : /\ parts[0] = Object(fields)
                   /\ DOMAIN fields = DOMAIN Schema(n).properties
                   /\ Filled(left, depth, n, Object(fields))
    /\ \A i \in 1..Len(Schema(n).allOf) :
          /\ Schema(n).allOf[i] \in Parts(n)
          /\ parts[i] \in Made(left, depth, Schema(n).allOf[i])

LEMMA MadeComposite ==
  ASSUME document \in Documents, NEW n \in Nodes, NEW left \in Nat, left # 0,
         NEW depth \in Nat, NEW v \in Made(left, depth, n),
         Composite(n) \/ Schema(n).oneOf # <<>>
  PROVE  \/ /\ Schema(n).ref # None \/ Schema(n).allOf = <<>>
            /\ \E m \in Parts(n) : \E l : Callee(left, l) /\ v \in Made(l, depth, m)
         \/ /\ Schema(n).ref = None /\ Schema(n).allOf # <<>>
            /\ \E l, parts : /\ Callee(left, l) /\ PartsOf(l, depth, n, parts)
                             /\ v = MergeParts(parts)
<1> DEFINE a == Spend(left, 1)
           b == Spend(left, 2)
<1>1. Callee(left, a) /\ Callee(left, b)
  BY Callees
<1>2. v \in Generated(Values[a], Values[b], depth, n)
  BY ValuesOf
<1> HIDE DEF a, b
<1>3. CASE Schema(n).ref # None
  <2>1. Schema(n).ref \in Parts(n) /\ v \in Values[a][depth][Schema(n).ref]
    BY <1>2, <1>3, GeneratedComposite
  <2> QED BY <1>1, <1>3, <2>1, Zenon DEF Made
<1>4. CASE Schema(n).ref = None /\ Schema(n).allOf = <<>> /\ Schema(n).oneOf # <<>>
  <2>1. PICK m \in Parts(n) : v \in Values[b][depth][m]
    BY <1>2, <1>4, GeneratedComposite
  <2> QED BY <1>1, <1>4, <2>1, Zenon DEF Made
<1>5. CASE Schema(n).ref = None /\ Schema(n).allOf # <<>>
  <2>1. \E parts :
           /\ DOMAIN parts = 0..Len(Schema(n).allOf)
           /\ v = MergeParts(parts)
           /\ \E fields : /\ parts[0] = Object(fields)
                          /\ DOMAIN fields = DOMAIN Schema(n).properties
                          /\ FilledFrom(Values[b], depth, n, Object(fields))
           /\ \A i \in 1..Len(Schema(n).allOf) :
                 /\ Schema(n).allOf[i] \in Parts(n)
                 /\ parts[i] \in Values[b][depth][Schema(n).allOf[i]]
    BY <1>2, <1>5, GeneratedComposite
  <2>2. PICK parts : /\ v = MergeParts(parts)
                     /\ PartsOf(b, depth, n, parts)
    BY <2>1, FilledIs, Zenon DEF Made, PartsOf
  <2> QED BY <1>1, <1>5, <2>2, Zenon
<1> QED BY <1>3, <1>4, <1>5 DEF Composite

LEMMA MadePlain ==
  ASSUME document \in Documents, NEW n \in Nodes, NEW left \in Nat, left # 0,
         NEW depth \in Nat, NEW v \in Made(left, depth, n),
         ~Composite(n), Schema(n).oneOf = <<>>
  PROVE  LET s == Schema(n)
             type == ResolveComplexType(s)
         IN  \/ type = "null" /\ v = Nil
             \/ type = "integer" /\ \E x \in GenerateInteger(s.bounds) : v = Integer(x)
             \/ type = "string" /\ v = Leaf
             \/ type \in {"object", "array"} /\ s.example # None
             \/ type = "object" /\ AtLimit(depth) /\ v = Nil
             \/ type = "array" /\ AtLimit(depth) /\ v = Array(<<>>)
             \/ /\ type = "object" /\ ~AtLimit(depth)
                /\ \E fields : /\ v = Object(fields)
                               /\ s.additional = None =>
                                     DOMAIN fields = DOMAIN s.properties
                /\ \E l : Callee(left, l) /\ Filled(l, depth, n, v)
             \/ /\ type = "array" /\ ~AtLimit(depth)
                /\ \E items : v = Array(items)
                /\ \E l : Callee(left, l) /\ Filled(l, depth, n, v)
<1> DEFINE a == Spend(left, 1)
<1>1. Callee(left, a)
  BY Callees
<1>2. v \in Generated(Values[a], Values[Spend(left, 2)], depth, n)
  BY ValuesOf
<1> HIDE DEF a
<1>3. FilledFrom(Values[a], depth, n, v) => \E l : Callee(left, l) /\ Filled(l, depth, n, v)
  BY <1>1, FilledIs
<1> DEFINE F == FilledFrom(Values[a], depth, n, v)
<1> QED BY <1>2, <1>3, GeneratedPlain

-----------------------------------------------------------------------------
(***************************************************************************)
(* Levels of the answer and depths of the document.                        *)
(***************************************************************************)
LEMMA LevelOf ==
  /\ Level[0] = {answer}
  /\ \A k \in Nat : Level[k + 1] = UNION {Inside(v) : v \in Level[k]}
<1>1. \A k \in Nat : Level[k] = LevelRow(Level, k)
  BY LevelsAre, Zenon
<1>2. ASSUME NEW k \in Nat PROVE Level[k + 1] = UNION {Inside(v) : v \in Level[k]}
  <2>1. k + 1 \in Nat /\ k + 1 # 0 /\ (k + 1) - 1 = k
    OBVIOUS
  <2> QED BY <1>1, <2>1, Zenon DEF LevelRow
<1>3. Level[0] = LevelRow(Level, 0)
  BY <1>1
<1> QED BY <1>2, <1>3, Zenon DEF LevelRow

LEMMA SchemasOf ==
  /\ AtDepth[0] = Closure({Root})
  /\ \A k \in Nat : AtDepth[k + 1] = Closure(UNION {Contents(n) : n \in AtDepth[k]})
<1>1. \A k \in Nat : AtDepth[k] = SchemasRow(AtDepth, k)
  BY SchemasAre, Zenon
<1>2. ASSUME NEW k \in Nat
      PROVE  AtDepth[k + 1] = Closure(UNION {Contents(n) : n \in AtDepth[k]})
  <2>1. k + 1 \in Nat /\ k + 1 # 0 /\ (k + 1) - 1 = k
    OBVIOUS
  <2> QED BY <1>1, <2>1, Zenon DEF SchemasRow
<1>3. AtDepth[0] = SchemasRow(AtDepth, 0)
  BY <1>1
<1> QED BY <1>2, <1>3, Zenon DEF SchemasRow

\* At each depth lie the parts of what lies there, and one level deeper what
\* it contains.
LEMMA DepthsClosed ==
  ASSUME document \in Documents, NEW k \in Nat
  PROVE  /\ AtDepth[k] \in SUBSET Nodes /\ Closed(AtDepth[k])
         /\ \A n \in AtDepth[k] : Contents(n) \subseteq AtDepth[k + 1]
<1> DEFINE Within(i) == AtDepth[i] \in SUBSET Nodes /\ Closed(AtDepth[i])
           Below(i) == UNION {Contents(n) : n \in AtDepth[i]}
           Bad == {i \in Nat : ~Within(i)}
<1>1. Within(0)
  <2>1. {Root} \in SUBSET Nodes
    BY NodesAssumption
  <2> QED BY <2>1, SchemasOf, ClosureIsLeast
<1>2. ASSUME NEW i \in Nat, Within(i)
      PROVE  Within(i + 1) /\ Below(i) \subseteq AtDepth[i + 1]
  <2>1. Below(i) \in SUBSET Nodes
    BY <1>2, PartsAreNodes
  <2>2. AtDepth[i + 1] = Closure(Below(i))
    BY SchemasOf
  <2> HIDE DEF Below
  <2> QED BY <2>1, <2>2, ClosureIsLeast
<1>3. \A i \in Nat : Within(i)
  <2> SUFFICES ASSUME Bad # {} PROVE FALSE
    OBVIOUS
  <2>1. PICK i \in Bad : \A j \in Bad : i <= j
    <3>1. Bad \subseteq Nat
      OBVIOUS
    <3> HIDE DEF Bad
    <3> QED BY <3>1, Least
  <2> HIDE DEF Within
  <2>2. i \in Nat /\ i # 0 /\ ~Within(i)
    BY <1>1
  <2>3. i - 1 \in Nat /\ Within(i - 1)
    BY <2>1, <2>2
  <2>4. Within((i - 1) + 1)
    BY <1>2, <2>3
  <2> QED BY <2>2, <2>4
<1>4. Below(k) \subseteq AtDepth[k + 1]
  BY <1>2, <1>3
<1> QED BY <1>3, <1>4

-----------------------------------------------------------------------------
(***************************************************************************)
(* Where the contents of a value come from.                                *)
(***************************************************************************)
\* No object with allOf and properties of its own.
HeldBack(A) ==
    \A p \in A : Schema(p).allOf = <<>> \/ DOMAIN Schema(p).properties = {}

\* w was made for what a schema of A contains, with at most so many calls less
\* than left as a value of n is put together from.
ComesFrom(A, left, depth, n, w) ==
    \E p \in A : \E m \in Contents(p) : \E l \in Nat :
        /\ w \in Made(l, depth + 1, m)
        /\ HeldBack(A) => depth < maxDepth
        /\ (\A q \in A : ~Circular(q)) => left <= l + 2 * Cardinality(Closure({n}))

LEMMA ThroughPart ==
  ASSUME document \in Documents, NEW A \in SUBSET Nodes, NEW n \in A, NEW m \in Parts(n),
         NEW left \in Nat, NEW l, Callee(left, l), NEW depth \in Nat, NEW w,
         ComesFrom(A, l, depth, m, w)
  PROVE  ComesFrom(A, left, depth, n, w)
<1> DEFINE c == Cardinality(Closure({m}))
           d == Cardinality(Closure({n}))
           From(p, q, i) == /\ w \in Made(i, depth + 1, q)
                            /\ HeldBack(A) => depth < maxDepth
                            /\ (\A r \in A : ~Circular(r)) => l <= i + 2 * c
<1>0. PICK p \in A : \E q \in Contents(p) : \E i \in Nat : From(p, q, i)
  BY DEF ComesFrom
<1>1. PICK q \in Contents(p), i \in Nat : From(p, q, i)
  BY <1>0
<1>2. (\A r \in A : ~Circular(r)) => left <= i + 2 * d
  <2> SUFFICES ASSUME \A r \in A : ~Circular(r)
               PROVE  left <= i + 2 * d
    OBVIOUS
  <2>1. m \in Nodes /\ c + 1 <= d
    BY PartIsSmaller
  <2>2. c \in Nat /\ d \in Nat
    BY <2>1, ClosureOf
  <2>3. l <= i + 2 * c
    BY <1>1
  <2>4. l \in Nat /\ left <= l + 2
    BY DEF Callee
  <2> HIDE DEF c, d
  <2> QED BY <2>1, <2>2, <2>3, <2>4
<1> QED BY <1>1, <1>2 DEF ComesFrom

LEMMA FromContents ==
  ASSUME document \in Documents, NEW A \in SUBSET Nodes, NEW n \in A,
         NEW left \in Nat, NEW l, Callee(left, l), NEW depth \in Nat,
         NEW v, Filled(l, depth, n, v), NEW w \in Inside(v),
         HeldBack(A) => depth < maxDepth
  PROVE  ComesFrom(A, left, depth, n, w)
<1> DEFINE d == Cardinality(Closure({n}))
<1>1. PICK m \in Contents(n) : w \in Made(l, depth + 1, m)
  BY DEF Filled
<1>2. d \in Nat \ {0} /\ l \in Nat /\ left <= l + 2
  BY ClosureOf DEF Callee
<1> HIDE DEF d
<1>3. left <= l + 2 * d
  BY <1>2
<1> QED BY <1>1, <1>2, <1>3 DEF ComesFrom, d

LEMMA OriginStep ==
  ASSUME document \in Documents, maxDepth \in Nat,
         NEW A \in SUBSET Nodes, Closed(A), \A p \in A : Schema(p).example = None,
         NEW left \in Nat, NEW depth \in Nat,
         \A l \in Nat : l < left =>
            \A m \in A : \A v \in Made(l, depth, m) : \A w \in Inside(v) :
               ComesFrom(A, l, depth, m, w),
         NEW n \in A, NEW v \in Made(left, depth, n), NEW w \in Inside(v)
  PROVE  ComesFrom(A, left, depth, n, w)
<1> DEFINE s == Schema(n)
<1>1. CASE left = 0
  <2>1. v = Nil
    BY <1>1, ValuesOf
  <2> QED BY <2>1, InsideOf
<1>2. CASE left # 0
  <2>1. Parts(n) \subseteq A
    BY DEF Closed
  <2>2. ASSUME NEW m \in Parts(n), NEW l, Callee(left, l), NEW u \in Made(l, depth, m),
               NEW x \in Inside(u)
        PROVE  ComesFrom(A, left, depth, n, x)
    <3>1. l \in Nat /\ l < left /\ m \in A
      BY <2>1, <2>2 DEF Callee
    <3>2. ComesFrom(A, l, depth, m, x)
      BY <3>1
    <3> QED BY <2>2, <3>2, ThroughPart
  <2>3. CASE ~Composite(n) /\ s.oneOf = <<>>
    <3>1. s.example = None
      OBVIOUS
    <3>2. \/ v = Nil \/ v = Leaf \/ (\E x : v = Integer(x)) \/ v = Array(<<>>)
          \/ ~AtLimit(depth) /\ \E l : Callee(left, l) /\ Filled(l, depth, n, v)
      BY <1>2, <2>3, <3>1, MadePlain
    <3>3. Inside(Array(<<>>)) = {}
      <4>1. \A x : Inside(Array(x)) = {x[i] : i \in DOMAIN x}
        BY InsideOf
      <4>2. DOMAIN <<>> = {}
        OBVIOUS
      <4> QED BY <4>1, <4>2
    <3>4. PICK l : ~AtLimit(depth) /\ Callee(left, l) /\ Filled(l, depth, n, v)
      BY <3>2, <3>3, InsideOf
    <3>5. depth < maxDepth
      BY <3>4 DEF AtLimit
    <3> QED BY <3>4, <3>5, FromContents
  <2>4. CASE Composite(n) \/ s.oneOf # <<>>
    <3>1. CASE \E m \in Parts(n) : \E l : Callee(left, l) /\ v \in Made(l, depth, m)
      BY <2>2, <3>1
    <3>2. ASSUME s.allOf # <<>>, NEW l, NEW parts, Callee(left, l),
                 PartsOf(l, depth, n, parts), v = MergeParts(parts)
          PROVE  ComesFrom(A, left, depth, n, w)
      <4> DEFINE k == Len(s.allOf)
      <4>1. k \in Nat
        BY SchemaIs, SequenceIs DEF Compiled
      <4>2. PICK own : /\ parts[0] = Object(own) /\ DOMAIN own = DOMAIN s.properties
                       /\ Filled(l, depth, n, Object(own))
        BY <3>2 DEF PartsOf
      <4>3. ASSUME NEW i \in 0..k, NEW x \in Inside(parts[i])
            PROVE  ComesFrom(A, left, depth, n, x)
        <5>1. CASE i = 0
          <6>1. Inside(Object(own)) = {own[f] : f \in DOMAIN own}
            BY InsideOf
          <6>2. x \in Inside(Object(own)) /\ DOMAIN s.properties # {}
            BY <4>2, <4>3, <5>1, <6>1
          <6>3. ~HeldBack(A)
            BY <3>2, <6>2 DEF HeldBack
          <6> QED BY <3>2, <4>2, <6>2, <6>3, FromContents
        <5>2. CASE i # 0
          <6>1. i \in 1..k
            BY <4>1, <5>2
          <6>2. s.allOf[i] \in Parts(n) /\ parts[i] \in Made(l, depth, s.allOf[i])
            BY <3>2, <6>1 DEF PartsOf
          <6> QED BY <2>2, <3>2, <4>3, <6>2
        <5> QED BY <5>1, <5>2
      <4>4. DOMAIN parts = 0..k
        BY <3>2 DEF PartsOf
      <4> HIDE DEF k
      <4>5. CASE \E i \in 0..k : v = parts[i]
        BY <4>3, <4>5
      <4>6. Merged(k, parts, v)
        BY <3>2, <4>1, <4>4, MergeIs
      <4>7. CASE ~\E i \in 0..k : v = parts[i]
        <5>0. PICK fields : v = Object(fields) /\ Overlaid(k, parts, fields)
          BY <4>6, <4>7 DEF Merged
        <5>1. Inside(v) = {fields[f] : f \in DOMAIN fields}
          BY <5>0, InsideOf, Zenon
        <5>2. PICK f \in DOMAIN fields : w = fields[f]
          BY <5>1
        <5>3. PICK i \in 0..k : /\ parts[i].kind = "object"
                                /\ f \in DOMAIN parts[i].fields
                                /\ w = parts[i].fields[f]
          BY <5>0, <5>2 DEF Overlaid
        <5>4. w \in Inside(parts[i])
          BY <5>3 DEF Inside
        <5> QED BY <4>3, <5>4
      <4> QED BY <4>5, <4>7
    <3> QED BY <1>2, <2>4, <3>1, <3>2, MadeComposite
  <2> QED BY <2>3, <2>4 DEF Composite
<1> QED BY <1>1, <1>2

-----------------------------------------------------------------------------
\* Whatever lies in a value was made one level deeper.
LEMMA Origin ==
  ASSUME document \in Documents, maxDepth \in Nat,
         NEW A \in SUBSET Nodes, Closed(A), \A p \in A : Schema(p).example = None,
         NEW left \in Nat, NEW depth \in Nat,
         NEW n \in A, NEW v \in Made(left, depth, n), NEW w \in Inside(v)
  PROVE  ComesFrom(A, left, depth, n, w)
<1> DEFINE Fine(l) == \A m \in A : \A u \in Made(l, depth, m) : \A x \in Inside(u) :
                         ComesFrom(A, l, depth, m, x)
           Bad == {l \in Nat : ~Fine(l)}
<1>1. Bad = {}
  <2> SUFFICES ASSUME Bad # {} PROVE FALSE
    OBVIOUS
  <2>1. PICK l \in Bad : \A j \in Bad : l <= j
    <3>1. Bad \subseteq Nat
      OBVIOUS
    <3> HIDE DEF Bad
    <3> QED BY <3>1, Least
  <2>2. l \in Nat /\ ~Fine(l)
    OBVIOUS
  <2>3. \A j \in Nat : j < l => Fine(j)
    <3> HIDE DEF Fine
    <3> QED BY <2>1, <2>2
  <2>4. Fine(l)
    <3> SUFFICES ASSUME NEW m \in A, NEW u \in Made(l, depth, m), NEW x \in Inside(u)
                 PROVE  ComesFrom(A, l, depth, m, x)
      OBVIOUS
    <3> QED BY <2>2, <2>3, OriginStep
  <2> QED BY <2>2, <2>4
<1>2. Fine(left)
  <2> HIDE DEF Fine
  <2> QED BY <1>1
<1> QED BY <1>2

\* A type that no keyword says is not null.
LEMMA NullIsSaid ==
  ASSUME NEW s, ResolveComplexType(s) = "null"
  PROVE  s.type = "null"
BY DEF ResolveComplexType

\* With enough calls left, null is only generated for an object at the limit
\* or where the document says null.
LEMMA NotNull ==
  ASSUME document \in Documents, maxDepth \in Nat,
         NEW A \in SUBSET Nodes, Closed(A),
         \A p \in A : /\ ~Circular(p) /\ Schema(p).example = None
                      /\ Schema(p).type # "null",
         NEW depth \in Nat,
         \/ depth < maxDepth
         \/ \A p \in A : Composite(p) \/ ResolveComplexType(Schema(p)) # "object",
         NEW left \in Nat, NEW n \in A, 2 * Cardinality(Closure({n})) <= left + 1
  PROVE  Nil \notin Made(left, depth, n)
<1> DEFINE Fits(l, m) == 2 * Cardinality(Closure({m})) <= l + 1
           Fine(l) == \A m \in A : Fits(l, m) => Nil \notin Made(l, depth, m)
           Bad == {l \in Nat : ~Fine(l)}
<1>1. Bad = {}
  <2> SUFFICES ASSUME Bad # {} PROVE FALSE
    OBVIOUS
  <2>1. PICK l \in Bad : \A j \in Bad : l <= j
    <3>1. Bad \subseteq Nat
      OBVIOUS
    <3> HIDE DEF Bad
    <3> QED BY <3>1, Least
  <2>2. l \in Nat /\ ~Fine(l)
    OBVIOUS
  <2>3. \A j \in Nat : j < l => Fine(j)
    <3> HIDE DEF Fine
    <3> QED BY <2>1, <2>2
  <2>4. PICK m \in A : Fits(l, m) /\ Nil \in Made(l, depth, m)
    BY <2>2
  <2>5. Cardinality(Closure({m})) \in Nat \ {0} /\ l # 0
    <3>1. Cardinality(Closure({m})) \in Nat \ {0}
      BY ClosureOf
    <3> QED BY <2>2, <2>4, <3>1
  <2>6. CASE ~Composite(m) /\ Schema(m).oneOf = <<>>
    <3>1. ~(ResolveComplexType(Schema(m)) = "object" /\ AtLimit(depth))
      BY <2>6 DEF AtLimit
    <3>2. ResolveComplexType(Schema(m)) # "null"
      BY NullIsSaid
    <3>3. /\ Nil # Leaf /\ \A x : Nil # Integer(x) /\ Nil # Array(x) /\ Nil # Object(x)
      BY Kinds
    <3>4. Schema(m).example = None
      OBVIOUS
    <3> QED BY <2>2, <2>4, <2>5, <2>6, <3>1, <3>2, <3>3, <3>4, MadePlain
  <2>7. CASE Composite(m) \/ Schema(m).oneOf # <<>>
    <3>1. CASE \E p \in Parts(m) : \E j : Callee(l, j) /\ Nil \in Made(j, depth, p)
      <4>0. PICK p \in Parts(m) : \E j : Callee(l, j) /\ Nil \in Made(j, depth, p)
        BY <3>1
      <4>1. PICK j : Callee(l, j) /\ Nil \in Made(j, depth, p)
        BY <4>0
      <4>2. p \in A /\ j \in Nat /\ j < l /\ l <= j + 2
        BY <4>1 DEF Closed, Callee
      <4>3. Cardinality(Closure({p})) + 1 <= Cardinality(Closure({m}))
        BY <4>1, PartIsSmaller
      <4>4. Fits(j, p)
        <5> DEFINE c == Cardinality(Closure({p}))
                   d == Cardinality(Closure({m}))
        <5>1. c \in Nat /\ d \in Nat /\ c + 1 <= d /\ 2 * d <= l + 1
          BY <2>4, <2>5, <4>2, <4>3, ClosureOf
        <5> HIDE DEF c, d
        <5>2. 2 * c <= j + 1
          BY <2>2, <4>2, <5>1
        <5> QED BY <5>2 DEF c
      <4> HIDE DEF Fits
      <4> QED BY <2>3, <4>1, <4>2, <4>4
    <3>2. CASE \E j, parts : /\ Callee(l, j) /\ PartsOf(j, depth, m, parts)
                             /\ Nil = MergeParts(parts)
      <4>1. PICK j, parts : PartsOf(j, depth, m, parts) /\ Nil = MergeParts(parts)
        BY <3>2
      <4> DEFINE k == Len(Schema(m).allOf)
      <4>2. k \in Nat
        BY SchemaIs, SequenceIs DEF Compiled
      <4>3. DOMAIN parts = 0..k
        BY <4>1 DEF PartsOf
      <4> HIDE DEF k
      <4>4. Merged(k, parts, Nil)
        BY <4>1, <4>2, <4>3, MergeIs
      <4>5. ~\E i \in 0..k : parts[i].kind \notin {"object", "null"} /\ Nil = parts[i]
        BY Kinds
      <4>6. PICK fields : Nil = Object(fields)
        BY <4>4, <4>5 DEF Merged
      <4> QED BY <4>6, Kinds
    <3> QED BY <2>2, <2>4, <2>5, <2>7, <3>1, <3>2, MadeComposite
  <2> QED BY <2>6, <2>7
<1>2. Fine(left)
  <2> HIDE DEF Fine
  <2> QED BY <1>1
<1> QED BY <1>2

-----------------------------------------------------------------------------
(***************************************************************************)
(* The limit cuts what is deeper and nothing else.                         *)
(***************************************************************************)
\* The share of the calls that each level has.
Share == MaxRecursion \div (maxDepth + 1)

\* Where in the document the values of a level come from, and how many calls
\* they were made with.
LevelFrom(d) ==
    \A w \in Level[d] : \E m \in AtDepth[d] : \E l \in Nat :
        w \in Made(l, d, m) /\ (LeavesCalls => MaxRecursion <= l + d * Share)

LEMMA Levels ==
  ASSUME document \in Documents, maxDepth \in Nat \ {0},
         answer \in Made(MaxRecursion, 0, Root),
         \A d \in 0..maxDepth : \A n \in AtDepth[d] : Schema(n).example = None
  PROVE  \A d \in 0..maxDepth : LevelFrom(d)
<1> DEFINE Bad == {d \in 0..maxDepth : ~LevelFrom(d)}
<1>1. Share \in Nat
  BY MaxRecursionAssumption DEF Share
<1>2. LevelFrom(0)
  <2> SUFFICES ASSUME NEW w \in Level[0]
               PROVE  \E m \in AtDepth[0] : \E l \in Nat :
                         w \in Made(l, 0, m) /\ (LeavesCalls => MaxRecursion <= l + 0 * Share)
    BY DEF LevelFrom
  <2>1. w = answer
    BY LevelOf
  <2>2. Root \in AtDepth[0]
    <3>1. {Root} \in SUBSET Nodes
      BY NodesAssumption
    <3> QED BY <3>1, SchemasOf, ClosureIsLeast
  <2>3. MaxRecursion \in Nat /\ MaxRecursion <= MaxRecursion + 0 * Share
    BY <1>1, MaxRecursionAssumption
  <2> QED BY <2>1, <2>2, <2>3
<1>3. ASSUME NEW d \in 0..maxDepth, d + 1 <= maxDepth, LevelFrom(d)
      PROVE  LevelFrom(d + 1)
  <2> SUFFICES ASSUME NEW w \in Level[d + 1]
               PROVE  \E m \in AtDepth[d + 1] : \E l \in Nat :
                         /\ w \in Made(l, d + 1, m)
                         /\ LeavesCalls => MaxRecursion <= l + (d + 1) * Share
    BY DEF LevelFrom
  <2>0. d \in Nat
    OBVIOUS
  <2>1. PICK v \in Level[d] : w \in Inside(v)
    BY <2>0, LevelOf
  <2>2. PICK n \in AtDepth[d] : \E l \in Nat :
           v \in Made(l, d, n) /\ (LeavesCalls => MaxRecursion <= l + d * Share)
    BY <1>3, <2>1 DEF LevelFrom
  <2>3. PICK l \in Nat :
           v \in Made(l, d, n) /\ (LeavesCalls => MaxRecursion <= l + d * Share)
    BY <2>2
  <2> DEFINE A == AtDepth[d]
             c == 2 * Cardinality(Closure({n}))
  <2>4. A \in SUBSET Nodes /\ Closed(A) /\ \A p \in A : Schema(p).example = None
    BY <2>0, DepthsClosed
  <2>5. ComesFrom(A, l, d, n, w)
    BY <2>0, <2>1, <2>2, <2>3, <2>4, Origin
  <2>6. PICK p \in A : \E m \in Contents(p) : \E i \in Nat :
           /\ w \in Made(i, d + 1, m)
           /\ (\A q \in A : ~Circular(q)) => l <= i + c
    BY <2>5 DEF ComesFrom
  <2>7. PICK m \in Contents(p), i \in Nat :
           /\ w \in Made(i, d + 1, m)
           /\ (\A q \in A : ~Circular(q)) => l <= i + c
    BY <2>6
  <2>8. m \in AtDepth[d + 1]
    BY <2>0, DepthsClosed
  <2>9. LeavesCalls => MaxRecursion <= i + (d + 1) * Share
    <3> SUFFICES ASSUME LeavesCalls PROVE MaxRecursion <= i + (d + 1) * Share
      OBVIOUS
    <3>1. c <= Share /\ \A q \in A : ~Circular(q)
      BY <2>2 DEF LeavesCalls, Share
    <3>2. l <= i + c /\ MaxRecursion <= l + d * Share
      BY <2>3, <2>7, <3>1
    <3>3. c \in Nat
      <4>1. Cardinality(Closure({n})) \in Nat
        BY <2>2, <2>4, ClosureOf
      <4> QED BY <4>1
    <3>4. (d + 1) * Share = d * Share + Share /\ d * Share \in Nat
      BY <1>1, <2>0
    <3> HIDE DEF c
    <3> QED BY <1>1, <3>1, <3>2, <3>3, <3>4, MaxRecursionAssumption
  <2> QED BY <2>7, <2>8, <2>9
<1>4. Bad = {}
  <2> SUFFICES ASSUME Bad # {} PROVE FALSE
    OBVIOUS
  <2>1. PICK d \in Bad : \A j \in Bad : d <= j
    <3>1. Bad \subseteq Nat
      OBVIOUS
    <3> HIDE DEF Bad
    <3> QED BY <3>1, Least
  <2>2. d \in 0..maxDepth /\ d # 0 /\ ~LevelFrom(d)
    BY <1>2
  <2>3. d - 1 \in 0..maxDepth /\ (d - 1) + 1 <= maxDepth /\ (d - 1) + 1 = d
    BY <2>2
  <2>4. LevelFrom(d - 1)
    BY <2>1, <2>3
  <2>5. LevelFrom((d - 1) + 1)
    BY <1>3, <2>3, <2>4
  <2> QED BY <2>2, <2>3, <2>5
<1> QED BY <1>4

LEMMA LimitHolds ==
  ASSUME document \in Documents, maxDepth \in Nat \ {0},
         answer \in Made(MaxRecursion, 0, Root)
  PROVE  LimitCuts
<1> SUFFICES ASSUME \A d \in 0..maxDepth : \A n \in AtDepth[d] : Schema(n).example = None
             PROVE  /\ \/ Level[maxDepth + 1] = {}
                       \/ \E d \in 0..maxDepth : \E n \in AtDepth[d] :
                             Schema(n).allOf # <<>> /\ DOMAIN Schema(n).properties # {}
                    /\ \/ \A d \in 0..maxDepth : Nil \notin Level[d]
                       \/ \E n \in AtDepth[maxDepth] :
                             ~Composite(n) /\ ResolveComplexType(Schema(n)) = "object"
                       \/ \E d \in 0..maxDepth : \E n \in AtDepth[d] : Schema(n).type = "null"
                       \/ ~LeavesCalls
  BY DEF LimitCuts
<1>1. \A d \in 0..maxDepth : LevelFrom(d)
  BY Levels
<1>2. \A d \in 0..maxDepth : /\ d \in Nat /\ AtDepth[d] \in SUBSET Nodes /\ Closed(AtDepth[d])
  BY DepthsClosed
<1>3. ASSUME NEW w \in Level[maxDepth + 1],
             \A d \in 0..maxDepth : \A n \in AtDepth[d] :
                Schema(n).allOf = <<>> \/ DOMAIN Schema(n).properties = {}
      PROVE  FALSE
  <2> DEFINE A == AtDepth[maxDepth]
  <2>1. maxDepth \in 0..maxDepth
    OBVIOUS
  <2>2. PICK v \in Level[maxDepth] : w \in Inside(v)
    BY LevelOf
  <2>3. PICK n \in A : \E l \in Nat : v \in Made(l, maxDepth, n)
    BY <1>1, <2>1, <2>2 DEF LevelFrom
  <2>4. PICK l \in Nat : v \in Made(l, maxDepth, n)
    BY <2>3
  <2>5. HeldBack(A)
    BY <1>3, <2>1 DEF HeldBack
  <2>6. A \in SUBSET Nodes /\ Closed(A) /\ \A p \in A : Schema(p).example = None
    BY <1>2, <2>1
  <2> HIDE DEF A
  <2>7. ComesFrom(A, l, maxDepth, n, w)
    BY <2>2, <2>4, <2>6, Origin
  <2> QED BY <2>5, <2>7 DEF ComesFrom
<1>4. ASSUME NEW d \in 0..maxDepth, Nil \in Level[d], LeavesCalls,
             \A n \in AtDepth[maxDepth] :
                Composite(n) \/ ResolveComplexType(Schema(n)) # "object",
             \A n \in AtDepth[d] : Schema(n).type # "null"
      PROVE  FALSE
  <2> DEFINE A == AtDepth[d]
  <2>1. PICK n \in A : \E l \in Nat :
           Nil \in Made(l, d, n) /\ MaxRecursion <= l + d * Share
    BY <1>1, <1>4 DEF LevelFrom
  <2>2. PICK l \in Nat : Nil \in Made(l, d, n) /\ MaxRecursion <= l + d * Share
    BY <2>1
  <2>3. A \in SUBSET Nodes /\ Closed(A) /\ d \in Nat
    BY <1>2
  <2>4. /\ \A p \in A : ~Circular(p) /\ Schema(p).example = None /\ Schema(p).type # "null"
        /\ 2 * Cardinality(Closure({n})) <= Share
    BY <1>4 DEF LeavesCalls, Share
  <2>5. \/ d < maxDepth
        \/ \A p \in A : Composite(p) \/ ResolveComplexType(Schema(p)) # "object"
    BY <1>4
  <2>6. Share <= l
    <3>1. Share \in Nat /\ (maxDepth + 1) * Share <= MaxRecursion
      <4> DEFINE k == maxDepth + 1
      <4>1. k \in Nat \ {0} /\ MaxRecursion \in Nat
        BY MaxRecursionAssumption
      <4> HIDE DEF k
      <4>2. MaxRecursion \div k \in Nat /\ k * (MaxRecursion \div k) <= MaxRecursion
        BY <4>1
      <4> QED BY <4>2 DEF Share, k
    <3>2. (maxDepth + 1) * Share = maxDepth * Share + Share
      BY <3>1
    <3>3. d * Share <= maxDepth * Share /\ d * Share \in Nat /\ maxDepth * Share \in Nat
      BY <2>3, <3>1
    <3> HIDE DEF A
    <3> QED BY <2>2, <3>1, <3>2, <3>3, MaxRecursionAssumption
  <2>7. 2 * Cardinality(Closure({n})) <= l + 1
    <3> DEFINE c == Cardinality(Closure({n}))
    <3>1. c \in Nat /\ Share \in Nat
      <4>1. Share \in Nat
        BY MaxRecursionAssumption DEF Share
      <4>2. c \in Nat
        BY <2>3, ClosureOf
      <4> QED BY <4>1, <4>2
    <3> HIDE DEF c
    <3>2. 2 * c <= l + 1
      BY <2>4, <2>6, <3>1 DEF c
    <3> QED BY <3>2 DEF c
  <2> HIDE DEF A
  <2> QED BY <2>2, <2>3, <2>4, <2>5, <2>7, NotNull
<1> QED BY <1>3, <1>4

-----------------------------------------------------------------------------
(***************************************************************************)
(* Objects put together by references and allOf are complete.              *)
(***************************************************************************)
\* The fields that the schemas a value of n is put together from ask for.
Asked(n) == UNION {DOMAIN Schema(m).properties : m \in Closure({n})}

LEMMA AskedOf ==
  ASSUME document \in Documents, NEW n \in Nodes
  PROVE  Asked(n) = DOMAIN Schema(n).properties \cup UNION {Asked(m) : m \in Parts(n)}
<1>1. Closure({n}) = {n} \cup UNION {Closure({m}) : m \in Parts(n)}
  BY ClosureOf
<1>2. ASSUME NEW f
      PROVE  f \in Asked(n) <=> \/ f \in DOMAIN Schema(n).properties
                                \/ \E m \in Parts(n) : f \in Asked(m)
  <2>1. \A m : f \in Asked(m) <=> \E p \in Closure({m}) : f \in DOMAIN Schema(p).properties
    BY DEF Asked
  <2>2. \A p : p \in Closure({n}) <=> p = n \/ \E m \in Parts(n) : p \in Closure({m})
    BY <1>1
  <2> QED BY <2>1, <2>2, Zenon
<1> QED BY <1>2

\* The objects that are put together only from objects without open ends.
PutTogether(P) ==
    \A n \in P :
        /\ ~Circular(n) /\ Schema(n).oneOf = <<>> /\ Schema(n).example = None
        /\ Composite(n) \/ ResolveComplexType(Schema(n)) = "object"
        /\ Schema(n).additional = None
        /\ Schema(n).ref # None => DOMAIN Schema(n).properties = {}

Has(v, names) == \E fields : v = Object(fields) /\ DOMAIN fields = names

LEMMA CompleteStep ==
  ASSUME document \in Documents, maxDepth \in Nat \ {0},
         NEW P \in SUBSET Nodes, Closed(P), PutTogether(P), NEW left \in Nat,
         \A l \in Nat : l < left =>
            \A m \in P : 2 * Cardinality(Closure({m})) <= l + 1 =>
               \A v \in Made(l, 0, m) : Has(v, Asked(m)),
         NEW n \in P, 2 * Cardinality(Closure({n})) <= left + 1,
         NEW v \in Made(left, 0, n)
  PROVE  Has(v, Asked(n))
<1> DEFINE s == Schema(n)
           d == Cardinality(Closure({n}))
<1>1. /\ ~Circular(n) /\ s.oneOf = <<>> /\ s.example = None
      /\ Composite(n) \/ ResolveComplexType(s) = "object"
      /\ s.additional = None
      /\ s.ref # None => DOMAIN s.properties = {}
  BY DEF PutTogether
<1>2. d \in Nat \ {0} /\ left # 0
  <2>1. d \in Nat \ {0}
    BY ClosureOf
  <2> HIDE DEF d
  <2>2. 2 * d <= left + 1
    BY DEF d
  <2> QED BY <2>1, <2>2
<1>3. ASSUME NEW m \in Parts(n), NEW l, Callee(left, l), NEW u \in Made(l, 0, m)
      PROVE  Has(u, Asked(m))
  <2> DEFINE c == Cardinality(Closure({m}))
  <2>1. m \in P /\ l \in Nat /\ l < left /\ left <= l + 2
    BY <1>3 DEF Closed, Callee
  <2>2. c + 1 <= d
    BY <1>1, PartIsSmaller
  <2>3. c \in Nat
    BY <2>1, ClosureOf
  <2>4. 2 * c <= l + 1
    <3>1. 2 * d <= left + 1
      OBVIOUS
    <3> HIDE DEF c, d
    <3> QED BY <1>2, <2>1, <2>2, <2>3, <3>1
  <2> QED BY <2>1, <2>4
<1> HIDE DEF d
<1>4. CASE ~Composite(n)
  <2>1. Parts(n) = {}
    BY <1>1, <1>4 DEF Parts, Branches, Composite
  <2>2. Asked(n) = DOMAIN s.properties
    BY <2>1, AskedOf
  <2>3. ~AtLimit(0)
    BY DEF AtLimit
  <2>4. \E fields : v = Object(fields) /\ DOMAIN fields = DOMAIN s.properties
    BY <1>1, <1>2, <1>4, <2>3, MadePlain
  <2> QED BY <2>2, <2>4 DEF Has
<1>5. CASE Composite(n) /\ s.ref # None
  <2>1. Parts(n) = {s.ref}
    BY <1>5 DEF Parts
  <2>2. PICK m \in Parts(n) : \E l : Callee(left, l) /\ v \in Made(l, 0, m)
    BY <1>2, <1>5, MadeComposite
  <2>3. Has(v, Asked(m))
    BY <1>3, <2>2
  <2>4. Asked(n) = Asked(m)
    <3>1. Asked(n) = DOMAIN s.properties \cup UNION {Asked(p) : p \in {m}}
      <4>1. Parts(n) = {m}
        BY <2>1, <2>2
      <4> QED BY <4>1, AskedOf
    <3>2. DOMAIN s.properties = {}
      BY <1>1, <1>5
    <3> QED BY <3>1, <3>2
  <2> QED BY <2>3, <2>4
<1>6. CASE s.ref = None /\ s.allOf # <<>>
  <2>1. PICK l, parts : /\ Callee(left, l) /\ PartsOf(l, 0, n, parts)
                        /\ v = MergeParts(parts)
    BY <1>2, <1>6, MadeComposite DEF Composite
  <2> DEFINE k == Len(s.allOf)
  <2>2. k \in Nat /\ DOMAIN s.allOf = 1..k
    BY SchemaIs, SequenceIs DEF Compiled
  <2>3. DOMAIN parts = 0..k
    BY <2>1 DEF PartsOf
  <2>4. Parts(n) = {s.allOf[i] : i \in 1..k}
    BY <1>6, <2>2 DEF Parts
  <2>5. Has(parts[0], DOMAIN s.properties)
    BY <2>1 DEF PartsOf, Has
  <2>6. ASSUME NEW i \in 1..k PROVE Has(parts[i], Asked(s.allOf[i]))
    <3>1. s.allOf[i] \in Parts(n) /\ parts[i] \in Made(l, 0, s.allOf[i])
      BY <2>1 DEF PartsOf
    <3> QED BY <1>3, <2>1, <3>1
  <2> HIDE DEF k
  <2>7. \A x, names : Has(x, names) => x.kind = "object" /\ DOMAIN x.fields = names
    BY Kinds DEF Has
  <2>8. \A i \in 0..k : parts[i].kind = "object"
    BY <2>2, <2>5, <2>6, <2>7
  <2>9. Merged(k, parts, v)
    BY <2>1, <2>2, <2>3, MergeIs
  <2>10. PICK fields : v = Object(fields) /\ Overlaid(k, parts, fields)
    BY <2>8, <2>9 DEF Merged
  <2>11. DOMAIN fields = UNION {DOMAIN parts[i].fields : i \in 0..k}
    BY <2>8, <2>10 DEF Overlaid
  <2>12. Asked(n) = DOMAIN s.properties \cup UNION {Asked(s.allOf[i]) : i \in 1..k}
    BY <2>4, AskedOf
  <2>13. DOMAIN fields = Asked(n)
    <3>1. /\ DOMAIN parts[0].fields = DOMAIN s.properties
          /\ \A i \in 1..k : DOMAIN parts[i].fields = Asked(s.allOf[i])
      BY <2>5, <2>6, <2>7
    <3>2. \A i : i \in 0..k <=> i = 0 \/ i \in 1..k
      BY <2>2
    <3> QED BY <2>11, <2>12, <3>1, <3>2
  <2> QED BY <2>10, <2>13 DEF Has
<1> QED BY <1>4, <1>5, <1>6 DEF Composite

LEMMA CompleteHolds ==
  ASSUME document \in Documents, maxDepth \in Nat \ {0},
         answer \in Made(MaxRecursion, 0, Root)
  PROVE  Complete
<1> DEFINE P == Closure({Root})
<1> SUFFICES ASSUME 2 * Cardinality(P) <= MaxRecursion, PutTogether(P)
             PROVE  /\ answer.kind = "object"
                    /\ DOMAIN answer.fields = UNION {DOMAIN Schema(n).properties : n \in P}
  BY DEF Complete, PutTogether
<1>1. P \in SUBSET Nodes /\ Closed(P) /\ Root \in P
  <2>1. {Root} \in SUBSET Nodes
    BY NodesAssumption
  <2> QED BY <2>1, ClosureIsLeast
<1> DEFINE Fits(l, m) == 2 * Cardinality(Closure({m})) <= l + 1
           Fine(l) == \A m \in P : Fits(l, m) => \A v \in Made(l, 0, m) : Has(v, Asked(m))
           Bad == {l \in Nat : ~Fine(l)}
<1> HIDE DEF P
<1>2. Bad = {}
  <2> SUFFICES ASSUME Bad # {} PROVE FALSE
    OBVIOUS
  <2>1. PICK l \in Bad : \A j \in Bad : l <= j
    <3>1. Bad \subseteq Nat
      OBVIOUS
    <3> HIDE DEF Bad
    <3> QED BY <3>1, Least
  <2>2. l \in Nat /\ ~Fine(l)
    OBVIOUS
  <2>3. \A j \in Nat : j < l => Fine(j)
    <3> HIDE DEF Fine
    <3> QED BY <2>1, <2>2
  <2>4. Fine(l)
    <3> SUFFICES ASSUME NEW m \in P, Fits(l, m), NEW v \in Made(l, 0, m)
                 PROVE  Has(v, Asked(m))
      OBVIOUS
    <3> QED BY <1>1, <2>2, <2>3, CompleteStep
  <2> QED BY <2>2, <2>4
<1>3. Fine(MaxRecursion) /\ MaxRecursion \in Nat
  <2> HIDE DEF Fine
  <2> QED BY <1>2, MaxRecursionAssumption
<1>4. Fits(MaxRecursion, Root)
  <2>1. Cardinality(P) \in Nat
    BY NodesAssumption, ClosureOf DEF P
  <2>2. 2 * Cardinality(P) <= MaxRecursion + 1
    BY <1>3, <2>1
  <2> QED BY <2>2 DEF P
<1>5. Has(answer, Asked(Root))
  <2> HIDE DEF Fits
  <2> QED BY <1>1, <1>3, <1>4
<1>6. PICK fields : answer = Object(fields) /\ DOMAIN fields = Asked(Root)
  BY <1>5 DEF Has
<1>7. answer.kind = "object" /\ answer.fields = fields
  BY <1>6, Kinds
<1> QED BY <1>6, <1>7 DEF Asked, P

-----------------------------------------------------------------------------
LEMMA IntegersHold ==
  ASSUME document \in Documents, answer \in Made(MaxRecursion, 0, Root)
  PROVE  IntegersValid
<1> DEFINE s == Schema(Root)
<1> SUFFICES ASSUME s.type = "integer", ~Composite(Root), s.oneOf = <<>>,
                    Whole(s.bounds), LeavesRoom(s.bounds)
             PROVE  Satisfies(answer.value, s.bounds)
  BY DEF IntegersValid
<1>1. ResolveComplexType(s) = "integer"
  BY UntypedAssumption DEF ResolveComplexType
<1>2. PICK x \in GenerateInteger(s.bounds) : answer = Integer(x)
  BY <1>1, MadePlain, NodesAssumption, MaxRecursionAssumption
<1>3. s.bounds \in Bounds
  BY SchemaIs, NodesAssumption DEF Compiled
<1>4. answer.value = x
  BY <1>2, Kinds
<1> HIDE DEF s
<1> QED BY <1>2, <1>3, <1>4, IntegersKeepBounds

-----------------------------------------------------------------------------
(***************************************************************************)
(* The specification: its one step hands out what the generator makes.     *)
(***************************************************************************)
GeneratedOK ==
    /\ document \in Documents
    /\ maxDepth \in Nat \ {0}
    /\ answer # None => answer \in Values[MaxRecursion][0][Root]

\* An answer is a value of the root of the document (DataGenerator.Generate).
THEOREM GeneratedCorrect == Spec => []GeneratedOK
<1>1. Init => GeneratedOK
  <2> SUFFICES ASSUME Init PROVE GeneratedOK
    OBVIOUS
  <2>1. PICK asked \in Depths : maxDepth = IF asked <= 0 THEN DefaultMaxDepth ELSE asked
    BY DEF Init
  <2>2. maxDepth \in Nat \ {0}
    BY <2>1, DepthsAssumption, DefaultMaxDepthAssumption
  <2>3. document \in Documents /\ answer = None
    BY DEF Init
  <2> QED BY <2>2, <2>3, Zenon DEF GeneratedOK
<1>2. GeneratedOK /\ [Next]_vars => GeneratedOK'
  <2> SUFFICES ASSUME GeneratedOK, [Next]_vars PROVE GeneratedOK'
    OBVIOUS
  <2>1. document' = document /\ maxDepth' = maxDepth
    BY DEF Next, Generate, vars
  <2>2. Values' = Values
    BY <2>1, SMT DEF Values, Generated, Schema, Branches, IsNullBranch, AtLimit
  <2>3. (Values[MaxRecursion][0][Root])' = Values[MaxRecursion][0][Root]
    BY <2>2, Zenon
  <2>4. answer' # None => answer' \in Values[MaxRecursion][0][Root]
    BY DEF GeneratedOK, Next, Generate, vars
  <2> QED BY <2>1, <2>3, <2>4 DEF GeneratedOK
<1> QED BY <1>1, <1>2, PTL DEF Spec

\* Integers keep to bounds that are whole, not negative and leave room.
THEOREM IntegersCorrect == Spec => []IntegersValid
<1>1. GeneratedOK => IntegersValid
  BY IntegersHold DEF GeneratedOK, Made, IntegersValid
<1> QED BY <1>1, GeneratedCorrect, PTL

\* An object put together by references and allOf has the fields of all parts.
THEOREM CompleteCorrect == Spec => []Complete
<1>1. GeneratedOK => Complete
  BY CompleteHolds DEF GeneratedOK, Made, Complete
<1> QED BY <1>1, GeneratedCorrect, PTL

\* Nothing lies deeper than the limit, and null is only where it was cut.
THEOREM LimitCorrect == Spec => []LimitCuts
<1>1. GeneratedOK => LimitCuts
  BY LimitHolds DEF GeneratedOK, Made, LimitCuts
<1> QED BY <1>1, GeneratedCorrect, PTL
=============================================================================
