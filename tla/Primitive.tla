------------------------------ MODULE Primitive ------------------------------
(***************************************************************************)
(* The integers that internal/generator/primitive.go makes for a schema,   *)
(* and what internal/compiler does to its bounds before.  A bound is a     *)
(* rational <<numerator, denominator>> or None; notAtMin and notAtMax are  *)
(* the boolean exclusiveMinimum and exclusiveMaximum of OpenAPI 3.0.       *)
(***************************************************************************)
EXTENDS Integers

CONSTANTS DefaultIntMax, None

Rationals == Int \X (Nat \ {0})

ASSUME DefaultIntMaxAssumption == DefaultIntMax \in Nat
ASSUME NoneAssumption == None \notin Rationals

defaultIntMin == 0

Unbounded ==
    [minimum |-> None, maximum |-> None, exclusiveMinimum |-> None,
     exclusiveMaximum |-> None, notAtMin |-> FALSE, notAtMax |-> FALSE,
     multipleOf |-> None]

\* The bounds a schema may have.  exclusiveMinimum is one keyword: a boolean
\* in OpenAPI 3.0, a number in 3.1.
Bounds ==
    {b \in [minimum : Rationals \cup {None}, maximum : Rationals \cup {None},
            exclusiveMinimum : Rationals \cup {None},
            exclusiveMaximum : Rationals \cup {None},
            notAtMin : BOOLEAN, notAtMax : BOOLEAN,
            multipleOf : {r \in Rationals : r[1] > 0} \cup {None}] :
        /\ b.notAtMin => b.exclusiveMinimum = None
        /\ b.notAtMax => b.exclusiveMaximum = None}

\* The bounds as JSON Schema 2020-12 has them.
NormalizeBounds(b) ==
    LET low == b.notAtMin /\ b.minimum # None
        high == b.notAtMax /\ b.maximum # None
    IN  [b EXCEPT !.exclusiveMinimum = IF low THEN b.minimum ELSE @,
                  !.minimum = IF low THEN None ELSE @,
                  !.exclusiveMaximum = IF high THEN b.maximum ELSE @,
                  !.maximum = IF high THEN None ELSE @]

\* Go's division truncates.
Quotient(a, b) == IF a < 0 THEN -((-a) \div b) ELSE a \div b

RatToInt64(r) == Quotient(r[1], r[2])

Larger(a, b) == IF a > b THEN a ELSE b
Smaller(a, b) == IF a < b THEN a ELSE b

\* Mutant: the exclusive bound itself may be drawn.
InclusiveMin(b) ==
    LET min == IF b.minimum = None THEN defaultIntMin ELSE RatToInt64(b.minimum)
    IN  IF b.exclusiveMinimum = None THEN min
        ELSE Larger(min, RatToInt64(b.exclusiveMinimum))

MinVal(b) ==
    LET min == IF b.minimum = None THEN defaultIntMin ELSE RatToInt64(b.minimum)
    IN  IF b.exclusiveMinimum = None THEN min
        ELSE Larger(min, RatToInt64(b.exclusiveMinimum) + 1)

MaxVal(b) ==
    LET max == IF b.maximum = None THEN DefaultIntMax ELSE RatToInt64(b.maximum)
        below == IF b.exclusiveMaximum = None THEN max
                 ELSE Smaller(max, RatToInt64(b.exclusiveMaximum) - 1)
    IN  Larger(MinVal(b), below)

SnapToMultiple(val, mult, minVal, maxVal) ==
    LET down == Quotient(val, mult) * mult
        up == IF down < minVal THEN Quotient(minVal + mult - 1, mult) * mult ELSE down
    IN  IF up > maxVal THEN Quotient(maxVal, mult) * mult ELSE up

\* Every value some seed draws.
GenerateInteger(bounds) ==
    LET b == NormalizeBounds(bounds)
        mult == IF b.multipleOf = None THEN 0 ELSE RatToInt64(b.multipleOf)
    IN  {IF mult > 0 THEN SnapToMultiple(v, mult, MinVal(b), MaxVal(b)) ELSE v :
            v \in MinVal(b)..MaxVal(b)}
-----------------------------------------------------------------------------
(***************************************************************************)
(* What the bounds of a document mean, in either version.                  *)
(***************************************************************************)
AtLeast(v, r) == v * r[2] >= r[1]
AtMost(v, r) == v * r[2] <= r[1]

Satisfies(v, b) ==
    /\ b.minimum # None =>
          AtLeast(v, b.minimum) /\ (b.notAtMin => v * b.minimum[2] # b.minimum[1])
    /\ b.maximum # None =>
          AtMost(v, b.maximum) /\ (b.notAtMax => v * b.maximum[2] # b.maximum[1])
    /\ b.exclusiveMinimum # None => ~AtMost(v, b.exclusiveMinimum)
    /\ b.exclusiveMaximum # None => ~AtLeast(v, b.exclusiveMaximum)
    /\ b.multipleOf # None => (v * b.multipleOf[2]) % b.multipleOf[1] = 0

\* Whole numbers that are not negative.
Whole(b) ==
    \A r \in {b.minimum, b.maximum, b.exclusiveMinimum, b.exclusiveMaximum,
              b.multipleOf} \ {None} : r[2] = 1 /\ r[1] >= 0

\* There is a value between the defaults that keeps to the bounds.
LeavesRoom(b) == \E v \in defaultIntMin..DefaultIntMax : Satisfies(v, b)
=============================================================================
