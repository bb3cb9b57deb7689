-------------------------- MODULE ClassifierProofs --------------------------
(***************************************************************************)
(* What no name can change about an operation (module Classifier), for     *)
(* every path, every set of responses, every operationId and summary, and  *)
(* whichever tokens are plurals or participles.                            *)
(*                                                                         *)
(* The argument is one about confidences.  Layer 3 takes another type only *)
(* below Weak, or between list and fetch up to Strong; layer 1 is above    *)
(* Weak wherever one of the properties says something, and layer 2 lifts a *)
(* list that answers with an array above Strong.                           *)
(***************************************************************************)
EXTENDS Classifier, WellFoundedInduction, TLAPS

Bound == op.method \in {"GET", "PUT", "PATCH", "DELETE"}
Verbal == IsAction(NormalizePath(op.path))

Shape ==
    /\ op \in Operations
    /\ layer \in 0..3
    /\ result.confidence \in Nat

\* Out of reach of the first rule of layer 3.
Sure == layer \in {1, 2} /\ (Bound \/ Verbal) => result.confidence > Weak

Typed ==
    layer > 0 =>
        /\ result.type \in BehaviorsOf(op.method)
        /\ Verbal => result.type = "generic"

\* Out of reach of the second.
ArrayCertain ==
    op.array /\ structural.type = "list" =>
        /\ layer > 0 => result.type = "list"
        /\ layer = 1 => result.confidence = Strong
        /\ layer = 2 => result.confidence > Strong

Inv == Shape /\ Sure /\ Typed /\ ArrayCertain

LEMMA InitInv == Init => Inv
BY DEF Init, Inv, Shape, Sure, Typed, ArrayCertain, Unclassified, Result

\* What layer 1 answers, by method.
LEMMA ClassifyTypes ==
  ASSUME NEW method, NEW path
  PROVE  LET r == Classify(method, path)
         IN  /\ r.confidence \in {Weak, Moderate, Strong}
             /\ IsAction(path) => r.type = "generic" /\ r.confidence = Moderate
             /\ r.type \in BehaviorsOf(method)
             /\ method \in {"GET", "PUT", "PATCH", "DELETE"} => r.confidence > Weak
             /\ r.type = "list" => r.confidence = Strong
<1>1. CASE IsAction(path)
  BY <1>1 DEF Classify, Result, BehaviorsOf, BehaviorTypes, Weak, Moderate, Strong
<1>2. CASE ~IsAction(path) /\ method = "GET"
  BY <1>2 DEF Classify, ClassifyGET, Result, BehaviorsOf, BehaviorTypes, Weak, Moderate, Strong
<1>3. CASE ~IsAction(path) /\ method = "POST"
  BY <1>3 DEF Classify, ClassifyPOST, Result, BehaviorsOf, BehaviorTypes, Weak, Moderate, Strong
<1>4. CASE ~IsAction(path) /\ method \in {"PUT", "PATCH"}
  BY <1>4 DEF Classify, ClassifyUpdate, Result, BehaviorsOf, BehaviorTypes, Weak, Moderate, Strong
<1>5. CASE ~IsAction(path) /\ method = "DELETE"
  BY <1>5 DEF Classify, ClassifyDELETE, Result, BehaviorsOf, BehaviorTypes, Weak, Moderate, Strong
<1>6. CASE ~IsAction(path) /\ method \notin {"GET", "POST", "PUT", "PATCH", "DELETE"}
  BY <1>6 DEF Classify, Result, BehaviorsOf, BehaviorTypes, Weak, Moderate, Strong
<1> QED BY <1>1, <1>2, <1>3, <1>4, <1>5, <1>6

LEMMA Layer1Inv == Inv /\ ApplyLayer1 => Inv'
<1> SUFFICES ASSUME Inv, ApplyLayer1 PROVE Inv'
  OBVIOUS
<1> DEFINE r == Classify(op.method, NormalizePath(op.path))
<1>1. layer' = 1 /\ structural' = r /\ result' = r /\ op' = op
  BY DEF ApplyLayer1
<1>2. /\ r.confidence \in {Weak, Moderate, Strong}
      /\ Verbal => r.type = "generic" /\ r.confidence = Moderate
      /\ r.type \in BehaviorsOf(op.method)
      /\ Bound => r.confidence > Weak
      /\ r.type = "list" => r.confidence = Strong
  BY ClassifyTypes DEF Verbal, Bound
<1> HIDE DEF r
<1>3. Bound' = Bound /\ Verbal' = Verbal
  BY <1>1 DEF Bound, Verbal
<1> QED BY <1>1, <1>2, <1>3 DEF Inv, Shape, Sure, Typed, ArrayCertain, Weak, Moderate, Strong

LEMMA Layer2Inv == Inv /\ ApplyLayer2 => Inv'
BY DEF ApplyLayer2, Confirmed, Boosted, Result, BoostL2, Maximum, Inv, Shape, Sure, Typed,
   ArrayCertain, Bound, Verbal, Weak, Strong

\* A nonempty set of numbers has a least one.
LEMMA Least ==
  ASSUME NEW T \in SUBSET Nat, T # {}
  PROVE  \E x \in T : \A y \in T : x <= y
<1> DEFINE R == OpToRel(<, Nat)
<1>1. IsWellFoundedOn(R, Nat)
  BY NatLessThanWellFounded
<1>2. \A x, y \in Nat : y < x => <<y, x>> \in R
  BY DEF OpToRel
<1> HIDE DEF R
<1>3. PICK x \in T : \A y \in T : <<y, x>> \notin R
  BY <1>1, WFMin, Zenon
<1>4. \A y \in T : ~(y < x)
  BY <1>2, <1>3
<1>5. \A y \in T : x <= y
  BY <1>4
<1>6. QED BY <1>5

\* A keyword means one of the types.
LEMMA SignalIsType ==
  ASSUME op \in Operations, HasOperationId \/ HasSummary
  PROVE  Signal \in {"create", "fetch", "list", "update", "delete"}
<1>1. ASSUME NEW token, IsKeyword(token)
      PROVE  Meaning(token) \in {"create", "fetch", "list", "update", "delete"}
  <2>1. DOMAIN Keywords = {"create", "fetch", "list", "update", "delete"}
    BY DEF Keywords
  <2>2. Meaning(token) \in DOMAIN Keywords
    BY <1>1 DEF IsKeyword, Meaning
  <2> QED BY <2>1, <2>2
<1>2. ASSUME HasOperationId PROVE IsKeyword(op.operationId[Position])
  <2> DEFINE S == Signals(op.operationId)
  <2>1. S \in SUBSET Nat /\ S # {}
    BY <1>2, OperationsAssumption DEF HasOperationId, Signals
  <2> HIDE DEF S
  <2>2. \E i \in S : \A j \in S : i <= j
    BY <2>1, Least
  <2>3. Position \in Signals(op.operationId)
    BY <2>2 DEF S, Position
  <2> QED BY <2>3 DEF Signals
<1>3. ASSUME HasSummary PROVE IsKeyword(op.summary[1])
  BY <1>3 DEF HasSummary, Signals
<1> QED BY <1>1, <1>2, <1>3 DEF Signal

LEMMA Layer3Inv == Inv /\ ApplyLayer3 => Inv'
<1> SUFFICES ASSUME Inv, ApplyLayer3 PROVE Inv'
  OBVIOUS
<1>1. layer = 2 /\ layer' = 3 /\ op' = op /\ structural' = structural
  BY DEF ApplyLayer3
<1>2. Bound' = Bound /\ Verbal' = Verbal
  BY <1>1 DEF Bound, Verbal
<1>3. CASE result'.type = result.type /\ result'.confidence \in Nat
  BY <1>1, <1>2, <1>3 DEF Inv, Shape, Sure, Typed, ArrayCertain
<1>4. CASE result' = Boosted(result, BoostL3)
  BY <1>3, <1>4 DEF Boosted, Result, BoostL3, Maximum, Inv, Shape
<1>5. CASE result' = Result(Signal, ByName) /\ Unsure(result.confidence)
  <2>1. ~Bound /\ ~Verbal /\ ~(op.array /\ structural.type = "list")
    BY <1>1, <1>5 DEF Inv, Shape, Sure, ArrayCertain, Unsure, Weak, Strong
  <2>2. op.method \notin {"GET", "PUT", "PATCH", "DELETE"}
    BY <2>1 DEF Bound
  <2>3. BehaviorsOf(op.method) = BehaviorTypes
    BY <2>2 DEF BehaviorsOf
  <2>4. CASE HasOperationId \/ HasSummary
    <3>1. Signal \in BehaviorsOf(op.method)
      BY <2>3, <2>4, SignalIsType DEF Inv, Shape, BehaviorTypes
    <3> QED BY <1>1, <1>2, <1>5, <2>1, <3>1
         DEF Inv, Shape, Sure, Typed, ArrayCertain, Result, ByName
  <2>5. CASE ~HasOperationId /\ ~HasSummary
    BY <1>3, <2>5 DEF ApplyLayer3, Inv, Shape
  <2> QED BY <2>4, <2>5
<1>6. CASE result' = Result(Signal, ByName) /\ Targeted
  <2>1. /\ result.confidence <= Strong /\ result.type \in {"list", "fetch"}
        /\ Signal \in {"list", "fetch"}
    BY <1>6 DEF Targeted, ByConfidence
  <2>2. ~Verbal /\ ~(op.array /\ structural.type = "list")
    BY <1>1, <2>1 DEF Inv, Shape, Typed, ArrayCertain, Strong
  <2>3. {"list", "fetch"} \subseteq BehaviorsOf(op.method)
    BY <1>1, <2>1 DEF Inv, Typed, BehaviorsOf, BehaviorTypes
  <2> QED BY <1>1, <1>2, <1>6, <2>1, <2>2, <2>3
     DEF Inv, Shape, Sure, Typed, ArrayCertain, Result, ByName
<1> QED BY <1>3, <1>4, <1>5, <1>6 DEF ApplyLayer3, Inv, Shape

THEOREM Invariance == Spec => []Inv
<1>1. Inv /\ UNCHANGED vars => Inv'
  BY DEF vars, Inv, Shape, Sure, Typed, ArrayCertain, Bound, Verbal
<1> QED BY <1>1, InitInv, Layer1Inv, Layer2Inv, Layer3Inv, PTL DEF Spec, Next

\* Whatever it is called and answers, an action verb's operation is generic.
THEOREM ActionStaysGenericTheorem == Spec => []ActionStaysGeneric
<1>1. Inv => ActionStaysGeneric
  BY DEF Inv, Shape, Typed, Verbal, ActionStaysGeneric
<1> QED BY <1>1, Invariance, PTL

\* No name gives an operation a type that its method does not have, and that
\* the modules after this one (Builder, Pipeline) do not expect.
THEOREM MethodAgreesTheorem == Spec => []MethodAgrees
<1>1. Inv => MethodAgrees
  BY DEF Inv, Shape, Typed, MethodAgrees
<1> QED BY <1>1, Invariance, PTL

\* A GET on a collection that answers with an array stays a list.
THEOREM ArrayStaysListTheorem == Spec => []ArrayStaysList
<1>1. Inv => ArrayStaysList
  BY DEF Inv, Shape, ArrayCertain, ArrayStaysList
<1> QED BY <1>1, Invariance, PTL
=============================================================================
