----------------------------- MODULE Classifier -----------------------------
(***************************************************************************)
(* How an operation gets its behavior type (internal/classifier): by       *)
(* method and path, then by its responses, then by its names, each layer   *)
(* with a confidence that decides what the next one may change.            *)
(*                                                                         *)
(* A name (operationId, summary, segment of a path) is the sequence of     *)
(* lower case tokens that Tokenize makes of it.  A path is a sequence of   *)
(* segments [param, tokens, ext]: "{petId}" is a parameter, and ext tells  *)
(* a suffix ".json" or ".xml".  Confidence is in hundredths.               *)
(***************************************************************************)
EXTENDS Behaviors, Integers, Sequences, SequencesExt

CONSTANTS
    Operations,     \* [method, path, codes, array, operationId, summary], where
                    \* array tells whether the schema of 200 is an array
    Plurals,        \* the tokens that end in "s"
    Participles     \* the tokens that end in "ed"

ASSUME OperationsAssumption ==
    \A o \in Operations : o.operationId \in Seq(STRING) /\ o.summary \in Seq(STRING)

VARIABLES
    op,             \* the operation
    layer,          \* the last layer applied, 0 to 3
    result,         \* [type, confidence]
    structural      \* the result of layer 1

vars == <<op, layer, result, structural>>

Strong == 80
Moderate == 60
Weak == 40
ByName == 60        \* confidenceL3
BoostL2 == 10
BoostL3 == 5
Maximum == 90

Result(type, confidence) == [type |-> type, confidence |-> confidence]

Boosted(r, boost) ==
    Result(r.type, IF r.confidence + boost < Maximum THEN r.confidence + boost ELSE Maximum)

Unclassified == Result("none", 0)

Init ==
    /\ op \in Operations
    /\ layer = 0
    /\ result = Unclassified
    /\ structural = Unclassified

-----------------------------------------------------------------------------
(***************************************************************************)
(* Layer 1: method and path.                                               *)
(***************************************************************************)
ActionVerbs ==
    {"capture", "cancel", "confirm", "approve", "reject", "suspend", "unsuspend",
     "convert", "duplicate", "merge", "retry", "pause", "play", "next", "previous",
     "seek", "shuffle", "repeat", "volume", "send", "resend", "query", "search",
     "contains", "verify", "validate", "add", "remove", "refresh", "batch", "insert"}

NormalizePath(path) ==
    IF path = <<>> THEN path
    ELSE Append(Front(path), [Last(path) EXCEPT !.ext = FALSE])

IsPathParam(segment) == segment.param /\ ~segment.ext

IsItem(path) == path # <<>> /\ IsPathParam(Last(path))

IsActionVerb(segment) == \E i \in DOMAIN segment.tokens : segment.tokens[i] \in ActionVerbs

\* The last segment, or the one before the parameter that ends the path.
IsAction(path) ==
    LET candidates == IF IsItem(path) /\ Len(path) >= 2 THEN Front(path) ELSE path
    IN  /\ candidates # <<>>
        /\ ~IsPathParam(Last(candidates))
        /\ IsActionVerb(Last(candidates))

\* A singular segment below a parameter: /live-streams/{liveStreamId}/thumbnail.
IsSubResource(path) ==
    /\ Len(path) >= 2
    /\ \E i \in 1..(Len(path) - 1) : IsPathParam(path[i])
    /\ Last(Last(path).tokens) \notin Plurals \cup Participles

ClassifyGET(path) == Result(IF IsItem(path) THEN "fetch" ELSE "list", Strong)

ClassifyPOST(path) ==
    IF IsItem(path) THEN Result("generic", Weak) ELSE Result("create", Strong)

\* PUT and PATCH.
ClassifyUpdate(path) ==
    IF IsItem(path) THEN Result("update", Strong) ELSE Result("generic", Moderate)

ClassifyDELETE(path) ==
    IF IsItem(path) THEN Result("delete", Strong)
    ELSE IF IsSubResource(path) THEN Result("delete", Moderate)
    ELSE Result("generic", Moderate)

Classify(method, path) ==
    IF IsAction(path) THEN Result("generic", Moderate)
    ELSE CASE method = "GET" -> ClassifyGET(path)
           [] method = "POST" -> ClassifyPOST(path)
           [] method \in {"PUT", "PATCH"} -> ClassifyUpdate(path)
           [] method = "DELETE" -> ClassifyDELETE(path)
           [] OTHER -> Result("generic", Weak)

ApplyLayer1 ==
    /\ layer = 0
    /\ layer' = 1
    /\ structural' = Classify(op.method, NormalizePath(op.path))
    /\ result' = structural'
    /\ UNCHANGED op

-----------------------------------------------------------------------------
(***************************************************************************)
(* Layer 2: the responses confirm what layer 1 found.                      *)
(***************************************************************************)
Confirmed ==
    \/ result.type = "list" /\ op.array
    \/ result.type = "create" /\ 201 \in op.codes
    \/ result.type \in {"delete", "generic"} /\ 204 \in op.codes

ApplyLayer2 ==
    /\ layer = 1
    /\ layer' = 2
    /\ result' = IF Confirmed THEN Boosted(result, BoostL2) ELSE result
    /\ UNCHANGED <<op, structural>>

-----------------------------------------------------------------------------
(***************************************************************************)
(* Layer 3: keywords in the names.                                         *)
(***************************************************************************)
Keywords ==
    [create |-> {"create", "add", "new", "insert"},
     fetch |-> {"get", "fetch", "retrieve", "read", "show"},
     list |-> {"list", "search", "find", "browse"},
     update |-> {"update", "edit", "modify", "patch"},
     delete |-> {"delete", "remove", "destroy", "drop"}]

IsKeyword(token) == \E type \in DOMAIN Keywords : token \in Keywords[type]

Meaning(token) == CHOOSE type \in DOMAIN Keywords : token \in Keywords[type]

MethodName ==
    [GET |-> "get", POST |-> "post", PUT |-> "put", PATCH |-> "patch",
     DELETE |-> "delete", HEAD |-> "head"]

\* The positions of keywords, without a method that comes first.
Signals(tokens) ==
    {i \in DOMAIN tokens :
        IsKeyword(tokens[i]) /\ ~(i = 1 /\ tokens[i] = MethodName[op.method])}

HasOperationId == Signals(op.operationId) # {}

\* In the code positions count from 0.
Position == CHOOSE i \in Signals(op.operationId) : \A j \in Signals(op.operationId) : i <= j

HasSummary == 1 \in Signals(op.summary)

Signal ==
    IF HasOperationId THEN Meaning(op.operationId[Position]) ELSE Meaning(op.summary[1])

\* Mutant: a name may correct whatever is not certain.
TrustsNames(confidence) == confidence <= Moderate

Unsure(confidence) == confidence <= Weak

\* Mutant: an array in the response does not protect a list.
AtAnyConfidence(confidence) == confidence <= Maximum

ByConfidence(confidence) == confidence <= Strong

\* A keyword after a prefix, or a summary that says "show" or "fetch".
Eligible ==
    \/ HasOperationId /\ Position > 1
    \/ HasSummary /\ op.summary[1] \in {"show", "fetch"}

\* Mutant: not only between list and fetch.
TargetedFreely == ByConfidence(result.confidence) /\ Eligible

Targeted ==
    /\ ByConfidence(result.confidence)
    /\ {result.type, Signal} = {"list", "fetch"}
    /\ Eligible

ApplyLayer3 ==
    /\ layer = 2
    /\ layer' = 3
    /\ result' = IF ~HasOperationId /\ ~HasSummary THEN result
                 ELSE IF Signal = result.type THEN Boosted(result, BoostL3)
                 ELSE IF Unsure(result.confidence) \/ Targeted THEN Result(Signal, ByName)
                 ELSE result
    /\ UNCHANGED <<op, structural>>

-----------------------------------------------------------------------------
Next == ApplyLayer1 \/ ApplyLayer2 \/ ApplyLayer3

Spec == Init /\ [][Next]_vars
-----------------------------------------------------------------------------
(***************************************************************************)
(* Properties.                                                             *)
(***************************************************************************)
(***************************************************************************)
(* Whatever an operation is called and whatever it answers, a path that    *)
(* ends in an action verb stays generic.  Four of the verbs are keywords   *)
(* of layer 3 as well; a comment there argues that the confidences keep it *)
(* from undoing layer 1.                                                   *)
(***************************************************************************)
ActionStaysGeneric ==
    layer = 3 /\ IsAction(NormalizePath(op.path)) => result.type = "generic"

(***************************************************************************)
(* In stateful mode the type decides what a request does to the store.     *)
(* No name makes a GET write, a PUT or PATCH create or delete, or a DELETE *)
(* do anything else; and every operation has a type that Builder and       *)
(* Pipeline expect of its method.                                          *)
(***************************************************************************)
MethodAgrees == layer = 3 => result.type \in BehaviorsOf(op.method)

(***************************************************************************)
(* A GET on a collection that answers 200 with an array is a list, however *)
(* it is named: layer 2 puts it out of the reach of layer 3.               *)
(***************************************************************************)
ArrayStaysList ==
    /\ layer = 3 /\ op.array /\ structural.type = "list"
    => result.type = "list"
=============================================================================
