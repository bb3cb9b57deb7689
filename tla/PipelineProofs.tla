--------------------------- MODULE PipelineProofs ---------------------------
(***************************************************************************)
(* What an answer may be made of (module Pipeline), for every document,    *)
(* every sequence of errors the validator library may report and every     *)
(* status that may be asked for.                                           *)
(*                                                                         *)
(* Two things are inductive: where the entry comes from (Built), and that  *)
(* only an admitted request gets past the validation (Passed, Wrote).  The *)
(* properties of the answer then follow from the one step that sends it:   *)
(* Sound says of an answer what the three of them need, and each action    *)
(* that answers sends a sound one.                                         *)
(***************************************************************************)
EXTENDS Pipeline, WellFoundedInduction, TLAPS

Built ==
    /\ document \in Documents
    /\ \E behavior \in BehaviorsOf(document.method) : op = ExtractOperation(document, behavior)
    /\ entry \in {None, BuildEntry(op)}

Admitted == entry # None /\ ~Uncheckable /\ Refusal = None

Passed == stage = "validated" => Admitted

Wrote == written => Admitted /\ request.header = None /\ stage = "answered"

Inv == Built /\ Passed /\ Wrote

-----------------------------------------------------------------------------
(***************************************************************************)
(* The entry.                                                              *)
(***************************************************************************)
\* A nonempty set of numbers has a least one.
LEMMA Least ==
  ASSUME NEW T \in SUBSET Nat, T # {}
  PROVE  \E x \in T : \A y \in T : x <= y
<1> DEFINE R == OpToRel(<, Nat)
<1>1. IsWellFoundedOn(R, Nat)
  BY NatLessThanWellFounded
<1>2. \A x, y \in Nat : y < x => <<y, x>> \in R
  BY DEF OpToRel
<1> HIDE DEF R
<1>3. PICK x \in T : \A y \in T : <<y, x>> \notin R
  BY <1>1, WFMin, Zenon
<1>4. \A y \in T : ~(y < x)
  BY <1>2, <1>3
<1>5. \A y \in T : x <= y
  BY <1>4
<1>6. QED BY <1>5

\* The success code is in the 200s, whatever the document has.
LEMMA SuccessInRange ==
  ASSUME NEW responses, DOMAIN responses \subseteq Nat, NEW behavior
  PROVE  SelectSuccessCode(responses, behavior) \in 200..299
<1> DEFINE successes == {c \in DOMAIN responses : 200 <= c /\ c < 300}
<1>1. PreferredSuccessCode(behavior) \in 200..299
  BY DEF PreferredSuccessCode, OK, NoContent
<1>2. ASSUME successes # {}
      PROVE  (CHOOSE c \in successes : \A d \in successes : c <= d) \in successes
  <2>1. \E c \in successes : \A d \in successes : c <= d
    <3>1. successes \in SUBSET Nat
      OBVIOUS
    <3> HIDE DEF successes
    <3>2. QED BY <1>2, <3>1, Least
  <2> HIDE DEF successes
  <2>2. QED BY <2>1
<1>3. successes \subseteq 200..299
  OBVIOUS
<1>4. OK \in 200..299
  BY DEF OK
<1> HIDE DEF successes
<1>5. SelectSuccessCode(responses, behavior) =
        IF PreferredSuccessCode(behavior) \in DOMAIN responses
        THEN PreferredSuccessCode(behavior)
        ELSE IF successes # {} THEN CHOOSE c \in successes : \A d \in successes : c <= d
        ELSE OK
  BY DEF SelectSuccessCode, successes
<1>6. QED BY <1>1, <1>2, <1>3, <1>4, <1>5

LEMMA EntrySuccess ==
  ASSUME Built, entry # None
  PROVE  /\ entry = BuildEntry(op)
         /\ entry.success \in 200..299
         /\ entry.success \in Nat
         /\ entry.success # None /\ entry.success # Default
         /\ entry.behavior = op.behavior
<1>1. PICK behavior \in BehaviorsOf(document.method) : op = ExtractOperation(document, behavior)
  BY DEF Built
<1>2. DOMAIN op.responses \subseteq Nat
  BY <1>1 DEF ExtractOperation, ExtractResponses
<1>3. entry = BuildEntry(op)
  BY DEF Built
<1>4. entry.success = SelectSuccessCode(op.responses, op.behavior)
  BY <1>3 DEF BuildEntry
<1>5. entry.success \in 200..299
  BY <1>2, <1>4, SuccessInRange
<1>6. entry.behavior = op.behavior
  BY <1>3 DEF BuildEntry
<1>7. QED BY <1>3, <1>5, <1>6, NoneAssumption DEF Default

\* The responses of the document and the entry's, at the success code.
LEMMA SuccessEntry ==
  ASSUME Built, entry # None, entry.success \in DOMAIN document.responses
  PROVE  LET response == ExtractResponse(document.responses[entry.success])
         IN  /\ SchemaAt(entry.success) =
                  IF response.schema = "good" THEN entry.success ELSE None
             /\ entry.degradedResponse <=> response.schema = "bad"
<1> DEFINE s == entry.success
           response == ExtractResponse(document.responses[s])
<1>1. PICK behavior \in BehaviorsOf(document.method) : op = ExtractOperation(document, behavior)
  BY DEF Built
<1>2. s \in Nat /\ s # Default /\ entry = BuildEntry(op)
  BY EntrySuccess
<1>3. op.responses = ExtractResponses(document.responses)
  BY <1>1 DEF ExtractOperation
<1>4. s \in DOMAIN op.responses /\ op.responses[s] = response
  BY <1>2, <1>3 DEF ExtractResponses
<1>5. s \in DOMAIN Keyed(op) /\ Keyed(op)[s] = response
  BY <1>2, <1>4 DEF Keyed
<1>6. entry.schemas = ResponseSchemas(op)
  BY <1>2 DEF BuildEntry
<1>7. entry.degradedResponse <=> s \in ResponseErrors(op)
  <2>1. s = SelectSuccessCode(op.responses, op.behavior)
    BY <1>2 DEF BuildEntry
  <2>2. entry.degradedResponse =
          (SelectSuccessCode(op.responses, op.behavior) \in ResponseErrors(op))
    BY <1>2 DEF BuildEntry
  <2>3. QED BY <2>1, <2>2
<1> HIDE DEF s, response
<1>8. SchemaAt(s) = IF response.schema = "good" THEN s ELSE None
  BY <1>5, <1>6 DEF SchemaAt, ResponseSchemas
<1>9. s \in ResponseErrors(op) <=> response.schema = "bad"
  BY <1>5 DEF ResponseErrors
<1>10. QED BY <1>7, <1>8, <1>9 DEF s, response

-----------------------------------------------------------------------------
(***************************************************************************)
(* What the success scenario says of the document.                         *)
(***************************************************************************)
\* The premise of SuccessFromOwnResponse.
Usable ==
    /\ entry.success \in DOMAIN document.responses
    /\ "json" \in DOMAIN document.responses[entry.success]
    /\ document.responses[entry.success]["json"].schema = "good"

LEMMA OwnSchema ==
  ASSUME Built, entry # None, Usable
  PROVE  /\ SelectSuccess.schema = entry.success
         /\ SelectSuccess.example \in {entry.success, None}
<1> DEFINE content == document.responses[entry.success]
<1>1. FindJSONMediaType(content) = {content["json"]}
  BY DEF FindJSONMediaType, Exact, Usable
<1>2. (CHOOSE m \in {content["json"]} : TRUE) = content["json"]
  OBVIOUS
<1>3. ExtractResponse(content).schema = "good"
  BY <1>1, <1>2 DEF ExtractResponse, ResolveSchemaRef, Usable
<1>4. SchemaAt(entry.success) = entry.success
  BY <1>3, SuccessEntry DEF Usable
<1>5. SchemaAt(entry.success) # None
  BY <1>4, EntrySuccess
<1>6. QED BY <1>4, <1>5 DEF SelectSuccess, ExampleAt

\* No schema and no failed one: the document has none.
LEMMA NotDescribed ==
  ASSUME Built, entry # None, entry.success \in DOMAIN document.responses,
         SelectSuccess.schema = None, ~entry.degradedResponse
  PROVE  Undescribed(document.responses[entry.success])
<1> DEFINE content == document.responses[entry.success]
           media == FindJSONMediaType(content)
<1>1. SchemaAt(entry.success) = None
  BY DEF SelectSuccess
<1>2. ExtractResponse(content).schema \notin {"good", "bad"}
  BY <1>1, SuccessEntry, EntrySuccess
<1>3. CASE media = {}
  BY <1>3 DEF Undescribed
<1>4. CASE media # {}
  <2>1. PICK t \in DOMAIN content : media = {content[t]}
    <3>1. CASE Exact \in DOMAIN content
      BY <3>1 DEF FindJSONMediaType
    <3>2. CASE Exact \notin DOMAIN content
      BY <1>4, <3>2 DEF FindJSONMediaType
    <3>3. QED BY <3>1, <3>2
  <2>2. content[t].schema \in {"none", "good", "bad", "missing"}
    BY <2>1, DocumentsAssumption DEF Built
  <2>3. (CHOOSE m \in media : TRUE) = content[t]
    BY <2>1
  <2>4. ExtractResponse(content).schema = ResolveSchemaRef(content[t].schema)
    BY <1>4, <2>3 DEF ExtractResponse
  <2>5. content[t].schema \in {"none", "missing"}
    BY <1>2, <2>2, <2>4 DEF ResolveSchemaRef
  <2>6. QED BY <2>1, <2>5 DEF Undescribed
<1>5. QED BY <1>3, <1>4

-----------------------------------------------------------------------------
(***************************************************************************)
(* The inductive invariant.                                                *)
(***************************************************************************)
LEMMA InitInv == Init => Inv
BY DEF Init, Inv, Built, Passed, Wrote

\* What an admission rests on is settled once the request is received.
LEMMA AdmittedStays ==
  ASSUME UNCHANGED <<startup, request>>
  PROVE  Admitted' <=> Admitted
<1>1. /\ strict' = strict /\ op' = op /\ entry' = entry /\ request' = request
  BY DEF startup
<1>2. HasBody' <=> HasBody
  BY <1>1 DEF HasBody
<1>3. Uncheckable' <=> Uncheckable
  BY <1>1, <1>2 DEF Uncheckable
<1>4. Rejection' = Rejection
  BY <1>1 DEF Rejection
<1>5. Refusal' = Refusal
  <2>1. CASE HasBody
    BY <1>1, <1>2, <1>4, <2>1 DEF Refusal
  <2>2. CASE ~HasBody
    BY <1>1, <1>2, <1>4, <2>2 DEF Refusal
  <2> QED BY <2>1, <2>2
<1>6. QED BY <1>1, <1>3, <1>5 DEF Admitted

LEMMA BuiltStays == ASSUME Built, UNCHANGED startup PROVE Built'
BY DEF Built, startup

\* Every answer is sent by one of these, from an admitted request or for one
\* that is not.
Early == Placeholder \/ BlockUncheckable \/ StatefulDegraded

Late ==
    \/ HandleCreate \/ HandleFetch \/ HandleList \/ HandleUpdate \/ HandleDelete
    \/ InvalidScenario \/ DegradedResponse \/ ExampleResponse \/ ErrorFallback \/ WriteResponse

\* An answer changes nothing but the stage, the store and itself.
LEMMA AnswerFrame ==
  ASSUME Early \/ Late
  PROVE  UNCHANGED <<startup, request>> /\ stage' = "answered"
<1>1. CASE Early
  BY <1>1 DEF Early, Placeholder, BlockUncheckable, StatefulDegraded, Problem, Send
<1>2. CASE HandleCreate \/ HandleFetch \/ HandleList \/ HandleUpdate \/ HandleDelete
  BY <1>2 DEF HandleCreate, HandleFetch, HandleList, HandleUpdate, HandleDelete, Problem, Send
<1>3. CASE \/ InvalidScenario \/ DegradedResponse \/ ExampleResponse
           \/ ErrorFallback \/ WriteResponse
  BY <1>3 DEF InvalidScenario, DegradedResponse, ExampleResponse, ErrorFallback,
     WriteResponse, Problem, Send
<1>4. QED BY <1>1, <1>2, <1>3 DEF Late

\* Only a stateful handler writes, and only for a validated request.
LEMMA WriteFrame ==
  ASSUME Early \/ Late
  PROVE  \/ written' = written
         \/ stage = "validated" /\ request.header = None
<1>1. CASE Early
  BY <1>1 DEF Early, Placeholder, BlockUncheckable, StatefulDegraded
<1>2. CASE HandleCreate \/ HandleFetch \/ HandleList \/ HandleUpdate \/ HandleDelete
  BY <1>2 DEF HandleCreate, HandleFetch, HandleList, HandleUpdate, HandleDelete, Stateful
<1>3. CASE \/ InvalidScenario \/ DegradedResponse \/ ExampleResponse
           \/ ErrorFallback \/ WriteResponse
  BY <1>3 DEF InvalidScenario, DegradedResponse, ExampleResponse, ErrorFallback, WriteResponse
<1>4. QED BY <1>1, <1>2, <1>3 DEF Late

LEMMA NextInv == Inv /\ [Next]_vars => Inv'
<1> SUFFICES ASSUME Inv, [Next]_vars PROVE Inv'
  OBVIOUS
<1> USE DEF Inv
<1>1. CASE Build
  BY <1>1 DEF Build, Enter, Built, Passed, Wrote
<1>2. CASE BuildPanics
  BY <1>2 DEF BuildPanics, Enter, startup, Built, Passed, Wrote
<1>3. CASE Receive
  BY <1>3 DEF Receive, Enter, startup, Built, Passed, Wrote
<1>4. CASE ValidateRequest
  <2>1. UNCHANGED <<startup, request>> /\ written' = written
    BY <1>4 DEF ValidateRequest, Enter, Problem, Send
  <2>2. stage' = "validated" => Admitted
    BY <1>4 DEF ValidateRequest, Enter, Problem, Send, Admitted
  <2>3. ~written
    BY <1>4 DEF ValidateRequest, Wrote
  <2>4. Built' /\ (Admitted' <=> Admitted)
    BY <2>1, AdmittedStays, BuiltStays
  <2>5. QED BY <2>1, <2>2, <2>3, <2>4 DEF Passed, Wrote
<1>5. CASE Early \/ Late
  <2>1. UNCHANGED <<startup, request>> /\ stage' = "answered"
    BY <1>5, AnswerFrame
  <2>2. written' => Admitted /\ request.header = None
    BY <1>5, WriteFrame DEF Passed, Wrote
  <2>3. Built' /\ (Admitted' <=> Admitted)
    BY <2>1, AdmittedStays, BuiltStays
  <2>4. QED BY <2>1, <2>2, <2>3 DEF Passed, Wrote
<1>6. CASE UNCHANGED vars
  <2>1. UNCHANGED <<startup, request>> /\ stage' = stage /\ written' = written
    BY <1>6 DEF vars
  <2>2. Built' /\ (Admitted' <=> Admitted)
    BY <2>1, AdmittedStays, BuiltStays
  <2>3. QED BY <2>1, <2>2 DEF Passed, Wrote
<1>7. QED BY <1>1, <1>2, <1>3, <1>4, <1>5, <1>6 DEF Next, Early, Late

LEMMA Invariance == Spec => []Inv
BY InitInv, NextInv, PTL DEF Spec

(***************************************************************************)
(* Nothing is written for a request that a check should have stopped.      *)
(***************************************************************************)
LEMMA InvWritesOnlyChecked == Inv => WritesOnlyChecked
<1> SUFFICES ASSUME Inv, written PROVE WritesOnlyChecked
  BY DEF WritesOnlyChecked
<1>1. Admitted /\ request.header = None
  BY DEF Inv, Wrote
<1>2. request.body # "large" /\ ~(entry.bodyRequired /\ request.body = "empty") /\ Rejection = None
  BY <1>1, NoneAssumption DEF Admitted, Refusal
<1>3. request.errors = <<>>
  BY <1>2, NoneAssumption DEF Rejection
<1>4. entry.bodyRequired = op.required /\ entry.degradedRequest = (op.body = "bad")
  BY <1>1 DEF Inv, Built, Admitted, BuildEntry
<1>5. QED
  BY <1>1, <1>2, <1>3, <1>4 DEF WritesOnlyChecked, Admitted, Uncheckable

THEOREM WritesOnlyCheckedTheorem == Spec => []WritesOnlyChecked
BY Invariance, InvWritesOnlyChecked, PTL

-----------------------------------------------------------------------------
(***************************************************************************)
(* The answer.                                                             *)
(***************************************************************************)
\* The exceptions of DegradedNeverEmpty.
Excepted ==
    /\ mode = "stateful" /\ SelectSuccess.example # None
    /\ \/ op.behavior = "delete"
       \/ op.behavior = "create" /\ ~ExampleSets /\ ~RequestSets

\* The success scenario is what is asked for.
Success == entry # None /\ request.header \in {None, entry.success}

Sound(content, from) ==
    /\ Success /\ Usable => from \ {None} \subseteq {entry.success}
    /\ content = "codes" => \A c \in from \ {None} : Offered(c)
    /\ content = "empty" /\ entry.success \in DOMAIN document.responses
       => Undescribed(document.responses[entry.success]) \/ Excepted

Answers == SuccessFromOwnResponse /\ ListedIsOffered /\ DegradedNeverEmpty

\* Sound is all that the properties ask of an answer that is sent.
LEMMA SendSound ==
  ASSUME NEW status, NEW content, NEW from,
         Send(status, content, from), Sound(content, from)
  PROVE  Answers'
<1>1. /\ mode' = mode /\ document' = document /\ op' = op
      /\ entry' = entry /\ request' = request /\ stage' = "answered"
  BY DEF Send, startup
<1>2. \/ answer'.content \in {"problem", "none"} /\ answer'.from = {}
      \/ answer'.content = content /\ answer'.from = from \ {None}
  <2>1. CASE status \notin 100..999
    BY <2>1 DEF Send
  <2>2. CASE status \in 100..999 /\ status \in Bodiless
    BY <2>2 DEF Send
  <2>3. CASE status \in 100..999 /\ status \notin Bodiless
    BY <2>3 DEF Send
  <2>4. QED BY <2>1, <2>2, <2>3
<1>3. SuccessFromOwnResponse'
  BY <1>1, <1>2 DEF SuccessFromOwnResponse, Sound, Success, Usable
<1>4. ListedIsOffered'
  BY <1>1, <1>2 DEF ListedIsOffered, Sound, Offered
<1>5. DegradedNeverEmpty'
  <2>1. SelectSuccess' = SelectSuccess
    BY <1>1 DEF SelectSuccess, SchemaAt, ExampleAt
  <2>2. (ExampleSets' <=> ExampleSets) /\ (RequestSets' <=> RequestSets)
    BY <1>1, <2>1 DEF ExampleSets, RequestSets
  <2>3. answer'.content = "empty" => content = "empty"
    BY <1>2
  <2>4. QED BY <1>1, <2>1, <2>2, <2>3 DEF DegradedNeverEmpty, Sound, Excepted, Undescribed
<1>6. QED BY <1>3, <1>4, <1>5 DEF Answers

LEMMA ProblemSound == ASSUME NEW status, Problem(status) PROVE Answers'
<1>1. Sound("problem", {})
  BY DEF Sound
<1>2. QED BY <1>1, SendSound DEF Problem

\* Contents that only the first property says something about.
LEMMA PlainSound ==
  ASSUME NEW content \in {"none", "example", "resource", "list", "valid"}, NEW from,
         Success /\ Usable => from \ {None} \subseteq {entry.success}
  PROVE  Sound(content, from)
BY DEF Sound

\* A generated content that is delivered.
LEMMA DeliveredSound ==
  ASSUME NEW schema, NEW generation \in Generations(schema), Delivered(generation),
         Success /\ Usable => {schema} \ {None} \subseteq {entry.success},
         schema = None /\ entry.success \in DOMAIN document.responses
         => Undescribed(document.responses[entry.success]) \/ Excepted
  PROVE  Sound(generation, {schema})
<1>1. schema = None => generation = "empty"
  BY DEF Generations
<1>2. schema # None => generation \in {"fails", "valid", "invalid"}
  BY DEF Generations
<1>3. QED BY <1>1, <1>2 DEF Sound

LEMMA EarlyAnswers == ASSUME Early PROVE Answers'
BY ProblemSound DEF Early, Placeholder, BlockUncheckable, StatefulDegraded

\* A handler answers with the success scenario, which is the document's own;
\* nothing is left of a base that stands for a missing schema, unless neither
\* example nor request sets anything.
LEMMA CreateAnswers == ASSUME Built, entry # None, HandleCreate PROVE Answers'
<1>1. PICK generation \in Generations(SelectSuccess.schema) :
        IF Delivered(generation)
        THEN \E content \in Created(generation) :
                Send(SelectSuccess.status, content,
                     {SelectSuccess.schema}
                     \cup (IF content = "resource" /\ ExampleSets
                           THEN {SelectSuccess.example} ELSE {}))
        ELSE Problem(500)
  BY DEF HandleCreate
<1>2. CASE ~Delivered(generation)
  BY <1>1, <1>2, ProblemSound
<1>3. CASE Delivered(generation)
  <2>1. PICK content \in Created(generation), from \in SUBSET {SelectSuccess.schema, SelectSuccess.example} :
          Send(SelectSuccess.status, content, from)
    BY <1>1, <1>3
  <2>2. generation \in {"valid", "invalid", "empty"}
    BY <1>3 DEF Generations, Delivered
  <2>3. content \in {generation, "resource"}
    BY DEF Created
  <2>4. content = "empty" => SelectSuccess.schema = None /\ ~ExampleSets /\ ~RequestSets
    BY <2>2, <2>3 DEF Created, Generations
  <2>5. Usable => from \ {None} \subseteq {entry.success}
    BY OwnSchema
  <2>6. mode = "stateful" /\ op.behavior = "create" /\ (entry.degradedResponse => ~NeedsSchema)
    BY EntrySuccess DEF HandleCreate, Stateful, Works
  <2>7. SelectSuccess.example = None => ~entry.degradedResponse
    BY <2>6, EntrySuccess DEF NeedsSchema
  <2>8. content = "empty" /\ entry.success \in DOMAIN document.responses
        => Undescribed(document.responses[entry.success]) \/ Excepted
    BY <2>4, <2>6, <2>7, NotDescribed DEF Excepted
  <2>9. Sound(content, from)
    BY <2>2, <2>3, <2>5, <2>8 DEF Sound
  <2>10. QED BY <2>1, <2>9, SendSound
<1>4. QED BY <1>2, <1>3

LEMMA FetchAnswers == ASSUME HandleFetch PROVE Answers'
<1>1. CASE Problem(404)
  BY <1>1, ProblemSound
<1>2. CASE Send(entry.success, "resource", {})
  BY <1>2, PlainSound, SendSound
<1>3. QED BY <1>1, <1>2 DEF HandleFetch

LEMMA ListAnswers == ASSUME Built, entry # None, HandleList PROVE Answers'
<1>1. PICK schema \in {None, SelectSuccess.schema} : Send(entry.success, "list", {schema})
  BY DEF HandleList
<1>2. Usable => {schema} \ {None} \subseteq {entry.success}
  BY OwnSchema
<1>3. Sound("list", {schema})
  BY <1>2, PlainSound
<1>4. QED BY <1>1, <1>3, SendSound

LEMMA UpdateAnswers == ASSUME HandleUpdate PROVE Answers'
<1>1. CASE Problem(404) \/ Problem(400)
  BY <1>1, ProblemSound
<1>2. CASE Send(entry.success, "resource", {})
  BY <1>2, PlainSound, SendSound
<1>3. QED BY <1>1, <1>2 DEF HandleUpdate

\* Without schema and example, a failed schema would have been needed.
LEMMA DeleteAnswers == ASSUME Built, entry # None, HandleDelete PROVE Answers'
<1>1. CASE Problem(404) \/ Problem(500)
  BY <1>1, ProblemSound
<1>2. CASE Send(NoContent, "none", {})
  BY <1>2, PlainSound, SendSound
<1>3. CASE /\ entry.success # NoContent
           /\ \E generation \in Generations(SelectSuccess.schema) :
                 Delivered(generation) /\ Send(entry.success, generation, {SelectSuccess.schema})
  <2>1. PICK generation \in Generations(SelectSuccess.schema) :
          Delivered(generation) /\ Send(entry.success, generation, {SelectSuccess.schema})
    BY <1>3
  <2>2. Usable => {SelectSuccess.schema} \ {None} \subseteq {entry.success}
    BY OwnSchema
  <2>3. mode = "stateful" /\ op.behavior = "delete" /\ (entry.degradedResponse => ~NeedsSchema)
    BY EntrySuccess DEF HandleDelete, Stateful, Works
  <2>4. SelectSuccess.example = None => ~entry.degradedResponse
    BY <1>3, <2>3, EntrySuccess DEF NeedsSchema
  <2>5. SelectSuccess.schema = None /\ entry.success \in DOMAIN document.responses
        => Undescribed(document.responses[entry.success]) \/ Excepted
    BY <2>3, <2>4, NotDescribed DEF Excepted
  <2>6. Sound(generation, {SelectSuccess.schema})
    BY <2>1, <2>2, <2>5, DeliveredSound
  <2>7. QED BY <2>1, <2>6, SendSound
<1>4. QED BY <1>1, <1>2, <1>3 DEF HandleDelete

\* The success scenario is the only one with the success status.
LEMMA ScenarioOfSuccess ==
  ASSUME Scenario.status = entry.success \/ Success
  PROVE  Scenario = SelectSuccess
BY DEF Scenario, SelectScenario, Success

\* What a refusal lists is in the schemas, or the success code.
LEMMA RefusalAnswers == ASSUME Built, entry # None, InvalidScenario PROVE Answers'
<1>1. CASE request.header = NotANumber
  BY <1>1, ProblemSound DEF InvalidScenario
<1>2. CASE request.header # NotANumber
  <2>1. Send(400, "codes", AvailableCodes)
    BY <1>2 DEF InvalidScenario
  <2>2. Sound("codes", AvailableCodes)
    <3>1. ~Success
      BY DEF InvalidScenario, Offered, Success
    <3>2. \A c \in AvailableCodes : Offered(c)
      BY DEF AvailableCodes, Offered
    <3>3. QED BY <3>1, <3>2 DEF Sound
  <2>3. QED BY <2>1, <2>2, SendSound
<1>3. QED BY <1>1, <1>2

LEMMA ExampleAnswers == ASSUME Built, entry # None, ExampleResponse PROVE Answers'
<1>1. Send(Scenario.status, "example", {Scenario.example})
  BY DEF ExampleResponse
<1>2. Success /\ Usable
      => {Scenario.example} \ {None} \subseteq {entry.success}
  BY ScenarioOfSuccess, OwnSchema
<1>3. Sound("example", {Scenario.example})
  BY <1>2, PlainSound
<1>4. QED BY <1>1, <1>3, SendSound

\* A body is generated without a schema for the success scenario alone.
LEMMA ResponseAnswers == ASSUME Built, entry # None, WriteResponse PROVE Answers'
<1>1. CASE Problem(500)
  BY <1>1, ProblemSound
<1>2. CASE Send(NoContent, "none", {})
  BY <1>2, PlainSound, SendSound
<1>3. CASE /\ Scenario.status # NoContent
           /\ \E generation \in Generations(Scenario.schema) :
                 Delivered(generation) /\ Send(Scenario.status, generation, {Scenario.schema})
  <2>1. PICK generation \in Generations(Scenario.schema) :
          Delivered(generation) /\ Send(Scenario.status, generation, {Scenario.schema})
    BY <1>3
  <2>2. Success /\ Usable
        => {Scenario.schema} \ {None} \subseteq {entry.success}
    BY ScenarioOfSuccess, OwnSchema
  <2>3. ASSUME Scenario.schema = None, entry.success \in DOMAIN document.responses
        PROVE  Undescribed(document.responses[entry.success])
    <3>1. Scenario.status = entry.success
      BY <2>3 DEF WriteResponse, FallsBack
    <3>2. Scenario.example = None
      BY <1>3 DEF WriteResponse, UsesExample
    <3>3. ~entry.degradedResponse
      BY <2>3, <3>1, <3>2 DEF WriteResponse, Degraded
    <3>4. SelectSuccess.schema = None
      BY <2>3, <3>1, ScenarioOfSuccess
    <3>5. QED BY <2>3, <3>3, <3>4, NotDescribed
  <2>4. Sound(generation, {Scenario.schema})
    BY <2>1, <2>2, <2>3, DeliveredSound
  <2>5. QED BY <2>1, <2>4, SendSound
<1>4. QED BY <1>1, <1>2, <1>3 DEF WriteResponse

LEMMA LateAnswers == ASSUME Inv, Late PROVE Answers'
<1>1. Built /\ entry # None
  BY DEF Inv, Passed, Admitted, Late, HandleCreate, HandleFetch, HandleList, HandleUpdate,
     HandleDelete, Stateful, Deterministic, Simulates, InvalidScenario, DegradedResponse,
     ExampleResponse, ErrorFallback, WriteResponse
<1>2. CASE HandleCreate
  BY <1>1, <1>2, CreateAnswers
<1>3. CASE HandleFetch
  BY <1>3, FetchAnswers
<1>4. CASE HandleList
  BY <1>1, <1>4, ListAnswers
<1>5. CASE HandleUpdate
  BY <1>5, UpdateAnswers
<1>6. CASE HandleDelete
  BY <1>1, <1>6, DeleteAnswers
<1>7. CASE InvalidScenario
  BY <1>1, <1>7, RefusalAnswers
<1>8. CASE DegradedResponse \/ ErrorFallback
  BY <1>8, ProblemSound DEF DegradedResponse, ErrorFallback
<1>9. CASE ExampleResponse
  BY <1>1, <1>9, ExampleAnswers
<1>10. CASE WriteResponse
  BY <1>1, <1>10, ResponseAnswers
<1>11. QED BY <1>2, <1>3, <1>4, <1>5, <1>6, <1>7, <1>8, <1>9, <1>10 DEF Late

\* Before the answer the three properties say nothing.
LEMMA Unanswered == stage # "answered" => Answers
BY DEF Answers, SuccessFromOwnResponse, ListedIsOffered, DegradedNeverEmpty

LEMMA AnswersStay == ASSUME Answers, UNCHANGED vars PROVE Answers'
<1>1. /\ mode' = mode /\ document' = document /\ op' = op /\ entry' = entry
      /\ request' = request /\ stage' = stage /\ answer' = answer
  BY DEF vars, startup
<1>2. SelectSuccess' = SelectSuccess
  BY <1>1 DEF SelectSuccess, SchemaAt, ExampleAt
<1>3. (ExampleSets' <=> ExampleSets) /\ (RequestSets' <=> RequestSets)
  BY <1>1, <1>2 DEF ExampleSets, RequestSets
<1>4. QED
  BY <1>1, <1>2, <1>3 DEF Answers, SuccessFromOwnResponse, ListedIsOffered,
     DegradedNeverEmpty, Offered, Undescribed

LEMMA NextAnswers == Inv /\ Answers /\ [Next]_vars => Answers'
<1> SUFFICES ASSUME Inv, Answers, [Next]_vars PROVE Answers'
  OBVIOUS
<1>1. CASE Early
  BY <1>1, EarlyAnswers
<1>2. CASE Late
  BY <1>2, LateAnswers
<1>3. CASE ValidateRequest
  <2>1. CASE Problem(Refusal)
    BY <2>1, ProblemSound
  <2>2. CASE Enter("validated")
    <3>1. stage' # "answered"
      BY <2>2 DEF Enter
    <3>2. (stage # "answered" => Answers)'
      BY Unanswered, PTL
    <3>3. QED BY <3>1, <3>2
  <2>3. QED BY <1>3, <2>1, <2>2 DEF ValidateRequest
<1>4. CASE Build \/ BuildPanics \/ Receive
  <2>1. stage' # "answered"
    BY <1>4 DEF Build, BuildPanics, Receive, Enter
  <2>2. (stage # "answered" => Answers)'
    BY Unanswered, PTL
  <2>3. QED BY <2>1, <2>2
<1>5. CASE UNCHANGED vars
  BY <1>5, AnswersStay
<1>6. QED BY <1>1, <1>2, <1>3, <1>4, <1>5 DEF Next, Early, Late

LEMMA AnswersInvariance == Spec => []Answers
<1>1. Init => Answers
  BY Unanswered DEF Init
<1>2. QED BY <1>1, NextAnswers, Invariance, PTL DEF Spec

(***************************************************************************)
(* A response with a usable JSON schema is answered from itself alone.     *)
(***************************************************************************)
THEOREM SuccessFromOwnResponseTheorem == Spec => []SuccessFromOwnResponse
BY AnswersInvariance, PTL DEF Answers

(***************************************************************************)
(* A status that a refusal lists is accepted when it is asked for.         *)
(***************************************************************************)
THEOREM ListedIsOfferedTheorem == Spec => []ListedIsOffered
BY AnswersInvariance, PTL DEF Answers

(***************************************************************************)
(* {} is not sent for a response that the document describes, but for a    *)
(* stateful DELETE with an example, and a stateful creation with one when  *)
(* neither it nor the request sets anything.                               *)
(***************************************************************************)
THEOREM DegradedNeverEmptyTheorem == Spec => []DegradedNeverEmpty
BY AnswersInvariance, PTL DEF Answers
=============================================================================
