------------------------------ MODULE Pipeline ------------------------------
(***************************************************************************)
(* One operation from the document to an answer: it is built at startup    *)
(* (internal/builder), or fails and leaves a placeholder, and the router   *)
(* (internal/router) takes a request for it through validation, the choice *)
(* between state and generation, and the choice of the scenario.           *)
(*                                                                         *)
(* Whether the request addresses a resource that is held is an input here; *)
(* StatefulHandler has the store and its other clients.                    *)
(***************************************************************************)
EXTENDS Builder

CONSTANTS
    Documents,      \* the operations a document may have, see Parser
    LibraryErrors,  \* sequences over "path", "operation" and "other"
    Codes,          \* the codes X-Mimikos-Status may ask for
    NotANumber      \* what it may ask for instead

ASSUME NoneAssumption == None \notin Nat
ASSUME DocumentsAssumption ==
    \A d \in Documents : \A c \in DOMAIN d.responses : \A t \in DOMAIN d.responses[c] :
        d.responses[c][t].schema \in {"none", "good", "bad", "missing"}

VARIABLES
    strict,         \* --strict
    mode,           \* "deterministic" or "stateful"
    document,       \* the operation in the document
    op,             \* what the parser keeps of it
    entry,          \* what was built from it, None before or if that failed
    request,        \* see Requests
    stage,          \* "building", "listening", "received", "validated", "answered"
    written,        \* has the request written to the store?
    answer          \* [status, content, from], see Send

startup == <<strict, mode, document, op, entry>>
vars == <<startup, request, stage, written, answer>>

(***************************************************************************)
(* A body is "empty", "large" (over 10 MB), JSON that sets "fields" of a   *)
(* resource, other "json", or of another content type.  The errors of the  *)
(* validator library are an input: it may also find no operation, or no    *)
(* path, where the router found one.                                       *)
(***************************************************************************)
Requests ==
    [header : Codes \cup {None, NotANumber},
     body : {"empty", "large", "fields", "json", "other"}, errors : LibraryErrors]

Init ==
    /\ strict \in BOOLEAN
    /\ mode \in {"deterministic", "stateful"}
    /\ document \in Documents
    /\ \E behavior \in BehaviorsOf(document.method) : op = ExtractOperation(document, behavior)
    /\ entry = None
    /\ request = None
    /\ stage = "building"
    /\ written = FALSE
    /\ answer = None

Enter(next) == stage' = next /\ UNCHANGED <<written, answer>>

Build ==
    /\ stage = "building"
    /\ entry' = BuildEntry(op)
    /\ Enter("listening")
    /\ UNCHANGED <<strict, mode, document, op, request>>

\* A panic while the entry is built is recovered and leaves a FailedEntry.
BuildPanics ==
    /\ stage = "building"
    /\ Enter("listening")
    /\ UNCHANGED <<startup, request>>

Receive ==
    /\ stage = "listening"
    /\ request' \in Requests
    /\ Enter("received")
    /\ UNCHANGED startup

-----------------------------------------------------------------------------
(***************************************************************************)
(* Answers.  The content is "problem" (RFC 7807), "codes" (a problem that  *)
(* lists the status codes in from), "none", "example", "resource", "list", *)
(* or a generated one: "valid" or "invalid" for its schema, or "empty",    *)
(* the object that stands for a missing schema.  from holds the keys of    *)
(* the responses whose schema or example is in the content.                *)
(***************************************************************************)
\* WriteHeader panics on what is no status, and the recoverer answers instead;
\* 1xx informs of a status to come, which is 200.
Sent(status) ==
    IF status \notin 100..999 THEN 500
    ELSE IF status \in (100..199) \ {101} THEN OK
    ELSE status

\* net/http sends no body with these.
Bodiless == {101, NoContent, 304}

Send(status, content, from) ==
    /\ answer' = CASE status \notin 100..999 -> [status |-> 500, content |-> "problem", from |-> {}]
                 [] status \in Bodiless -> [status |-> status, content |-> "none", from |-> {}]
                 [] OTHER -> [status |-> Sent(status), content |-> content, from |-> from \ {None}]
    /\ stage' = "answered"
    /\ UNCHANGED <<startup, request>>

Problem(status) == Send(status, "problem", {})

\* How generateResponseBody may end, and which ends reach the client.
Generations(schema) == IF schema = None THEN {"empty"} ELSE {"fails", "valid", "invalid"}

Delivered(generation) == generation # "fails" /\ ~(strict /\ generation = "invalid")

-----------------------------------------------------------------------------
(***************************************************************************)
(* Before mode and scenario matter.                                        *)
(***************************************************************************)
Placeholder ==
    /\ stage = "received"
    /\ entry = None
    /\ Problem(500)
    /\ UNCHANGED written

HasBody == op.method \in {"POST", "PUT", "PATCH"}

\* Strict, and the body cannot be checked.
Uncheckable == strict /\ entry.degradedRequest /\ HasBody

BlockUncheckable ==
    /\ stage = "received"
    /\ entry # None
    /\ Uncheckable
    /\ Problem(500)
    /\ UNCHANGED written

\* Validate: the errors of the library that are about the route.
RoutingErrors(errors) == SelectSeq(errors, LAMBDA e : e # "other")

Rejection ==
    LET routing == RoutingErrors(request.errors)
    IN  IF request.errors = <<>> THEN None
        ELSE IF routing = <<>> THEN 400
        ELSE IF Head(routing) = "operation" THEN 405
        ELSE 404

\* Mutant: a required body that is missing is left to the validator.
RefusalWithoutRequired ==
    IF request.body = "large" THEN 413
    ELSE IF HasBody /\ request.body = "other" THEN 415
    ELSE Rejection

\* The first check of validateRequest that fails.
Refusal ==
    IF request.body = "large" THEN 413
    ELSE IF entry.bodyRequired /\ request.body = "empty" THEN 400
    ELSE IF HasBody /\ request.body = "other" THEN 415
    ELSE Rejection

ValidateRequest ==
    /\ stage = "received"
    /\ entry # None
    /\ ~Uncheckable
    /\ IF Refusal = None
       THEN Enter("validated") /\ UNCHANGED <<startup, request>>
       ELSE Problem(Refusal) /\ UNCHANGED written

-----------------------------------------------------------------------------
(***************************************************************************)
(* Scenarios: a status, and the response keys of its schema and example.   *)
(***************************************************************************)
SchemaAt(code) == IF code \in DOMAIN entry.schemas THEN entry.schemas[code] ELSE None
ExampleAt(code) == IF code \in DOMAIN entry.examples THEN code ELSE None

\* Mutant: the example falls back to the default one on its own.
SelectSuccessUncoupled ==
    [status |-> entry.success,
     schema |-> IF SchemaAt(entry.success) # None THEN SchemaAt(entry.success)
                ELSE SchemaAt(Default),
     example |-> IF ExampleAt(entry.success) # None THEN ExampleAt(entry.success)
                 ELSE ExampleAt(Default)]

SelectSuccess ==
    LET schema == SchemaAt(entry.success)
        example == ExampleAt(entry.success)
    IN  [status |-> entry.success,
         schema |-> IF schema = None THEN SchemaAt(Default) ELSE schema,
         example |-> IF schema = None /\ example = None THEN ExampleAt(Default)
                     ELSE example]

\* Mutant: the success code must be among the responses like any other.
OfferedInResponses(header) == header = None \/ header \in DOMAIN entry.schemas

Offered(header) ==
    header = None \/ header = entry.success \/ header \in DOMAIN entry.schemas

\* What formatAvailableCodes lists.
AvailableCodes == {entry.success} \cup (DOMAIN entry.schemas \ {Default})

SelectScenario(header) ==
    IF header = None \/ header = entry.success THEN SelectSuccess
    ELSE [status |-> header, schema |-> SchemaAt(header), example |-> ExampleAt(header)]

-----------------------------------------------------------------------------
(***************************************************************************)
(* Stateful mode, when no status is asked for.                             *)
(***************************************************************************)
Stateful(behavior) ==
    /\ stage = "validated"
    /\ mode = "stateful" /\ request.header = None
    /\ entry.behavior = behavior

\* Mutant: a creation can start from nothing.
NeedsSchemaToDelete ==
    /\ SelectSuccess.example = None
    /\ entry.behavior = "delete" /\ entry.success # NoContent

\* isDegradedStateful: the handler would need the schema.
NeedsSchema ==
    /\ SelectSuccess.example = None
    /\ \/ entry.behavior \in {"create", "list"}
       \/ entry.behavior = "delete" /\ entry.success # NoContent

Works == ~(entry.degradedResponse /\ NeedsSchema)

StatefulDegraded ==
    /\ Stateful(entry.behavior) /\ entry.behavior # "generic"
    /\ ~Works
    /\ Problem(500)
    /\ UNCHANGED written

ExampleSets ==
    SelectSuccess.example # None /\ entry.examples[SelectSuccess.example] = "fields"

RequestSets == request.body = "fields"

(***************************************************************************)
(* Example and request are laid over the generated base after that is      *)
(* validated, if they set anything and the base is an object: {} is one,   *)
(* another need not be.  The outcome, a "resource", is not validated.      *)
(***************************************************************************)
Created(generation) ==
    IF ~ExampleSets /\ ~RequestSets THEN {generation}
    ELSE IF generation = "empty" THEN {"resource"}
    ELSE {"resource", generation}

HandleCreate ==
    /\ Stateful("create") /\ Works
    /\ \E generation \in Generations(SelectSuccess.schema) :
          IF Delivered(generation)
          THEN /\ \E content \in Created(generation) :
                     Send(SelectSuccess.status, content,
                          {SelectSuccess.schema}
                          \cup (IF content = "resource" /\ ExampleSets
                                THEN {SelectSuccess.example} ELSE {}))
               /\ written' = TRUE
          ELSE Problem(500) /\ UNCHANGED written

HandleFetch ==
    /\ Stateful("fetch")
    /\ Problem(404) \/ Send(entry.success, "resource", {})
    /\ UNCHANGED written

\* The items alone, or in an envelope made from the schema.
HandleList ==
    /\ Stateful("list") /\ Works
    /\ \E schema \in {None, SelectSuccess.schema} : Send(entry.success, "list", {schema})
    /\ UNCHANGED written

\* The resource is not held, the body is no JSON object, or it is merged.
HandleUpdate ==
    /\ Stateful("update")
    /\ \/ Problem(404) /\ UNCHANGED written
       \/ request.body = "json" /\ Problem(400) /\ UNCHANGED written
       \/ Send(entry.success, "resource", {}) /\ written' = TRUE

\* The resource is gone before its answer is generated.
HandleDelete ==
    /\ Stateful("delete") /\ Works
    /\ \/ Problem(404) /\ UNCHANGED written
       \/ /\ entry.success = NoContent
          /\ Send(NoContent, "none", {})
          /\ written' = TRUE
       \/ /\ entry.success # NoContent
          /\ \E generation \in Generations(SelectSuccess.schema) :
                IF Delivered(generation)
                THEN Send(entry.success, generation, {SelectSuccess.schema})
                ELSE Problem(500)
          /\ written' = TRUE

-----------------------------------------------------------------------------
(***************************************************************************)
(* Deterministic mode, and what is not a matter of state.                  *)
(***************************************************************************)
Deterministic ==
    /\ stage = "validated"
    /\ mode = "deterministic" \/ request.header # None \/ entry.behavior = "generic"

Scenario == SelectScenario(request.header)

InvalidScenario ==
    /\ Deterministic
    /\ ~Offered(request.header)
    /\ IF request.header = NotANumber THEN Problem(400) ELSE Send(400, "codes", AvailableCodes)
    /\ UNCHANGED written

Simulates == Deterministic /\ Offered(request.header)

Degraded ==
    /\ entry.degradedResponse
    /\ Scenario.status = entry.success
    /\ Scenario.schema = None /\ Scenario.example = None

UsesExample == ~Degraded /\ Scenario.example # None /\ Scenario.status # NoContent

FallsBack ==
    ~Degraded /\ ~UsesExample /\ Scenario.schema = None /\ Scenario.status # entry.success

DegradedResponse ==
    /\ Simulates /\ Degraded
    /\ Problem(500)
    /\ UNCHANGED written

ExampleResponse ==
    /\ Simulates /\ UsesExample
    /\ Send(Scenario.status, "example", {Scenario.example})
    /\ UNCHANGED written

ErrorFallback ==
    /\ Simulates /\ FallsBack
    /\ Problem(Scenario.status)
    /\ UNCHANGED written

WriteResponse ==
    /\ Simulates /\ ~Degraded /\ ~UsesExample /\ ~FallsBack
    /\ IF Scenario.status = NoContent
       THEN Send(NoContent, "none", {})
       ELSE \E generation \in Generations(Scenario.schema) :
               IF Delivered(generation)
               THEN Send(Scenario.status, generation, {Scenario.schema})
               ELSE Problem(500)
    /\ UNCHANGED written

-----------------------------------------------------------------------------
Next ==
    \/ Build \/ BuildPanics \/ Receive
    \/ Placeholder \/ BlockUncheckable \/ ValidateRequest
    \/ StatefulDegraded
    \/ HandleCreate \/ HandleFetch \/ HandleList \/ HandleUpdate \/ HandleDelete
    \/ InvalidScenario
    \/ DegradedResponse \/ ExampleResponse \/ ErrorFallback \/ WriteResponse

Spec == Init /\ [][Next]_vars
-----------------------------------------------------------------------------
(***************************************************************************)
(* Properties.                                                             *)
(***************************************************************************)
(***************************************************************************)
(* Nothing is written for a request that a check should have stopped: the  *)
(* stateful handlers take the validity of the body for granted, and an     *)
(* empty body for {}, so a check after the mode branch would leave phantom *)
(* resources (comment in operationHandler).  A simulated status writes     *)
(* nothing either.                                                         *)
(***************************************************************************)
WritesOnlyChecked ==
    written =>
        /\ entry # None /\ request.header = None
        /\ request.errors = <<>> /\ request.body # "large"
        /\ op.required => request.body # "empty"
        /\ HasBody /\ strict => op.body # "bad"

(***************************************************************************)
(* A response whose schema in application/json is usable is never answered *)
(* with what the document says of the default response, which is an error  *)
(* as a rule (comment on selectSuccess): not by either mode, not by one of *)
(* its two fallbacks, and not because the document has other media types.  *)
(***************************************************************************)
SuccessFromOwnResponse ==
    /\ stage = "answered" /\ entry # None
    /\ request.header \in {None, entry.success}
    /\ entry.success \in DOMAIN document.responses
    /\ "json" \in DOMAIN document.responses[entry.success]
    /\ document.responses[entry.success]["json"].schema = "good"
    => answer.from \subseteq {entry.success}

(***************************************************************************)
(* Every status a refusal lists as available is accepted when it is asked  *)
(* for: formatAvailableCodes and hasStatusCode agree.                      *)
(***************************************************************************)
ListedIsOffered ==
    stage = "answered" /\ answer.content = "codes" => \A c \in answer.from : Offered(c)

\* The media type the parser takes has no schema.
Undescribed(content) ==
    \A media \in FindJSONMediaType(content) : media.schema \in {"none", "missing"}

(***************************************************************************)
(* {} is never sent in place of a response that the document describes by  *)
(* a JSON schema (CHANGELOG: an operation whose schema fails to compile    *)
(* answers with an error "instead of silently returning {}").  The two     *)
(* exceptions are stateful and have an example, for whose sake the check   *)
(* lets the operation through: a DELETE, whose handler does not send it,   *)
(* and a creation for which neither example nor request sets anything.     *)
(***************************************************************************)
DegradedNeverEmpty ==
    /\ stage = "answered" /\ answer.content = "empty"
    /\ entry.success \in DOMAIN document.responses
    => \/ Undescribed(document.responses[entry.success])
       \/ /\ mode = "stateful" /\ SelectSuccess.example # None
          /\ \/ op.behavior = "delete"
             \/ op.behavior = "create" /\ ~ExampleSets /\ ~RequestSets
=============================================================================
