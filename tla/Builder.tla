------------------------------- MODULE Builder -------------------------------
(***************************************************************************)
(* How an operation of the OpenAPI document becomes an entry of the        *)
(* behavior map (internal/builder), once it is classified.                 *)
(*                                                                         *)
(* A parsed operation is a record: its behavior; its responses, a function *)
(* from status codes to [schema, example], where schema is "none", "good"  *)
(* or "bad", and example "none", "fields" or "other"; default, such a      *)
(* record or None; body, one of the same three as schema, for the request  *)
(* body's; and required.                                                   *)
(***************************************************************************)
EXTENDS Parser, Behaviors

OK == 200
NoContent == 204

PreferredSuccessCode(behavior) ==
    CASE behavior = "create" -> 201
      [] behavior = "delete" -> NoContent
      [] OTHER -> OK

SelectSuccessCode(responses, behavior) ==
    LET preferred == PreferredSuccessCode(behavior)
        successes == {c \in DOMAIN responses : 200 <= c /\ c < 300}
    IN  IF preferred \in DOMAIN responses THEN preferred
        ELSE IF successes # {} THEN CHOOSE c \in successes : \A d \in successes : c <= d
        ELSE OK

\* The responses by key, the default one included.
Keyed(op) ==
    [c \in DOMAIN op.responses \cup (IF op.default = None THEN {} ELSE {Default}) |->
        IF c = Default THEN op.default ELSE op.responses[c]]

\* Every response has a key; nil is a response without a usable schema.
ResponseSchemas(op) ==
    [c \in DOMAIN Keyed(op) |-> IF Keyed(op)[c].schema = "good" THEN c ELSE None]

ResponseErrors(op) == {c \in DOMAIN Keyed(op) : Keyed(op)[c].schema = "bad"}

ResponseExamples(op) ==
    [c \in {k \in DOMAIN Keyed(op) : Keyed(op)[k].example # "none"} |-> Keyed(op)[c].example]

BuildEntry(op) ==
    LET success == SelectSuccessCode(op.responses, op.behavior)
    IN  [behavior |-> op.behavior,
         success |-> success,
         schemas |-> ResponseSchemas(op),
         examples |-> ResponseExamples(op),
         bodyRequired |-> op.required,
         degradedResponse |-> success \in ResponseErrors(op),
         degradedRequest |-> op.body = "bad"]
==============================================================================
