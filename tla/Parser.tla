------------------------------- MODULE Parser -------------------------------
(***************************************************************************)
(* What internal/parser keeps of an operation of the OpenAPI document.     *)
(*                                                                         *)
(* An operation of the document is a record: its method; its responses, a  *)
(* function from their keys (status codes, Default, or a wildcard such as  *)
(* "2XX") to contents; its body, None or [required, content].  A content   *)
(* is a function from media types to [schema, example, examples].  A       *)
(* schema is "none", "good", "bad" (it does not compile) or "missing" (a   *)
(* reference to nothing).  An example is "none", "malformed", "fields" (an *)
(* object that says something of a resource) or "other"; the named ones    *)
(* are a sequence of the same.                                             *)
(***************************************************************************)
EXTENDS Naturals, Sequences, FiniteSets

CONSTANT None

Default == 0        \* the key of the default response

\* application/json itself, another application type that ends in "+json",
\* and the rest.
Exact == "json"
Variant == "+json"

\* At most one media type.
FindJSONMediaType(content) ==
    IF Exact \in DOMAIN content THEN {content[Exact]}
    ELSE {content[t] : t \in DOMAIN content \cap {Variant}}

\* A reference to nothing is dropped with a warning.
ResolveSchemaRef(schema) == IF schema = "missing" THEN "none" ELSE schema

\* The singular example, or the first of the named ones that has a value; it
\* is ignored when it cannot be decoded, and no other is looked for.
ExtractMediaTypeExample(media) ==
    LET named == SelectSeq(media.examples, LAMBDA e : e # "none")
        first == IF media.example # "none" \/ named = <<>> THEN media.example ELSE Head(named)
    IN  IF first = "malformed" THEN "none" ELSE first

\* A response: [schema, example].
ExtractResponse(content) ==
    LET media == FindJSONMediaType(content)
        taken == CHOOSE m \in media : TRUE
    IN  IF media = {} THEN [schema |-> "none", example |-> "none"]
        ELSE [schema |-> ResolveSchemaRef(taken.schema),
              example |-> ExtractMediaTypeExample(taken)]

\* Keys that are no number are ignored with a warning; the default response
\* is kept apart.
ExtractResponses(responses) ==
    [c \in {k \in DOMAIN responses : k \in Nat \ {Default}} |-> ExtractResponse(responses[c])]

ExtractDefault(responses) ==
    IF Default \in DOMAIN responses THEN ExtractResponse(responses[Default]) ELSE None

\* A body without a JSON schema counts as no body, required or not.
ExtractRequestBody(body) ==
    LET media == IF body = None THEN {} ELSE FindJSONMediaType(body.content)
    IN  IF \A m \in media : m.schema = "none"
        THEN [schema |-> "none", required |-> FALSE]
        ELSE [schema |-> ResolveSchemaRef((CHOOSE m \in media : TRUE).schema),
              required |-> body.required]

\* The operation as the builder gets it, with the type the classifier gives it.
ExtractOperation(document, behavior) ==
    [behavior |-> behavior,
     method |-> document.method,
     responses |-> ExtractResponses(document.responses),
     default |-> ExtractDefault(document.responses),
     body |-> ExtractRequestBody(document.body).schema,
     required |-> ExtractRequestBody(document.body).required]
=============================================================================
