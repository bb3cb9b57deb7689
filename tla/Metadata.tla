------------------------------ MODULE Metadata ------------------------------
(***************************************************************************)
(* What internal/server/stateful_metadata.go reads off the response        *)
(* schemas when the specification is loaded, and what                      *)
(* internal/router/stateful.go does with it: the wrapper key of a resource *)
(* and the array of a list.  Compiled schemas are a graph: a node is a     *)
(* record [ref, types, allOf, props, required, items, open], where allOf   *)
(* is a set of nodes, props a function from property names to nodes,       *)
(* required a set of names, items a node or None, and open is              *)
(* "additionalProperties: true".                                           *)
(***************************************************************************)
EXTENDS Identity

CONSTANT Schemas    \* a function from nodes to compiled schemas

ASSUME RefsResolve == \A n \in DOMAIN Schemas :
                          Schemas[n].ref = None \/ Schemas[n].ref \in DOMAIN Schemas

\* The target of a chain of references.
Target[n \in DOMAIN Schemas] == IF Schemas[n].ref = None THEN n ELSE Target[Schemas[n].ref]

ResolveRef(n) == Target[n]

\* Mutant: the types below allOf are not looked at.
HasOwnType(n, t) == t \in Schemas[n].types

\* The type of a schema, or of a branch of its allOf; oneOf and anyOf do
\* not count.
HasType(n, t) ==
    \/ t \in Schemas[n].types
    \/ \E branch \in Schemas[n].allOf : t \in Schemas[ResolveRef(branch)].types

\* resolveResponseSchema: the success code's, else the default's; the set is
\* empty when neither is there.
ResponseSchema(schemas, code) ==
    IF code \in DOMAIN schemas THEN {ResolveRef(schemas[code])}
    ELSE IF 0 \in DOMAIN schemas THEN {ResolveRef(schemas[0])}
    ELSE {}

\* The properties of n that resolve to type t.
PropertiesOfType(n, t) ==
    {p \in DOMAIN Schemas[n].props : HasType(ResolveRef(Schemas[n].props[p]), t)}

\* A set of one element; that element, or None.
Single(S) == \E x \in S : S = {x}

TheOne(S) == IF Single(S) THEN CHOOSE x \in S : TRUE ELSE None

\* detectWrapperKey: a closed object whose one property is an object.
WrapperKey(schemas, code) ==
    TheOne(UNION {PropertiesOfType(n, "object") :
                    n \in {m \in ResponseSchema(schemas, code) :
                              /\ HasType(m, "object")
                              /\ Single(DOMAIN Schemas[m].props)
                              /\ ~Schemas[m].open}})

\* detectListArrayKey: the one array among an object's properties.
ListArrayKey(schemas, code) ==
    TheOne(UNION {PropertiesOfType(n, "array") :
                    n \in {m \in ResponseSchema(schemas, code) :
                              HasType(m, "object") /\ ~HasType(m, "array")}})
-----------------------------------------------------------------------------
(***************************************************************************)
(* Bodies: unwrapResource, wrapResource, and the fields that exampleAsMap  *)
(* and parseRequestBody find, none in what is no object.                   *)
(***************************************************************************)
Object(fields) == <<"object", fields>>
NoFields == << >>

Unwrap(body, key) ==
    IF key # None /\ IsObject(body) /\ key \in DOMAIN body[2] THEN body[2][key] ELSE body

Wrap(resource, key) ==
    IF key = None THEN resource ELSE Object([k \in {key} |-> resource])

ExampleAsMap(example, key) ==
    IF IsObject(Unwrap(example, key)) THEN Unwrap(example, key)[2] ELSE NoFields

\* An envelope that holds no object is taken for the fields themselves.
ParseRequestBody(body, key) ==
    IF ~IsObject(body) THEN NoFields
    ELSE IF IsObject(Unwrap(body, key)) THEN Unwrap(body, key)[2]
    ELSE body[2]

(***************************************************************************)
(* The layers of handleCreate: the generated body, the media-type example  *)
(* over it, the request over both.  A layer without fields, and a base     *)
(* that is no object, leave the body as it is, in its envelope or without. *)
(* Without a schema nothing was generated, and the example brings its ID.  *)
(***************************************************************************)
LayOver(body, fields, allowed, key) ==
    IF fields = NoFields \/ ~IsObject(Unwrap(body, key)) THEN body
    ELSE Wrap(Object(ShallowMerge(Unwrap(body, key)[2], allowed)), key)

Merged(base, example, request, key, path, hint, described) ==
    LET shown == ExampleAsMap(example, key)
        sent == ParseRequestBody(request, key)
    IN  LayOver(LayOver(base, shown,
                        IF described THEN Unprotected(shown, path, hint) ELSE shown, key),
                sent, sent, key)
=============================================================================
