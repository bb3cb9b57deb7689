---------------------------- MODULE IdentityCheck ---------------------------
(***************************************************************************)
(* One resource family of a specification, a collection and its item path, *)
(* with the schemas of their responses, and one creation in it: POST to    *)
(* the collection, then GET of the collection or of the item with a value  *)
(* the client read in the response.  A value that is no object and no      *)
(* array is <<layer, name>>, where it comes from: "generated" for this     *)
(* request alone, "static" for an example inside the schema, "example" for *)
(* the media-type example, "request".  It stands for its text, which is    *)
(* what coerceToString makes an ID of.                                     *)
(***************************************************************************)
EXTENDS Metadata

CONSTANTS
    Families,       \* see FamiliesAssumption
    Fields,         \* names of the fields of a resource
    ParentValues,   \* values of a parameter in the prefix
    Generable,      \* a function from nodes to what the generator may make of
                    \* them (module Generation has the generator)
    URLParam(_)     \* what chi.URLParam gives for a value in the URL: the value, or
                    \* its escaped text when the path needs one

(***************************************************************************)
(* A family is its path prefix, the name of the collection, the item       *)
(* parameter, the node of the resource, and the response schemas of the    *)
(* three operations.                                                       *)
(***************************************************************************)
ASSUME FamiliesAssumption ==
    \A f \in Families : f.parent \in Seq({f.parent[i] : i \in DOMAIN f.parent})

ASSUME ParentValuesAssumption == \A v \in ParentValues : v[1] = "parent"

VARIABLES
    family,         \* a member of Families
    parentParams,   \* the values of the parameters in the prefix
    entries,        \* what loading the specification left in its entries
    layers,         \* [generated, example, request], three bodies
    stage,          \* "request", "created", "fetched", "listed"
    created,        \* what POST did: [resource, answer, key]
    fetched,        \* what GET of the item did: [field, keys, answer]
    listed          \* what GET of the collection did: [envelope, answer]

vars == <<family, parentParams, entries, layers, stage, created, fetched, listed>>

Literal(word) == [param |-> FALSE, name |-> word]
Parameter(name) == [param |-> TRUE, name |-> name]

Collection == Append(family.parent, Literal(family.word))
Item == Append(Collection, Parameter(family.param))

PathsOfTypes ==
    <<[type |-> "create", path |-> Collection],
      [type |-> "fetch", path |-> Item]>>

\* The success codes of the three operations.
CreateCode == 201
ReadCode == 200

(***************************************************************************)
(* annotateStatefulMetadata: the wrapper keys of POST and of GET of the    *)
(* item, the array of the list, and the hint for the ID field, which is    *)
(* the same for the three operations.                                      *)
(***************************************************************************)
Annotated ==
    [create |-> WrapperKey(family.create, CreateCode),
     fetch |-> WrapperKey(family.fetch, ReadCode),
     list |-> ListArrayKey(family.list, ReadCode),
     hint |-> IDFieldHint(PathsOfTypes, Collection)]

\* Is there a schema for the answer, and did it compile?
Described(schemas, code) == ResponseSchema(schemas, code) # {}

Generated(schemas, code) == UNION {Generable[n] : n \in ResponseSchema(schemas, code)}

\* No field, of the body or of what is in an envelope, is of a media-type example.
Own(value) == value = Null \/ value[1] # "example"

OwnFields(body) ==
    IsObject(body) => \A f \in DOMAIN body[2] :
        /\ Own(body[2][f])
        /\ IsObject(body[2][f]) => \A g \in DOMAIN body[2][f][2] : Own(body[2][f][2][g])

ASSUME GenerableAssumption ==
    \A f \in Families : \A body \in Generated(f.create, CreateCode) : OwnFields(body)

ParamNames(path) == {path[i].name : i \in {j \in DOMAIN path : path[j].param}}

\* The property of a response that has one, which holds the resource.
Envelope(schemas, code) ==
    {p \in UNION {DOMAIN Schemas[n].props : n \in ResponseSchema(schemas, code)} :
        \A n \in ResponseSchema(schemas, code) : Single(DOMAIN Schemas[n].props)}

\* An object whose fields a layer sets.
Setting(layer, names) == Object([f \in names |-> <<layer, f>>])

(***************************************************************************)
(* An example or a request sets nothing, one field or every field, in the  *)
(* envelope or without it; or it is something else altogether.             *)
(***************************************************************************)
Overlays(layer) ==
    {Wrap(Setting(layer, D), place) :
        D \in {{}, Fields} \cup {{f} : f \in Fields},
        place \in {None} \cup Envelope(family.create, CreateCode)}
    \cup {Setting(layer, Envelope(family.create, CreateCode)), <<"array", {}>>}

Init ==
    /\ family \in Families
    /\ family.param \notin ParamNames(family.parent)
    /\ parentParams \in [ParamNames(family.parent) -> ParentValues]
    /\ entries = Annotated
    /\ layers \in [generated : IF Described(family.create, CreateCode)
                             THEN Generated(family.create, CreateCode)
                             ELSE {Object(NoFields)},
                   example : Overlays("example"), request : Overlays("request")]
    /\ stage = "request"
    /\ created = None
    /\ fetched = None
    /\ listed = None

Create ==
    /\ stage = "request"
    /\ LET merged == Merged(layers.generated, layers.example, layers.request,
                            entries.create, Collection, entries.hint,
                            Described(family.create, CreateCode))
           resource == Unwrap(merged, entries.create)
           ids == IDsOfBody(Collection, parentParams, resource, entries.hint)
       IN  \E key \in Keys(Collection, parentParams, ids) :
              created' = [resource |-> resource, key |-> key, answer |-> merged]
    /\ stage' = "created"
    /\ UNCHANGED <<family, parentParams, entries, layers, fetched, listed>>

\* GET of the item finds the stored resource or answers 404.
Fetch ==
    /\ stage = "created" /\ IsObject(created.resource)
    /\ \E f \in DOMAIN created.resource[2] :
          LET value == created.resource[2][f]
              params == ShallowMerge(parentParams, [p \in {family.param} |-> URLParam(value)])
              keys == Keys(Item, params, IDsOfPath(Item, params, None))
          IN  /\ value # Null
              /\ value[1] \notin {"object", "array"}
              /\ fetched' = [field |-> f, keys |-> keys,
                             answer |-> IF keys = {created.key}
                                        THEN Wrap(created.resource, entries.fetch)
                                        ELSE None]
    /\ stage' = "fetched"
    /\ UNCHANGED <<family, parentParams, entries, layers, created, listed>>

(***************************************************************************)
(* generateListEnvelope: an empty map without a schema, when it cannot be  *)
(* generated, and for what is no object.                                   *)
(***************************************************************************)
ListEnvelopes ==
    {Object(NoFields)} \cup {e \in Generated(family.list, ReadCode) : IsObject(e)}

\* GET of the collection: the items themselves, or in an envelope.
List ==
    /\ stage = "created"
    /\ LET items == <<"array", {created.resource}>>
       IN  IF entries.list = None THEN listed' = [envelope |-> None, answer |-> items]
           ELSE \E envelope \in ListEnvelopes :
                   listed' = [envelope |-> envelope,
                              answer |-> Object(ShallowMerge(envelope[2],
                                                   [p \in {entries.list} |-> items]))]
    /\ stage' = "listed"
    /\ UNCHANGED <<family, parentParams, entries, layers, created, fetched>>

Next == Create \/ Fetch \/ List

Spec == Init /\ [][Next]_vars
-----------------------------------------------------------------------------
(***************************************************************************)
(* Properties.                                                             *)
(***************************************************************************)
FieldsLike(name) == {f \in DOMAIN created.resource[2] : EqualFold(f, name)}

\* The body field a client takes for the ID: what the item parameter's name
\* leaves without its resource prefix, or "id" when nothing is left of it.
AdvertisedName == IF entries.hint = None THEN IdName ELSE entries.hint

\* The created body has no field that repeats the last parameter of the
\* prefix, by its name or by what its name leaves without the prefix of the
\* resource (/pets/{petId}/pets/{pet_gid} and "id"), unless it is the ID.
NoParentField ==
    \A p \in {LastPathParam(Collection), StrippedParam(Collection)} \ {None} :
        FieldsLike(p) \subseteq FieldsLike(AdvertisedName)

\* The value is what chi gives for it, as it is unless it has to be escaped.
ReadAsWritten ==
    URLParam(created.resource[2][fetched.field]) = created.resource[2][fetched.field]

(***************************************************************************)
(* A created resource can be read back: GET of the item with the value of  *)
(* the ID field of the response addresses the key POST stored it under, in *)
(* the same namespace and the same parent scope, although POST found the   *)
(* ID in a body through a hint and GET finds it in the path.  A value that *)
(* the path has to escape is not claimed: URLParam gives the escaped text. *)
(***************************************************************************)
RetrievableById ==
    /\ stage = "fetched" /\ ReadAsWritten
    /\ FieldsLike(AdvertisedName) = {fetched.field}
    /\ NoParentField
    => fetched.keys = {created.key}

(***************************************************************************)
(* Where there is a schema, the ID of a resource never comes from the      *)
(* media-type example: buildIDFieldSet in the router protects every field  *)
(* that extractResourceID in the state package may look at.  It may still  *)
(* be the same for every creation: the base that "provides unique IDs"     *)
(* (comment on handleCreate) may hold an example from inside the schema.   *)
(***************************************************************************)
ExampleNeverSetsId ==
    stage # "request" /\ Described(family.create, CreateCode) =>
        created.key[3][1] # "example"

(***************************************************************************)
(* Creations under different parents never share a key: the scope tells    *)
(* the values of all the parent parameters, each at its place.             *)
(***************************************************************************)
ParentsIsolated ==
    stage # "request" =>
        \A other \in [ParamNames(family.parent) -> ParentValues] :
            ParentScope(Collection, other) = created.key[2] => other = parentParams

(***************************************************************************)
(* What JSON Schema says of a value: a schema and all the branches of its  *)
(* allOf hold for it, and theirs for what is inside, as deep as an answer  *)
(* goes.  (Formats and ranges are the generator's.)                        *)
(***************************************************************************)
Kind(value) ==
    CASE value = Null -> "null"
      [] IsObject(value) -> "object"
      [] value # Null /\ value[1] = "array" -> "array"
      [] OTHER -> "string"

Parts(n) == {n} \cup {ResolveRef(b) : b \in Schemas[n].allOf}

Admits(n, kind) == \A m \in Parts(n) : Schemas[m].types = {} \/ kind \in Schemas[m].types

Fits(value, n) ==
    /\ Admits(n, Kind(value))
    /\ IsObject(value) => \A m \in Parts(n) : Schemas[m].required \subseteq DOMAIN value[2]

\* The values inside, each with its schema.
Inside(value, n) ==
    IF IsObject(value)
    THEN UNION {{<<value[2][p], ResolveRef(Schemas[m].props[p])>> :
                    p \in DOMAIN value[2] \cap DOMAIN Schemas[m].props} : m \in Parts(n)}
    ELSE IF Kind(value) = "array"
    THEN {<<item, ResolveRef(Schemas[m].items)>> :
             item \in value[2], m \in {k \in Parts(n) : Schemas[k].items # None}}
    ELSE {}

Conforms(value, n) ==
    /\ Fits(value, n)
    /\ \A p \in Inside(value, n) :
          /\ Fits(p[1], p[2])
          /\ \A q \in Inside(p[1], p[2]) :
                /\ Fits(q[1], q[2])
                /\ \A r \in Inside(q[1], q[2]) : Fits(r[1], r[2])

IsOnly(n, kind) == \A k \in {"null", "object", "array", "string"} : Admits(n, k) <=> k = kind

\* The schemas of a response that is the resource, or that requires it as its
\* one property and is closed.
OfResource(schemas, code) ==
    {n \in ResponseSchema(schemas, code) :
        \/ n = family.resource
        \/ /\ IsOnly(n, "object") /\ ~Schemas[n].open
           /\ \E p \in Schemas[n].required :
                 /\ DOMAIN Schemas[n].props = {p}
                 /\ ResolveRef(Schemas[n].props[p]) = family.resource}

\* The schemas of a list that are an array of resources, or an object with one
\* such array and no other.
ArrayOfResource(n) ==
    IsOnly(n, "array") /\ Schemas[n].items # None /\ ResolveRef(Schemas[n].items) = family.resource

ListsOf(schemas, code) ==
    {n \in ResponseSchema(schemas, code) :
        \/ ArrayOfResource(n)
        \/ /\ IsOnly(n, "object")
           /\ \E p \in DOMAIN Schemas[n].props :
                 /\ ArrayOfResource(ResolveRef(Schemas[n].props[p]))
                 /\ \A q \in DOMAIN Schemas[n].props \ {p} :
                       ~Admits(ResolveRef(Schemas[n].props[q]), "array")}

\* What was generated is valid, and the resource has other properties than one,
\* so that it is not itself an envelope.
GeneratedConforms ==
    /\ ~Single(DOMAIN Schemas[family.resource].props)
    /\ \E n \in OfResource(family.create, CreateCode) : Conforms(layers.generated, n)

(***************************************************************************)
(* The answers are valid for the schemas of their own responses when what  *)
(* was generated was: whether a response is the resource or an envelope of *)
(* it, and whether example and request come in the envelope or not, the    *)
(* three operations agree on what the resource is, although each reads it  *)
(* off its own schema and the store keeps it without envelope.  A list is  *)
(* valid where its schema is an array, or an object with one array.        *)
(***************************************************************************)
AnswersConform ==
    /\ stage = "created" /\ GeneratedConforms =>
          \A n \in OfResource(family.create, CreateCode) : Conforms(created.answer, n)
    /\ stage = "fetched" /\ fetched.answer # None /\ GeneratedConforms =>
          \A n \in OfResource(family.fetch, ReadCode) : Conforms(fetched.answer, n)
    /\ stage = "listed" /\ GeneratedConforms =>
          \A n \in ListsOf(family.list, ReadCode) :
             listed.envelope = None \/ Conforms(listed.envelope, n)
             => Conforms(listed.answer, n)

(***************************************************************************)
(* README: "GET (item) retrieves a previously created resource", asked for *)
(* by its ID: the field the item parameter advertises, or one of the very  *)
(* name of the item parameter, which identity.go says strategy 1 covers.   *)
(***************************************************************************)
CreatedIsRetrievable ==
    /\ stage = "fetched" /\ ReadAsWritten
    /\ FieldsLike(AdvertisedName) = {fetched.field} \/ fetched.field = family.param
    => fetched.keys = {created.key}
=============================================================================
