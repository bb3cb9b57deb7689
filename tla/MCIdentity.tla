----------------------------- MODULE MCIdentity -----------------------------
(***************************************************************************)
(* The families of IdentityCheck: pets and categories, flat, below         *)
(* /clinics/{clinicId}, below another pet, below a clinic and a ward, and  *)
(* the names that item parameters and body fields take in real             *)
(* specifications.                                                         *)
(***************************************************************************)
EXTENDS IdentityCheck, TLC

name(stem, sep, rest) == [stem |-> stem, sep |-> sep, rest |-> rest]

Pets == [base |-> "pet", ending |-> "s"]
Categories == [base |-> "categor", ending |-> "ies"]
Clinics == [base |-> "clinic", ending |-> "s"]
Wards == [base |-> "ward", ending |-> "s"]

clinicId == name("clinic", "camel", "id")
wardId == name("ward", "camel", "id")
petId == name("pet", "camel", "id")
pet_gid == name("pet", "underscore", "gid")
categoryId == name("category", "camel", "id")
sid == name("", "plain", "sid")
gid == name("", "plain", "gid")
ID == name("", "camel", "id")

MCParents == {<<>>, <<Literal(Clinics), Parameter(clinicId)>>}
MCNested == <<Literal(Pets), Parameter(petId)>>
MCTwice == <<Literal(Clinics), Parameter(clinicId), Literal(Wards), Parameter(wardId)>>
MCFields == {IdName, ID, gid, clinicId}

Data == name("", "plain", "data")
More == name("", "plain", "more")
Count == name("", "plain", "count")

-----------------------------------------------------------------------------
(***************************************************************************)
(* The schemas of the responses: a resource, arrays of it, objects with    *)
(* one or two arrays, envelopes, closed or open, with the object's type in *)
(* the schema or in its allOf, and at the end of references.               *)
(***************************************************************************)
schema(types, props, required, items) ==
    [ref |-> None, types |-> types, allOf |-> {}, props |-> props,
     required |-> required, items |-> items, open |-> FALSE]
reference(node) == [schema({}, << >>, {}, None) EXCEPT !.ref = node]
envelope(node) == schema({"object"}, Data :> node, {Data}, None)

MCSchemas ==
    [scalar |-> schema({"string"}, << >>, {}, None),
     object |-> schema({"object"}, << >>, {}, None),
     toObject |-> reference("object"),
     resource |-> [schema({}, (IdName :> "scalar") @@ (More :> "scalar"), {IdName}, None)
                      EXCEPT !.allOf = {"toObject"}],
     toResource |-> reference("resource"),
     wrapped |-> envelope("toResource"),
     toWrapped |-> reference("wrapped"),
     twice |-> reference("toWrapped"),
     combined |-> [schema({}, Data :> "resource", {Data}, None) EXCEPT !.allOf = {"toObject"}],
     open |-> [envelope("resource") EXCEPT !.open = TRUE],
     array |-> schema({"array"}, << >>, {}, "toResource"),
     toArray |-> reference("array"),
     page |-> schema({"object"}, (Data :> "toArray") @@ (Count :> "scalar"), {Data, Count}, None),
     ambiguous |-> schema({"object"}, (Data :> "array") @@ (More :> "array"), {}, None)]

(***************************************************************************)
(* What the generator makes of them: fields made for this request, some of *)
(* them null, or examples of the properties; an example of the whole       *)
(* response, in its envelope, without it, or no object; and for a list a   *)
(* page, an example of one, half a page and no object.                     *)
(***************************************************************************)
made(layer, D) == Object([f \in D |-> <<layer, f>>])
Made ==
    {made("generated", D) : D \in SUBSET MCFields}
    \cup {made("static", D) : D \in {{IdName}, {gid}, MCFields}}
    \cup {Object([f \in MCFields |-> IF f \in D THEN Null ELSE <<"generated", f>>]) :
             D \in SUBSET MCFields}
NoObject == {<<"array", {}>>, Null}

FewMade == {made("generated", {IdName, gid}), made("static", MCFields), made("generated", {gid})}
Wrapped == {Wrap(resource, Data) : resource \in FewMade} \cup FewMade \cup NoObject

Pages ==
    {Object((Data :> <<"array", {made("generated", {IdName})}>>) @@ (Count :> <<"generated", Count>>)),
     Object((Data :> <<"array", {}>>) @@ (Count :> <<"static", Count>>)),
     Object(Count :> <<"static", Count>>)} \cup NoObject

MCGenerable ==
    [n \in DOMAIN MCSchemas |->
        CASE n = "resource" -> Made \cup NoObject
          [] n \in {"wrapped", "combined", "open"} -> Wrapped
          [] n \in {"page", "ambiguous"} -> Pages
          [] OTHER -> NoObject]

-----------------------------------------------------------------------------
family_(parent, word, param, create, fetch, list) ==
    [parent |-> parent, word |-> word, param |-> param, resource |-> "resource",
     create |-> create, fetch |-> fetch, list |-> list]

flat(parent, word, param) ==
    family_(parent, word, param, 201 :> "resource", 200 :> "resource", 200 :> "array")

\* Flat resources with every path, and one path with every shape: by
\* reference, by the default response, open, ambiguous, and no schema at all.
MCFamilies ==
    {flat(parent, Pets, param) : parent \in MCParents, param \in {petId, pet_gid, categoryId, sid}}
    \cup {flat(parent, Categories, param) : parent \in MCParents, param \in {petId, categoryId}}
    \cup {flat(MCNested, Pets, pet_gid), flat(MCTwice, Pets, petId)}
    \cup
    {family_(<<>>, Pets, petId, shapes[1], shapes[2], shapes[3]) :
        shapes \in {<<201 :> "twice", 200 :> "toWrapped", 200 :> "page">>,
                    <<0 :> "wrapped", 200 :> "resource", 0 :> "page">>,
                    <<201 :> "toResource", 0 :> "combined", 200 :> "toArray">>,
                    <<201 :> "combined", 200 :> "open", 200 :> "toArray">>,
                    <<201 :> "open", 200 :> "wrapped", 200 :> "ambiguous">>,
                    << << >>, 200 :> "open", << >> >>}}

MCParentValues == {<<"parent", 1>>, <<"parent", 2>>}
MCUuid(path, body) == <<"uuid", path, body>>

\* An example that holds a slash.
MCURLParam(value) == IF value = <<"static", gid>> THEN <<"escaped", gid>> ELSE value
=============================================================================
