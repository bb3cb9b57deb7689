----------------------------- MODULE MCGeneration ----------------------------
(***************************************************************************)
(* Two schemas that refer to each other and to a few fixed ones, in all    *)
(* the forms the generator tells apart, and one integer with any bounds.   *)
(***************************************************************************)
EXTENDS Generation

CONSTANTS root, other, text, entity, bare, nothing, f, g, id, k

MCNodes == {root, other, text, entity, bare, nothing}
Sample == {root, other, text, entity, bare, nothing}

Text == [Plain EXCEPT !.type = "string"]
Nothing == [Plain EXCEPT !.type = "null"]
Entity == [Plain EXCEPT !.type = "object", !.properties = [x \in {id} |-> text]]

With(type, props) == [Plain EXCEPT !.type = type, !.properties = props]

One(n) == [x \in {f} |-> n]
Two(n, m) == [x \in {f, g} |-> IF x = f THEN n ELSE m]

Objects(S) ==
    {With("object", One(n)) : n \in S}
    \cup {With(Untyped, Two(n, m)) : n \in S, m \in {text, entity}}
    \cup {[Plain EXCEPT !.additional = n] : n \in S}

Arrays(S) ==
    {[Plain EXCEPT !.type = "array", !.items = n] : n \in S}
    \cup {[Plain EXCEPT !.tuple = <<n, m>>, !.maxItems = 1] : n \in S, m \in {text}}

Composed(S) ==
    {[Plain EXCEPT !.ref = n, !.nullable = null] : n \in S, null \in BOOLEAN}
    \cup {[Plain EXCEPT !.allOf = <<n, m>>] : n, m \in S}
    \cup {[With("object", One(m)) EXCEPT !.allOf = <<n>>] : n, m \in S}
    \cup {[With("object", One(text)) EXCEPT !.ref = n] : n \in S}
    \cup {[With("object", One(text)) EXCEPT !.oneOf = <<n, m>>] : n, m \in S}

Example ==
    [With("object", One(root)) EXCEPT !.example = Object(One(Nil))]

Shapes == Objects(Sample) \cup Arrays(Sample) \cup Composed(Sample)

Others ==
    Objects({root, text, nothing}) \cup Arrays({root, text}) \cup {Example}
    \cup Composed({root, entity, nothing})

Document(r, o) ==
    [n \in MCNodes |->
        CASE n = root -> r
          [] n = other -> o
          [] n = text -> Text
          [] n = entity -> Entity
          [] n = bare -> Plain
          [] n = nothing -> Nothing]

\* A reference that leads back to itself compiles to nothing.
Compiles(d) == \A n \in MCNodes : d[n].ref # n /\ (d[n].ref # None => d[d[n].ref].ref # n)

MCBounds ==
    {b \in [minimum : {None, <<-5, 1>>, <<3, 2>>, <<2, 1>>, <<9, 1>>},
            maximum : {None, <<-1, 1>>, <<5, 1>>, <<10, 1>>},
            exclusiveMinimum : {None, <<0, 1>>, <<4, 1>>},
            exclusiveMaximum : {None, <<0, 1>>, <<6, 1>>},
            notAtMin : BOOLEAN, notAtMax : BOOLEAN,
            multipleOf : {None, <<3, 1>>}] :
        /\ b.notAtMin => b.minimum # None /\ b.exclusiveMinimum = None
        /\ b.notAtMax => b.maximum # None /\ b.exclusiveMaximum = None}

MCDocuments ==
    {d \in {Document(r, o) : r \in Shapes, o \in Others} : Compiles(d)}
    \cup {Document([Plain EXCEPT !.type = "integer", !.bounds = b], Text) : b \in MCBounds}
==============================================================================
