----------------------------- MODULE MCPipeline -----------------------------
(***************************************************************************)
(* Operations with no response, one or two successes, 204 alone, an error  *)
(* or informational response, a wildcard, a default response.  The         *)
(* contents are no JSON, a JSON schema or none, a good one or one that     *)
(* does not compile, with and without example, one that sets fields or     *)
(* none; a media type of either kind, or both.                             *)
(***************************************************************************)
EXTENDS Pipeline, TLC

CONSTANT TwoXX      \* the key "2XX"

media(schema, example, examples) ==
    [schema |-> schema, example |-> example, examples |-> examples]

Empty == << >>
Text == [text |-> media("good", "fields", <<>>)]
Named == [json |-> media("missing", "none", <<"none", "fields">>)]
Plain == ("json" :> media("good", "malformed", <<"fields">>))
         @@ ("+json" :> media("none", "fields", <<>>))
Shown == "+json" :> media("good", "fields", <<>>)
Broken == [json |-> media("bad", "none", <<>>)]
BrokenShown == [json |-> media("bad", "none", <<"fields">>)]
BrokenList == [json |-> media("bad", "other", <<>>)]

Unseen == ("json" :> media("none", "none", <<>>)) @@ ("+json" :> media("good", "none", <<>>))

Success == {Text, Named, Plain, Shown, Broken, BrokenShown, BrokenList, Unseen}
ResponseMaps ==
    LET own == {<< >>, 204 :> Empty, (200 :> Plain) @@ (404 :> Broken)}
               \cup {(201 :> c) @@ (204 :> Empty) : c \in Success}
               \cup {(200 :> c) @@ (404 :> Plain) : c \in Success}
               \cup {(103 :> Shown) @@ (200 :> c) : c \in {Named, Plain, Broken}}
               \cup {TwoXX :> c : c \in {Plain, Broken}}
    IN  own \cup {r @@ (Default :> e) : r \in own, e \in {Named, Plain, Shown}}

body(required, content) == [required |-> required, content |-> content]

Bodies == {body(TRUE, Text), body(TRUE, Named), body(TRUE, Plain), body(FALSE, Broken)}

MCDocuments ==
    [method : {"GET", "DELETE"}, responses : ResponseMaps, body : {None}]
    \cup [method : {"POST"}, responses : ResponseMaps, body : Bodies]
    \cup [method : {"PATCH"}, responses : ResponseMaps,
          body : {body(TRUE, Plain), body(FALSE, Broken)}]

\* A valid request, one with errors, and the router and the library disagree.
MCLibraryErrors == {<<>>, <<"other">>, <<"other", "operation">>, <<"path", "operation">>}

MCCodes == {0, 103, 200, 404}
=============================================================================
