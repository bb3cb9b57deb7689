---------------------------- MODULE MCClassifier ----------------------------
(***************************************************************************)
(* Paths of every shape the first layer tells apart, and names of up to    *)
(* two tokens: each kind of keyword, one that is also a method, one that   *)
(* is also an action verb, one that is nothing.                            *)
(***************************************************************************)
EXTENDS Classifier

Static(word) == [param |-> FALSE, tokens |-> <<word>>, ext |-> FALSE]
Verb == [param |-> FALSE, tokens |-> <<"add", "pets">>, ext |-> FALSE]
Param == [param |-> TRUE, tokens |-> <<"id">>, ext |-> FALSE]
ParamJson == [Param EXCEPT !.ext = TRUE]

MCPaths ==
    {<<>>, <<Static("pets")>>, <<Static("pets"), Param>>, <<Static("pets"), ParamJson>>,
     <<Static("pets"), Param, Static("photo")>>, <<Static("pets"), Param, Static("photos")>>,
     <<Static("pets"), Param, Static("suspended")>>, <<Param>>,
     <<Static("pets"), Static("search")>>, <<Static("pets"), Param, Verb>>,
     <<Static("search"), Param>>}

MCMethods == {"GET", "POST", "PUT", "PATCH", "DELETE", "HEAD"}

Words == {"get", "show", "find", "add", "update", "delete", "pet"}

MCNames == {<<>>} \cup {<<w>> : w \in Words} \cup {<<"pet", w>> : w \in Words}
               \cup {<<"get", w>> : w \in Words} \cup {<<"find", w>> : w \in Words}

MCResponses ==
    {[codes |-> c, array |-> a] : c \in {{200}}, a \in BOOLEAN}
    \cup {[codes |-> c, array |-> FALSE] : c \in {{}, {201}, {204}}}

MCOperations ==
    {[method |-> m, path |-> p, codes |-> r.codes, array |-> r.array,
      operationId |-> id, summary |-> s] :
        m \in MCMethods, p \in MCPaths, r \in MCResponses, id \in MCNames,
        s \in {<<>>} \cup {<<w>> : w \in Words}}

MCPlurals == {"pets", "photos"}
MCParticiples == {"suspended"}
=============================================================================
