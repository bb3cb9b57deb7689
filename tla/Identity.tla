------------------------------ MODULE Identity ------------------------------
(***************************************************************************)
(* Where a resource lives in the store: internal/state/identity.go, and    *)
(* the ID field hint that internal/server/stateful_metadata.go computes    *)
(* for it when the specification is loaded.                                *)
(*                                                                         *)
(* A path is a sequence of segments [param, name].  The name of a literal  *)
(* segment is a word [base, ending], so that what Singularize cuts off is  *)
(* visible ("categories" is base "categor", ending "ies").  The name of a  *)
(* parameter or of a body field is [stem, sep, rest]: "petId" is <pet,     *)
(* camel, id>, "task_gid" is <task, underscore, gid>, "petid" is <pet,     *)
(* plain, id> and "id" is <"", plain, id>.                                 *)
(*                                                                         *)
(* A JSON value is Null, <<"object", a function from field names>>,        *)
(* <<"array", the set of its items>>, or a pair of another tag.            *)
(***************************************************************************)
EXTENDS Integers, Sequences, FiniteSets, SequencesExt

CONSTANTS
    Uuid(_, _),     \* deterministicUUID: path pattern and body to an id
    Null,           \* a JSON null, and the result of findField on a miss
    None            \* the empty string: no parameter, no hint, no body

IdName == [stem |-> "", sep |-> "plain", rest |-> "id"]

ASSUME IdNameAssumption == IdName # None

(***************************************************************************)
(* Paths.                                                                  *)
(***************************************************************************)
IsItemPath(path) == path # <<>> /\ Last(path).param

CollectionPath(path) == IF IsItemPath(path) THEN Front(path) ELSE path

\* The namespace: interior parameters become "*".
ResourceType(path) ==
    LET segments == CollectionPath(path)
    IN  [i \in DOMAIN segments |->
            IF segments[i].param THEN "*" ELSE segments[i].name]

\* Mutant: the nearest parent alone.
NearestScope(path, params) ==
    LET parents == {i \in DOMAIN CollectionPath(path) : path[i].param}
    IN  IF parents = {} THEN <<>> ELSE <<params[path[Max(parents)].name]>>

\* The k-th of a set of positions.
Nth(positions, k) ==
    CHOOSE i \in positions : Cardinality({j \in positions : j <= i}) = k

(***************************************************************************)
(* The values of the parent parameters, in path order; missing ones are    *)
(* skipped, not left empty.  They are joined by "/", which no value holds: *)
(* chi takes a value from between two slashes of the escaped path.         *)
(***************************************************************************)
ParentScope(path, params) ==
    LET segments == CollectionPath(path)
        parents == {i \in DOMAIN segments :
                       segments[i].param /\ segments[i].name \in DOMAIN params}
    IN  [k \in 1..Cardinality(parents) |-> params[segments[Nth(parents, k)].name]]

LastName(path, positions) ==
    IF positions = {} THEN None ELSE path[Max(positions)].name

LeafCollection(path) == LastName(path, {i \in DOMAIN path : ~path[i].param})

\* The last parameter anywhere in the path: on POST /clinics/{clinicId}/rooms
\* it is the parent's.
LastPathParam(path) == LastName(path, {i \in DOMAIN path : path[i].param})

(***************************************************************************)
(* Names.                                                                  *)
(***************************************************************************)
Singularize(word) ==
    CASE word.ending = "ies" -> word.base \o "y"
      [] word.ending \in {"ses", "xes", "zes"} -> word.base \o SubSeq(word.ending, 1, 1)
      [] word.ending \in {"ches", "shes"} -> word.base \o SubSeq(word.ending, 1, 2)
      [] word.ending = "s" -> word.base
      [] OTHER -> word.base \o word.ending

\* "petId", "pets" to "id"; None when no separator follows the prefix.
StripResourcePrefix(param, word) ==
    IF /\ param # None /\ word # None
       /\ param.stem = Singularize(word)
       /\ param.sep \in {"underscore", "camel"}
       /\ param.rest # ""
    THEN [stem |-> "", sep |-> "plain", rest |-> param.rest]
    ELSE None

EqualFold(a, b) ==
    /\ a.stem = b.stem
    /\ a.rest = b.rest
    /\ (a.sep = "underscore") = (b.sep = "underscore")

(***************************************************************************)
(* findField as the set of values it may return: without an exact match    *)
(* the code takes the first key that matches in Go's random map order.  A  *)
(* field that is present but null counts as absent, and hides the others.  *)
(***************************************************************************)
FindField(body, name) ==
    IF name = None THEN {Null}
    ELSE IF name \in DOMAIN body THEN {body[name]}
    ELSE LET matches == {f \in DOMAIN body : EqualFold(f, name)}
         IN  IF matches = {} THEN {Null} ELSE {body[f] : f \in matches}

\* The values of one strategy, or those of the next one where it finds null.
OrElse(values, next) ==
    (values \ {Null}) \cup (IF Null \in values THEN next ELSE {})

StrippedParam(path) == StripResourcePrefix(LastPathParam(path), LeafCollection(path))

\* Mutant: "id" is tried before the hint.
IdBeforeHint(path, hint) == <<LastPathParam(path), StrippedParam(path), IdName, hint>>

\* The body fields of strategies 1 to 4, in their order.
IDFields(path, hint) == <<LastPathParam(path), StrippedParam(path), hint, IdName>>

(***************************************************************************)
(* extractResourceID: the IDs a resource may get.  Without a body, which   *)
(* only a creation has, or if it is no object, strategies 5 and 6 are left.*)
(***************************************************************************)
IsObject(value) == value # Null /\ value[1] = "object"

IDsOfPath(path, params, body) ==
    IF LastPathParam(path) \in DOMAIN params
    THEN {params[LastPathParam(path)]}
    ELSE {Uuid(path, body)}

IDsOfBody(path, params, body, hint) ==
    LET name == IDFields(path, hint)
        found(k) == FindField(body[2], name[k])
    IN  IF IsObject(body)
        THEN OrElse(found(1), OrElse(found(2), OrElse(found(3), OrElse(found(4),
                IDsOfPath(path, params, body)))))
        ELSE IDsOfPath(path, params, body)

\* The store keys a request may address.
Keys(path, params, ids) ==
    {<<ResourceType(path), ParentScope(path, params), id>> : id \in ids}

(***************************************************************************)
(* The hint of an entry: what remains of the item path's parameter once    *)
(* the resource prefix is stripped.  buildParamIndex takes the parameter   *)
(* of the last fetch, update or delete entry with the same resource type.  *)
(***************************************************************************)
ParamIndex(entries, type) ==
    LET items == {i \in DOMAIN entries :
                     /\ entries[i].type \in {"fetch", "update", "delete"}
                     /\ ResourceType(entries[i].path) = type
                     /\ LastPathParam(entries[i].path) # None}
    IN  IF items = {} THEN None ELSE LastPathParam(entries[Max(items)].path)

IDFieldHint(entries, path) ==
    StripResourcePrefix(ParamIndex(entries, ResourceType(path)), LeafCollection(path))

(***************************************************************************)
(* buildIDFieldSet: the body fields an example may not overwrite on        *)
(* create, those strategies 1 to 4 look at.                                *)
(***************************************************************************)
ProtectedFields(path, hint) ==
    {IdName, LastPathParam(path), StrippedParam(path), hint} \ {None}

\* Mutant: the comparison is exact.
IsExactIDField(name, path, hint) == name \in ProtectedFields(path, hint)

IsIDField(name, path, hint) ==
    \E f \in ProtectedFields(path, hint) : EqualFold(name, f)

\* shallowMerge, and what shallowMergeExcluding leaves of an example.
ShallowMerge(base, overlay) ==
    [f \in DOMAIN base \cup DOMAIN overlay |->
        IF f \in DOMAIN overlay THEN overlay[f] ELSE base[f]]

Unprotected(example, path, hint) ==
    [f \in {g \in DOMAIN example : ~IsIDField(g, path, hint)} |-> example[f]]
=============================================================================
