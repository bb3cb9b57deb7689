------------------------------ MODULE Generation -----------------------------
(***************************************************************************)
(* What DataGenerator.Generate (internal/generator/generator.go) makes of  *)
(* a schema.  A document is a graph of schemas, cycles included.  The seed *)
(* is left open: Values is the set of what some seed generates.            *)
(*                                                                         *)
(* Two counters end the recursion: depth counts properties and items, and  *)
(* stops containers at maxDepth; recurse counts calls, up to MaxRecursion. *)
(***************************************************************************)
EXTENDS Primitive, Sequences, FiniteSets

CONSTANTS
    Nodes,          \* the schemas of a document
    Root,           \* the one an answer is generated for
    Null,           \* the schema {type: null}
    Documents,      \* functions from Nodes to schemas, see Plain
    Depths,         \* values of --max-depth and of start_server's maxDepth
    DefaultMaxDepth, DefaultArrayLen, MaxRecursion,
    MapKeys,        \* the random keys of a map
    Untyped         \* no "type" keyword

ASSUME NodesAssumption == Root \in Nodes /\ Null \in Nodes /\ IsFiniteSet(Nodes)
ASSUME NoNodeAssumption == None \notin Nodes
ASSUME UntypedAssumption ==
    Untyped \notin {"null", "integer", "string", "object", "array"}
ASSUME DepthsAssumption == Depths \subseteq Int
ASSUME MaxRecursionAssumption == MaxRecursion \in Nat \ {0}
ASSUME DefaultMaxDepthAssumption == DefaultMaxDepth \in Nat \ {0}

VARIABLES
    document,
    maxDepth,
    answer          \* what was generated, or None

vars == <<document, maxDepth, answer>>

NoFields == [f \in {} |-> None]

Plain ==
    [ref |-> None, nullable |-> FALSE, type |-> Untyped, allOf |-> <<>>,
     oneOf |-> <<>>, properties |-> NoFields, additional |-> None,
     items |-> None, tuple |-> <<>>, minItems |-> None, maxItems |-> None,
     example |-> None, bounds |-> Unbounded]

\* What the compiler hands over.
Compiled(s) ==
    /\ DOMAIN s = DOMAIN Plain
    /\ s.type \in {Untyped, "null", "integer", "string", "object", "array"}
    /\ \A f \in DOMAIN s.properties : s.properties[f] \in Nodes
    /\ {s.ref, s.additional, s.items} \subseteq Nodes \cup {None}
    /\ {s.allOf, s.oneOf, s.tuple} \subseteq Seq(Nodes)
    /\ s.bounds \in Bounds

ASSUME DocumentsAssumption ==
    \A d \in Documents : DOMAIN d = Nodes /\ \A n \in Nodes : Compiled(d[n])

Init ==
    /\ document \in Documents
    /\ \E asked \in Depths :
          maxDepth = IF asked <= 0 THEN DefaultMaxDepth ELSE asked
    /\ answer = None

\* In OpenAPI 3.0 a nullable reference becomes a choice; a nullable without
\* a type loses the keyword.
Schema(n) ==
    LET s == document[n]
    IN  IF s.nullable /\ s.type = Untyped /\ s.ref # None
        THEN [s EXCEPT !.ref = None, !.oneOf = <<s.ref, Null>>]
        ELSE s

ResolveComplexType(s) ==
    IF s.type # Untyped THEN s.type
    ELSE IF DOMAIN s.properties # {} \/ s.additional # None THEN "object"
    ELSE IF s.items # None \/ s.tuple # <<>> THEN "array"
    ELSE "string"

-----------------------------------------------------------------------------
(***************************************************************************)
(* Generated values.                                                       *)
(***************************************************************************)
Nil == [kind |-> "null"]
Leaf == [kind |-> "leaf"]
Integer(v) == [kind |-> "integer", value |-> v]
Object(fields) == [kind |-> "object", fields |-> fields]
Array(items) == [kind |-> "array", items |-> items]

\* All ways to take a member of each set.
Choices(sets) ==
    {c \in [DOMAIN sets -> UNION {sets[i] : i \in DOMAIN sets}] :
        \A i \in DOMAIN sets : c[i] \in sets[i]}

ArrayLength(s) ==
    LET low == IF s.minItems # None /\ s.minItems > DefaultArrayLen
               THEN s.minItems ELSE DefaultArrayLen
    IN  IF s.maxItems # None /\ s.maxItems < low THEN s.maxItems ELSE low

(***************************************************************************)
(* A value of allOf: the first part that is neither an object nor null, or *)
(* all parts merged, later ones over earlier ones.                         *)
(***************************************************************************)
\* Mutant: the last part replaces the earlier ones.
TakeLast(parts) == parts[Cardinality(DOMAIN parts) - 1]

MergeParts(parts) ==
    LET others == {i \in DOMAIN parts : parts[i].kind \notin {"object", "null"}}
        maps == {i \in DOMAIN parts : parts[i].kind = "object"}
        With(f) == {i \in maps : f \in DOMAIN parts[i].fields}
        Last(S) == CHOOSE i \in S : \A j \in S : j <= i
    IN  IF others # {} THEN parts[CHOOSE i \in others : \A j \in others : i <= j]
        ELSE Object([f \in UNION {DOMAIN parts[i].fields : i \in maps} |->
                        parts[Last(With(f))].fields[f]])

\* Follows references to whether a branch is {type: null}.
IsNullBranch(n) ==
    LET Follow[k \in 0..Cardinality(Nodes)] ==
            IF k = 0 THEN n
            ELSE LET m == Follow[k - 1]
                 IN  IF Schema(m).ref = None THEN m ELSE Schema(m).ref
    IN  Schema(Follow[Cardinality(Nodes)]).type = "null"

Branches(s) ==
    LET all == {s.oneOf[i] : i \in DOMAIN s.oneOf}
        data == {n \in all : ~IsNullBranch(n)}
    IN  IF data = {} THEN all ELSE data

\* Mutant: one level more.
PastLimit(depth) == depth > maxDepth

AtLimit(depth) == depth >= maxDepth

Spend(left, calls) == IF left > calls THEN left - calls ELSE 0

(***************************************************************************)
(* generate, given what the calls it makes return: those it makes itself   *)
(* count one more, those it makes in generateAllOf and generateBranch two. *)
(***************************************************************************)
Generated(one, two, depth, n) ==
    LET s == Schema(n)
        Fields(calls) ==
            {Object(fields) : fields \in
                Choices([f \in DOMAIN s.properties |-> calls[depth + 1][s.properties[f]]])}
        Entries ==
            IF s.additional = None THEN {Object(NoFields)}
            ELSE {Object(fields) : fields \in [MapKeys -> one[depth + 1][s.additional]]}
        Own == IF DOMAIN s.properties = {} THEN {Object(NoFields)} ELSE Fields(two)
        Members == [i \in 0..Len(s.allOf) |->
                       IF i = 0 THEN Own ELSE two[depth][s.allOf[i]]]
        Items ==
            IF s.tuple # <<>>
            THEN Choices([i \in DOMAIN s.tuple |-> one[depth + 1][s.tuple[i]]])
            ELSE IF s.items = None THEN {<<>>}
            ELSE [1..ArrayLength(s) -> one[depth + 1][s.items]]
    IN  IF s.ref # None THEN one[depth][s.ref]
        ELSE IF s.allOf # <<>> THEN {MergeParts(parts) : parts \in Choices(Members)}
        ELSE IF s.oneOf # <<>> THEN UNION {two[depth][m] : m \in Branches(s)}
        ELSE CASE ResolveComplexType(s) = "null" -> {Nil}
               [] ResolveComplexType(s) = "integer" ->
                    {Integer(v) : v \in GenerateInteger(s.bounds)}
               [] ResolveComplexType(s) = "string" -> {Leaf}
               [] ResolveComplexType(s) = "object" ->
                    IF s.example # None THEN {s.example}
                    ELSE IF AtLimit(depth) THEN {Nil}
                    ELSE IF DOMAIN s.properties # {} THEN Fields(one)
                    ELSE Entries
               [] ResolveComplexType(s) = "array" ->
                    IF s.example # None THEN {s.example}
                    ELSE IF AtLimit(depth) THEN {Array(<<>>)}
                    ELSE {Array(items) : items \in Items}

\* left is MaxRecursion - recurse.
Values[left \in Nat] ==
    [depth \in Nat |-> [n \in Nodes |->
        IF left = 0 THEN {Nil}
        ELSE Generated(Values[Spend(left, 1)], Values[Spend(left, 2)], depth, n)]]

Generate ==
    /\ answer = None
    /\ answer' \in Values[MaxRecursion][0][Root]
    /\ UNCHANGED <<document, maxDepth>>

Next == Generate

Spec == Init /\ [][Next]_vars
-----------------------------------------------------------------------------
(***************************************************************************)
(* What a document says, apart from how it is walked.                      *)
(***************************************************************************)
\* Schemas that say what a value of n is, and those of what it contains.
Parts(n) ==
    LET s == Schema(n)
    IN  IF s.ref # None THEN {s.ref}
        ELSE IF s.allOf # <<>> THEN {s.allOf[i] : i \in DOMAIN s.allOf}
        ELSE Branches(s)

Contents(n) ==
    LET s == Schema(n)
    IN  {s.properties[f] : f \in DOMAIN s.properties}
        \cup {s.tuple[i] : i \in DOMAIN s.tuple}
        \cup ({s.additional, s.items} \ {None})

Closure(S) ==
    LET Reached[k \in Nat] ==
            IF k = 0 THEN S
            ELSE Reached[k - 1] \cup UNION {Parts(n) : n \in Reached[k - 1]}
    IN  Reached[Cardinality(Nodes)]

\* The schemas of values at some depth of an answer without limits.
AtDepth[d \in Nat] ==
    IF d = 0 THEN Closure({Root})
    ELSE Closure(UNION {Contents(n) : n \in AtDepth[d - 1]})

Circular(n) == n \in Closure(Parts(n))

Composite(n) == Schema(n).ref # None \/ Schema(n).allOf # <<>>

Inside(v) ==
    CASE v.kind = "object" -> {v.fields[f] : f \in DOMAIN v.fields}
      [] v.kind = "array" -> {v.items[i] : i \in DOMAIN v.items}
      [] OTHER -> {}

\* The values d levels down in the answer.
Level[d \in Nat] ==
    IF d = 0 THEN {answer} ELSE UNION {Inside(v) : v \in Level[d - 1]}

-----------------------------------------------------------------------------
(***************************************************************************)
(* Properties.                                                             *)
(***************************************************************************)
(***************************************************************************)
(* Data is "schema-complete" (DataGenerator): an object put together by    *)
(* references and allOf has the fields of all its parts, however deep,     *)
(* and no others.  Not so when a part has neither type nor properties: it  *)
(* is generated as a string, and replaces the object (generator.go:493);   *)
(* nor for properties beside a reference, which are left out.              *)
(***************************************************************************)
Complete ==
    LET parts == Closure({Root})
    IN  /\ answer # None
        /\ 2 * Cardinality(parts) <= MaxRecursion
        /\ \A n \in parts :
              /\ ~Circular(n) /\ Schema(n).oneOf = <<>> /\ Schema(n).example = None
              /\ Composite(n) \/ ResolveComplexType(Schema(n)) = "object"
              /\ Schema(n).additional = None
              /\ Schema(n).ref # None => DOMAIN Schema(n).properties = {}
        => /\ answer.kind = "object"
           /\ DOMAIN answer.fields =
                 UNION {DOMAIN Schema(n).properties : n \in parts}

\* No schema is made of itself, and each level of the answer has its share of
\* the calls, at most two for each schema a value is put together from.
LeavesCalls ==
    \A d \in 0..maxDepth : \A n \in AtDepth[d] :
        /\ ~Circular(n)
        /\ 2 * Cardinality(Closure({n})) <= MaxRecursion \div (maxDepth + 1)

(***************************************************************************)
(* The limit cuts what is deeper and nothing else.  Nothing lies deeper    *)
(* than maxDepth, unless an object with allOf and properties of its own    *)
(* is in play, which is not held back (NestingLimited).  And null is in    *)
(* the answer only in the place of an object at the limit, or where        *)
(* nothing but null may be: a nullable reference has data.  What an        *)
(* example says is taken as it is.                                         *)
(***************************************************************************)
LimitCuts ==
    /\ answer # None
    /\ \A d \in 0..maxDepth : \A n \in AtDepth[d] : Schema(n).example = None
    => /\ \/ Level[maxDepth + 1] = {}
          \/ \E d \in 0..maxDepth : \E n \in AtDepth[d] :
                Schema(n).allOf # <<>> /\ DOMAIN Schema(n).properties # {}
       /\ \/ \A d \in 0..maxDepth : Nil \notin Level[d]
          \/ \E n \in AtDepth[maxDepth] :
                ~Composite(n) /\ ResolveComplexType(Schema(n)) = "object"
          \/ \E d \in 0..maxDepth : \E n \in AtDepth[d] : Schema(n).type = "null"
          \/ ~LeavesCalls

(***************************************************************************)
(* --max-depth is the "max depth for nested/circular schemas" (README).    *)
(***************************************************************************)
NestingLimited ==
    /\ answer # None
    /\ \A n \in Nodes : Schema(n).example = None
    => Level[maxDepth + 1] = {}

(***************************************************************************)
(* "Generic generation satisfies schema constraints" (primitive.go): each  *)
(* integer some seed draws keeps to the bounds, if they are whole numbers, *)
(* not negative, and leave room below the default maximum.  Otherwise the  *)
(* value may be outside: maximum -1 without a minimum gives 0, a range     *)
(* below zero is snapped to a multiple above it, 3/2 is taken for 1.       *)
(***************************************************************************)
IntegersValid ==
    LET s == Schema(Root)
    IN  /\ answer # None
        /\ s.type = "integer" /\ ~Composite(Root) /\ s.oneOf = <<>>
        /\ Whole(s.bounds) /\ LeavesRoom(s.bounds)
        => Satisfies(answer.value, s.bounds)
=============================================================================
