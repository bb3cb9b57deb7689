----------------------------- MODULE MCInMemory -----------------------------
(***************************************************************************)
(* Two namespaces, two scopes and two ids with capacity 2: enough for an   *)
(* eviction to empty a scope or a namespace, the very one the new resource *)
(* goes to included, for a list of two to be sorted, and for a key to be   *)
(* overtaken by as many others as fit.  Namespaces, scopes and data are    *)
(* interchangeable; ids are not, List sorts them.                          *)
(***************************************************************************)
EXTENDS LRUHistory, TLC

CONSTANTS n1, n2, s1, s2, d1, d2

MCNamespaces == {n1, n2}
MCScopes == {s1, s2}
MCIds == {1, 2}
MCData == {d1, d2}

MCSymmetry ==
    Permutations(MCNamespaces) \cup Permutations(MCScopes) \cup Permutations(MCData)
=============================================================================
