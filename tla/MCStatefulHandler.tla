-------------------------- MODULE MCStatefulHandler -------------------------
(***************************************************************************)
(* Four requests on two resources in different scopes: enough to create,   *)
(* to race two writes and to look at the outcome.  With capacity 1 every   *)
(* second resource evicts the first; requests for one resource never meet  *)
(* the limit.                                                              *)
(***************************************************************************)
EXTENDS StatefulHandler, TLC

CONSTANTS n1, s1, s2, r1, r2, r3, r4, f1, f2

MCNamespaces == {n1}
MCScopes == {s1, s2}
MCIds == {1}
MCFields == {f1, f2}
MCBodies == {{f1}, {f2}}
MCRequests == {r1, r2, r3, r4}

\* Three requests that write race, a fourth looks on.
MCTypes ==
    [r \in MCRequests |->
        IF r = r4 THEN {"fetch", "list"} ELSE {"create", "update", "delete", "reset"}]

MCSymmetry ==
    Permutations({r1, r2, r3}) \cup Permutations(MCScopes) \cup Permutations(MCFields)
=============================================================================
