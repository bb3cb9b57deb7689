----------------------------- MODULE BoundedLog -----------------------------
(***************************************************************************)
(* What the comment on RequestLog (internal/mcp/reqlog.go) promises: it    *)
(* remembers the last cap entries recorded since it was made or reset and  *)
(* lists them newest first.  There is no buffer here.                      *)
(***************************************************************************)
EXTENDS Integers, Sequences

CONSTANTS Entries, Limits, cap

VARIABLES
    log,        \* newest first
    reply       \* what the last call returned

vars == <<log, reply>>

AtMost(n, s) == [i \in 1..(IF n < Len(s) THEN n ELSE Len(s)) |-> s[i]]

Init ==
    /\ log = <<>>
    /\ reply = <<"New">>

Record(e) ==
    /\ log' = AtMost(cap, <<e>> \o log)
    /\ reply' = <<"Record">>

Recent(limit) ==
    /\ reply' = <<"Recent", AtMost(limit, log)>>
    /\ UNCHANGED log

Reset ==
    /\ log' = <<>>
    /\ reply' = <<"Reset">>

Next ==
    \/ \E e \in Entries : Record(e)
    \/ \E limit \in Limits : Recent(limit)
    \/ Reset

Spec == Init /\ [][Next]_vars
=============================================================================
