---------------------------- MODULE MCRequestLog ----------------------------
(***************************************************************************)
(* A buffer of three slots and three entries: it wraps, a reset leaves old *)
(* entries behind in any slot, and a limit is below, at or above count.    *)
(***************************************************************************)
EXTENDS RequestLog

CONSTANTS e1, e2, e3

MCEntries == {e1, e2, e3}
MCLimits == {0, 2, 5}
=============================================================================
