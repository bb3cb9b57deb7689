----------------------------- MODULE RequestLog -----------------------------
(***************************************************************************)
(* The ring buffer behind get_request_log (internal/mcp/reqlog.go).  Every *)
(* method holds rl.mu throughout, so each one is one action.               *)
(***************************************************************************)
EXTENDS Integers, Sequences

CONSTANTS
    Entries,        \* [method, path, status, time] records, opaque here
    Limits,         \* arguments of Recent
    Capacity,       \* argument of NewRequestLog
    Blank           \* the zero Entry of a slot never written

ASSUME CapacityAssumption == Capacity \in Int
ASSUME LimitsAssumption == Limits \subseteq Nat
ASSUME BlankAssumption == Blank \notin Entries

VARIABLES
    entries,        \* the buffer, by slot
    head,           \* the slot the next entry goes to
    count,          \* how many slots are in use
    reply           \* what the last call returned

logVars == <<entries, head, count, reply>>

\* NewRequestLog clamps the capacity.
cap == IF Capacity < 1 THEN 1 ELSE Capacity

LogInit ==
    /\ entries = [slot \in 0..(cap - 1) |-> Blank]
    /\ head = 0
    /\ count = 0
    /\ reply = <<"New">>

\* Mutant: the head does not wrap.
RecordUnwrapped(e) ==
    /\ entries' = [entries EXCEPT ![head] = e]
    /\ head' = head + 1
    /\ count' = IF count < cap THEN count + 1 ELSE count
    /\ reply' = <<"Record">>

Record(e) ==
    /\ entries' = [entries EXCEPT ![head] = e]
    /\ head' = (head + 1) % cap
    /\ count' = IF count < cap THEN count + 1 ELSE count
    /\ reply' = <<"Record">>

\* The slot of the i-th newest entry, i = 1 for the newest.
Slot(i) == (head - i + cap) % cap

Recent(limit) ==
    /\ reply' = <<"Recent", [i \in 1..(IF limit < count THEN limit ELSE count) |->
                                entries[Slot(i)]]>>
    /\ UNCHANGED <<entries, head, count>>

\* Mutant: only the head is reset.
ResetHead ==
    /\ head' = 0
    /\ reply' = <<"Reset">>
    /\ UNCHANGED <<entries, count>>

\* Reset forgets the entries without erasing them.
Reset ==
    /\ head' = 0
    /\ count' = 0
    /\ reply' = <<"Reset">>
    /\ UNCHANGED entries

LogNext ==
    \/ \E e \in Entries : Record(e)
    \/ \E limit \in Limits : Recent(limit)
    \/ Reset

LogSpec == LogInit /\ [][LogNext]_logVars
-----------------------------------------------------------------------------
(***************************************************************************)
(* The indices stay inside the buffer, and the slots in use, those the     *)
(* next Recent reads, have been written: no blank entry is ever listed.    *)
(***************************************************************************)
SlotsOK ==
    /\ entries \in [0..(cap - 1) -> Entries \cup {Blank}]
    /\ head \in 0..(cap - 1)
    /\ count \in 0..cap
    /\ \A i \in 1..count : entries[Slot(i)] \in Entries

Newest == [i \in 1..count |-> entries[Slot(i)]]

Abstract == INSTANCE BoundedLog WITH log <- Newest

(* The ring buffer is the bounded log: it lists the last cap entries since *)
(* the last reset, newest first, and what a reset left in the slots is     *)
(* never seen again.                                                       *)
ImplementsBoundedLog == Abstract!Spec
=============================================================================
