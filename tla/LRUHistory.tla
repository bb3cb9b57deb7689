----------------------------- MODULE LRUHistory -----------------------------
(***************************************************************************)
(* What a user of --max-resources can rely on: InMemory with two history   *)
(* variables that watch one key, any of them, and remember the other keys  *)
(* used since its own last use.                                            *)
(***************************************************************************)
EXTENDS InMemory

VARIABLES
    watched,    \* the key
    since       \* the keys used after its last use, while it is held

hvars == <<vars, watched, since>>

\* Get with a hit and Put use a key; it is then at the front of the list.
Used ==
    IF reply'[1] = "Put" \/ (reply'[1] = "Get" /\ reply'[2] # NotFound)
    THEN {Head(lru')}
    ELSE {}

HInit == Init /\ watched \in Keys /\ since = {}

HNext ==
    /\ Next
    /\ since' = IF watched \in Used \/ watched \notin Held \/ watched \notin Held'
                THEN {} ELSE since \cup Used
    /\ UNCHANGED watched

HSpec == HInit /\ [][HNext]_hvars

(***************************************************************************)
(* A resource that disappears while another one is stored had not been     *)
(* read or written while as many other resources as the store can hold     *)
(* were: neither List, Count, a failed Get nor a Delete can cost it its    *)
(* place.                                                                  *)
(***************************************************************************)
EvictedOnlyWhenStale ==
    [][(watched \in Held \ Held' /\ reply'[1] = "Put")
          => Cardinality(since \cup Used) >= capacity]_hvars
=============================================================================
