----------------------------- MODULE UserCache -----------------------------
(***************************************************************************)
(* What cache_helper.GetRLCached promises of one key to a handler that     *)
(* looks a record up and to one that changes it (README.md:171-183).       *)
(*                                                                         *)
(* A lookup answers with the record or with an older one that still        *)
(* lingers in a local cache, in Redis or in a load that is under way.  A   *)
(* change makes the old record linger, or not, when nobody holds it.       *)
(* Whatever lingers may fade at any time, and what has faded does not come *)
(* back until the record takes that value again.                           *)
(***************************************************************************)
CONSTANT Value

VARIABLES row,       \* the record
          lingering  \* other records that a lookup may answer with

vars == <<row, lingering>>

Init == row \in Value /\ lingering = {}

Answers == {row} \cup lingering

Commit(v) ==
    /\ row' = v
    /\ lingering' \in SUBSET (Answers \ {v})

(* Everything that the caches do: loads, copies, refreshes, expiries.      *)
Fade ==
    /\ lingering' \in SUBSET lingering
    /\ UNCHANGED row

Next == Fade \/ \E v \in Value : Commit(v)

Spec == Init /\ [][Next]_vars
=============================================================================
