----------------------------- MODULE SpeedLimit -----------------------------
(***************************************************************************)
(* The request limiter of app/server/base/middleware/speed_limit.go: one   *)
(* process, its counters in the local cache, one mutex for all of them.    *)
(*                                                                         *)
(* A counter is an object that the cache refers to until the entry's time  *)
(* is over; a request goes on using the object it has found.  Seconds pass *)
(* at any moment, also while a request holds the mutex.                    *)
(***************************************************************************)
EXTENDS Naturals, FiniteSets

CONSTANTS Request,
          Key,       \* route and user, or route and client address
          KeyOf,     \* the key of a request; NoKey if it cannot be identified
          NoKey,
          Limit,     \* policy.Requests
          Window,    \* policy.Window in seconds
          NoEntry, Free

Counter == 1..Cardinality(Request)
Entry == [counter : Counter, ttl : 1..Window]

ASSUME KeyAssumption == KeyOf \in [Request -> Key \cup {NoKey}] /\ NoKey \notin Key
ASSUME RequestAssumption == IsFiniteSet(Request) /\ Free \notin Request
ASSUME PolicyAssumption == Limit \in Nat \ {0} /\ Window \in Nat \ {0}
ASSUME NoEntryAssumption == NoEntry \notin Entry

VARIABLES counterMu,  \* the request that holds the mutex
          entry,      \* the cache entry of every key
          count,      \* the counters that have been made
          made,       \* how many
          request,    \* the requests
          age         \* history: how long ago a request was admitted, in
                      \* seconds; Window if that is longer ago, or never was

vars == <<counterMu, entry, count, made, request, age>>

(* full: history, whether the window held Limit admissions at the lookup.  *)
Call == [pc : {"idle", "missing", "found", "admitted", "limited", "refused"},
         counter : Counter \cup {0},
         full : BOOLEAN]

TypeOK ==
    /\ counterMu \in Request \cup {Free}
    /\ entry \in [Key -> Entry \cup {NoEntry}]
    /\ count \in [Counter -> 0..Cardinality(Request)]
    /\ made \in 0..Cardinality(Request)
    /\ request \in [Request -> Call]
    /\ age \in [Request -> 0..Window]

Init ==
    /\ counterMu = Free
    /\ entry = [k \in Key |-> NoEntry]
    /\ count = [c \in Counter |-> 0]
    /\ made = 0
    /\ request = [r \in Request |-> [pc |-> "idle", counter |-> 0, full |-> FALSE]]
    /\ age = [r \in Request |-> Window]

-----------------------------------------------------------------------------
Recent(k) == {r \in Request : KeyOf[r] = k /\ age[r] < Window}
Admissions(k) == Cardinality(Recent(k))

(* Mutant: the counters are used without the mutex. *)
AnyTime(r) == TRUE

Unlocked(r) == counterMu = Free

(* A request without a user or an address is answered without a counter.   *)
Refuse(r) ==
    /\ request[r].pc = "idle"
    /\ KeyOf[r] = NoKey
    /\ request' = [request EXCEPT ![r].pc = "refused"]
    /\ UNCHANGED <<counterMu, entry, count, made, age>>

Look(r) ==
    LET k == KeyOf[r]
        full == Admissions(k) >= Limit
    IN  /\ request[r].pc = "idle"
        /\ k # NoKey
        /\ Unlocked(r)
        /\ counterMu' = r
        /\ request' = [request EXCEPT ![r] =
              IF entry[k] = NoEntry
              THEN [pc |-> "missing", counter |-> 0, full |-> full]
              ELSE [pc |-> "found", counter |-> entry[k].counter, full |-> full]]
        /\ UNCHANGED <<entry, count, made, age>>

(* Mutant: the new counter lives one second only. *)
MakeShort(r) ==
    /\ request[r].pc = "missing"
    /\ made' = made + 1
    /\ entry' = [entry EXCEPT ![KeyOf[r]] = [counter |-> made', ttl |-> 1]]
    /\ request' = [request EXCEPT ![r].pc = "found", ![r].counter = made']
    /\ UNCHANGED <<counterMu, count, age>>

Make(r) ==
    /\ request[r].pc = "missing"
    /\ made' = made + 1
    /\ entry' = [entry EXCEPT ![KeyOf[r]] = [counter |-> made', ttl |-> Window]]
    /\ request' = [request EXCEPT ![r].pc = "found", ![r].counter = made']
    /\ UNCHANGED <<counterMu, count, age>>

(* Mutant: the last request of the quota is refused. *)
AllowedEarly(n) == n < Limit

Allowed(n) == n <= Limit

(* Mutant: the answer to a limited request keeps the mutex. *)
CountKeepsMutex(r) ==
    LET c == request[r].counter
        admitted == Allowed(count'[c])
    IN  /\ request[r].pc = "found"
        /\ count' = [count EXCEPT ![c] = @ + 1]
        /\ request' = [request EXCEPT ![r].pc =
                          IF admitted THEN "admitted" ELSE "limited"]
        /\ age' = IF admitted THEN [age EXCEPT ![r] = 0] ELSE age
        /\ counterMu' = IF admitted THEN Free ELSE counterMu
        /\ UNCHANGED <<entry, made>>

Count(r) ==
    LET c == request[r].counter
        admitted == Allowed(count'[c])
    IN  /\ request[r].pc = "found"
        /\ count' = [count EXCEPT ![c] = @ + 1]
        /\ request' = [request EXCEPT ![r].pc =
                          IF admitted THEN "admitted" ELSE "limited"]
        /\ age' = IF admitted THEN [age EXCEPT ![r] = 0] ELSE age
        /\ counterMu' = Free
        /\ UNCHANGED <<entry, made>>

Aged(e) == IF e = NoEntry \/ e.ttl = 1 THEN NoEntry
           ELSE [e EXCEPT !.ttl = e.ttl - 1]

(* A second passes. *)
Tick ==
    /\ entry' = [k \in Key |-> Aged(entry[k])]
    /\ age' = [r \in Request |-> IF age[r] < Window THEN age[r] + 1 ELSE Window]
    /\ UNCHANGED <<counterMu, count, made, request>>

Next ==
    \/ \E r \in Request : Refuse(r) \/ Look(r) \/ Make(r) \/ Count(r)
    \/ Tick

Spec == Init /\ [][Next]_vars

(* The scheduler runs every handler that is not waiting for the mutex. *)
FairSpec ==
    Spec /\ \A r \in Request :
                WF_vars(Refuse(r) \/ Look(r) \/ Make(r) \/ Count(r))

-----------------------------------------------------------------------------
(* A fixed window that starts with the first request lets at most two      *)
(* quotas through in any period of one window, whichever requests overlap  *)
(* and wherever the entry expires between lookup and count.                *)
TwoQuotasPerWindow ==
    \A k \in Key : Admissions(k) <= 2 * Limit

(* "Exceeding a limit returns HTTP 429" (README.md:255-256), and nothing   *)
(* else does: a request is limited only when the window before its lookup  *)
(* held a whole quota.                                                     *)
LimitedOnlyWhenFull ==
    \A r \in Request : request[r].pc = "limited" => request[r].full

(* While an entry lives it is the newest counter of its key that requests  *)
(* find, so a quota cannot be divided among two counters.                  *)
OneCounterPerWindow ==
    \A r \in Request :
        (request[r].pc = "found" /\ entry[KeyOf[r]] # NoEntry)
            => entry[KeyOf[r]].counter = request[r].counter

(* No request waits for the mutex for ever. *)
EveryRequestAnswered ==
    \A r \in Request :
        <>(request[r].pc \in {"admitted", "limited", "refused"})
=============================================================================
