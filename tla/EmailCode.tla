----------------------------- MODULE EmailCode -----------------------------
(***************************************************************************)
(* The email codes of api_handler/user/session.go for one address:         *)
(* EmailCodeHandler issues a code, verifyEmailCode checks one on behalf of *)
(* RegisterHandler and ResetPasswordHandler.  Everything they share is in  *)
(* Redis: the sending cooldown and, per purpose, the code and a counter of *)
(* the attempts that are left.  A step is one round trip to Redis.         *)
(*                                                                         *)
(* A code is known by the number of its issue, so two codes are never      *)
(* equal by chance.                                                        *)
(***************************************************************************)
EXTENDS Integers, FiniteSets

CONSTANTS Purpose,
          Requester,   \* calls of EmailCodeHandler, each made once
          Verifier,    \* calls of verifyEmailCode, each made once
          Attempts,    \* emailCodeAttempts
          Missing      \* a key that Redis does not hold

Code == 1..Cardinality(Requester)
Wrong == 0   \* a code that was never issued

ASSUME AttemptsAssumption == Attempts \in Nat /\ Missing \notin Int
ASSUME SizeAssumption == IsFiniteSet(Requester) /\ IsFiniteSet(Verifier)

VARIABLES cooldown,  \* whether the cooldown key exists
          code,      \* the stored code of every purpose
          attempts,  \* the stored counter of every purpose
          issued,    \* how many codes have been issued
          request,   \* the calls of EmailCodeHandler
          check,     \* the calls of verifyEmailCode
          spent      \* history: codes that a successful check has deleted

vars == <<cooldown, code, attempts, issued, request, check, spent>>

(* made: history, the code that the call has stored. *)
Request == [pc : {"idle", "cooling", "done"}, purpose : Purpose,
            made : Code \cup {Missing}]

(* guess: the code submitted; the rest is history: the code of which the   *)
(* call took an attempt, whether the guess was spent by then, the code it  *)
(* was compared with.                                                      *)
Check == [pc : {"idle", "counted", "matched", "accepted", "rejected"},
          purpose : Purpose,
          guess : Code \cup {Wrong},
          counted : Code \cup {Missing},
          replay : BOOLEAN,
          compared : Code \cup {Missing}]

TypeOK ==
    /\ cooldown \in BOOLEAN
    /\ code \in [Purpose -> Code \cup {Missing}]
    /\ attempts \in [Purpose -> (-Cardinality(Verifier)..Attempts) \cup {Missing}]
    /\ issued \in 0..Cardinality(Requester)
    /\ request \in [Requester -> Request]
    /\ check \in [Verifier -> Check]
    /\ spent \subseteq Code

Init ==
    /\ cooldown = FALSE
    /\ code = [p \in Purpose |-> Missing]
    /\ attempts = [p \in Purpose |-> Missing]
    /\ issued = 0
    /\ request \in [Requester -> {[pc |-> "idle", purpose |-> p, made |-> Missing] :
                                   p \in Purpose}]
    /\ check \in [Verifier -> {[pc |-> "idle", purpose |-> p, guess |-> Wrong,
                                counted |-> Missing, replay |-> FALSE,
                                compared |-> Missing] : p \in Purpose}]
    /\ spent = {}

redis == <<cooldown, code, attempts>>

-----------------------------------------------------------------------------
(* EmailCodeHandler.  The cooldown is taken first and is never given back, *)
(* whatever fails afterwards.                                              *)

RequestCooldown(q) ==
    /\ request[q].pc = "idle"
    /\ ~ cooldown
    /\ cooldown' = TRUE
    /\ request' = [request EXCEPT ![q].pc = "cooling"]
    /\ UNCHANGED <<code, attempts, issued, check, spent>>

(* Mutant: one key serves both purposes. *)
RequestStoreShared(q) ==
    /\ request[q].pc = "cooling"
    /\ issued' = issued + 1
    /\ code' = [p \in Purpose |-> issued']
    /\ attempts' = [p \in Purpose |-> Attempts]
    /\ request' = [request EXCEPT ![q].pc = "done", ![q].made = issued']
    /\ UNCHANGED <<cooldown, check, spent>>

RequestStore(q) ==
    /\ request[q].pc = "cooling"
    /\ issued' = issued + 1
    /\ code' = [code EXCEPT ![request[q].purpose] = issued']
    /\ attempts' = [attempts EXCEPT ![request[q].purpose] = Attempts]
    /\ request' = [request EXCEPT ![q].pc = "done", ![q].made = issued']
    /\ UNCHANGED <<cooldown, check, spent>>

(* Sending the mail changes nothing here: when it fails, code and counter  *)
(* stay.  Before that the cooldown may hold, Redis may fail, or the client *)
(* may go away.                                                            *)
RequestEnd(q) ==
    /\ request[q].pc \in {"idle", "cooling"}
    /\ request[q].pc = "idle" => cooldown
    /\ request' = [request EXCEPT ![q].pc = "done"]
    /\ UNCHANGED <<cooldown, code, attempts, issued, check, spent>>

-----------------------------------------------------------------------------
(* verifyEmailCode: count the attempt, read the code, compare, delete. *)

Left(p) == IF attempts[p] = Missing THEN -1 ELSE attempts[p] - 1

(* Mutant: one attempt too many is let through. *)
VerifyCountLate(v, guess) ==
    LET p == check[v].purpose
    IN  /\ check[v].pc = "idle"
        /\ attempts' = [attempts EXCEPT ![p] = Left(p)]
        /\ check' = [check EXCEPT ![v].guess = guess,
                                  ![v].pc = IF Left(p) < -1 THEN "rejected"
                                            ELSE "counted",
                                  ![v].counted = code[p],
                                  ![v].replay = guess \in spent]
        /\ UNCHANGED <<cooldown, code, issued, request, spent>>

VerifyCount(v, guess) ==
    LET p == check[v].purpose
    IN  /\ check[v].pc = "idle"
        /\ attempts' = [attempts EXCEPT ![p] = Left(p)]
        /\ check' = [check EXCEPT ![v].guess = guess,
                                  ![v].pc = IF Left(p) < 0 THEN "rejected"
                                            ELSE "counted",
                                  ![v].counted = code[p],
                                  ![v].replay = guess \in spent]
        /\ UNCHANGED <<cooldown, code, issued, request, spent>>

VerifyCompare(v) ==
    LET stored == code[check[v].purpose]
    IN  /\ check[v].pc = "counted"
        /\ check' = [check EXCEPT ![v].compared = stored,
                                  ![v].pc = IF stored = check[v].guess
                                            THEN "matched" ELSE "rejected"]
        /\ UNCHANGED <<redis, issued, request, spent>>

(* Mutant: a successful check deletes nothing. *)
VerifyDeletesNothing(v) ==
    /\ check[v].pc = "matched"
    /\ spent' = spent \cup {check[v].guess}
    /\ check' = [check EXCEPT ![v].pc = "accepted"]
    /\ UNCHANGED <<redis, issued, request>>

(* The keys are deleted, whichever code they hold by now; the reply of     *)
(* Redis may be lost, and then the call is refused all the same.           *)
VerifyDelete(v) ==
    LET p == check[v].purpose
    IN  /\ check[v].pc = "matched"
        /\ code' = [code EXCEPT ![p] = Missing]
        /\ attempts' = [attempts EXCEPT ![p] = Missing]
        /\ spent' = spent \cup {check[v].guess}
        /\ \E outcome \in {"accepted", "rejected"} :
              check' = [check EXCEPT ![v].pc = outcome]
        /\ UNCHANGED <<cooldown, issued, request>>

(* Redis fails or the client goes away: nothing is undone. *)
VerifyFail(v) ==
    /\ check[v].pc \in {"counted", "matched"}
    /\ check' = [check EXCEPT ![v].pc = "rejected"]
    /\ UNCHANGED <<redis, issued, request, spent>>

-----------------------------------------------------------------------------
(* Keys expire.  A code and its counter are given the same lifetime by one *)
(* transaction; which of them goes first is left open.                     *)

ExpireCooldown ==
    /\ cooldown
    /\ cooldown' = FALSE
    /\ UNCHANGED <<code, attempts, issued, request, check, spent>>

ExpireCode(p) ==
    /\ code[p] # Missing
    /\ code' = [code EXCEPT ![p] = Missing]
    /\ UNCHANGED <<cooldown, attempts, issued, request, check, spent>>

ExpireAttempts(p) ==
    /\ attempts[p] # Missing
    /\ attempts' = [attempts EXCEPT ![p] = Missing]
    /\ UNCHANGED <<cooldown, code, issued, request, check, spent>>

RequestStep(q) ==
    \/ RequestCooldown(q)
    \/ RequestStore(q)
    \/ RequestEnd(q)

VerifyStep(v) ==
    \/ \E guess \in 0..issued : VerifyCount(v, guess)
    \/ VerifyCompare(v)
    \/ VerifyDelete(v)
    \/ VerifyFail(v)

Next ==
    \/ \E q \in Requester : RequestStep(q)
    \/ \E v \in Verifier : VerifyStep(v)
    \/ ExpireCooldown
    \/ \E p \in Purpose : ExpireCode(p) \/ ExpireAttempts(p)

Spec == Init /\ [][Next]_vars

-----------------------------------------------------------------------------
(* The calls that were compared with a code. *)
ComparedWith(c) == {v \in Verifier : check[v].compared = c}

(* No more than three of the calls that took one of a code's own attempts  *)
(* are compared with it, whatever is issued, deleted or expires between    *)
(* the count and the comparison.                                           *)
OwnAttemptsBounded ==
    \A c \in Code :
        Cardinality({v \in ComparedWith(c) : check[v].counted = c}) <= Attempts

(* "Email codes [...] allow three verification attempts, including         *)
(* successful attempts" (app/server/README.md:84-85).                      *)
ThreeAttemptsPerCode ==
    \A c \in Code : Cardinality(ComparedWith(c)) <= Attempts

(* "successful verification deletes it" (app/server/README.md:86): a call  *)
(* that starts after a code was spent is never accepted with that code,    *)
(* although calls that overlap may both be.                                *)
NoReplay ==
    \A v \in Verifier :
        check[v].pc = "accepted" => ~ check[v].replay
=============================================================================
