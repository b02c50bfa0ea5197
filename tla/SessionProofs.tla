---------------------------- MODULE SessionProofs ----------------------------
(***************************************************************************)
(* Theorems about Session and the EmailCode it is made of, for any finite  *)
(* sets of calls and any number of attempts.                               *)
(*                                                                         *)
(* Most of it is about EmailCode alone: every step of Session is a step of *)
(* EmailCode or leaves it as it was (SessionStepIsEmailStep).              *)
(***************************************************************************)
EXTENDS Session, FiniteSetTheorems, TLAPS

Begun == {v \in Verifier : check[v].pc # "idle"}
Sent == {q \in Requester : request[q].made # Missing}

(* Why issued and the counters stay in their ranges: every code has a call *)
(* that made it, every attempt a call that took it.                        *)
Tallies ==
    /\ issued = Cardinality(Sent)
    /\ \A p \in Purpose :
          attempts[p] # Missing => attempts[p] + Cardinality(Begun) >= 0
    /\ \A q \in Requester : request[q].pc # "done" => request[q].made = Missing

MatchedIsCode == \A v \in Verifier : check[v].pc = "matched" => check[v].guess \in Code

TypeInv == TypeOK /\ Tallies /\ MatchedIsCode

(* Every call has made a code of its own, all of them among those issued.  *)
MadeOnce ==
    /\ \A q \in Requester : request[q].made # Missing => request[q].made <= issued
    /\ \A q, r \in Requester :
          request[q].made # Missing /\ request[q].made = request[r].made => q = r

MadeFor(c, p) ==
    \E q \in Requester : request[q].made = c /\ request[q].purpose = p

(* What is stored for a purpose was made for it and is not spent. *)
StoredIsFresh ==
    \A p \in Purpose : code[p] # Missing => MadeFor(code[p], p) /\ code[p] \notin spent

(* A call that is about to succeed, or has succeeded, brought a code that  *)
(* was made for its purpose and was not spent when the call began.         *)
MatchedIsFresh ==
    /\ spent \subseteq 1..issued
    /\ \A v \in Verifier :
          /\ check[v].replay => check[v].guess \in spent
          /\ check[v].pc \in {"matched", "accepted"} =>
                MadeFor(check[v].guess, check[v].purpose) /\ ~ check[v].replay

(* The calls that took an attempt of code c and may still be compared with *)
(* it, or have been.                                                       *)
Taken(c) ==
    {v \in Verifier : /\ check[v].counted = c
                      /\ check[v].pc = "counted" \/ check[v].compared = c}

Remaining(p) == IF attempts[p] = Missing \/ attempts[p] < 0 THEN 0 ELSE attempts[p]

(* OwnAttemptsBounded is not inductive: a code that is stored may still    *)
(* give attempts away.  Together with these it does not exceed its number. *)
AttemptsShared ==
    /\ \A c \in Code : Cardinality(Taken(c)) <= Attempts
    /\ \A p \in Purpose :
          code[p] # Missing =>
             Cardinality(Taken(code[p])) + Remaining(p) <= Attempts
    /\ \A v \in Verifier :
          /\ check[v].counted # Missing => check[v].counted <= issued
          /\ check[v].pc \in {"idle", "counted"} => check[v].compared = Missing

EmailInv == TypeInv /\ MadeOnce /\ StoredIsFresh /\ MatchedIsFresh /\ AttemptsShared

(* A captcha that is still there has let nobody through. *)
CaptchaInv ==
    /\ stored \in BOOLEAN
    /\ passed \in {0, 1}
    /\ stored => passed = 0

(* The calls that have gone beyond their captcha, and how far. *)
CallInv ==
    /\ call \in [Caller -> {"idle", "open", "found", "changed", "done"}]
    /\ \A v \in Verifier :
          call[v] \in {"found", "changed"} => check[v].pc = "accepted"
    /\ \A q \in Requester :
          request[q].pc = "cooling" => call[q] = "found"

(* An account is never invented: whoever is to be sent a code to reset its *)
(* password has one.                                                       *)
AccountInv ==
    /\ row \in BOOLEAN
    /\ lingering \subseteq BOOLEAN
    /\ ~ row => /\ lingering \subseteq {FALSE}
                /\ code["reset_password"] = Missing
                /\ \A q \in Requester :
                      request[q].purpose = "reset_password" => call[q] # "found"

SessionInv == EmailInv /\ CaptchaInv /\ CallInv /\ AccountInv

USE AttemptsAssumption, SizeAssumption

-----------------------------------------------------------------------------
(* Sets of calls are finite, and so are the numbers of codes. *)
LEMMA CallSets ==
    ASSUME NEW S, IsFiniteSet(S), NEW T \in SUBSET S
    PROVE  /\ IsFiniteSet(T)
           /\ Cardinality(T) \in Nat
           /\ Cardinality(T) <= Cardinality(S)
BY FS_Subset, FS_CardinalityType

LEMMA OneMore ==
    ASSUME NEW S, IsFiniteSet(S), NEW x \in S, NEW T \in SUBSET S, x \notin T
    PROVE  /\ Cardinality(T \cup {x}) = Cardinality(T) + 1
           /\ Cardinality(T) + 1 <= Cardinality(S)
<1>1. IsFiniteSet(T)
  BY CallSets
<1>2. Cardinality(T \cup {x}) = Cardinality(T) + 1
  BY <1>1, FS_AddElement
<1>3. Cardinality(T \cup {x}) <= Cardinality(S)
  BY CallSets
<1> QED BY <1>2, <1>3

LEMMA CodeFacts ==
    /\ Cardinality(Requester) \in Nat
    /\ Cardinality(Verifier) \in Nat
    /\ Code \subseteq Nat \ {0}
    /\ Missing \notin Code
BY FS_CardinalityType DEF Code

LEMMA InitTypeInv == Init => TypeInv
<1> SUFFICES ASSUME Init PROVE TypeInv
  OBVIOUS
<1>1. Sent = {} /\ Begun = {}
  BY DEF Init, Sent, Begun
<1>2. Tallies
  BY <1>1, FS_EmptySet DEF Init, Tallies
<1>3. TypeOK
  <2>1. request \in [Requester -> Request]
    BY DEF Init, Request
  <2>2. check \in [Verifier -> Check]
    <3> DEFINE Fresh == {[pc |-> "idle", purpose |-> p, guess |-> Wrong,
                          counted |-> Missing, replay |-> FALSE,
                          compared |-> Missing] : p \in Purpose}
    <3>1. Fresh \subseteq Check
      <4> SUFFICES ASSUME NEW p \in Purpose
                   PROVE  [pc |-> "idle", purpose |-> p, guess |-> Wrong,
                           counted |-> Missing, replay |-> FALSE,
                           compared |-> Missing] \in Check
        OBVIOUS
      <4> QED BY DEF Check
    <3>2. check \in [Verifier -> Fresh]
      BY DEF Init
    <3> HIDE DEF Fresh
    <3> QED BY <3>1, <3>2
  <2>3. 0 \in 0..Cardinality(Requester)
    BY CodeFacts
  <2> QED BY <2>1, <2>2, <2>3 DEF Init, TypeOK
<1>4. MatchedIsCode
  BY DEF Init, MatchedIsCode
<1> QED BY <1>2, <1>3, <1>4 DEF TypeInv

(* A step that leaves the calls alone and stores nothing. *)
LEMMA ExpiryTypeInv ==
    ASSUME TypeInv,
           UNCHANGED <<issued, request, check, spent>>,
           cooldown' \in BOOLEAN,
           code' \in [Purpose -> Code \cup {Missing}],
           attempts' \in [Purpose -> (-Cardinality(Verifier)..Attempts) \cup {Missing}],
           \A p \in Purpose : attempts'[p] \in {attempts[p], Missing}
    PROVE  TypeInv'
<1>1. Sent' = Sent /\ Begun' = Begun
  BY DEF Sent, Begun
<1> QED BY <1>1 DEF TypeInv, TypeOK, Tallies, MatchedIsCode

LEMMA RequestTypeInv ==
    ASSUME TypeInv, NEW q \in Requester, RequestStep(q)
    PROVE  TypeInv'
<1> USE DEF TypeInv, TypeOK, Tallies, MatchedIsCode
<1>1. Begun' = Begun
  BY DEF RequestStep, RequestCooldown, RequestStore, RequestEnd, Begun
<1>2. CASE RequestCooldown(q)
  <2>1. request' \in [Requester -> Request]
    BY <1>2 DEF RequestCooldown, Request
  <2>2. Sent' = Sent
    BY <1>2 DEF RequestCooldown, Sent, Request
  <2> QED BY <1>1, <1>2, <2>1, <2>2 DEF RequestCooldown, Request
<1>3. CASE RequestStore(q)
  <2>1. q \notin Sent /\ request[q].purpose \in Purpose
    BY <1>3 DEF RequestStore, Sent, Request
  <2>2. issued + 1 <= Cardinality(Requester)
    BY <2>1, OneMore DEF Sent
  <2>3. issued' \in Code
    BY <1>3, <2>2, CodeFacts DEF RequestStore, Code
  <2>4. Sent' = Sent \cup {q}
    BY <1>3, <2>3, CodeFacts DEF RequestStore, Sent, Request
  <2>5. issued' = Cardinality(Sent')
    BY <1>3, <2>1, <2>4, OneMore DEF RequestStore, Sent
  <2>6. request' \in [Requester -> Request]
    BY <1>3, <2>3 DEF RequestStore, Request
  <2>7. code' \in [Purpose -> Code \cup {Missing}]
    BY <1>3, <2>3 DEF RequestStore
  <2>8. attempts' \in [Purpose -> (-Cardinality(Verifier)..Attempts) \cup {Missing}]
    <3>1. Attempts \in -Cardinality(Verifier)..Attempts
      BY CodeFacts
    <3> QED BY <1>3, <3>1 DEF RequestStore
  <2>9. Cardinality(Begun) \in Nat
    BY CallSets DEF Begun
  <2>10. \A p \in Purpose :
           attempts'[p] # Missing => attempts'[p] + Cardinality(Begun') >= 0
    BY <1>1, <1>3, <2>9 DEF RequestStore
  <2>11. \A r \in Requester : request'[r].pc # "done" => request'[r].made = Missing
    BY <1>3 DEF RequestStore, Request
  <2>12. issued' \in 0..Cardinality(Requester)
    BY <1>3, <2>2, CodeFacts DEF RequestStore
  <2>13. TypeOK'
    BY <1>3, <2>6, <2>7, <2>8, <2>12 DEF RequestStore
  <2>14. Tallies'
    BY <2>5, <2>10, <2>11
  <2> QED BY <1>3, <2>13, <2>14 DEF RequestStore
<1>4. CASE RequestEnd(q)
  <2>1. request' \in [Requester -> Request]
    BY <1>4 DEF RequestEnd, Request
  <2>2. Sent' = Sent
    BY <1>4 DEF RequestEnd, Sent, Request
  <2> QED BY <1>1, <1>4, <2>1, <2>2 DEF RequestEnd, Request
<1> QED BY <1>2, <1>3, <1>4 DEF RequestStep

LEMMA VerifyTypeInv ==
    ASSUME TypeInv, NEW v \in Verifier, VerifyStep(v)
    PROVE  TypeInv'
<1> USE DEF TypeInv, TypeOK, Tallies, MatchedIsCode
<1>1. Sent' = Sent /\ Cardinality(Begun) \in Nat
  BY CallSets DEF VerifyStep, VerifyCount, VerifyCompare, VerifyDelete, VerifyFail,
                  Sent, Begun
<1>2. ASSUME NEW guess \in 0..issued, VerifyCount(v, guess) PROVE TypeInv'
  <2> DEFINE p == check[v].purpose
  <2>1. p \in Purpose /\ v \notin Begun
    BY <1>2 DEF VerifyCount, Begun, Check
  <2>2. Begun' = Begun \cup {v}
    BY <1>2 DEF VerifyCount, Begun, Check
  <2>3. /\ Cardinality(Begun') = Cardinality(Begun) + 1
        /\ Cardinality(Begun) + 1 <= Cardinality(Verifier)
    BY SMTT(20), <2>1, <2>2, OneMore DEF Begun
  <2>4. /\ Left(p) \in Int /\ Left(p) < Attempts
        /\ Left(p) + Cardinality(Begun') >= 0
    BY <1>1, <2>1, <2>3, CodeFacts DEF Left
  <2>5. Left(p) \in -Cardinality(Verifier)..Attempts
    BY <2>3, <2>4, CodeFacts, <1>1
  <2>6. attempts' = [attempts EXCEPT ![p] = Left(p)]
    BY <1>2 DEF VerifyCount
  <2>7. attempts' \in [Purpose -> (-Cardinality(Verifier)..Attempts) \cup {Missing}]
    BY <2>1, <2>5, <2>6
  <2>8. \A p2 \in Purpose :
          attempts'[p2] # Missing => attempts'[p2] + Cardinality(Begun') >= 0
    BY <1>1, <2>1, <2>3, <2>4, <2>6, CodeFacts
  <2>9. guess \in Code \cup {Wrong}
    BY CodeFacts DEF Code, Wrong
  <2>10. check' \in [Verifier -> Check]
    BY <1>2, <2>1, <2>9 DEF VerifyCount, Check
  <2>11. TypeOK' /\ Tallies'
    BY <1>1, <1>2, <2>7, <2>8, <2>10 DEF VerifyCount
  <2>12. MatchedIsCode'
    BY <1>2 DEF VerifyCount, Check
  <2> QED BY <2>11, <2>12
<1>3. ASSUME NEW pc \in {"matched", "accepted", "rejected"},
             check' = [check EXCEPT ![v].pc = pc],
             check[v].pc # "idle"
      PROVE  check' \in [Verifier -> Check] /\ Begun' = Begun
  BY <1>3 DEF Check, Begun
<1>4. CASE VerifyCompare(v)
  <2>1. check' \in [Verifier -> Check]
    BY <1>4 DEF VerifyCompare, Check
  <2>2. Begun' = Begun
    BY <1>4 DEF VerifyCompare, Check, Begun
  <2>3. MatchedIsCode'
    BY <1>4, CodeFacts DEF VerifyCompare, Check, Wrong
  <2> QED BY <1>1, <1>4, <2>1, <2>2, <2>3 DEF VerifyCompare, redis
<1>5. CASE VerifyDelete(v)
  <2>1. check' \in [Verifier -> Check] /\ Begun' = Begun
    BY <1>3, <1>5 DEF VerifyDelete
  <2>2. check[v].guess \in Code
    BY <1>5 DEF VerifyDelete
  <2>3. MatchedIsCode'
    BY <1>5 DEF VerifyDelete, Check
  <2>4. code' \in [Purpose -> Code \cup {Missing}]
        /\ attempts' \in [Purpose -> (-Cardinality(Verifier)..Attempts) \cup {Missing}]
    BY <1>5 DEF VerifyDelete
  <2>5. \A p \in Purpose : attempts'[p] \in {attempts[p], Missing}
    BY <1>5 DEF VerifyDelete
  <2> QED BY <1>1, <1>5, <2>1, <2>2, <2>3, <2>4, <2>5 DEF VerifyDelete
<1>6. CASE VerifyFail(v)
  <2>1. check' \in [Verifier -> Check] /\ Begun' = Begun
    BY <1>3, <1>6 DEF VerifyFail
  <2>2. MatchedIsCode'
    BY <1>6 DEF VerifyFail, Check
  <2> QED BY <1>1, <1>6, <2>1, <2>2 DEF VerifyFail, redis
<1> QED BY <1>2, <1>4, <1>5, <1>6 DEF VerifyStep

LEMMA TypeInvNext == TypeInv /\ [Next]_vars => TypeInv'
<1> SUFFICES ASSUME TypeInv, [Next]_vars PROVE TypeInv'
  OBVIOUS
<1>1. ASSUME NEW q \in Requester, RequestStep(q) PROVE TypeInv'
  BY <1>1, RequestTypeInv
<1>2. ASSUME NEW v \in Verifier, VerifyStep(v) PROVE TypeInv'
  BY <1>2, VerifyTypeInv
<1>3. CASE ExpireCooldown
  BY <1>3, ExpiryTypeInv DEF ExpireCooldown, TypeInv, TypeOK
<1>4. ASSUME NEW p \in Purpose, ExpireCode(p) \/ ExpireAttempts(p) PROVE TypeInv'
  BY <1>4, ExpiryTypeInv DEF ExpireCode, ExpireAttempts, TypeInv, TypeOK
<1>5. CASE UNCHANGED vars
  BY <1>5, ExpiryTypeInv DEF vars, TypeInv, TypeOK
<1> QED BY <1>1, <1>2, <1>3, <1>4, <1>5 DEF Next

-----------------------------------------------------------------------------
(* Who made a code, and for what, is settled when it is stored. *)
LEMMA MadeOnceInit == Init => MadeOnce
BY DEF Init, MadeOnce

LEMMA MadeOnceNext == TypeInv /\ MadeOnce /\ [Next]_vars => MadeOnce'
<1> SUFFICES ASSUME TypeInv, MadeOnce, [Next]_vars PROVE MadeOnce'
  OBVIOUS
<1> USE CodeFacts DEF MadeOnce, TypeInv, TypeOK
<1>1. ASSUME UNCHANGED <<issued, request>> PROVE MadeOnce'
  BY <1>1
<1>2. ASSUME NEW q \in Requester, RequestCooldown(q) PROVE MadeOnce'
  BY <1>2 DEF RequestCooldown, Request
<1>3. ASSUME NEW q \in Requester, RequestStore(q) PROVE MadeOnce'
  <2>1. /\ request'[q].made = issued + 1
        /\ \A r \in Requester \ {q} : request'[r] = request[r]
    BY <1>3 DEF RequestStore, Request
  <2>2. issued \in Nat /\ issued' = issued + 1
    BY <1>3 DEF RequestStore
  <2>3. \A r \in Requester : request[r].made # Missing => request[r].made \in Nat
    BY DEF Request
  <2> QED BY <2>1, <2>2, <2>3
<1>4. ASSUME NEW q \in Requester, RequestEnd(q) PROVE MadeOnce'
  BY <1>4 DEF RequestEnd, Request
<1>5. CASE \E q \in Requester : RequestStep(q)
  BY <1>2, <1>3, <1>4, <1>5 DEF RequestStep
<1>6. CASE \E v \in Verifier : VerifyStep(v)
  BY <1>1, <1>6 DEF VerifyStep, VerifyCount, VerifyCompare, VerifyDelete, VerifyFail
<1>7. CASE ExpireCooldown \/ \E p \in Purpose : ExpireCode(p) \/ ExpireAttempts(p)
  BY <1>1, <1>7 DEF ExpireCooldown, ExpireCode, ExpireAttempts
<1>8. CASE UNCHANGED vars
  BY <1>1, <1>8 DEF vars
<1> QED BY <1>5, <1>6, <1>7, <1>8 DEF Next

(* What a code was made for does not change. *)
LEMMA MadeForStays ==
    ASSUME TypeInv, [Next]_vars, NEW c \in Code, NEW p \in Purpose, MadeFor(c, p)
    PROVE  MadeFor(c, p)'
<1> USE CodeFacts DEF MadeFor, TypeInv, TypeOK, Tallies
<1>1. PICK r \in Requester : request[r].made = c /\ request[r].purpose = p
  OBVIOUS
<1>2. request[r].pc = "done"
  BY <1>1
<1>3. request'[r] = request[r]
  BY <1>2 DEF Next, RequestStep, RequestCooldown, RequestStore, RequestEnd, VerifyStep,
              VerifyCount, VerifyCompare, VerifyDelete, VerifyFail, ExpireCooldown,
              ExpireCode, ExpireAttempts, vars
<1> QED BY <1>1, <1>3

LEMMA MadeForOne ==
    ASSUME MadeOnce, NEW c \in Code, NEW p \in Purpose, NEW p2 \in Purpose,
           MadeFor(c, p), MadeFor(c, p2)
    PROVE  p = p2
BY CodeFacts DEF MadeOnce, MadeFor

-----------------------------------------------------------------------------
(* A code that is spent is never stored again, and a call that is accepted *)
(* did not begin after its code was spent.                                 *)
FreshInv == StoredIsFresh /\ MatchedIsFresh

LEMMA FreshInit == Init => FreshInv
BY DEF Init, FreshInv, StoredIsFresh, MatchedIsFresh

(* A step that makes no code and spends none keeps what is fresh. *)
LEMMA FreshKept ==
    ASSUME TypeInv, FreshInv, [Next]_vars,
           UNCHANGED <<issued, spent>>,
           \A p \in Purpose : code'[p] \in {code[p], Missing},
           \A v \in Verifier :
              /\ check'[v].guess = check[v].guess
              /\ check'[v].replay = check[v].replay
              /\ check'[v].purpose = check[v].purpose
              /\ check'[v].pc \in {"matched", "accepted"} =>
                    check[v].pc \in {"matched", "accepted"}
    PROVE  FreshInv'
<1> USE DEF FreshInv, StoredIsFresh, MatchedIsFresh
<1>1. StoredIsFresh'
  <2> SUFFICES ASSUME NEW p \in Purpose, code'[p] # Missing
               PROVE  MadeFor(code[p], p)' /\ code'[p] \notin spent'
    BY DEF StoredIsFresh
  <2>1. code'[p] = code[p] /\ code[p] \in Code
    BY DEF TypeInv, TypeOK
  <2>2. MadeFor(code[p], p) /\ code[p] \notin spent
    BY <2>1
  <2> QED BY <2>1, <2>2, MadeForStays DEF MadeFor
<1>2. ASSUME NEW v \in Verifier, check'[v].pc \in {"matched", "accepted"}
      PROVE  MadeFor(check[v].guess, check[v].purpose)' /\ ~ check'[v].replay
  <2>1. MadeFor(check[v].guess, check[v].purpose) /\ ~ check[v].replay
    BY <1>2
  <2>2. check[v].guess \in Code /\ check[v].purpose \in Purpose
    BY <2>1, CodeFacts DEF MadeFor, TypeInv, TypeOK, Check, Request, Wrong
  <2> QED BY <2>1, <2>2, MadeForStays DEF MadeFor
<1>3. MatchedIsFresh'
  BY <1>2
<1> QED BY <1>1, <1>3

LEMMA FreshNext == TypeInv /\ MadeOnce /\ FreshInv /\ [Next]_vars => FreshInv'
<1> SUFFICES ASSUME TypeInv, MadeOnce, FreshInv, [Next]_vars PROVE FreshInv'
  OBVIOUS
<1>1. ASSUME NEW q \in Requester, RequestCooldown(q) \/ RequestEnd(q) PROVE FreshInv'
  BY <1>1, FreshKept DEF RequestCooldown, RequestEnd
<1>2. ASSUME NEW q \in Requester, RequestStore(q) PROVE FreshInv'
  <2>1. PICK p \in Purpose, c \in Nat : p = request[q].purpose /\ c = issued + 1
    BY CodeFacts DEF TypeInv, TypeOK, Request
  <2>2. MadeFor(c, p)'
    BY <1>2, <2>1 DEF RequestStore, MadeFor, TypeInv, TypeOK, Request
  <2>3. \A p2 \in Purpose : code'[p2] = IF p2 = p THEN c ELSE code[p2]
    BY <1>2, <2>1 DEF RequestStore, TypeInv, TypeOK
  <2>4. issued' = issued + 1 /\ UNCHANGED <<check, spent>>
    BY <1>2 DEF RequestStore
  <2>5. StoredIsFresh'
    <3> SUFFICES ASSUME NEW p2 \in Purpose, code'[p2] # Missing
                 PROVE  MadeFor(code[p2], p2)' /\ code'[p2] \notin spent'
      BY DEF StoredIsFresh
    <3>1. CASE p2 = p
      <4>1. c \notin spent'
        BY <2>1, <2>4, CodeFacts DEF FreshInv, MatchedIsFresh, TypeInv, TypeOK
      <4> QED BY <2>2, <2>3, <3>1, <4>1 DEF MadeFor
    <3>2. CASE p2 # p
      <4>1. code'[p2] = code[p2] /\ code[p2] \in Code
        BY <2>3, <3>2 DEF TypeInv, TypeOK
      <4>2. MadeFor(code[p2], p2) /\ code[p2] \notin spent
        BY <4>1 DEF FreshInv, StoredIsFresh
      <4> QED BY <2>4, <4>1, <4>2, MadeForStays DEF MadeFor
    <3> QED BY <3>1, <3>2
  <2>6. ASSUME NEW v \in Verifier, check'[v].pc \in {"matched", "accepted"}
        PROVE  MadeFor(check[v].guess, check[v].purpose)' /\ ~ check'[v].replay
    <3>1. MadeFor(check[v].guess, check[v].purpose) /\ ~ check[v].replay
      BY <2>4, <2>6 DEF FreshInv, MatchedIsFresh
    <3>2. check[v].guess \in Code /\ check[v].purpose \in Purpose
      BY <3>1, CodeFacts DEF MadeFor, TypeInv, TypeOK, Check, Request, Wrong
    <3> QED BY <2>4, <3>1, <3>2, MadeForStays DEF MadeFor
  <2>7. spent' \subseteq 1..issued'
    BY <2>4, CodeFacts DEF FreshInv, MatchedIsFresh, TypeInv, TypeOK
  <2>8. \A v \in Verifier : check'[v].replay => check'[v].guess \in spent'
    BY <2>4 DEF FreshInv, MatchedIsFresh
  <2> QED BY <2>5, <2>6, <2>7, <2>8 DEF FreshInv, MatchedIsFresh
<1>3. ASSUME NEW v \in Verifier, NEW guess \in 0..issued, VerifyCount(v, guess)
      PROVE FreshInv'
  <2>1. \A u \in Verifier \ {v} : check'[u] = check[u]
    BY <1>3 DEF VerifyCount, TypeInv, TypeOK
  <2>2. /\ check'[v].pc \in {"rejected", "counted"}
        /\ check'[v].guess = guess /\ check'[v].replay = (guess \in spent)
    BY <1>3 DEF VerifyCount, TypeInv, TypeOK, Check
  <2>3. UNCHANGED <<code, issued, request, spent>>
    BY <1>3 DEF VerifyCount
  <2>4. StoredIsFresh'
    BY <2>3 DEF FreshInv, StoredIsFresh, MadeFor
  <2>5. \A u \in Verifier : check'[u].replay => check'[u].guess \in spent'
    BY <2>1, <2>2, <2>3 DEF FreshInv, MatchedIsFresh
  <2>6. \A u \in Verifier :
           check'[u].pc \in {"matched", "accepted"} =>
             MadeFor(check'[u].guess, check'[u].purpose) /\ ~ check'[u].replay
    BY <2>1, <2>2 DEF FreshInv, MatchedIsFresh
  <2> QED BY <2>3, <2>4, <2>5, <2>6 DEF FreshInv, MatchedIsFresh, MadeFor
<1>4. ASSUME NEW v \in Verifier, VerifyCompare(v) PROVE FreshInv'
  <2>1. \A u \in Verifier \ {v} : check'[u] = check[u]
    BY <1>4 DEF VerifyCompare, TypeInv, TypeOK
  <2>2. /\ check'[v].purpose = check[v].purpose /\ check[v].purpose \in Purpose
        /\ check'[v].guess = check[v].guess /\ check'[v].replay = check[v].replay
        /\ check'[v].pc = IF code[check[v].purpose] = check[v].guess
                          THEN "matched" ELSE "rejected"
        /\ check[v].guess # Missing
    BY <1>4, CodeFacts DEF VerifyCompare, TypeInv, TypeOK, Check, Wrong
  <2>3. UNCHANGED <<code, issued, request, spent>>
    BY <1>4 DEF VerifyCompare, redis
  <2>4. check'[v].pc \in {"matched", "accepted"} =>
          MadeFor(check[v].guess, check[v].purpose) /\ ~ check[v].replay
    BY <2>2 DEF FreshInv, StoredIsFresh, MatchedIsFresh
  <2>5. StoredIsFresh'
    BY <2>3 DEF FreshInv, StoredIsFresh, MadeFor
  <2>6. \A u \in Verifier : check'[u].replay => check'[u].guess \in spent'
    BY <2>1, <2>2, <2>3 DEF FreshInv, MatchedIsFresh
  <2>7. \A u \in Verifier :
           check'[u].pc \in {"matched", "accepted"} =>
             MadeFor(check'[u].guess, check'[u].purpose) /\ ~ check'[u].replay
    BY <2>1, <2>2, <2>4 DEF FreshInv, MatchedIsFresh
  <2> QED BY <2>3, <2>5, <2>6, <2>7 DEF FreshInv, MatchedIsFresh, MadeFor
<1>5. ASSUME NEW v \in Verifier, VerifyDelete(v) PROVE FreshInv'
  <2> DEFINE p == check[v].purpose
             c == check[v].guess
  <2>1. p \in Purpose /\ c \in Code /\ MadeFor(c, p)
    BY <1>5 DEF VerifyDelete, TypeInv, TypeOK, MatchedIsCode, Check, FreshInv, MatchedIsFresh
  <2>2. \A p2 \in Purpose : code'[p2] = IF p2 = p THEN Missing ELSE code[p2]
    BY <1>5, <2>1 DEF VerifyDelete, TypeInv, TypeOK
  <2>3. spent' = spent \cup {c} /\ UNCHANGED <<issued, request>>
    BY <1>5 DEF VerifyDelete
  <2>4. StoredIsFresh'
    <3> SUFFICES ASSUME NEW p2 \in Purpose, code'[p2] # Missing
                 PROVE  MadeFor(code[p2], p2)' /\ code'[p2] \notin spent'
      BY DEF StoredIsFresh
    <3>1. p2 # p /\ code'[p2] = code[p2] /\ code[p2] \in Code
      BY <2>2 DEF TypeInv, TypeOK
    <3>2. MadeFor(code[p2], p2) /\ code[p2] \notin spent
      BY <3>1 DEF FreshInv, StoredIsFresh
    <3>3. code[p2] # c
      BY <2>1, <3>1, <3>2, MadeForOne
    <3> QED BY <2>3, <3>1, <3>2, <3>3, MadeForStays DEF MadeFor
  <2>5. c \in 1..issued
    BY <2>1, CodeFacts DEF MadeFor, MadeOnce, TypeInv, TypeOK, Code
  <2>6. spent' \subseteq 1..issued'
    BY <2>3, <2>5 DEF FreshInv, MatchedIsFresh
  <2>7. \A u \in Verifier : /\ check'[u].purpose = check[u].purpose
                            /\ check'[u].guess = check[u].guess
                            /\ check'[u].replay = check[u].replay
    BY <1>5 DEF VerifyDelete, TypeInv, TypeOK, Check
  <2>8. \A u \in Verifier : check'[u].pc \in {"matched", "accepted"} =>
                             check[u].pc \in {"matched", "accepted"}
    BY <1>5 DEF VerifyDelete, TypeInv, TypeOK, Check
  <2> QED BY <2>3, <2>4, <2>6, <2>7, <2>8 DEF FreshInv, MatchedIsFresh, MadeFor
<1>6. ASSUME NEW v \in Verifier, VerifyFail(v) PROVE FreshInv'
  <2>1. /\ UNCHANGED <<code, issued, spent>>
        /\ \A u \in Verifier :
              /\ check'[u].guess = check[u].guess
              /\ check'[u].replay = check[u].replay
              /\ check'[u].purpose = check[u].purpose
              /\ check'[u].pc \in {"matched", "accepted"} =>
                    check[u].pc \in {"matched", "accepted"}
    BY <1>6 DEF VerifyFail, redis, TypeInv, TypeOK, Check
  <2> QED BY <2>1, FreshKept
<1>7. CASE ExpireCooldown \/ UNCHANGED vars
  BY <1>7, FreshKept DEF ExpireCooldown, vars
<1>8. ASSUME NEW p \in Purpose, ExpireCode(p) \/ ExpireAttempts(p) PROVE FreshInv'
  BY <1>8, FreshKept DEF ExpireCode, ExpireAttempts, TypeInv, TypeOK
<1> QED BY <1>1, <1>2, <1>3, <1>4, <1>5, <1>6, <1>7, <1>8
        DEF Next, RequestStep, VerifyStep

-----------------------------------------------------------------------------
(* What a code has given away and what it has left. *)

LEMMA AttemptsInit == Init => AttemptsShared
<1> SUFFICES ASSUME Init PROVE AttemptsShared
  OBVIOUS
<1>1. \A v \in Verifier : check[v].counted = Missing /\ check[v].compared = Missing
  BY DEF Init
<1>2. \A c \in Code : Taken(c) = {}
  BY <1>1, CodeFacts DEF Taken
<1>3. \A p \in Purpose : code[p] = Missing
  BY DEF Init
<1>4. Cardinality({}) = 0 /\ 0 <= Attempts
  BY FS_EmptySet
<1> QED BY <1>1, <1>2, <1>3, <1>4 DEF AttemptsShared

LEMMA TakenFacts ==
    ASSUME NEW c
    PROVE  /\ Taken(c) \subseteq Verifier
           /\ IsFiniteSet(Taken(c))
           /\ Cardinality(Taken(c)) \in Nat
<1>1. Taken(c) \subseteq Verifier
  BY DEF Taken
<1> QED BY <1>1, CallSets

LEMMA RemainingFacts ==
    ASSUME TypeInv, NEW p \in Purpose
    PROVE  /\ Remaining(p) \in Nat
           /\ attempts[p] = Missing => Remaining(p) = 0
           /\ attempts[p] # Missing => Remaining(p) >= attempts[p] /\ attempts[p] \in Int
           /\ Left(p) >= 0 => attempts[p] # Missing /\ Remaining(p) = Left(p) + 1
BY CodeFacts DEF TypeInv, TypeOK, Remaining, Left

(* A step after which no code is stored that was not, no counter has more  *)
(* left, and no code has given more away.                                  *)
LEMMA AttemptsKept ==
    ASSUME TypeInv, TypeInv', AttemptsShared, issued' = issued,
           \A c \in Code : Taken(c)' \subseteq Taken(c),
           \A p \in Purpose : code'[p] \in {code[p], Missing},
           \A p \in Purpose : attempts'[p] \in {attempts[p], Missing},
           \A v \in Verifier :
              /\ check'[v].counted = check[v].counted
              /\ check'[v].pc \in {"idle", "counted"} =>
                    /\ check[v].pc \in {"idle", "counted"}
                    /\ check'[v].compared = check[v].compared
    PROVE  AttemptsShared'
<1>1. ASSUME NEW c \in Code
      PROVE  /\ Cardinality(Taken(c)') \in Nat /\ Cardinality(Taken(c)) \in Nat
             /\ Cardinality(Taken(c)') <= Cardinality(Taken(c))
  BY TakenFacts, CallSets
<1>2. ASSUME NEW p \in Purpose
      PROVE  /\ Remaining(p) \in Nat /\ Remaining(p)' \in Nat
             /\ Remaining(p)' <= Remaining(p)
  BY CodeFacts DEF TypeInv, TypeOK, Remaining
<1>3. ASSUME NEW p \in Purpose, code'[p] # Missing
      PROVE  Cardinality(Taken(code[p])') + Remaining(p)' <= Attempts
  <2>1. PICK c \in Code : c = code[p] /\ c = code'[p]
    BY <1>3 DEF TypeInv, TypeOK
  <2>2. Cardinality(Taken(c)) + Remaining(p) <= Attempts
    BY <2>1, CodeFacts DEF AttemptsShared
  <2>3. Cardinality(Taken(c)') + Remaining(p)' <= Attempts
    BY <1>1, <1>2, <2>2
  <2> QED BY <2>1, <2>3 DEF Taken
<1>4. \A c \in Code : Cardinality(Taken(c)') <= Attempts
  BY <1>1 DEF AttemptsShared
<1> QED BY <1>3, <1>4 DEF AttemptsShared

LEMMA AttemptsNext ==
    ASSUME TypeInv, TypeInv', MadeOnce, FreshInv, AttemptsShared, [Next]_vars
    PROVE  AttemptsShared'
<1>1. ASSUME NEW q \in Requester, RequestCooldown(q) \/ RequestEnd(q)
      PROVE  AttemptsShared'
  BY <1>1, AttemptsKept DEF RequestCooldown, RequestEnd, Taken
<1>2. ASSUME NEW q \in Requester, RequestStore(q) PROVE AttemptsShared'
  <2>1. PICK p \in Purpose, new \in Code : p = request[q].purpose /\ new = issued + 1
    <3>1. issued' \in Code
      BY <1>2, CodeFacts DEF RequestStore, TypeInv, TypeOK, Code
    <3> QED BY <1>2, <3>1 DEF RequestStore, TypeInv, TypeOK, Request
  <2>2. /\ issued' = issued + 1 /\ issued \in Nat /\ UNCHANGED check
        /\ \A p2 \in Purpose :
             /\ code'[p2] = IF p2 = p THEN new ELSE code[p2]
             /\ attempts'[p2] = IF p2 = p THEN Attempts ELSE attempts[p2]
    BY <1>2, <2>1, CodeFacts DEF RequestStore, TypeInv, TypeOK
  <2>3. \A c : Taken(c)' = Taken(c)
    BY <2>2 DEF Taken
  <2>4. Taken(new) = {}
    <3> SUFFICES ASSUME NEW v \in Verifier, check[v].counted = new PROVE FALSE
      BY DEF Taken
    <3>1. check[v].counted <= issued
      BY CodeFacts DEF AttemptsShared
    <3> QED BY <2>1, <2>2, <3>1
  <2>5. ASSUME NEW p2 \in Purpose, code'[p2] # Missing
        PROVE  Cardinality(Taken(code[p2])') + Remaining(p2)' <= Attempts
    <3>1. CASE p2 = p
      <4>1. Taken(code[p2])' = {}
        BY <2>2, <2>3, <2>4, <3>1 DEF Taken
      <4>2. Remaining(p2)' = Attempts
        BY <2>2, <3>1 DEF Remaining
      <4> QED BY <4>1, <4>2, FS_EmptySet
    <3>2. CASE p2 # p
      <4>1. code'[p2] = code[p2] /\ Remaining(p2)' = Remaining(p2)
        BY <2>2, <3>2 DEF Remaining
      <4>2. Taken(code[p2])' = Taken(code[p2])
        BY <2>2, <4>1 DEF Taken
      <4> QED BY <2>5, <4>1, <4>2 DEF AttemptsShared
    <3> QED BY <3>1, <3>2
  <2>6. \A c \in Code : Cardinality(Taken(c)') <= Attempts
    BY <2>3 DEF AttemptsShared
  <2>7. \A v \in Verifier :
          /\ check'[v].counted # Missing => check'[v].counted <= issued'
          /\ check'[v].pc \in {"idle", "counted"} => check'[v].compared = Missing
    <3> SUFFICES ASSUME NEW v \in Verifier, check[v].counted # Missing
                 PROVE  check[v].counted <= issued'
      BY <2>2 DEF AttemptsShared
    <3>1. check[v].counted <= issued /\ check[v].counted \in Nat
      BY CodeFacts DEF AttemptsShared, TypeInv, TypeOK, Check
    <3> QED BY <2>2, <3>1
  <2> QED BY <2>5, <2>6, <2>7 DEF AttemptsShared
<1>3. ASSUME NEW v \in Verifier, NEW guess \in 0..issued, VerifyCount(v, guess)
      PROVE AttemptsShared'
  <2>1. PICK p \in Purpose, left \in Int : p = check[v].purpose /\ left = Left(p)
    <3>1. check[v].purpose \in Purpose
      BY DEF TypeInv, TypeOK, Check
    <3>2. \A p \in Purpose : Left(p) \in Int
      BY CodeFacts DEF TypeInv, TypeOK, Left
    <3> QED BY <3>1, <3>2
  <2>2. \A u \in Verifier \ {v} : check'[u] = check[u]
    BY <1>3 DEF VerifyCount, TypeInv, TypeOK
  <2>3. /\ check[v].pc = "idle" /\ check[v].compared = Missing
        /\ check'[v].pc = IF left < 0 THEN "rejected" ELSE "counted"
        /\ check'[v].counted = code[p]
        /\ check'[v].compared = check[v].compared
    BY <1>3, <2>1 DEF VerifyCount, TypeInv, TypeOK, Check, AttemptsShared
  <2>4. UNCHANGED <<code, issued>>
        /\ \A p2 \in Purpose : attempts'[p2] = IF p2 = p THEN left ELSE attempts[p2]
    BY <1>3, <2>1 DEF VerifyCount, TypeInv, TypeOK
  <2>5. Remaining(p) \in Nat /\ (left >= 0 => Remaining(p) = left + 1)
    BY <2>1, RemainingFacts
  <2>6. ASSUME NEW c \in Code, c # code[p] \/ left < 0
        PROVE  Taken(c)' \subseteq Taken(c)
    BY <2>2, <2>3, <2>6, CodeFacts DEF Taken
  <2>7. ASSUME NEW c \in Code, c = code[p], left >= 0
        PROVE  /\ Cardinality(Taken(c)') = Cardinality(Taken(c)) + 1
               /\ Cardinality(Taken(c)) + Remaining(p) <= Attempts
               /\ Remaining(p) = left + 1
    <3>1. v \notin Taken(c)
      BY <2>3, CodeFacts DEF Taken
    <3>2. Taken(c)' = Taken(c) \cup {v}
      <4>1. check'[v].pc = "counted" /\ check'[v].counted = c
        BY <2>3, <2>7, <2>5
      <4> QED BY <2>2, <4>1 DEF Taken
    <3>3. Cardinality(Taken(c)') = Cardinality(Taken(c)) + 1
      BY <3>1, <3>2, TakenFacts, OneMore
    <3>4. Cardinality(Taken(c)) + Remaining(p) <= Attempts
      BY <2>7, CodeFacts DEF AttemptsShared
    <3> QED BY <2>7, <2>5, <3>3, <3>4
  <2>8. ASSUME NEW c \in Code PROVE Cardinality(Taken(c)') <= Attempts
    <3>1. CASE c = code[p] /\ left >= 0
      <4>1. /\ Cardinality(Taken(c)') = Cardinality(Taken(c)) + 1
            /\ Cardinality(Taken(c)) + Remaining(p) <= Attempts
            /\ Remaining(p) = left + 1
        BY <2>7, <3>1
      <4>2. Cardinality(Taken(c)) \in Nat
        BY TakenFacts
      <4> QED BY <2>5, <3>1, <4>1, <4>2
    <3>2. CASE ~ (c = code[p] /\ left >= 0)
      <4>1. Taken(c)' \subseteq Taken(c)
        BY <2>6, <2>5, <3>2
      <4>2. Cardinality(Taken(c)') <= Cardinality(Taken(c))
        BY <4>1, TakenFacts, CallSets
      <4>3. Cardinality(Taken(c)) <= Attempts
        BY DEF AttemptsShared
      <4>4. Cardinality(Taken(c)') \in Nat /\ Cardinality(Taken(c)) \in Nat
        BY <4>1, TakenFacts, CallSets
      <4> QED BY <4>2, <4>3, <4>4
    <3> QED BY <3>1, <3>2
  <2>9. ASSUME NEW p2 \in Purpose, code'[p2] # Missing
        PROVE  Cardinality(Taken(code[p2])') + Remaining(p2)' <= Attempts
    <3>1. PICK c \in Code : c = code[p2] /\ c = code'[p2]
      BY <2>4, <2>9 DEF TypeInv, TypeOK
    <3>2. Cardinality(Taken(c)) + Remaining(p2) <= Attempts
      BY <3>1, CodeFacts DEF AttemptsShared
    <3>3. CASE p2 = p
      <4>1. CASE left >= 0
        <5>1. Remaining(p2)' = left
          BY <2>4, <2>5, <3>3, <4>1 DEF Remaining
        <5>2. Cardinality(Taken(c)') + left <= Attempts
          <6>1. /\ Cardinality(Taken(c)') = Cardinality(Taken(c)) + 1
                /\ Cardinality(Taken(c)) + Remaining(p) <= Attempts
                /\ Remaining(p) = left + 1
            BY <2>7, <3>1, <3>3, <4>1
          <6>2. Cardinality(Taken(c)) \in Nat
            BY TakenFacts
          <6> QED BY <2>5, <6>1, <6>2
        <5> QED BY <3>1, <5>1, <5>2 DEF Taken
      <4>2. CASE ~ left >= 0
        <5>1. Remaining(p2)' = 0
          BY <2>4, <3>3, <4>2, CodeFacts DEF Remaining
        <5>2. Cardinality(Taken(c)') \in Nat /\ Cardinality(Taken(c)') <= Attempts
          <6>1. Cardinality(Taken(c)') <= Attempts
            BY <2>8
          <6>2. Taken(c)' \subseteq Verifier
            BY DEF Taken
          <6> QED BY <6>1, <6>2, CallSets
        <5> QED BY <3>1, <5>1, <5>2 DEF Taken
      <4> QED BY <4>1, <4>2
    <3>4. CASE p2 # p
      <4>1. c # code[p]
        <5> SUFFICES ASSUME c = code[p] PROVE FALSE
          OBVIOUS
        <5> QED BY <3>1, <3>4, MadeForOne, CodeFacts DEF FreshInv, StoredIsFresh
      <4>2. Taken(c)' \subseteq Taken(c)
        BY <2>6, <4>1
      <4>3. /\ Cardinality(Taken(c)') <= Cardinality(Taken(c))
            /\ Cardinality(Taken(c)') \in Nat /\ Cardinality(Taken(c)) \in Nat
        BY <4>2, TakenFacts, CallSets
      <4>4. Remaining(p2)' = Remaining(p2) /\ Remaining(p2) \in Nat
        BY <2>4, <3>4, RemainingFacts DEF Remaining
      <4>5. Cardinality(Taken(c)') + Remaining(p2)' <= Attempts
        BY <3>2, <4>3, <4>4
      <4> QED BY <3>1, <4>5 DEF Taken
    <3> QED BY <3>3, <3>4
  <2>10. \A u \in Verifier :
          /\ check'[u].counted # Missing => check'[u].counted <= issued'
          /\ check'[u].pc \in {"idle", "counted"} => check'[u].compared = Missing
    <3>1. code[p] # Missing => code[p] <= issued
      BY CodeFacts DEF FreshInv, StoredIsFresh, MadeFor, MadeOnce
    <3> QED BY <2>2, <2>3, <2>4, <3>1 DEF AttemptsShared
  <2> QED BY <2>8, <2>9, <2>10 DEF AttemptsShared
<1>4. ASSUME NEW v \in Verifier, VerifyCompare(v) \/ VerifyDelete(v) \/ VerifyFail(v)
      PROVE AttemptsShared'
  <2>1. \A u \in Verifier \ {v} : check'[u] = check[u]
    BY <1>4 DEF VerifyCompare, VerifyDelete, VerifyFail, TypeInv, TypeOK
  <2>2. /\ check[v].pc # "idle" /\ check'[v].counted = check[v].counted
        /\ check'[v].pc \notin {"idle", "counted"}
    BY <1>4 DEF VerifyCompare, VerifyDelete, VerifyFail, TypeInv, TypeOK, Check
  <2>3. check[v].pc = "counted" \/ check'[v].compared = check[v].compared
    BY <1>4 DEF VerifyCompare, VerifyDelete, VerifyFail, TypeInv, TypeOK, Check
  <2>4. \A c \in Code : Taken(c)' \subseteq Taken(c)
    BY <2>1, <2>2, <2>3 DEF Taken
  <2>5. /\ issued' = issued
        /\ \A p \in Purpose : code'[p] \in {code[p], Missing}
                             /\ attempts'[p] \in {attempts[p], Missing}
    BY <1>4 DEF VerifyCompare, VerifyDelete, VerifyFail, redis, TypeInv, TypeOK
  <2> QED BY <2>1, <2>2, <2>4, <2>5, AttemptsKept
<1>5. CASE ExpireCooldown \/ UNCHANGED vars
  BY <1>5, AttemptsKept DEF ExpireCooldown, vars, Taken
<1>6. ASSUME NEW p \in Purpose, ExpireCode(p) \/ ExpireAttempts(p)
      PROVE  AttemptsShared'
  BY <1>6, AttemptsKept DEF ExpireCode, ExpireAttempts, Taken, TypeInv, TypeOK
<1> QED BY <1>1, <1>2, <1>3, <1>4, <1>5, <1>6 DEF Next, RequestStep, VerifyStep

-----------------------------------------------------------------------------
(* EmailCode on its own. *)
LEMMA EmailInvInit == Init => EmailInv
BY InitTypeInv, MadeOnceInit, FreshInit, AttemptsInit DEF EmailInv, FreshInv

LEMMA EmailInvNext == EmailInv /\ [Next]_vars => EmailInv'
<1> SUFFICES ASSUME EmailInv, [Next]_vars PROVE EmailInv'
  OBVIOUS
<1>1. TypeInv /\ MadeOnce /\ FreshInv /\ AttemptsShared
  BY DEF EmailInv, FreshInv
<1>2. TypeInv' /\ MadeOnce' /\ FreshInv'
  BY <1>1, TypeInvNext, MadeOnceNext, FreshNext
<1>3. AttemptsShared'
  BY <1>1, <1>2, AttemptsNext
<1> QED BY <1>2, <1>3 DEF EmailInv, FreshInv

(* The calls that OwnAttemptsBounded counts took an attempt of the code. *)
LEMMA EmailInvBoundsAttempts == EmailInv => OwnAttemptsBounded
<1> SUFFICES ASSUME EmailInv, NEW c \in Code
             PROVE  Cardinality({v \in ComparedWith(c) : check[v].counted = c}) <= Attempts
  BY DEF OwnAttemptsBounded
<1> DEFINE Own == {v \in ComparedWith(c) : check[v].counted = c}
<1>1. Own \subseteq Taken(c)
  BY DEF ComparedWith, Taken
<1>2. /\ Cardinality(Own) \in Nat /\ Cardinality(Taken(c)) \in Nat
      /\ Cardinality(Own) <= Cardinality(Taken(c))
  BY <1>1, TakenFacts, CallSets
<1>3. Cardinality(Taken(c)) <= Attempts
  BY DEF EmailInv, AttemptsShared
<1> QED BY <1>2, <1>3

-----------------------------------------------------------------------------
(* Session: the email codes do not notice what else its steps do. *)
LEMMA SessionStepIsEmailStep == [SessionNext]_session => [Next]_vars
BY DEF SessionNext, session, PassCaptcha, GiveUp, RequesterStep, RequestLookup,
       RequestCode, VerifierStep, VerifyCode, Register, RegisterTaken, ResetLookup,
       Reset, Login, NewCaptcha, FailCaptcha, CaptchaExpires, CacheFades,
       CodeExpires, Next

LEMMA CaptchaInvNext ==
    ASSUME CaptchaInv, [SessionNext]_session
    PROVE  CaptchaInv'
<1>1. ASSUME UNCHANGED shield PROVE CaptchaInv'
  BY <1>1 DEF shield, CaptchaInv
<1>2. CASE Shield!Pass
  <2>1. passed = 0 /\ passed' = passed + 1
    BY <1>2 DEF Shield!Pass, CaptchaInv
  <2>2. passed' = 1
    BY <2>1
  <2>3. stored' = FALSE
    BY <1>2 DEF Shield!Pass
  <2> QED BY <2>2, <2>3 DEF CaptchaInv
<1>3. CASE Shield!Generate
  BY <1>3 DEF Shield!Generate, CaptchaInv
<1>4. CASE Shield!Miss \/ Shield!Expire
  <2>1. stored' \in {stored, FALSE} /\ UNCHANGED passed
    BY <1>4 DEF Shield!Miss, Shield!Expire
  <2>2. CASE stored' = stored
    BY <2>1, <2>2 DEF CaptchaInv
  <2>3. CASE stored' = FALSE
    BY <2>1, <2>3 DEF CaptchaInv
  <2> QED BY <2>1, <2>2, <2>3
<1> QED
  BY <1>1, <1>2, <1>3, <1>4
  DEF SessionNext, session, PassCaptcha, GiveUp, RequesterStep, RequestLookup,
      RequestCode, VerifierStep, VerifyCode, Register, RegisterTaken, ResetLookup,
      Reset, Login, NewCaptcha, FailCaptcha, CaptchaExpires, CacheFades, CodeExpires

(* Steps that take one call further and leave request and check alone. *)
LEMMA GoOnKeepsCallInv ==
    ASSUME CallInv, NEW c \in Caller, UNCHANGED <<request, check>>,
           NEW pc \in {"idle", "open", "found", "changed", "done"}, GoOn(c, pc),
           c \in Verifier /\ pc \in {"found", "changed"} => check[c].pc = "accepted",
           c \in Requester /\ request[c].pc = "cooling" => pc = "found"
    PROVE  CallInv'
<1>1. call' \in [Caller -> {"idle", "open", "found", "changed", "done"}]
  BY DEF CallInv, GoOn
<1>2. \A d \in Caller : call'[d] = IF d = c THEN pc ELSE call[d]
  BY DEF CallInv, GoOn
<1>3. Verifier \subseteq Caller /\ Requester \subseteq Caller
  BY DEF Caller
<1> QED BY <1>1, <1>2, <1>3 DEF CallInv

LEMMA CallInvNext ==
    ASSUME TypeInv, CallInv, [SessionNext]_session
    PROVE  CallInv'
<1>1. ASSUME NEW c \in Caller, PassCaptcha(c) PROVE CallInv'
  <2>1. c \in Requester => request[c].pc # "cooling"
    BY <1>1 DEF PassCaptcha, CallInv
  <2> QED BY <1>1, <2>1, GoOnKeepsCallInv DEF PassCaptcha, vars
<1>2. ASSUME NEW c \in Caller, GiveUp(c) PROVE CallInv'
  BY <1>2, GoOnKeepsCallInv DEF GiveUp, vars
<1>3. ASSUME NEW q \in Requester, RequestLookup(q) PROVE CallInv'
  <2>1. q \in Caller /\ q \notin Verifier
    BY CallerAssumption DEF Caller
  <2>2. request[q].pc # "cooling"
    BY <1>3 DEF RequestLookup, CallInv
  <2> QED BY <1>3, <2>1, <2>2, GoOnKeepsCallInv DEF RequestLookup, vars
<1>4. ASSUME NEW q \in Requester, RequestCode(q) PROVE CallInv'
  <2>1. call[q] = "found" /\ UNCHANGED <<check, call>>
    BY <1>4 DEF RequestCode, RequestStep, RequestCooldown, RequestStore, RequestEnd
  <2>2. \A r \in Requester \ {q} : request'[r] = request[r]
    BY <1>4 DEF RequestCode, RequestStep, RequestCooldown, RequestStore, RequestEnd,
                TypeInv, TypeOK
  <2> QED BY <2>1, <2>2 DEF CallInv
<1>5. ASSUME NEW v \in Verifier, VerifyCode(v) PROVE CallInv'
  <2>1. call[v] = "open" /\ UNCHANGED <<request, call>>
    BY <1>5 DEF VerifyCode, VerifyStep, VerifyCount, VerifyCompare, VerifyDelete,
                VerifyFail
  <2>2. \A u \in Verifier \ {v} : check'[u] = check[u]
    BY <1>5 DEF VerifyCode, VerifyStep, VerifyCount, VerifyCompare, VerifyDelete,
                VerifyFail, TypeInv, TypeOK
  <2> QED BY <2>1, <2>2 DEF CallInv
<1>6. ASSUME NEW v \in Verifier,
             Register(v) \/ RegisterTaken(v) \/ ResetLookup(v) \/ Reset(v)
      PROVE  CallInv'
  <2>1. v \in Caller /\ v \notin Requester
    BY CallerAssumption DEF Caller
  <2>2. check[v].pc = "accepted" /\ UNCHANGED <<request, check>>
    BY <1>6 DEF Register, RegisterTaken, ResetLookup, Reset, Accepted, CallInv, vars
  <2>3. \E pc \in {"found", "changed", "done"} : GoOn(v, pc)
    BY <1>6 DEF Register, RegisterTaken, ResetLookup, Reset
  <2> QED BY <2>1, <2>2, <2>3, GoOnKeepsCallInv
<1>7. ASSUME NEW l \in Visitor, Login(l) PROVE CallInv'
  <2>1. l \in Caller /\ l \notin Requester /\ l \notin Verifier
    BY CallerAssumption DEF Caller
  <2> QED BY <1>7, <2>1, GoOnKeepsCallInv DEF Login, vars
<1>8. CASE \/ NewCaptcha \/ FailCaptcha \/ CaptchaExpires \/ CacheFades
           \/ CodeExpires \/ UNCHANGED session
  <2>1. UNCHANGED <<request, check, call>>
    BY <1>8 DEF NewCaptcha, FailCaptcha, CaptchaExpires, CacheFades, CodeExpires,
                ExpireCooldown, ExpireCode, ExpireAttempts, session, vars
  <2> QED BY <2>1 DEF CallInv
<1> QED BY <1>1, <1>2, <1>3, <1>4, <1>5, <1>6, <1>7, <1>8
        DEF SessionNext, RequesterStep, VerifierStep

LEMMA AccountInvNext ==
    ASSUME TypeInv, CallInv, AccountInv, [SessionNext]_session
    PROVE  AccountInv'
<1>1. ASSUME UNCHANGED row, lingering' \subseteq lingering,
             ~ row => code'["reset_password"] = Missing,
             ~ row => \A q \in Requester :
                         /\ request'[q].purpose = request[q].purpose
                         /\ request[q].purpose = "reset_password" => call'[q] # "found"
      PROVE  AccountInv'
  BY <1>1 DEF AccountInv
<1>2. ASSUME row' = TRUE, lingering' \subseteq BOOLEAN PROVE AccountInv'
  BY <1>2 DEF AccountInv
<1>3. ASSUME Cache!Commit(TRUE) PROVE AccountInv'
  <2>1. row' = TRUE /\ lingering' \subseteq Cache!Answers
    BY <1>3 DEF Cache!Commit
  <2>2. Cache!Answers \subseteq BOOLEAN
    BY DEF Cache!Answers, AccountInv
  <2> QED BY <1>2, <2>1, <2>2
<1>4. ASSUME NEW c \in Caller, NEW pc, pc # "found", GoOn(c, pc),
             UNCHANGED <<vars, account>>
      PROVE  AccountInv'
  <2>1. \A d \in Caller : call'[d] = "found" => call[d] = "found"
    BY <1>4 DEF GoOn, CallInv
  <2>2. Requester \subseteq Caller
    BY DEF Caller
  <2> QED BY <1>1, <1>4, <2>1, <2>2 DEF AccountInv, vars, account
<1>5. ASSUME NEW c \in Caller, PassCaptcha(c) \/ GiveUp(c) PROVE AccountInv'
  BY <1>4, <1>5 DEF PassCaptcha, GiveUp
<1>6. ASSUME NEW q \in Requester, RequestLookup(q) PROVE AccountInv'
  <2>1. PICK exists \in Cache!Answers :
            GoOn(q, IF exists = (request[q].purpose = "reset_password")
                    THEN "found" ELSE "idle")
    BY <1>6 DEF RequestLookup
  <2>2. ~ row => exists = FALSE
    <3>1. ~ row => Cache!Answers \subseteq {FALSE}
      BY DEF Cache!Answers, AccountInv
    <3> QED BY <3>1
  <2>3. ~ row /\ request[q].purpose = "reset_password" => GoOn(q, "idle")
    BY <2>1, <2>2
  <2>4. \A r \in Requester : call'[r] # call[r] => r = q
    BY <2>1 DEF GoOn, CallInv, Caller
  <2>5. ~ row /\ request[q].purpose = "reset_password" => call'[q] = "idle"
    BY <2>3 DEF GoOn, CallInv, Caller
  <2>6. UNCHANGED <<row, lingering, code, request>>
    BY <1>6 DEF RequestLookup, vars, account
  <2> QED BY <1>1, <2>4, <2>5, <2>6 DEF AccountInv
<1>7. ASSUME NEW q \in Requester, RequestCode(q) PROVE AccountInv'
  <2>1. call[q] = "found" /\ UNCHANGED <<row, lingering, call>>
    BY <1>7 DEF RequestCode, account
  <2>2. \A r \in Requester : request'[r].purpose = request[r].purpose
    BY <1>7 DEF RequestCode, RequestStep, RequestCooldown, RequestStore, RequestEnd,
                TypeInv, TypeOK, Request
  <2>3. \A p \in Purpose : p # request[q].purpose => code'[p] = code[p]
    BY <1>7 DEF RequestCode, RequestStep, RequestCooldown, RequestStore, RequestEnd,
                TypeInv, TypeOK
  <2>4. ~ row => code'["reset_password"] = Missing
    BY <2>1, <2>3, PurposeAssumption DEF AccountInv
  <2> QED BY <1>1, <2>1, <2>2, <2>4 DEF AccountInv
<1>8. ASSUME NEW v \in Verifier, VerifyCode(v) PROVE AccountInv'
  <2>1. UNCHANGED <<row, lingering, call, request>>
    BY <1>8 DEF VerifyCode, account, VerifyStep, VerifyCount, VerifyCompare,
                VerifyDelete, VerifyFail
  <2>2. code'["reset_password"] \in {code["reset_password"], Missing}
    BY <1>8, PurposeAssumption
    DEF VerifyCode, VerifyStep, VerifyCount, VerifyCompare, VerifyDelete, VerifyFail,
        redis, TypeInv, TypeOK
  <2> QED BY <1>1, <2>1, <2>2 DEF AccountInv
<1>9. ASSUME NEW v \in Verifier, Register(v) PROVE AccountInv'
  BY <1>3, <1>9 DEF Register
<1>10. ASSUME NEW v \in Verifier, RegisterTaken(v) PROVE AccountInv'
  BY <1>4, <1>10 DEF RegisterTaken, Caller
<1>11. ASSUME NEW v \in Verifier, ResetLookup(v) PROVE AccountInv'
  <2>1. \A r \in Requester : call'[r] = call[r]
    BY <1>11, CallerAssumption DEF ResetLookup, GoOn, CallInv, Caller
  <2> QED BY <1>1, <1>11, <2>1 DEF ResetLookup, AccountInv, vars, account
<1>12. ASSUME NEW v \in Verifier, Reset(v) PROVE AccountInv'
  <2>1. row = TRUE
    BY <1>12 DEF Reset, AccountInv
  <2> QED BY <1>3, <1>12, <2>1 DEF Reset
<1>13. ASSUME NEW l \in Visitor, Login(l) PROVE AccountInv'
  <2>1. TRUE \in Cache!Answers
    BY <1>13 DEF Login
  <2>2. row = TRUE
    BY <2>1 DEF Cache!Answers, AccountInv
  <2> QED BY <1>3, <1>13, <2>2 DEF Login
<1>14. CASE NewCaptcha \/ FailCaptcha \/ CaptchaExpires \/ UNCHANGED session
  BY <1>1, <1>14 DEF NewCaptcha, FailCaptcha, CaptchaExpires, session, account, vars,
                     AccountInv
<1>15. CASE CacheFades
  BY <1>1, <1>15 DEF CacheFades, Cache!Fade, vars, AccountInv
<1>16. CASE CodeExpires
  <2>1. UNCHANGED <<row, lingering, call, request>>
    BY <1>16 DEF CodeExpires, account, ExpireCooldown, ExpireCode, ExpireAttempts
  <2>2. code'["reset_password"] \in {code["reset_password"], Missing}
    BY <1>16, PurposeAssumption
    DEF CodeExpires, ExpireCooldown, ExpireCode, ExpireAttempts, TypeInv, TypeOK
  <2> QED BY <1>1, <2>1, <2>2 DEF AccountInv
<1> QED BY <1>5, <1>6, <1>7, <1>8, <1>9, <1>10, <1>11, <1>12, <1>13, <1>14, <1>15,
           <1>16
        DEF SessionNext, RequesterStep, VerifierStep

LEMMA SessionInvInit == SessionInit => SessionInv
<1> SUFFICES ASSUME SessionInit PROVE SessionInv
  OBVIOUS
<1>1. EmailInv
  BY EmailInvInit DEF SessionInit
<1>2. CaptchaInv
  BY DEF SessionInit, Shield!Init, CaptchaInv
<1>3. CallInv
  BY DEF SessionInit, Init, CallInv, Caller
<1>4. AccountInv
  BY PurposeAssumption DEF SessionInit, Cache!Init, Init, AccountInv, Caller
<1> QED BY <1>1, <1>2, <1>3, <1>4 DEF SessionInv

LEMMA SessionInvNext == SessionInv /\ [SessionNext]_session => SessionInv'
<1> SUFFICES ASSUME SessionInv, [SessionNext]_session PROVE SessionInv'
  OBVIOUS
<1>1. EmailInv /\ TypeInv /\ CaptchaInv /\ CallInv /\ AccountInv
  BY DEF SessionInv, EmailInv
<1>2. EmailInv'
  BY <1>1, SessionStepIsEmailStep, EmailInvNext
<1> QED BY <1>1, <1>2, CaptchaInvNext, CallInvNext, AccountInvNext DEF SessionInv

LEMMA SessionInvProves == SessionInv => ChangesAreProven /\ ResetCodeNeedsAccount
<1> SUFFICES ASSUME SessionInv PROVE ChangesAreProven /\ ResetCodeNeedsAccount
  OBVIOUS
<1>1. passed <= 1
  BY DEF SessionInv, CaptchaInv
<1>2. ASSUME NEW v \in Verifier, call[v] = "changed"
      PROVE  /\ check[v].pc = "accepted"
             /\ ~ check[v].replay
             /\ SentFor(check[v].guess) = {check[v].purpose}
  <2> DEFINE c == check[v].guess
             p == check[v].purpose
  <2>1. check[v].pc = "accepted"
    BY <1>2 DEF SessionInv, CallInv
  <2>2. MadeFor(c, p) /\ ~ check[v].replay
    BY <2>1 DEF SessionInv, EmailInv, MatchedIsFresh
  <2>3. PICK q \in Requester : request[q].made = c /\ request[q].purpose = p
    BY <2>2 DEF MadeFor
  <2>4. c # Missing
    BY CodeFacts DEF SessionInv, EmailInv, TypeInv, TypeOK, Check, Wrong
  <2>5. \A r \in Requester : request[r].made = c => r = q
    BY <2>3, <2>4 DEF SessionInv, EmailInv, MadeOnce
  <2>6. SentFor(c) = {p}
    BY <2>3, <2>5 DEF SentFor
  <2> QED BY <2>1, <2>2, <2>6
<1>3. ResetCodeNeedsAccount
  BY DEF SessionInv, AccountInv, ResetCodeNeedsAccount
<1> QED BY <1>1, <1>2, <1>3 DEF ChangesAreProven

-----------------------------------------------------------------------------
(* However calls overlap, keys expire and replies are lost: no more than   *)
(* Attempts of the calls that took an attempt of a code of their own are   *)
(* compared with that code.                                                *)
THEOREM AttemptsAreBounded == Spec => []OwnAttemptsBounded
<1>1. Spec => []EmailInv
  BY EmailInvInit, EmailInvNext, PTL DEF Spec
<1> QED BY <1>1, EmailInvBoundsAttempts, PTL

(* A code is spent before the call that brought it is accepted: no call    *)
(* that begins later is accepted with it, also when another code is stored *)
(* or the reply to the deletion is lost.                                   *)
THEOREM SpentCodesStaySpent == Spec => []NoReplay
<1>1. Spec => []EmailInv
  BY EmailInvInit, EmailInvNext, PTL DEF Spec
<1>2. EmailInv => NoReplay
  BY DEF EmailInv, MatchedIsFresh, NoReplay
<1> QED BY <1>1, <1>2, PTL

(* The handlers of a visitor use the email codes as EmailCode says, so     *)
(* what is true of it is true of them, types and all.                      *)
THEOREM SessionImplementsEmailCode ==
    SessionSpec => Spec /\ []TypeOK /\ []OwnAttemptsBounded /\ []NoReplay
<1>1. SessionInit => Init
  BY DEF SessionInit
<1>2. SessionSpec => Spec
  BY <1>1, SessionStepIsEmailStep, PTL DEF SessionSpec, Spec
<1>3. Spec => []TypeOK
  <2>1. TypeInv => TypeOK
    BY DEF TypeInv
  <2> QED BY InitTypeInv, TypeInvNext, <2>1, PTL DEF Spec
<1> QED BY <1>2, <1>3, AttemptsAreBounded, SpentCodesStaySpent, PTL

(* Nobody makes an account or sets a password with a captcha that let      *)
(* another call through, with a code sent for the other purpose or with a  *)
(* code that was spent when the call began.                                *)
THEOREM ChangesNeedProof == SessionSpec => []ChangesAreProven
<1>1. SessionSpec => []SessionInv
  BY SessionInvInit, SessionInvNext, PTL DEF SessionSpec
<1> QED BY <1>1, SessionInvProves, PTL

(* A code to reset a password is stored only for an address that has an    *)
(* account, however outdated the cache is that was asked.                  *)
THEOREM ResetCodesAreForAccounts == SessionSpec => []ResetCodeNeedsAccount
<1>1. SessionSpec => []SessionInv
  BY SessionInvInit, SessionInvNext, PTL DEF SessionSpec
<1> QED BY <1>1, SessionInvProves, PTL
=============================================================================
