------------------------------ MODULE Session ------------------------------
(***************************************************************************)
(* The handlers of api_handler/user/session.go that a visitor reaches,     *)
(* for one email address: EmailCodeHandler, RegisterHandler,               *)
(* ResetPasswordHandler and LoginHandler, put together from what they call:*)
(* the captcha, the email codes and the cached lookup of the account.      *)
(*                                                                         *)
(* Of the account only its existence matters here; what is written into it *)
(* is the subject of Users.  An account never leaves its address.          *)
(***************************************************************************)
EXTENDS EmailCode

CONSTANT Visitor  \* calls of LoginHandler; Requester and Verifier make the others

ASSUME PurposeAssumption == Purpose = {"register", "reset_password"}

(* A call is a call of one handler. *)
ASSUME CallerAssumption ==
    /\ Requester \cap Verifier = {}
    /\ Requester \cap Visitor = {}
    /\ Verifier \cap Visitor = {}

VARIABLES stored, passed,  \* Captcha
          row,             \* whether the address has an account
          lingering,       \* what else a cached lookup may say
          call             \* how far every call has come

Shield == INSTANCE Captcha
Cache == INSTANCE UserCache WITH Value <- BOOLEAN

Caller == Requester \cup Verifier \cup Visitor

shield == <<stored, passed>>
account == <<row, lingering>>
session == <<vars, shield, account, call>>

SessionInit ==
    /\ Init
    /\ Shield!Init
    /\ Cache!Init
    /\ call = [c \in Caller |-> "idle"]

GoOn(c, pc) == call' = [call EXCEPT ![c] = pc]

-----------------------------------------------------------------------------
(* Every handler begins with the captcha. *)

PassCaptcha(c) ==
    /\ call[c] = "idle"
    /\ Shield!Pass
    /\ GoOn(c, "open")
    /\ UNCHANGED <<vars, account>>

(* A call that the captcha refuses has done nothing else. *)
FailCaptcha ==
    /\ Shield!Miss
    /\ UNCHANGED <<vars, account, call>>

(* A call behind its captcha may end before, between and after the steps   *)
(* of EmailCode, which have failures of their own: an input is refused,    *)
(* hashing or the database fails, the client goes away.  Nothing that was  *)
(* used up is given back.  A call that has not come to its email code      *)
(* leaves no other trace, and may be made again.                           *)
GiveUp(c) ==
    /\ call[c] \in {"open", "found"}
    /\ c \in Requester => request[c].pc = "idle"
    /\ c \in Verifier => check[c].pc \in {"idle", "accepted"}
    /\ GoOn(c, IF c \in Verifier /\ check[c].pc = "accepted" THEN "done" ELSE "idle")
    /\ UNCHANGED <<vars, shield, account>>

-----------------------------------------------------------------------------
(* EmailCodeHandler *)

(* Mutant: both purposes ask for a free address. *)
RequestLookupFree(q) ==
    /\ call[q] = "open"
    /\ \E exists \in Cache!Answers :
          GoOn(q, IF exists THEN "idle" ELSE "found")
    /\ UNCHANGED <<vars, shield, account>>

(* A code for a registration is sent when there is no account, one for a   *)
(* password reset when there is one, as far as the cache knows.            *)
RequestLookup(q) ==
    /\ call[q] = "open"
    /\ \E exists \in Cache!Answers :
          GoOn(q, IF exists = (request[q].purpose = "reset_password")
                  THEN "found" ELSE "idle")
    /\ UNCHANGED <<vars, shield, account>>

RequestCode(q) ==
    /\ call[q] = "found"
    /\ RequestStep(q)
    /\ UNCHANGED <<shield, account, call>>

-----------------------------------------------------------------------------
(* RegisterHandler and ResetPasswordHandler *)

VerifyCode(v) ==
    /\ call[v] = "open"
    /\ VerifyStep(v)
    /\ UNCHANGED <<shield, account, call>>

Accepted(v, purpose) == /\ call[v] = "open"
                        /\ check[v].pc = "accepted"
                        /\ check[v].purpose = purpose

(* Create: the unique index of the table decides, not the cache.  When the *)
(* reply is lost the visitor is told that registration is unavailable,     *)
(* although the account is there.  The refresh of the cache is Cache!Fade. *)
Register(v) ==
    /\ Accepted(v, "register")
    /\ ~ row
    /\ Cache!Commit(TRUE)
    /\ GoOn(v, "changed")
    /\ UNCHANGED <<vars, shield>>

(* Create finds the address taken: the code is spent all the same. *)
RegisterTaken(v) ==
    /\ Accepted(v, "register")
    /\ row
    /\ GoOn(v, "done")
    /\ UNCHANGED <<vars, shield, account>>

(* An outdated answer may be that there is no account: the reset is        *)
(* refused, and its code is spent.                                         *)
ResetLookup(v) ==
    /\ Accepted(v, "reset_password")
    /\ \E exists \in Cache!Answers : GoOn(v, IF exists THEN "found" ELSE "done")
    /\ UNCHANGED <<vars, shield, account>>

(* Update: the row is looked up again by its identifier. *)
Reset(v) ==
    /\ call[v] = "found"
    /\ row
    /\ Cache!Commit(row)
    /\ GoOn(v, "changed")
    /\ UNCHANGED <<vars, shield>>

-----------------------------------------------------------------------------
(* LoginHandler: when the cache knows the account and the password is     *)
(* right, RecordLogin writes the time of the login and refreshes the cache.*)
Login(l) ==
    /\ call[l] = "open"
    /\ TRUE \in Cache!Answers
    /\ Cache!Commit(row)
    /\ GoOn(l, "idle")
    /\ UNCHANGED <<vars, shield>>

-----------------------------------------------------------------------------
(* CaptchaHandler, the caches and the keys that expire. *)

NewCaptcha == Shield!Generate /\ UNCHANGED <<vars, account, call>>
CaptchaExpires == Shield!Expire /\ UNCHANGED <<vars, account, call>>
CacheFades == Cache!Fade /\ UNCHANGED <<vars, shield, call>>

CodeExpires ==
    /\ \/ ExpireCooldown
       \/ \E p \in Purpose : ExpireCode(p) \/ ExpireAttempts(p)
    /\ UNCHANGED <<shield, account, call>>

RequesterStep(q) == RequestLookup(q) \/ RequestCode(q)

VerifierStep(v) ==
    \/ VerifyCode(v)
    \/ Register(v)
    \/ RegisterTaken(v)
    \/ ResetLookup(v)
    \/ Reset(v)

SessionNext ==
    \/ \E c \in Caller : PassCaptcha(c) \/ GiveUp(c)
    \/ \E q \in Requester : RequesterStep(q)
    \/ \E v \in Verifier : VerifierStep(v)
    \/ \E l \in Visitor : Login(l)
    \/ NewCaptcha \/ FailCaptcha \/ CaptchaExpires \/ CacheFades \/ CodeExpires

SessionSpec == SessionInit /\ [][SessionNext]_session

-----------------------------------------------------------------------------
(* The purpose that a code was sent for. *)
SentFor(c) == {request[q].purpose : q \in {r \in Requester : request[r].made = c}}

(* Whoever has made an account or set a password was let through by a      *)
(* captcha that let nobody else through, and by a code that was sent for   *)
(* just that purpose and was not spent when the call began, whatever was   *)
(* sent, expired, lost or given up in between.                             *)
ChangesAreProven ==
    /\ passed <= 1
    /\ \A v \in Verifier :
          call[v] = "changed" => /\ check[v].pc = "accepted"
                                 /\ ~ check[v].replay
                                 /\ SentFor(check[v].guess) = {check[v].purpose}

(* A code for a password reset is only ever sent for an account that is    *)
(* there: the cache may forget an account but does not invent one.         *)
ResetCodeNeedsAccount ==
    code["reset_password"] # Missing => row
=============================================================================
