------------------------------ MODULE Captcha ------------------------------
(***************************************************************************)
(* The captchas of app/server/base/captcha.  Generate stores the answer of *)
(* a new captcha in Redis, Verify takes it from there: whoever asks first, *)
(* right or wrong, is the only one who is answered.                        *)
(*                                                                         *)
(* Captchas do not share any state, so one is followed at a time; another  *)
(* one, with an identifier of its own, takes its place when it is gone.    *)
(***************************************************************************)
EXTENDS Naturals

VARIABLES stored,  \* whether Redis holds the answer
          passed   \* history: the calls that this captcha has let through

Init == stored = FALSE /\ passed = 0

(* CaptchaHandler.  When the answer cannot be stored nothing has happened. *)
Generate ==
    /\ ~ stored
    /\ stored' = TRUE
    /\ passed' = 0

(* Mutant: the answer is read and left where it is. *)
PassKeeps ==
    /\ stored
    /\ passed' = passed + 1
    /\ UNCHANGED stored

(* GETDEL answers, and the answer is right. *)
Pass ==
    /\ stored
    /\ stored' = FALSE
    /\ passed' = passed + 1

(* The answer is wrong or the reply of Redis is lost, and the captcha is   *)
(* used up; or the identifier is unknown, or Redis is not there.           *)
Miss ==
    /\ stored' \in {stored, FALSE}
    /\ UNCHANGED passed

Expire ==
    /\ stored
    /\ stored' = FALSE
    /\ UNCHANGED passed
=============================================================================
