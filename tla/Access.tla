------------------------------- MODULE Access -------------------------------
(***************************************************************************)
(* Who may do what: the tokens a request brings, userAuthMiddleware that   *)
(* looks them up one after the other, the policies of the routes, the      *)
(* handlers that ask again, and the documentation page that shows a user   *)
(* the operations the policies admit.  Access lists and tokens change      *)
(* while requests are under way.                                           *)
(*                                                                         *)
(* A token that VerifyToken accepts is the sequence of its fields, one for *)
(* a login token and two for a referral; any other text is Forged.  A      *)
(* lookup finds the row there is; what a cache may answer instead is the   *)
(* business of Users and CacheHelper.                                      *)
(***************************************************************************)
EXTENDS Naturals, FiniteSets, Sequences, SequencesExt

CONSTANTS User,
          LoginToken,     \* the payloads of login tokens
          Channel,        \* the channels of referrals
          Forged,         \* a text that is no token of this server
          Nobody,         \* no user, no token
          Damaged,        \* an access column that holds no list
          Request,        \* requests, each made once
          Called,         \* the operations that are called
          Brought,        \* what requests bring: Authorization headers, login cookies
          AccessGiven,    \* the access lists that are asked for
          FirstAccess,    \* the access columns a user may have at the start
          FirstToken,     \* the login tokens at the start
          MaxRotations,   \* bounds the password resets
          MaxRegistered   \* bounds the registrations

Permission == {"user", "admin", "viewall", "am"}

ASSUME AccessAssumption ==
    /\ FirstAccess \in [User -> SUBSET ((SUBSET Permission) \cup {Damaged})]
    /\ FirstToken \in [User -> LoginToken]
    /\ \A u, v \in User : u # v => FirstToken[u] # FirstToken[v]
    /\ Nobody \notin User /\ MaxRotations \in Nat /\ MaxRegistered \in Nat

VARIABLES row,      \* the accounts: login token and access column
          rotated,  \* login tokens that were in use before
          issued,   \* the referral tokens that were made
          count,    \* the registrations that count for a user and channel
          request,  \* the requests
          seen,     \* history: the access its tokens gave a request at any time
          lasting,  \* history: its tokens that had an account at all times
          page      \* the documentation page, once it is loaded

vars == <<row, rotated, issued, count, request, seen, lasting, page>>

Token == {<<k>> : k \in LoginToken} \cup (User \X Channel) \cup {Forged}

-----------------------------------------------------------------------------
(* The routes.  A policy asks for all of one list or any of another; an    *)
(* operation without a policy is public.                                   *)

ReadAccess == {"admin", "viewall"}
Public == {"GET /health", "GET /user/config", "GET /user/captcha",
           "POST /user/login", "POST /user/register", "POST /user/email_code",
           "POST /user/reset_password", "POST /user/logout"}

Operation == {"GET /user", "POST /user/ref", "GET /am/refstatistics/list",
              "GET /admin/users/list", "POST /admin/users/update"}

UserPolicy == [all |-> {"user"}, any |-> {}]
AmPolicy == [all |-> {}, any |-> {"admin", "am", "viewall"}]
AdminReadPolicy == [all |-> {}, any |-> ReadAccess]
AdminWritePolicy == [all |-> {"admin"}, any |-> {}]

Policy == [o \in Operation |->
             CASE o \in {"GET /user", "POST /user/ref"} -> UserPolicy
               [] o = "GET /am/refstatistics/list" -> AmPolicy
               [] o = "GET /admin/users/list" -> AdminReadPolicy
               [] o = "POST /admin/users/update" -> AdminWritePolicy]

ASSUME CallAssumption ==
    /\ Called \subseteq Operation
    /\ \A b \in Brought : b.headers \in Seq(Token) /\ b.cookies \in Seq(Token)
    /\ Forged \notin {<<k>> : k \in LoginToken} \cup (User \X Channel)

HaveAllAccess(granted, list) == granted # Damaged /\ list \subseteq granted
HaveAnyAccess(granted, list) == granted # Damaged /\ list \cap granted # {}

(* Mutant: every account is admitted. *)
AdmitsAnyone(granted, policy) == granted # Damaged

Admits(granted, policy) ==
    /\ granted # Damaged
    /\ policy.all # {} => HaveAllAccess(granted, policy.all)
    /\ policy.any # {} => HaveAnyAccess(granted, policy.any)

-----------------------------------------------------------------------------
(* A request brings any number of Authorization headers and of cookies     *)
(* with the login cookie's name; only a single one counts.                 *)
Single(texts) == IF Len(texts) = 1 THEN <<texts[1]>> ELSE <<>>

(* The bearer token, then the cookie if it is another one. *)
Presented(headers, cookies) ==
    LET bearer == Single(headers)
        cookie == Single(cookies)
    IN  IF cookie = bearer THEN bearer ELSE bearer \o cookie

Owners(rows, token) == {u \in User : token = <<rows[u].token>>}
OwnedOf(rows, tokens) == {t \in tokens : Owners(rows, t) # {}}
AccessOf(rows, tokens) == {rows[u].access : u \in UNION {Owners(rows, t) : t \in tokens}}

(* of: whose statistics are asked for; counted and shown: the groups in    *)
(* the total and on the page.                                              *)
Idle == [pc |-> "idle", op |-> "GET /user", tokens |-> <<>>, brought |-> {},
         failed |-> FALSE, account |-> Nobody, granted |-> {}, of |-> Nobody,
         counted |-> {}, shown |-> {}, answer |-> "none"]

Init ==
    /\ \E access \in {f \in [User -> UNION {FirstAccess[u] : u \in User}] :
                         \A u \in User : f[u] \in FirstAccess[u]} :
          row = [u \in User |-> [token |-> FirstToken[u], access |-> access[u]]]
    /\ rotated = {}
    /\ issued = {}
    /\ count = [g \in User \X Channel |-> 0]
    /\ request = [q \in Request |-> Idle]
    /\ seen = [q \in Request |-> {}]
    /\ lasting = [q \in Request |-> {}]
    /\ page = [account |-> Nobody, row |-> Nobody, allowed |-> {}, showAll |-> FALSE]

(* What the histories record when the rows become rows.                    *)
Remember(rows) ==
    /\ seen' = [q \in Request |-> seen[q] \cup AccessOf(rows, request[q].brought)]
    /\ lasting' = [q \in Request |-> OwnedOf(rows, lasting[q])]

-----------------------------------------------------------------------------
(* userAuthMiddleware. *)

Arrive(q, op, headers, cookies) ==
    LET tokens == Presented(headers, cookies)
    IN  /\ request[q].pc = "idle"
        /\ request' = [request EXCEPT ![q].pc = "auth", ![q].op = op,
                                      ![q].tokens = tokens,
                                      ![q].brought = ToSet(tokens)]
        /\ seen' = [seen EXCEPT ![q] = AccessOf(row, ToSet(tokens))]
        /\ lasting' = [lasting EXCEPT ![q] = OwnedOf(row, ToSet(tokens))]
        /\ UNCHANGED <<row, rotated, issued, count, page>>

world == <<row, rotated, issued, count, seen, lasting, page>>

(* VerifyToken or the lookup finds no account for the next token. *)
Unknown(q) ==
    /\ request[q].pc = "auth"
    /\ request[q].tokens # <<>>
    /\ Owners(row, Head(request[q].tokens)) = {}
    /\ request' = [request EXCEPT ![q].tokens = Tail(@)]
    /\ UNCHANGED world

(* The cache and the database cannot be asked. *)
LookupFails(q) ==
    /\ request[q].pc = "auth"
    /\ request[q].tokens # <<>>
    /\ Head(request[q].tokens) # Forged
    /\ request' = [request EXCEPT ![q].tokens = Tail(@), ![q].failed = TRUE]
    /\ UNCHANGED world

Reply(q, answer) == request' = [request EXCEPT ![q].pc = "done", ![q].answer = answer]

(* The first token that has an account decides. *)
Resolve(q) ==
    /\ request[q].pc = "auth"
    /\ request[q].tokens # <<>>
    /\ \E u \in Owners(row, Head(request[q].tokens)) :
          IF Admits(row[u].access, Policy[request[q].op])
          THEN request' = [request EXCEPT ![q].pc = "handler", ![q].tokens = <<>>,
                                          ![q].account = u,
                                          ![q].granted = row[u].access]
          ELSE request' = [request EXCEPT ![q].pc = "done", ![q].tokens = <<>>,
                                          ![q].answer = "403"]
    /\ UNCHANGED world

(* Mutant: a lookup that failed counts like a token that is not known. *)
VerdictUnasked(failed) == "401"

Verdict(failed) == IF failed THEN "503" ELSE "401"

GiveUp(q) ==
    /\ request[q].pc = "auth"
    /\ request[q].tokens = <<>>
    /\ Reply(q, Verdict(request[q].failed))
    /\ UNCHANGED world

-----------------------------------------------------------------------------
(* The handlers behind it. *)

Handles(q, op) == request[q].pc = "handler" /\ request[q].op = op

(* Reading one's own account, or the list of accounts. *)
Handle(q) ==
    /\ \/ Handles(q, "GET /user") /\ Reply(q, "200")
       \/ Handles(q, "GET /admin/users/list") /\ \E a \in {"200", "503"} : Reply(q, a)
    /\ UNCHANGED world

GenerateRefHandler(q, channel) ==
    /\ Handles(q, "POST /user/ref")
    /\ issued' = issued \cup {<<request[q].account, channel>>}
    /\ Reply(q, "200")
    /\ UNCHANGED <<row, rotated, count, seen, lasting, page>>

(* Mutant: without a user in the request there is no filter. *)
FilterAsked(q, user, privileged) == user

(* Whose statistics are asked for; Nobody means everyone's. *)
Filter(q, user, privileged) == IF privileged THEN user ELSE request[q].account

(* The rows grouped by referring user and channel. *)
Groups(of) == {g \in User \X Channel : count[g] > 0 /\ of \in {Nobody, g[1]}}

(* Mutant: the total leaves the user out of its condition. *)
CountedOfAll(of) == Groups(Nobody)

Counted(of) == Groups(of)

(* ListHandler of am/refstatistics: the caller is checked again and the    *)
(* groups are counted.                                                     *)
ListHandler(q, user) ==
    LET privileged == HaveAnyAccess(request[q].granted, {"admin", "viewall"})
        of == Filter(q, user, privileged)
    IN  /\ Handles(q, "GET /am/refstatistics/list")
        /\ \/ /\ ~ privileged
              /\ \/ ~ HaveAnyAccess(request[q].granted, {"am"})
                 \/ user \notin {Nobody, request[q].account}
              /\ Reply(q, "403")
           \/ /\ privileged \/ (/\ HaveAnyAccess(request[q].granted, {"am"})
                                /\ user \in {Nobody, request[q].account})
              /\ \/ request' = [request EXCEPT ![q].pc = "counted", ![q].of = of,
                                               ![q].counted = Counted(of)]
                 \/ Reply(q, "503")
        /\ UNCHANGED world

(* A second query reads the page, which is taken to hold all groups.       *)
ListPage(q) ==
    /\ request[q].pc = "counted"
    /\ \/ request' = [request EXCEPT ![q].pc = "done", ![q].answer = "200",
                                     ![q].shown = Groups(request[q].of)]
       \/ Reply(q, "503")
    /\ UNCHANGED world

(* EncodeAccess refuses what is no permission. *)
Encodable(values) == values \subseteq Permission

(* UpdateHandler of admin/users, as far as access goes. *)
UpdateHandler(q, user, values) ==
    /\ Handles(q, "POST /admin/users/update")
    /\ \/ /\ Encodable(values)
          /\ row' = [row EXCEPT ![user].access = values]
          /\ Remember(row')
          /\ Reply(q, "200")
       \/ /\ \/ ~ Encodable(values) /\ Reply(q, "400")
             \/ Reply(q, "503")
          /\ UNCHANGED <<row, seen, lasting>>
    /\ UNCHANGED <<rotated, issued, count, page>>

(* ResetPasswordHandler gives the account a new token. *)
Rotate(user, token) ==
    /\ Cardinality(rotated) < MaxRotations
    /\ token \notin rotated
    /\ \A u \in User : row[u].token # token
    /\ row' = [row EXCEPT ![user].token = token]
    /\ rotated' = rotated \cup {row[user].token}
    /\ Remember(row')
    /\ UNCHANGED <<issued, count, request, page>>

(* verifiedRef; a ref that is not valid counts for nobody. *)
Referral(ref) == ref # Forged /\ Len(ref) = 2 /\ ref \in User \X Channel

RegisterHandler(ref) ==
    /\ Referral(ref)
    /\ count[ref] < MaxRegistered
    /\ count' = [count EXCEPT ![ref] = @ + 1]
    /\ UNCHANGED <<row, rotated, issued, request, seen, lasting, page>>

-----------------------------------------------------------------------------
(* Mutant: the account managers are forgotten. *)
ViewWithoutAm(access) ==
    Public \cup {o \in {"GET /user", "POST /user/ref"} : "user" \in access}

(* DocsTokenViewHandler *)
View(access) ==
    Public
    \cup {o \in {"GET /user", "POST /user/ref"} : "user" \in access}
    \cup {o \in {"GET /am/refstatistics/list"} :
             access \cap {"am", "admin", "viewall"} # {}}

Page(account, accountRow, allowed, showAll) ==
    [account |-> account, row |-> accountRow, allowed |-> allowed, showAll |-> showAll]

Blank == Page(Nobody, Nobody, {}, FALSE)

(* DocsTokenHandler: a refusal or a failure leaves the page blank. *)
DocsTokenHandler(cookies) ==
    LET owners == UNION {Owners(row, t) : t \in ToSet(Single(cookies))}
    IN  /\ \/ page' = Blank
           \/ owners = {} /\ page' = Page(Nobody, Nobody, View({}), FALSE)
           \/ \E u \in owners :
                /\ HaveAllAccess(row[u].access, {"user"})
                /\ page' = Page(u, row[u], View(row[u].access),
                               row[u].access \cap {"admin", "viewall"} # {})
        /\ UNCHANGED <<row, rotated, issued, count, request, seen, lasting>>

(* A token is brought by those only to whom it was given. *)
Given(texts) ==
    \A t \in ToSet(texts) :
       \/ t \in issued \cup {Forged}
       \/ t \in {<<k>> : k \in rotated \cup {row[u].token : u \in User}}

Next ==
    \/ \E q \in Request :
         \/ \E op \in Called, b \in Brought :
              Given(b.headers \o b.cookies) /\ Arrive(q, op, b.headers, b.cookies)
         \/ Unknown(q) \/ LookupFails(q) \/ Resolve(q) \/ GiveUp(q)
         \/ Handle(q)
         \/ \E channel \in Channel : GenerateRefHandler(q, channel)
         \/ \E user \in User \cup {Nobody} : ListHandler(q, user)
         \/ ListPage(q)
         \/ \E user \in User, values \in AccessGiven : UpdateHandler(q, user, values)
    \/ \E user \in User, token \in LoginToken : Rotate(user, token)
    \/ \E ref \in issued \cup {Forged} \cup {<<k>> : k \in LoginToken} :
         RegisterHandler(ref)
    \/ \E b \in Brought : Given(b.cookies) /\ DocsTokenHandler(b.cookies)

Spec == Init /\ [][Next]_vars

-----------------------------------------------------------------------------
(* What each operation takes: one of these permissions. *)
Takes == [op \in Operation |->
            CASE op \in {"GET /user", "POST /user/ref"} -> {"user"}
              [] op = "GET /am/refstatistics/list" -> {"am", "admin", "viewall"}
              [] op = "GET /admin/users/list" -> {"admin", "viewall"}
              [] op = "POST /admin/users/update" -> {"admin"}]

Suffices(access, op) == access # Damaged /\ access \cap Takes[op] # {}

(* A handler runs only for a request that brought a token which, at some   *)
(* time since it arrived, belonged to an account with the access it takes. *)
AdmittedHadAccess ==
    \A q \in Request :
       request[q].pc = "handler" \/ request[q].answer \in {"200", "400"} =>
          \E access \in seen[q] : Suffices(access, request[q].op)

(* "valid API token or login cookie required" is not said to a request     *)
(* that brought a token of an account all along, in either place: a server *)
(* that cannot look tokens up says that instead, so that nobody is logged  *)
(* out by an outage.  "insufficient access" is said only to a request with *)
(* a token whose access did not suffice at some time.                      *)
RefusalsHaveReason ==
    \A q \in Request :
       /\ request[q].answer = "401" => lasting[q] = {}
       /\ request[q].answer = "403" /\ request[q].account = Nobody =>
             \E access \in seen[q] : ~ Suffices(access, request[q].op)

(* A user who is neither admin nor viewer sees the referral statistics of  *)
(* nobody else, and whoever has statistics has made a referral.            *)
OwnStatisticsOnly ==
    /\ \A q \in Request : \A g \in request[q].shown :
         g[1] # request[q].account => request[q].granted \cap {"admin", "viewall"} # {}
    /\ \A g \in User \X Channel : count[g] > 0 => g \in issued

(* The total and the page of the statistics come from two queries.  A      *)
(* registration in between may make the page longer than the total says,   *)
(* but no group that was counted is missing from it, and what it shows is  *)
(* there.                                                                  *)
StatisticsConsistent ==
    \A q \in Request :
       (request[q].op = "GET /am/refstatistics/list" /\ request[q].answer = "200") =>
          /\ request[q].counted \subseteq request[q].shown
          /\ request[q].shown \subseteq Groups(Nobody)

(* The documentation page agrees with the middleware as long as the        *)
(* account is what it was when the page was loaded: what it offers is not  *)
(* refused, and what it does not show is not admitted.                     *)
PageAgrees ==
    [][\A q \in Request :
         (/\ request[q].pc = "auth"
          /\ page.account # Nobody
          /\ row[page.account] = page.row
          /\ request[q].brought = {<<page.row.token>>}) =>
            /\ request'[q].pc = "handler" =>
                  request[q].op \in page.allowed \/ page.showAll
            /\ request'[q].answer \in {"401", "403"} =>
                  request[q].op \notin page.allowed]_vars
=============================================================================
