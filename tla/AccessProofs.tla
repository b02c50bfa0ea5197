---------------------------- MODULE AccessProofs ----------------------------
(***************************************************************************)
(* Theorems about Access, for any finite or infinite sets of users, tokens,*)
(* channels and requests, and whatever the requests bring, and about the   *)
(* script of the documentation page, which shows what Access admits.       *)
(***************************************************************************)
EXTENDS Access, DocsPrune, TLAPS

Column == (SUBSET Permission) \cup {Damaged}
Row == [token : LoginToken, access : Column]
Group == User \X Channel

Answer == {"none", "200", "400", "401", "403", "503"}

Call == [pc : {"idle", "auth", "handler", "counted", "done"}, op : Operation,
         tokens : Seq(Token), brought : SUBSET Token, failed : BOOLEAN,
         account : User \cup {Nobody}, granted : Column, of : User \cup {Nobody},
         counted : SUBSET Group, shown : SUBSET Group,
         answer : Answer]

TypeInv ==
    /\ row \in [User -> Row]
    /\ rotated \subseteq LoginToken
    /\ issued \subseteq Group
    /\ count \in [Group -> Nat]
    /\ request \in [Request -> Call]
    /\ seen \in [Request -> SUBSET Column]
    /\ lasting \in [Request -> SUBSET Token]

(* A login token belongs to one account, and to none once it was replaced. *)
TokensInv ==
    /\ \A u, v \in User : row[u].token = row[v].token => u = v
    /\ \A u \in User : row[u].token \notin rotated

(* What a request brought and has not lost by now, it never lost: a token  *)
(* that nobody has was replaced, and nobody is given it again.             *)
BroughtBy(q) ==
    /\ \A k \in LoginToken : <<k>> \in request[q].brought =>
          k \in rotated \/ \E u \in User : row[u].token = k
    /\ AccessOf(row, request[q].brought) \subseteq seen[q]
    /\ lasting[q] = OwnedOf(row, request[q].brought)
    /\ ToSet(request[q].tokens) \subseteq request[q].brought
    /\ request[q].pc = "auth" /\ ~ request[q].failed =>
          lasting[q] \subseteq ToSet(request[q].tokens)

(* AdmittedHadAccess and RefusalsHaveReason, from the verdict on. *)
VerdictOn(q) ==
    /\ request[q].pc # "done" => request[q].answer = "none"
    /\ request[q].pc \in {"handler", "counted"} \/ request[q].answer \in {"200", "400"} =>
          \E access \in seen[q] : Suffices(access, request[q].op)
    /\ request[q].pc \in {"handler", "counted"} => request[q].account \in User
    /\ request[q].answer = "401" => lasting[q] = {}
    /\ request[q].answer = "403" /\ request[q].account = Nobody =>
          \E access \in seen[q] : ~ Suffices(access, request[q].op)

Privileged(q) == request[q].granted \cap {"admin", "viewall"} # {}

(* The statistics between the two queries and after them. *)
ListOn(q) ==
    /\ request[q].pc = "counted" =>
          /\ request[q].op = "GET /am/refstatistics/list"
          /\ request[q].counted \subseteq Groups(request[q].of)
          /\ Privileged(q) \/ request[q].of = request[q].account
    /\ request[q].pc # "done" => request[q].shown = {}
    /\ \A g \in request[q].shown : g[1] # request[q].account => Privileged(q)
    /\ (request[q].op = "GET /am/refstatistics/list" /\ request[q].answer = "200") =>
          /\ request[q].counted \subseteq request[q].shown
          /\ request[q].shown \subseteq Groups(Nobody)

ReferredInv == \A g \in Group : count[g] > 0 => g \in issued

BroughtInv == \A q \in Request : BroughtBy(q)
VerdictInv == \A q \in Request : VerdictOn(q)
ListInv == \A q \in Request : ListOn(q)

(* The page says what the account it was loaded for may do. *)
PageInv ==
    page.account # Nobody =>
        /\ page.account \in User
        /\ page.row \in Row /\ page.row.access # Damaged
        /\ page.allowed = View(page.row.access)
        /\ page.showAll = (page.row.access \cap {"admin", "viewall"} # {})

AccessInv ==
    /\ TypeInv /\ TokensInv /\ BroughtInv /\ VerdictInv
    /\ ReferredInv /\ ListInv /\ PageInv

USE AccessAssumption, CallAssumption

-----------------------------------------------------------------------------
(* Sequences of tokens. *)
LEMMA TokenLists ==
    ASSUME NEW list \in Seq(Token)
    PROVE  /\ ToSet(list) \subseteq Token
           /\ list # <<>> => /\ Tail(list) \in Seq(Token)
                             /\ Head(list) \in ToSet(list)
                             /\ ToSet(list) \subseteq {Head(list)} \cup ToSet(Tail(list))
                             /\ ToSet(Tail(list)) \subseteq ToSet(list)
<1>1. ToSet(list) \subseteq Token
  BY DEF ToSet
<1>2. ASSUME list # <<>>
      PROVE  /\ Tail(list) \in Seq(Token)
             /\ Head(list) \in ToSet(list)
             /\ ToSet(Tail(list)) \subseteq ToSet(list)
  BY <1>2 DEF ToSet
<1>3. ASSUME list # <<>>
      PROVE  ToSet(list) \subseteq {Head(list)} \cup ToSet(Tail(list))
  <2> DEFINE rest == Tail(list)
  <2> SUFFICES ASSUME NEW i \in 1..Len(list), i # 1 PROVE list[i] \in ToSet(rest)
    BY DEF ToSet
  <2>1. i - 1 \in DOMAIN rest /\ rest[i - 1] = list[i]
    BY <1>3
  <2> HIDE DEF rest
  <2> QED BY <2>1 DEF ToSet
<1> QED BY <1>1, <1>2, <1>3

LEMMA JoinedTokens ==
    ASSUME NEW x \in Seq(Token), NEW y \in Seq(Token)
    PROVE  ToSet(x \o y) = ToSet(x) \cup ToSet(y)
<1> DEFINE z == x \o y
<1>1. /\ DOMAIN x = 1..Len(x) /\ DOMAIN y = 1..Len(y) /\ DOMAIN z = 1..(Len(x) + Len(y))
      /\ Len(x) \in Nat /\ Len(y) \in Nat
      /\ \A i \in 1..Len(x) : z[i] = x[i]
      /\ \A i \in 1..Len(y) : z[i + Len(x)] = y[i]
  OBVIOUS
<1> HIDE DEF z
<1>2. \A i \in DOMAIN z : z[i] \in ToSet(x) \cup ToSet(y)
  <2> SUFFICES ASSUME NEW i \in DOMAIN z PROVE z[i] \in ToSet(x) \cup ToSet(y)
    OBVIOUS
  <2>1. CASE i <= Len(x)
    BY <1>1, <2>1 DEF ToSet
  <2>2. CASE i > Len(x)
    <3>1. i - Len(x) \in DOMAIN y /\ z[(i - Len(x)) + Len(x)] = y[i - Len(x)]
      BY <1>1, <2>2
    <3>2. z[i] = y[i - Len(x)]
      BY <1>1, <3>1
    <3> QED BY <3>1, <3>2 DEF ToSet
  <2> QED BY <1>1, <2>1, <2>2
<1>3. \A i \in DOMAIN x : x[i] \in ToSet(z)
  BY <1>1 DEF ToSet
<1>4. \A i \in DOMAIN y : y[i] \in ToSet(z)
  <2> SUFFICES ASSUME NEW i \in DOMAIN y PROVE y[i] \in ToSet(z)
    OBVIOUS
  <2>1. i + Len(x) \in DOMAIN z /\ z[i + Len(x)] = y[i]
    BY <1>1
  <2> QED BY <2>1 DEF ToSet
<1>5. ToSet(z) = ToSet(x) \cup ToSet(y)
  BY <1>2, <1>3, <1>4 DEF ToSet
<1> QED BY <1>5 DEF z

LEMMA PresentedType ==
    ASSUME NEW b \in Brought
    PROVE  Presented(b.headers, b.cookies) \in Seq(Token)
<1>1. \A texts \in Seq(Token) : Single(texts) \in Seq(Token)
  BY DEF Single
<1> QED BY <1>1 DEF Presented

LEMMA PolicyFacts ==
    ASSUME NEW op \in Operation, NEW granted \in Column
    PROVE  Admits(granted, Policy[op]) <=> Suffices(granted, op)
<1> USE DEF Admits, HaveAllAccess, HaveAnyAccess, Suffices, Policy, Takes
<1>1. CASE op \in {"GET /user", "POST /user/ref"}
  BY <1>1 DEF UserPolicy
<1>2. CASE op = "GET /am/refstatistics/list"
  BY <1>2 DEF AmPolicy
<1>3. CASE op = "GET /admin/users/list"
  BY <1>3 DEF AdminReadPolicy, ReadAccess
<1>4. CASE op = "POST /admin/users/update"
  BY <1>4 DEF AdminWritePolicy
<1> QED BY <1>1, <1>2, <1>3, <1>4 DEF Operation

LEMMA InitType == Init => TypeInv
<1> SUFFICES ASSUME Init PROVE TypeInv
  OBVIOUS
<1>1. row \in [User -> Row]
  <2>1. PICK access : /\ access \in [User -> UNION {FirstAccess[u] : u \in User}]
                      /\ \A u \in User : access[u] \in FirstAccess[u]
                      /\ row = [u \in User |-> [token |-> FirstToken[u],
                                               access |-> access[u]]]
    BY DEF Init
  <2>2. \A u \in User : access[u] \in Column /\ FirstToken[u] \in LoginToken
    BY <2>1 DEF Column
  <2> QED BY <2>1, <2>2 DEF Row
<1>2. Idle \in Call
  <2>1. {} \in Column
    BY DEF Column
  <2>2. "GET /user" \in Operation
    BY DEF Operation
  <2>3. <<>> \in Seq(Token)
    OBVIOUS
  <2> QED BY <2>1, <2>2, <2>3 DEF Idle, Call, Answer
<1> QED BY <1>1, <1>2 DEF Init, TypeInv, Group

(* A step of a request of its own, and what Remember writes. *)
LEMMA RememberTypes ==
    ASSUME TypeInv, row' \in [User -> Row], Remember(row')
    PROVE  seen' \in [Request -> SUBSET Column] /\ lasting' \in [Request -> SUBSET Token]
<1>1. \A tokens : AccessOf(row', tokens) \subseteq Column
  BY DEF AccessOf, Owners, Row
<1>2. \A tokens \in SUBSET Token : OwnedOf(row', tokens) \subseteq Token
  BY DEF OwnedOf
<1> QED BY <1>1, <1>2 DEF Remember, TypeInv

LEMMA CallTypes ==
    ASSUME TypeInv, NEW q \in Request
    PROVE  request[q] \in Call /\ request[q].op \in Operation
           /\ request[q].tokens \in Seq(Token) /\ request[q].account \in User \cup {Nobody}
           /\ request[q].brought \subseteq Token
BY DEF TypeInv, Call

(* What the steps write into a request. *)
LEMMA ArrivingCall ==
    ASSUME NEW call \in Call, NEW op \in Operation, NEW list \in Seq(Token),
           NEW tokens \in SUBSET Token
    PROVE  [call EXCEPT !.pc = "auth", !.op = op, !.tokens = list,
                        !.brought = tokens] \in Call
BY DEF Call

LEMMA TriedCall ==
    ASSUME NEW call \in Call, NEW list \in Seq(Token)
    PROVE  [call EXCEPT !.tokens = list] \in Call
BY DEF Call

LEMMA FailedCall ==
    ASSUME NEW call \in Call, NEW list \in Seq(Token)
    PROVE  [call EXCEPT !.tokens = list, !.failed = TRUE] \in Call
BY DEF Call

LEMMA AdmittedCall ==
    ASSUME NEW call \in Call, NEW u \in User, NEW granted \in Column
    PROVE  [call EXCEPT !.pc = "handler", !.tokens = <<>>, !.account = u,
                        !.granted = granted] \in Call
<1>1. <<>> \in Seq(Token)
  OBVIOUS
<1> QED BY <1>1 DEF Call

LEMMA RefusedCall ==
    ASSUME NEW call \in Call
    PROVE  [call EXCEPT !.pc = "done", !.tokens = <<>>, !.answer = "403"] \in Call
<1>1. <<>> \in Seq(Token)
  OBVIOUS
<1> QED BY <1>1 DEF Call, Answer

LEMMA AnsweredCall ==
    ASSUME NEW call \in Call, NEW answer \in Answer
    PROVE  [call EXCEPT !.pc = "done", !.answer = answer] \in Call
BY DEF Call

LEMMA CountedCall ==
    ASSUME NEW call \in Call, NEW of \in User \cup {Nobody}, NEW groups \in SUBSET Group
    PROVE  [call EXCEPT !.pc = "counted", !.of = of, !.counted = groups] \in Call
BY DEF Call

LEMMA ShownCall ==
    ASSUME NEW call \in Call, NEW groups \in SUBSET Group
    PROVE  [call EXCEPT !.pc = "done", !.answer = "200", !.shown = groups] \in Call
BY DEF Call, Answer

LEMMA ReplyType ==
    ASSUME TypeInv, NEW q \in Request, NEW answer \in Answer, Reply(q, answer)
    PROVE  request' \in [Request -> Call]
BY CallTypes, AnsweredCall DEF Reply, TypeInv

LEMMA RequestKeepsType ==
    ASSUME TypeInv, NEW q \in Request,
           \/ Unknown(q) \/ LookupFails(q) \/ Resolve(q) \/ GiveUp(q) \/ Handle(q)
           \/ ListPage(q)
    PROVE  TypeInv'
<1>1. UNCHANGED world
  BY DEF Unknown, LookupFails, Resolve, GiveUp, Handle, ListPage
<1>2. CASE Unknown(q) \/ LookupFails(q)
  <2>1. Tail(request[q].tokens) \in Seq(Token)
    BY <1>2, CallTypes, TokenLists DEF Unknown, LookupFails
  <2>2. CASE Unknown(q)
    BY <1>1, <2>1, <2>2, CallTypes, TriedCall DEF Unknown, world, TypeInv
  <2>3. CASE LookupFails(q)
    BY <1>1, <2>1, <2>3, CallTypes, FailedCall DEF LookupFails, world, TypeInv
  <2> QED BY <1>2, <2>2, <2>3
<1>3. CASE Resolve(q)
  <2>1. PICK u \in User :
             \/ request' = [request EXCEPT ![q].pc = "handler", ![q].tokens = <<>>,
                                           ![q].account = u,
                                           ![q].granted = row[u].access]
             \/ request' = [request EXCEPT ![q].pc = "done", ![q].tokens = <<>>,
                                           ![q].answer = "403"]
    BY <1>3 DEF Resolve, Owners
  <2>2. row[u].access \in Column
    BY DEF TypeInv, Row
  <2>3. [request[q] EXCEPT !.pc = "handler", !.tokens = <<>>, !.account = u,
                           !.granted = row[u].access] \in Call
    BY <2>2, CallTypes, AdmittedCall
  <2>4. [request[q] EXCEPT !.pc = "done", !.tokens = <<>>, !.answer = "403"] \in Call
    BY CallTypes, RefusedCall
  <2>5. request' \in [Request -> Call]
    BY <2>1, <2>3, <2>4 DEF TypeInv
  <2> QED BY <1>1, <2>5 DEF world, TypeInv
<1>4. CASE GiveUp(q) \/ Handle(q)
  <2>1. \E answer \in Answer : Reply(q, answer)
    BY <1>4 DEF GiveUp, Handle, Verdict, Answer
  <2> QED BY <1>1, <2>1, ReplyType DEF world, TypeInv
<1>5. CASE ListPage(q)
  <2>1. Groups(request[q].of) \in SUBSET Group
    BY DEF Groups, Group
  <2>2. [request[q] EXCEPT !.pc = "done", !.answer = "200",
                           !.shown = Groups(request[q].of)] \in Call
    BY <2>1, CallTypes, ShownCall
  <2>3. CASE Reply(q, "503")
    BY <1>1, <2>3, ReplyType DEF Answer, world, TypeInv
  <2>4. CASE request' = [request EXCEPT ![q].pc = "done", ![q].answer = "200",
                                        ![q].shown = Groups(request[q].of)]
    BY <1>1, <2>2, <2>4 DEF world, TypeInv
  <2> QED BY <1>5, <2>3, <2>4 DEF ListPage
<1> QED BY <1>2, <1>3, <1>4, <1>5

LEMMA TypeNext == TypeInv /\ VerdictInv /\ [Next]_vars => TypeInv'
<1> SUFFICES ASSUME TypeInv, VerdictInv, [Next]_vars PROVE TypeInv'
  OBVIOUS
<1>1. ASSUME NEW q \in Request, NEW op \in Called, NEW b \in Brought,
             Arrive(q, op, b.headers, b.cookies)
      PROVE  TypeInv'
  <2> DEFINE tokens == Presented(b.headers, b.cookies)
  <2>1. tokens \in Seq(Token) /\ ToSet(tokens) \in SUBSET Token /\ op \in Operation
    BY PresentedType, TokenLists
  <2>2. request' \in [Request -> Call]
    <3>1. request' = [request EXCEPT ![q].pc = "auth", ![q].op = op,
                                     ![q].tokens = tokens, ![q].brought = ToSet(tokens)]
      BY <1>1 DEF Arrive, tokens
    <3> HIDE DEF tokens
    <3> QED BY <2>1, <3>1, CallTypes, ArrivingCall DEF TypeInv
  <2>3. AccessOf(row, ToSet(tokens)) \subseteq Column
    BY DEF AccessOf, Owners, TypeInv, Row
  <2>4. OwnedOf(row, ToSet(tokens)) \subseteq Token
    BY <2>1 DEF OwnedOf
  <2> QED BY <1>1, <2>2, <2>3, <2>4 DEF Arrive, TypeInv
<1>2. ASSUME NEW q \in Request, NEW channel \in Channel, GenerateRefHandler(q, channel)
      PROVE  TypeInv'
  <2>1. <<request[q].account, channel>> \in Group
    BY <1>2 DEF GenerateRefHandler, Handles, VerdictInv, VerdictOn, Group
  <2> QED BY <1>2, <2>1, ReplyType DEF GenerateRefHandler, Answer, TypeInv
<1>3. ASSUME NEW q \in Request, NEW user \in User \cup {Nobody}, ListHandler(q, user)
      PROVE  TypeInv'
  <2> DEFINE of == Filter(q, user, HaveAnyAccess(request[q].granted, {"admin", "viewall"}))
  <2>1. of \in User \cup {Nobody} /\ Counted(of) \in SUBSET Group
    BY CallTypes DEF Filter, Counted, Groups, Group
  <2>2. CASE \E answer \in Answer : Reply(q, answer)
    BY <1>3, <2>2, ReplyType DEF ListHandler, world, TypeInv
  <2>3. CASE request' = [request EXCEPT ![q].pc = "counted", ![q].of = of,
                                        ![q].counted = Counted(of)]
    <3> HIDE DEF of
    <3>1. request' \in [Request -> Call]
      BY <2>1, <2>3, CallTypes, CountedCall DEF TypeInv
    <3> QED BY <1>3, <3>1 DEF ListHandler, world, TypeInv
  <2> QED BY <1>3, <2>2, <2>3 DEF ListHandler, Answer
<1>4. ASSUME NEW q \in Request, NEW user \in User, NEW values \in AccessGiven,
             UpdateHandler(q, user, values)
      PROVE  TypeInv'
  <2>1. request' \in [Request -> Call]
    BY <1>4, ReplyType DEF UpdateHandler, Answer
  <2>2. CASE UNCHANGED <<row, seen, lasting>>
    BY <1>4, <2>1, <2>2 DEF UpdateHandler, TypeInv
  <2>3. CASE Encodable(values) /\ row' = [row EXCEPT ![user].access = values]
             /\ Remember(row')
    <3>1. row' \in [User -> Row]
      BY <2>3 DEF Encodable, TypeInv, Row, Column
    <3> QED BY <1>4, <2>1, <2>3, <3>1, RememberTypes DEF UpdateHandler, TypeInv
  <2> QED BY <1>4, <2>2, <2>3 DEF UpdateHandler
<1>5. ASSUME NEW user \in User, NEW token \in LoginToken, Rotate(user, token)
      PROVE  TypeInv'
  <2>1. row' \in [User -> Row] /\ rotated' \subseteq LoginToken
    BY <1>5 DEF Rotate, TypeInv, Row
  <2> QED BY <1>5, <2>1, RememberTypes DEF Rotate, TypeInv
<1>6. ASSUME NEW ref, RegisterHandler(ref) PROVE TypeInv'
  BY <1>6 DEF RegisterHandler, Referral, TypeInv, Group
<1>7. ASSUME NEW cookies, DocsTokenHandler(cookies) PROVE TypeInv'
  BY <1>7 DEF DocsTokenHandler, TypeInv
<1>8. CASE UNCHANGED vars
  BY <1>8 DEF vars, TypeInv
<1> QED BY <1>1, <1>2, <1>3, <1>4, <1>5, <1>6, <1>7, <1>8, RequestKeepsType DEF Next

-----------------------------------------------------------------------------
(* What a step does to one request, and what it does to the accounts.      *)
LEMMA MoveOfRequest ==
    ASSUME TypeInv, [Next]_vars, NEW q \in Request
    PROVE  \/ request'[q] = request[q]
           \/ \E op \in Called, b \in Brought :
                Given(b.headers \o b.cookies) /\ Arrive(q, op, b.headers, b.cookies)
           \/ Unknown(q) \/ LookupFails(q) \/ Resolve(q) \/ GiveUp(q)
           \/ Handle(q)
           \/ \E channel \in Channel : GenerateRefHandler(q, channel)
           \/ \E user \in User \cup {Nobody} : ListHandler(q, user)
           \/ ListPage(q)
           \/ \E user \in User, values \in AccessGiven : UpdateHandler(q, user, values)
<1>1. SUFFICES ASSUME NEW r \in Request, r # q,
             \/ \E op \in Called, b \in Brought : Arrive(r, op, b.headers, b.cookies)
             \/ Unknown(r) \/ LookupFails(r) \/ Resolve(r) \/ GiveUp(r)
             \/ Handle(r)
             \/ \E channel \in Channel : GenerateRefHandler(r, channel)
             \/ \E user \in User \cup {Nobody} : ListHandler(r, user)
             \/ ListPage(r)
             \/ \E user \in User, values \in AccessGiven : UpdateHandler(r, user, values)
      PROVE  request'[q] = request[q]
  <2>2. \A user, token : Rotate(user, token) => request' = request
    BY DEF Rotate
  <2>3. \A ref : RegisterHandler(ref) => request' = request
    BY DEF RegisterHandler
  <2>4. \A cookies : DocsTokenHandler(cookies) => request' = request
    BY DEF DocsTokenHandler
  <2>5. UNCHANGED vars => request' = request
    BY DEF vars
  <2> QED BY SMTT(20), <2>2, <2>3, <2>4, <2>5 DEF Next
<1>2. CASE \E op \in Called, b \in Brought : Arrive(r, op, b.headers, b.cookies)
  BY <1>1, <1>2 DEF Arrive, TypeInv
<1>3. CASE Unknown(r) \/ LookupFails(r)
  BY <1>1, <1>3 DEF Unknown, LookupFails, TypeInv
<1>4. CASE Resolve(r)
  BY <1>1, <1>4 DEF Resolve, TypeInv
<1>5. CASE GiveUp(r) \/ Handle(r)
  BY <1>1, <1>5 DEF GiveUp, Handle, Reply, TypeInv
<1>6. CASE \E channel \in Channel : GenerateRefHandler(r, channel)
  BY <1>1, <1>6 DEF GenerateRefHandler, Reply, TypeInv
<1>7. CASE \E user \in User \cup {Nobody} : ListHandler(r, user)
  BY <1>1, <1>7 DEF ListHandler, Reply, TypeInv
<1>8. CASE ListPage(r)
  BY <1>1, <1>8 DEF ListPage, Reply, TypeInv
<1>9. CASE \E user \in User, values \in AccessGiven : UpdateHandler(r, user, values)
  BY <1>1, <1>9 DEF UpdateHandler, Reply, TypeInv
<1> QED BY <1>1, <1>2, <1>3, <1>4, <1>5, <1>6, <1>7, <1>8, <1>9

Updated(user, values) ==
    /\ row' = [row EXCEPT ![user].access = values]
    /\ rotated' = rotated
    /\ Remember(row')

LEMMA MoveOfAccounts ==
    ASSUME TypeInv, [Next]_vars
    PROVE  \/ UNCHANGED <<row, rotated, seen, lasting>>
           \/ \E q \in Request, op \in Called, b \in Brought :
                Given(b.headers \o b.cookies) /\ Arrive(q, op, b.headers, b.cookies)
           \/ \E user \in User, token \in LoginToken : Rotate(user, token)
           \/ /\ \E q \in Request, user \in User, values \in AccessGiven :
                    UpdateHandler(q, user, values)
              /\ \E user \in User, values \in SUBSET Permission : Updated(user, values)
<1>1. ASSUME NEW q \in Request,
             \/ Unknown(q) \/ LookupFails(q) \/ Resolve(q) \/ GiveUp(q)
             \/ Handle(q) \/ ListPage(q)
      PROVE  UNCHANGED <<row, rotated, seen, lasting>>
  BY <1>1 DEF Unknown, LookupFails, Resolve, GiveUp, Handle, ListPage, world
<1>2. ASSUME NEW q \in Request,
             \/ \E channel \in Channel : GenerateRefHandler(q, channel)
             \/ \E user \in User \cup {Nobody} : ListHandler(q, user)
      PROVE  UNCHANGED <<row, rotated, seen, lasting>>
  BY <1>2 DEF GenerateRefHandler, ListHandler, world
<1>3. ASSUME NEW q \in Request, NEW user \in User, NEW values \in AccessGiven,
             UpdateHandler(q, user, values)
      PROVE  \/ UNCHANGED <<row, rotated, seen, lasting>>
             \/ values \in SUBSET Permission /\ Updated(user, values)
  BY <1>3 DEF UpdateHandler, Encodable, Updated
<1>4. ASSUME NEW ref, RegisterHandler(ref)
      PROVE  UNCHANGED <<row, rotated, seen, lasting>>
  BY <1>4 DEF RegisterHandler
<1>5. ASSUME NEW cookies, DocsTokenHandler(cookies)
      PROVE  UNCHANGED <<row, rotated, seen, lasting>>
  BY <1>5 DEF DocsTokenHandler
<1>6. CASE UNCHANGED vars
  BY <1>6 DEF vars
<1>7. CASE Next
  BY <1>1, <1>2, <1>3, <1>4, <1>5, <1>7 DEF Next
<1> QED BY <1>6, <1>7

(* Once its verdict is near, a request keeps what it brought.              *)
LEMMA LaterMoves ==
    ASSUME TypeInv, NEW q \in Request,
           \/ Resolve(q) \/ GiveUp(q) \/ Handle(q)
           \/ \E channel \in Channel : GenerateRefHandler(q, channel)
           \/ \E user \in User \cup {Nobody} : ListHandler(q, user)
           \/ ListPage(q)
           \/ \E user \in User, values \in AccessGiven : UpdateHandler(q, user, values)
    PROVE  /\ request'[q].brought = request[q].brought
           /\ request'[q].op = request[q].op
           /\ request'[q].pc \in {"handler", "counted", "done"}
           /\ request'[q].tokens \in {request[q].tokens, <<>>}
<1> DEFINE Goal == /\ request'[q].brought = request[q].brought
                   /\ request'[q].op = request[q].op
                   /\ request'[q].pc \in {"handler", "counted", "done"}
                   /\ request'[q].tokens \in {request[q].tokens, <<>>}
<1>1. request \in [Request -> Call] /\ request[q] \in Call
  BY DEF TypeInv
<1>2. ASSUME NEW answer, Reply(q, answer) PROVE Goal
  BY <1>1, <1>2 DEF Reply, Call
<1>3. CASE Resolve(q)
  <2>1. PICK u \in User :
             \/ request' = [request EXCEPT ![q].pc = "handler", ![q].tokens = <<>>,
                                           ![q].account = u,
                                           ![q].granted = row[u].access]
             \/ request' = [request EXCEPT ![q].pc = "done", ![q].tokens = <<>>,
                                           ![q].answer = "403"]
    BY <1>3 DEF Resolve, Owners
  <2> QED BY <1>1, <2>1 DEF Call
<1>4. CASE ListPage(q)
  BY <1>1, <1>2, <1>4 DEF ListPage, Call
<1>5. CASE \E user \in User \cup {Nobody} : ListHandler(q, user)
  <2>1. ASSUME NEW of, request' = [request EXCEPT ![q].pc = "counted", ![q].of = of,
                                                  ![q].counted = Counted(of)]
        PROVE  Goal
    BY <1>1, <2>1 DEF Call
  <2>2. Goal
    <3> HIDE DEF Goal
    <3> QED BY <1>2, <1>5, <2>1 DEF ListHandler
  <2> QED BY <2>2
<1> QED BY <1>2, <1>3, <1>4, <1>5 DEF GiveUp, Handle, GenerateRefHandler, UpdateHandler

LEMMA TokensNext == TypeInv /\ TokensInv /\ [Next]_vars => TokensInv'
<1> SUFFICES ASSUME TypeInv, TokensInv, [Next]_vars PROVE TokensInv'
  OBVIOUS
<1>1. CASE UNCHANGED <<row, rotated, seen, lasting>>
  BY <1>1 DEF TokensInv
<1>2. CASE \E q \in Request, op \in Called, b \in Brought :
              Given(b.headers \o b.cookies) /\ Arrive(q, op, b.headers, b.cookies)
  BY <1>2 DEF Arrive, TokensInv
<1>3. ASSUME NEW user \in User, NEW token \in LoginToken, Rotate(user, token)
      PROVE  TokensInv'
  <2>1. \A u \in User : row'[u].token = IF u = user THEN token ELSE row[u].token
    BY <1>3 DEF Rotate, TypeInv, Row
  <2> QED BY <1>3, <2>1 DEF Rotate, TokensInv
<1>4. ASSUME NEW user \in User, NEW values, Updated(user, values) PROVE TokensInv'
  <2>1. \A u \in User : row'[u].token = row[u].token
    BY <1>4 DEF Updated, TypeInv, Row
  <2> QED BY <1>4, <2>1 DEF Updated, TokensInv
<1> QED BY <1>1, <1>2, <1>3, <1>4, MoveOfAccounts

-----------------------------------------------------------------------------
(* What a request brought. *)
LEMMA GivenTokens ==
    ASSUME TypeInv, NEW b \in Brought, Given(b.headers \o b.cookies),
           NEW k \in LoginToken, <<k>> \in ToSet(Presented(b.headers, b.cookies))
    PROVE  k \in rotated \/ \E u \in User : row[u].token = k
<1> DEFINE headers == b.headers
           cookies == b.cookies
<1>1. headers \in Seq(Token) /\ cookies \in Seq(Token)
  OBVIOUS
<1>2. \A texts \in Seq(Token) : /\ Single(texts) \in Seq(Token)
                               /\ ToSet(Single(texts)) \subseteq ToSet(texts)
  BY DEF Single, ToSet
<1>3. ToSet(Presented(headers, cookies)) \subseteq ToSet(headers) \cup ToSet(cookies)
  <2> DEFINE bearer == Single(headers)
             cookie == Single(cookies)
  <2>1. bearer \in Seq(Token) /\ cookie \in Seq(Token)
        /\ ToSet(bearer) \subseteq ToSet(headers) /\ ToSet(cookie) \subseteq ToSet(cookies)
    BY <1>1, <1>2
  <2>2. Presented(headers, cookies) \in {bearer, bearer \o cookie}
    BY DEF Presented
  <2> HIDE DEF bearer, cookie
  <2>3. ToSet(bearer \o cookie) = ToSet(bearer) \cup ToSet(cookie)
    BY <2>1, JoinedTokens
  <2> QED BY <2>1, <2>2, <2>3
<1>4. <<k>> \in ToSet(headers \o cookies)
  BY <1>1, <1>3, JoinedTokens
<1>5. <<k>> \notin issued \cup {Forged}
  <2>1. \A u \in User, c \in Channel : <<k>> # <<u, c>>
    <3> SUFFICES ASSUME NEW u \in User, NEW c \in Channel PROVE <<k>> # <<u, c>>
      OBVIOUS
    <3>1. Len(<<k>>) = 1 /\ Len(<<u, c>>) = 2
      OBVIOUS
    <3> QED BY <3>1
  <2>2. <<k>> \notin Group
    <3> SUFFICES ASSUME <<k>> \in User \X Channel PROVE FALSE
      BY DEF Group
    <3>1. \A g \in User \X Channel : g = <<g[1], g[2]>> /\ g[1] \in User /\ g[2] \in Channel
      OBVIOUS
    <3> QED BY <2>1, <3>1
  <2>3. Forged # <<k>>
    OBVIOUS
  <2> QED BY <2>2, <2>3 DEF TypeInv
<1>6. \E j \in rotated \cup {row[u].token : u \in User} : <<k>> = <<j>>
  BY <1>4, <1>5 DEF Given
<1> QED BY <1>6

LEMMA Arriving ==
    ASSUME TypeInv, NEW q \in Request, NEW op \in Called, NEW b \in Brought,
           Given(b.headers \o b.cookies), Arrive(q, op, b.headers, b.cookies)
    PROVE  BroughtBy(q)'
<1> DEFINE tokens == Presented(b.headers, b.cookies)
<1>1. tokens \in Seq(Token)
  BY PresentedType
<1>2. /\ request'[q].tokens = tokens /\ request'[q].brought = ToSet(tokens)
      /\ seen'[q] = AccessOf(row, ToSet(tokens))
      /\ lasting'[q] = OwnedOf(row, ToSet(tokens))
      /\ row' = row /\ rotated' = rotated
  BY CallTypes DEF Arrive, TypeInv, Call
<1>3. \A k \in LoginToken : <<k>> \in ToSet(tokens) =>
        k \in rotated \/ \E u \in User : row[u].token = k
  BY GivenTokens
<1>4. OwnedOf(row, ToSet(tokens)) \subseteq ToSet(tokens)
  BY DEF OwnedOf
<1> HIDE DEF tokens
<1> QED BY <1>2, <1>3, <1>4 DEF BroughtBy

LEMMA BroughtNext ==
    TypeInv /\ TokensInv /\ BroughtInv /\ [Next]_vars => BroughtInv'
<1> SUFFICES ASSUME TypeInv, TokensInv, BroughtInv, [Next]_vars, NEW q \in Request
             PROVE  BroughtBy(q)'
  BY DEF BroughtInv
<1>1. BroughtBy(q)
  BY DEF BroughtInv
<1>2. CASE UNCHANGED <<row, rotated, seen, lasting>>
  <2>1. CASE request'[q] = request[q]
    BY <1>1, <1>2, <2>1 DEF BroughtBy
  <2>2. CASE Unknown(q) \/ LookupFails(q)
    <3>1. /\ request'[q].brought = request[q].brought
          /\ request'[q].tokens = Tail(request[q].tokens)
          /\ request'[q].failed \/ (Unknown(q) /\ request'[q].failed = request[q].failed)
      <4>1. CASE Unknown(q)
        BY <4>1, CallTypes DEF Unknown, TypeInv, Call
      <4>2. CASE LookupFails(q)
        BY <4>2, CallTypes DEF LookupFails, TypeInv, Call
      <4> QED BY <2>2, <4>1, <4>2
    <3>2. /\ request[q].pc = "auth" /\ request[q].tokens # <<>>
          /\ Unknown(q) => Owners(row, Head(request[q].tokens)) = {}
      BY <2>2 DEF Unknown, LookupFails
    <3>3. Unknown(q) => Head(request[q].tokens) \notin lasting[q]
      BY <1>1, <3>2 DEF BroughtBy, OwnedOf
    <3>4. /\ ToSet(Tail(request[q].tokens)) \subseteq ToSet(request[q].tokens)
          /\ ToSet(request[q].tokens)
                \subseteq {Head(request[q].tokens)} \cup ToSet(Tail(request[q].tokens))
      BY <3>2, CallTypes, TokenLists
    <3> QED BY <1>1, <1>2, <2>2, <3>1, <3>2, <3>3, <3>4 DEF BroughtBy
  <2>3. ASSUME /\ request'[q].brought = request[q].brought
               /\ request'[q].op = request[q].op
               /\ request'[q].pc \in {"handler", "counted", "done"}
               /\ request'[q].tokens \in {request[q].tokens, <<>>}
        PROVE  BroughtBy(q)'
    <3>1. ToSet(<<>>) = {}
      BY DEF ToSet
    <3> QED BY <1>1, <1>2, <2>3, <3>1 DEF BroughtBy
  <2> QED BY <2>1, <2>2, <2>3, MoveOfRequest, LaterMoves, Arriving
<1>3. CASE \E r \in Request, op \in Called, b \in Brought :
              Given(b.headers \o b.cookies) /\ Arrive(r, op, b.headers, b.cookies)
  <2>1. PICK r \in Request, op \in Called, b \in Brought :
              Given(b.headers \o b.cookies) /\ Arrive(r, op, b.headers, b.cookies)
    BY <1>3
  <2>2. CASE r = q
    BY <2>1, <2>2, Arriving
  <2>3. CASE r # q
    <3>1. /\ request'[q] = request[q] /\ seen'[q] = seen[q] /\ lasting'[q] = lasting[q]
          /\ row' = row /\ rotated' = rotated
      BY <2>1, <2>3 DEF Arrive, TypeInv
    <3> QED BY <1>1, <3>1 DEF BroughtBy
  <2> QED BY <2>2, <2>3
<1>4. ASSUME NEW user \in User, NEW token \in LoginToken, Rotate(user, token)
      PROVE  BroughtBy(q)'
  <2>1. \A u \in User : row'[u].token = IF u = user THEN token ELSE row[u].token
    BY <1>4 DEF Rotate, TypeInv, Row
  <2>2. /\ request' = request /\ rotated' = rotated \cup {row[user].token}
        /\ token \notin rotated /\ \A u \in User : row[u].token # token
        /\ seen'[q] = seen[q] \cup AccessOf(row', request[q].brought)
        /\ lasting'[q] = OwnedOf(row', lasting[q])
    BY <1>4 DEF Rotate, Remember
  <2>3. <<token>> \notin request[q].brought
    BY <1>1, <2>2 DEF BroughtBy
  <2>4. OwnedOf(row', lasting[q]) = OwnedOf(row', request[q].brought)
    BY <1>1, <2>1, <2>3 DEF BroughtBy, OwnedOf, Owners
  <2>5. OwnedOf(row', lasting[q]) \subseteq lasting[q]
    BY DEF OwnedOf
  <2> QED BY <1>1, <2>1, <2>2, <2>4, <2>5 DEF BroughtBy
<1>5. ASSUME NEW r \in Request, NEW values \in AccessGiven, NEW user \in User,
             UpdateHandler(r, user, values),
             NEW given \in SUBSET Permission, NEW owner \in User, Updated(owner, given)
      PROVE  BroughtBy(q)'
  <2>1. \A u \in User : row'[u].token = row[u].token
    BY <1>5 DEF Updated, TypeInv, Row
  <2>2. /\ rotated' = rotated
        /\ seen'[q] = seen[q] \cup AccessOf(row', request[q].brought)
        /\ lasting'[q] = OwnedOf(row', lasting[q])
    BY <1>5 DEF Updated, Remember
  <2>3. \A tokens : OwnedOf(row', tokens) = OwnedOf(row, tokens)
    BY <2>1 DEF OwnedOf, Owners
  <2>4. OwnedOf(row, OwnedOf(row, request[q].brought)) = OwnedOf(row, request[q].brought)
    BY DEF OwnedOf
  <2>5. lasting'[q] = lasting[q] /\ lasting'[q] = OwnedOf(row', request[q].brought)
    BY <1>1, <2>2, <2>3, <2>4 DEF BroughtBy
  <2>6. \/ request'[q] = request[q]
        \/ /\ request'[q].brought = request[q].brought
           /\ request'[q].tokens \in {request[q].tokens, <<>>}
           /\ request'[q].pc = "done"
    <3>1. ASSUME NEW answer, Reply(r, answer), r = q
          PROVE  /\ request'[q].brought = request[q].brought
                 /\ request'[q].tokens = request[q].tokens
                 /\ request'[q].pc = "done"
      BY <3>1, CallTypes DEF Reply, TypeInv, Call
    <3>2. ASSUME NEW answer, Reply(r, answer), r # q PROVE request'[q] = request[q]
      BY <3>2 DEF Reply, TypeInv
    <3> QED BY <1>5, <3>1, <3>2 DEF UpdateHandler
  <2>7. ToSet(<<>>) = {}
    BY DEF ToSet
  <2>8. /\ request'[q].brought = request[q].brought
        /\ request'[q].pc = "auth" => request'[q] = request[q]
        /\ request'[q].tokens \in {request[q].tokens, <<>>}
    BY <2>6
  <2>9. \A k \in LoginToken : <<k>> \in request'[q].brought =>
           k \in rotated' \/ \E u \in User : row'[u].token = k
    BY <1>1, <2>1, <2>2, <2>8 DEF BroughtBy
  <2>10. ToSet(request'[q].tokens) \subseteq request'[q].brought
    BY <1>1, <2>7, <2>8 DEF BroughtBy
  <2>11. request'[q].pc = "auth" /\ ~ request'[q].failed =>
            lasting'[q] \subseteq ToSet(request'[q].tokens)
    BY <1>1, <2>5, <2>8 DEF BroughtBy
  <2>12. AccessOf(row', request'[q].brought) \subseteq seen'[q]
    BY <2>2, <2>8
  <2> QED BY <2>5, <2>8, <2>9, <2>10, <2>11, <2>12 DEF BroughtBy
<1> QED BY <1>2, <1>3, <1>4, <1>5, MoveOfAccounts

-----------------------------------------------------------------------------
(* The verdicts. *)
LEMMA HistoryGrows ==
    ASSUME TypeInv, [Next]_vars, NEW q \in Request
    PROVE  \/ \E op \in Called, b \in Brought : Arrive(q, op, b.headers, b.cookies)
           \/ seen[q] \subseteq seen'[q] /\ (lasting[q] = {} => lasting'[q] = {})
<1>1. CASE UNCHANGED <<row, rotated, seen, lasting>>
  BY <1>1
<1>2. ASSUME NEW r \in Request, NEW op \in Called, NEW b \in Brought,
             Arrive(r, op, b.headers, b.cookies), r # q
      PROVE  seen'[q] = seen[q] /\ lasting'[q] = lasting[q]
  BY <1>2 DEF Arrive, TypeInv
<1>3. ASSUME Remember(row')
      PROVE  seen[q] \subseteq seen'[q] /\ (lasting[q] = {} => lasting'[q] = {})
  BY <1>3 DEF Remember, OwnedOf
<1> QED BY <1>1, <1>2, <1>3, MoveOfAccounts DEF Rotate, Updated

LEMMA RepliedVerdict ==
    ASSUME TypeInv, NEW q \in Request, VerdictOn(q), request[q].pc \in {"handler", "counted"},
           NEW answer \in Answer \ {"401"}, Reply(q, answer), seen[q] \subseteq seen'[q]
    PROVE  VerdictOn(q)'
<1>1. /\ request'[q].pc = "done" /\ request'[q].answer = answer
      /\ request'[q].op = request[q].op /\ request'[q].account = request[q].account
  BY CallTypes DEF Reply, TypeInv, Call
<1> QED BY <1>1 DEF VerdictOn

LEMMA VerdictNext ==
    TypeInv /\ BroughtInv /\ VerdictInv /\ [Next]_vars => VerdictInv'
<1> SUFFICES ASSUME TypeInv, BroughtInv, VerdictInv, [Next]_vars, NEW q \in Request
             PROVE  VerdictOn(q)'
  BY DEF VerdictInv
<1>1. VerdictOn(q) /\ BroughtBy(q)
  BY DEF VerdictInv, BroughtInv
<1>2. ASSUME NEW op \in Called, NEW b \in Brought, Arrive(q, op, b.headers, b.cookies)
      PROVE  VerdictOn(q)'
  <2>1. /\ request[q].pc = "idle" /\ request'[q].pc = "auth"
        /\ request'[q].answer = request[q].answer
    BY <1>2, CallTypes DEF Arrive, TypeInv, Call
  <2> QED BY <1>1, <2>1 DEF VerdictOn
<1>3. ASSUME seen[q] \subseteq seen'[q], lasting[q] = {} => lasting'[q] = {}
      PROVE  VerdictOn(q)'
  <2>1. CASE request'[q] = request[q]
    BY <1>1, <1>3, <2>1 DEF VerdictOn
  <2>2. CASE Unknown(q) \/ LookupFails(q)
    <3>1. /\ request'[q].pc = "auth" /\ request[q].pc = "auth"
          /\ request'[q].answer = request[q].answer
      <4>1. CASE Unknown(q)
        BY <4>1, CallTypes DEF Unknown, TypeInv, Call
      <4>2. CASE LookupFails(q)
        BY <4>2, CallTypes DEF LookupFails, TypeInv, Call
      <4> QED BY <2>2, <4>1, <4>2
    <3> QED BY <1>1, <3>1 DEF VerdictOn
  <2>3. CASE Resolve(q)
    <3>1. /\ request[q].pc = "auth" /\ request[q].answer = "none"
          /\ request[q].tokens # <<>> /\ row' = row /\ seen' = seen
      BY <1>1, <2>3 DEF Resolve, VerdictOn, world
    <3>2. PICK u \in Owners(row, Head(request[q].tokens)) :
             \/ /\ Admits(row[u].access, Policy[request[q].op])
                /\ request' = [request EXCEPT ![q].pc = "handler", ![q].tokens = <<>>,
                                              ![q].account = u,
                                              ![q].granted = row[u].access]
             \/ /\ ~ Admits(row[u].access, Policy[request[q].op])
                /\ request' = [request EXCEPT ![q].pc = "done", ![q].tokens = <<>>,
                                              ![q].answer = "403"]
      BY <2>3 DEF Resolve
    <3>3. u \in User /\ row[u].access \in Column
      BY DEF Owners, TypeInv, Row
    <3>4. Head(request[q].tokens) \in request[q].brought
      BY <1>1, <3>1, CallTypes, TokenLists DEF BroughtBy
    <3>5. row[u].access \in seen[q]
      BY <1>1, <3>2, <3>4 DEF BroughtBy, AccessOf
    <3>6. Admits(row[u].access, Policy[request[q].op])
             <=> Suffices(row[u].access, request[q].op)
      BY <3>3, CallTypes, PolicyFacts
    <3>7. \/ /\ Suffices(row[u].access, request[q].op)
             /\ request'[q].pc = "handler" /\ request'[q].answer = "none"
             /\ request'[q].account = u /\ request'[q].op = request[q].op
          \/ /\ ~ Suffices(row[u].access, request[q].op)
             /\ request'[q].pc = "done" /\ request'[q].answer = "403"
             /\ request'[q].op = request[q].op
      BY <3>1, <3>2, <3>6, CallTypes DEF TypeInv, Call
    <3> QED BY <1>3, <3>3, <3>5, <3>7 DEF VerdictOn
  <2>4. CASE GiveUp(q)
    <3>1. /\ request[q].pc = "auth" /\ request[q].tokens = <<>>
          /\ request'[q].pc = "done"
          /\ request'[q].answer = Verdict(request[q].failed)
      BY <2>4, CallTypes DEF GiveUp, Reply, TypeInv, Call
    <3>2. ToSet(<<>>) = {}
      BY DEF ToSet
    <3>3. ~ request[q].failed => lasting[q] = {}
      BY <1>1, <3>1, <3>2 DEF BroughtBy
    <3> QED BY <1>3, <3>1, <3>3 DEF VerdictOn, Verdict
  <2>5. CASE Handle(q) \/ \E channel \in Channel : GenerateRefHandler(q, channel)
    <3>1. request[q].pc = "handler" /\ \E answer \in Answer \ {"401"} : Reply(q, answer)
      BY <2>5 DEF Handle, GenerateRefHandler, Handles, Answer
    <3> QED BY <1>1, <1>3, <3>1, RepliedVerdict
  <2>6. CASE \E user \in User, values \in AccessGiven : UpdateHandler(q, user, values)
    <3>1. request[q].pc = "handler" /\ \E answer \in Answer \ {"401"} : Reply(q, answer)
      BY <2>6 DEF UpdateHandler, Handles, Answer
    <3> QED BY <1>1, <1>3, <3>1, RepliedVerdict
  <2>7. ASSUME NEW user \in User \cup {Nobody}, ListHandler(q, user) PROVE VerdictOn(q)'
    <3>1. request[q].pc = "handler"
      BY <2>7 DEF ListHandler, Handles
    <3>2. CASE \E answer \in Answer \ {"401"} : Reply(q, answer)
      BY <1>1, <1>3, <3>1, <3>2, RepliedVerdict
    <3>3. ASSUME NEW of, request' = [request EXCEPT ![q].pc = "counted", ![q].of = of,
                                                    ![q].counted = Counted(of)]
          PROVE  VerdictOn(q)'
      <4>1. /\ request'[q].pc = "counted" /\ request'[q].answer = request[q].answer
            /\ request'[q].op = request[q].op /\ request'[q].account = request[q].account
        BY <3>3, CallTypes DEF TypeInv, Call
      <4> QED BY <1>1, <1>3, <3>1, <4>1 DEF VerdictOn
    <3>4. \/ \E answer \in Answer \ {"401"} : Reply(q, answer)
          \/ \E of : request' = [request EXCEPT ![q].pc = "counted", ![q].of = of,
                                                ![q].counted = Counted(of)]
      BY <2>7 DEF ListHandler, Answer
    <3> HIDE DEF VerdictOn
    <3> QED BY <3>2, <3>3, <3>4
  <2>8. CASE ListPage(q)
    <3>1. request[q].pc = "counted"
      BY <2>8 DEF ListPage
    <3>2. CASE Reply(q, "503")
      BY <1>1, <1>3, <3>1, <3>2, RepliedVerdict DEF Answer
    <3>3. CASE request' = [request EXCEPT ![q].pc = "done", ![q].answer = "200",
                                          ![q].shown = Groups(request[q].of)]
      <4>1. /\ request'[q].pc = "done" /\ request'[q].answer = "200"
            /\ request'[q].op = request[q].op
        BY <3>3, CallTypes DEF TypeInv, Call
      <4> QED BY <1>1, <1>3, <3>1, <4>1 DEF VerdictOn
    <3> QED BY <2>8, <3>2, <3>3 DEF ListPage
  <2> QED BY <1>2, <2>1, <2>2, <2>3, <2>4, <2>5, <2>6, <2>7, <2>8, MoveOfRequest
<1> QED BY <1>2, <1>3, HistoryGrows

-----------------------------------------------------------------------------
(* The statistics. *)
LEMMA CountsGrow ==
    ASSUME TypeInv, ReferredInv, [Next]_vars
    PROVE  ReferredInv' /\ \A of : Groups(of) \subseteq Groups(of)'
<1>1. CASE UNCHANGED count /\ issued \subseteq issued'
  BY <1>1 DEF ReferredInv, Groups
<1>2. ASSUME NEW ref \in issued \cup {Forged} \cup {<<k>> : k \in LoginToken},
             RegisterHandler(ref)
      PROVE  ReferredInv' /\ \A of : Groups(of) \subseteq Groups(of)'
  <2>1. ref \in Group /\ ref # Forged /\ Len(ref) = 2
    BY <1>2 DEF RegisterHandler, Referral, Group
  <2>2. ref \in issued
    <3>1. \A k \in LoginToken : Len(<<k>>) = 1
      OBVIOUS
    <3> QED BY SMTT(20), <2>1, <3>1
  <2>3. /\ issued' = issued /\ count' \in [Group -> Nat]
        /\ \A g \in Group : count'[g] = IF g = ref THEN count[g] + 1 ELSE count[g]
    BY <1>2, <2>1 DEF RegisterHandler, TypeInv
  <2>4. ReferredInv'
    BY <2>2, <2>3 DEF ReferredInv
  <2>5. \A g \in Group : count[g] > 0 => count'[g] > 0
    <3>1. \A g \in Group : count[g] \in Nat
      BY DEF TypeInv
    <3> QED BY <2>3, <3>1
  <2> QED BY <2>4, <2>5 DEF Groups, Group
<1>3. CASE UNCHANGED vars
  BY <1>1, <1>3 DEF vars
<1>4. ASSUME NEW q \in Request,
             \/ \E op \in Called, b \in Brought : Arrive(q, op, b.headers, b.cookies)
             \/ Unknown(q) \/ LookupFails(q) \/ Resolve(q) \/ GiveUp(q)
             \/ Handle(q)
             \/ \E channel \in Channel : GenerateRefHandler(q, channel)
             \/ \E user \in User \cup {Nobody} : ListHandler(q, user)
             \/ ListPage(q)
             \/ \E user \in User, values \in AccessGiven : UpdateHandler(q, user, values)
      PROVE  UNCHANGED count /\ issued \subseteq issued'
  BY <1>4 DEF Arrive, Unknown, LookupFails, Resolve, GiveUp, Handle, GenerateRefHandler,
              ListHandler, ListPage, UpdateHandler, world
<1>5. CASE \/ \E user \in User, token \in LoginToken : Rotate(user, token)
           \/ \E b \in Brought : DocsTokenHandler(b.cookies)
  BY <1>1, <1>5 DEF Rotate, DocsTokenHandler
<1> QED BY <1>1, <1>2, <1>3, <1>4, <1>5 DEF Next

LEMMA RepliedList ==
    ASSUME TypeInv, NEW q \in Request, ListOn(q), request[q].pc # "done",
           NEW answer, Reply(q, answer),
           answer = "200" => request[q].op # "GET /am/refstatistics/list"
    PROVE  ListOn(q)'
<1>1. /\ request'[q].pc = "done" /\ request'[q].answer = answer
      /\ request'[q].op = request[q].op /\ request'[q].shown = request[q].shown
  BY CallTypes DEF Reply, TypeInv, Call
<1> QED BY <1>1 DEF ListOn

LEMMA ListNext ==
    TypeInv /\ VerdictInv /\ ReferredInv /\ ListInv /\ [Next]_vars => ListInv'
<1> SUFFICES ASSUME TypeInv, VerdictInv, ReferredInv, ListInv, [Next]_vars,
                    NEW q \in Request, ListOn(q)
             PROVE  ListOn(q)'
  BY DEF ListInv
<1>1. \A of : Groups(of) \subseteq Groups(of)'
  BY CountsGrow
<1>2. VerdictOn(q)
  BY DEF VerdictInv
<1>3. CASE request'[q] = request[q]
  BY <1>1, <1>3 DEF ListOn, Privileged
<1>4. CASE \/ \E op \in Called, b \in Brought : Arrive(q, op, b.headers, b.cookies)
           \/ Unknown(q) \/ LookupFails(q)
  <2>1. /\ request[q].pc \in {"idle", "auth"} /\ request'[q].pc = "auth"
        /\ request'[q].answer = request[q].answer /\ request'[q].shown = request[q].shown
    <3>1. CASE \E op \in Called, b \in Brought : Arrive(q, op, b.headers, b.cookies)
      BY <3>1, CallTypes DEF Arrive, TypeInv, Call
    <3>2. CASE Unknown(q)
      BY <3>2, CallTypes DEF Unknown, TypeInv, Call
    <3>3. CASE LookupFails(q)
      BY <3>3, CallTypes DEF LookupFails, TypeInv, Call
    <3> QED BY <1>4, <3>1, <3>2, <3>3
  <2> QED BY <1>2, <2>1 DEF ListOn, VerdictOn
<1>5. CASE Resolve(q)
  <2>1. PICK u \in User :
             \/ request' = [request EXCEPT ![q].pc = "handler", ![q].tokens = <<>>,
                                           ![q].account = u,
                                           ![q].granted = row[u].access]
             \/ request' = [request EXCEPT ![q].pc = "done", ![q].tokens = <<>>,
                                           ![q].answer = "403"]
    BY <1>5 DEF Resolve, Owners
  <2>2. request[q].pc = "auth"
    BY <1>5 DEF Resolve
  <2>3. /\ request'[q].pc \in {"handler", "done"} /\ request'[q].shown = request[q].shown
        /\ request'[q].answer \in {request[q].answer, "403"}
    BY <2>1, CallTypes DEF TypeInv, Call
  <2> QED BY <1>2, <2>2, <2>3 DEF ListOn, VerdictOn
<1>6. CASE \/ GiveUp(q) \/ Handle(q)
           \/ \E channel \in Channel : GenerateRefHandler(q, channel)
           \/ \E user \in User, values \in AccessGiven : UpdateHandler(q, user, values)
  <2>1. request[q].pc \in {"auth", "handler"}
    BY <1>6 DEF GiveUp, Handle, GenerateRefHandler, UpdateHandler, Handles
  <2>2. \E answer : /\ Reply(q, answer)
                    /\ answer = "200" => request[q].op # "GET /am/refstatistics/list"
    <3>1. CASE GiveUp(q)
      <4>1. Verdict(request[q].failed) # "200"
        BY DEF Verdict
      <4> QED BY <3>1, <4>1 DEF GiveUp
    <3>2. CASE Handle(q)
      BY <3>2 DEF Handle, Handles
    <3>3. CASE \E channel \in Channel : GenerateRefHandler(q, channel)
      BY <3>3 DEF GenerateRefHandler, Handles
    <3>4. CASE \E user \in User, values \in AccessGiven : UpdateHandler(q, user, values)
      BY <3>4 DEF UpdateHandler, Handles
    <3> QED BY <1>6, <3>1, <3>2, <3>3, <3>4
  <2> QED BY <2>1, <2>2, RepliedList
<1>7. ASSUME NEW user \in User \cup {Nobody}, ListHandler(q, user) PROVE ListOn(q)'
  <2> DEFINE privileged == HaveAnyAccess(request[q].granted, {"admin", "viewall"})
             of == Filter(q, user, privileged)
  <2>1. request[q].pc = "handler" /\ request[q].op = "GET /am/refstatistics/list"
        /\ count' = count
    BY <1>7 DEF ListHandler, Handles, world
  <2>2. \/ \E answer \in {"403", "503"} : Reply(q, answer)
        \/ request' = [request EXCEPT ![q].pc = "counted", ![q].of = of,
                                      ![q].counted = Counted(of)]
    BY <1>7 DEF ListHandler
  <2>3. CASE \E answer \in {"403", "503"} : Reply(q, answer)
    BY <2>1, <2>3, RepliedList
  <2>4. CASE request' = [request EXCEPT ![q].pc = "counted", ![q].of = of,
                                        ![q].counted = Counted(of)]
    <3>1. PICK f : f = of
      OBVIOUS
    <3>2. Privileged(q) \/ f = request[q].account
      BY <3>1 DEF Filter, HaveAnyAccess, Privileged
    <3>3. request' = [request EXCEPT ![q].pc = "counted", ![q].of = f,
                                     ![q].counted = Counted(f)]
      BY <2>4, <3>1
    <3> HIDE DEF of
    <3>4. /\ request'[q].pc = "counted" /\ request'[q].op = request[q].op
          /\ request'[q].of = f /\ request'[q].counted = Counted(f)
          /\ request'[q].answer = request[q].answer /\ request'[q].shown = request[q].shown
          /\ request'[q].account = request[q].account
          /\ request'[q].granted = request[q].granted
      BY <3>3, CallTypes DEF TypeInv, Call
    <3>5. Counted(f) = Groups(f)'
      BY <2>1 DEF Counted, Groups
    <3>6. request'[q].counted \subseteq Groups(request[q].of)'
      BY <3>4, <3>5
    <3> QED BY <1>2, <2>1, <3>2, <3>4, <3>6 DEF ListOn, VerdictOn, Privileged
  <2> QED BY <2>2, <2>3, <2>4
<1>8. CASE ListPage(q)
  <2>1. request[q].pc = "counted" /\ count' = count
    BY <1>8 DEF ListPage, world
  <2>2. CASE Reply(q, "503")
    BY <2>1, <2>2, RepliedList
  <2>3. CASE request' = [request EXCEPT ![q].pc = "done", ![q].answer = "200",
                                        ![q].shown = Groups(request[q].of)]
    <3>1. /\ request'[q].pc = "done" /\ request'[q].shown = Groups(request[q].of)
          /\ request'[q].counted = request[q].counted
          /\ request'[q].account = request[q].account
          /\ request'[q].granted = request[q].granted
      BY <2>3, CallTypes DEF TypeInv, Call
    <3>2. Groups(request[q].of) \subseteq Groups(Nobody)'
      BY <2>1 DEF Groups
    <3>3. ASSUME NEW g \in Groups(request[q].of), g[1] # request[q].account
          PROVE  Privileged(q)
      BY <1>2, <2>1, <3>3 DEF ListOn, VerdictOn, Groups
    <3> QED BY <2>1, <3>1, <3>2, <3>3 DEF ListOn, Privileged
  <2> QED BY <1>8, <2>2, <2>3 DEF ListPage
<1> QED BY <1>3, <1>4, <1>5, <1>6, <1>7, <1>8, MoveOfRequest

-----------------------------------------------------------------------------
(* The documentation page. *)
LEMMA PageNext == TypeInv /\ PageInv /\ [Next]_vars => PageInv'
<1> SUFFICES ASSUME TypeInv, PageInv, [Next]_vars PROVE PageInv'
  OBVIOUS
<1>1. CASE page' = page
  BY <1>1 DEF PageInv
<1>2. ASSUME NEW cookies, DocsTokenHandler(cookies) PROVE PageInv'
  <2>1. CASE page'.account = Nobody
    BY <2>1 DEF PageInv
  <2>2. ASSUME NEW u \in User, HaveAllAccess(row[u].access, {"user"}),
               page' = Page(u, row[u], View(row[u].access),
                            row[u].access \cap {"admin", "viewall"} # {})
        PROVE  PageInv'
    BY <2>2 DEF Page, PageInv, HaveAllAccess, TypeInv
  <2> DEFINE owners == UNION {Owners(row, t) : t \in ToSet(Single(cookies))}
  <2>3. owners \subseteq User
    BY DEF Owners
  <2>4. \/ page' = Blank \/ page' = Page(Nobody, Nobody, View({}), FALSE)
        \/ \E u \in owners : /\ HaveAllAccess(row[u].access, {"user"})
                              /\ page' = Page(u, row[u], View(row[u].access),
                                       row[u].access \cap {"admin", "viewall"} # {})
    BY <1>2 DEF DocsTokenHandler
  <2>5. Blank.account = Nobody /\ Page(Nobody, Nobody, View({}), FALSE).account = Nobody
    BY DEF Blank, Page
  <2> QED BY <2>1, <2>2, <2>3, <2>4, <2>5
<1>3. ASSUME NEW q \in Request,
             \/ \E op \in Called, b \in Brought : Arrive(q, op, b.headers, b.cookies)
             \/ Unknown(q) \/ LookupFails(q) \/ Resolve(q) \/ GiveUp(q)
             \/ Handle(q)
             \/ \E channel \in Channel : GenerateRefHandler(q, channel)
             \/ \E user \in User \cup {Nobody} : ListHandler(q, user)
             \/ ListPage(q)
             \/ \E user \in User, values \in AccessGiven : UpdateHandler(q, user, values)
      PROVE  page' = page
  BY <1>3 DEF Arrive, Unknown, LookupFails, Resolve, GiveUp, Handle, GenerateRefHandler,
              ListHandler, ListPage, UpdateHandler, world
<1>4. CASE \/ \E user \in User, token \in LoginToken : Rotate(user, token)
           \/ \E ref \in issued \cup {Forged} \cup {<<k>> : k \in LoginToken} :
                RegisterHandler(ref)
           \/ UNCHANGED vars
  BY <1>1, <1>4 DEF Rotate, RegisterHandler, vars
<1> QED BY <1>1, <1>2, <1>3, <1>4 DEF Next

-----------------------------------------------------------------------------
(* The inductive invariant. *)
LEMMA InitInv == Init => AccessInv
<1> SUFFICES ASSUME Init PROVE AccessInv
  OBVIOUS
<1>1. TypeInv
  BY InitType
<1>2. /\ \A u \in User : row[u].token = FirstToken[u]
      /\ rotated = {} /\ \A g \in Group : count[g] = 0
      /\ \A q \in Request : request[q] = Idle /\ seen[q] = {} /\ lasting[q] = {}
      /\ page.account = Nobody
  BY DEF Init, Group
<1>3. TokensInv
  BY <1>2 DEF TokensInv
<1>4. ASSUME NEW q \in Request PROVE BroughtBy(q) /\ VerdictOn(q) /\ ListOn(q)
  <2>1. /\ request[q].pc = "idle" /\ request[q].brought = {} /\ request[q].tokens = <<>>
        /\ request[q].answer = "none" /\ request[q].shown = {}
    <3>1. /\ Idle.pc = "idle" /\ Idle.brought = {} /\ Idle.tokens = <<>>
          /\ Idle.answer = "none" /\ Idle.shown = {}
      BY DEF Idle
    <3> QED BY <1>2, <3>1
  <2>2. ToSet(<<>>) = {} /\ AccessOf(row, {}) = {} /\ OwnedOf(row, {}) = {}
    BY DEF ToSet, AccessOf, OwnedOf
  <2>3. BroughtBy(q)
    BY <1>2, <2>1, <2>2 DEF BroughtBy
  <2>4. VerdictOn(q)
    BY <2>1 DEF VerdictOn
  <2>5. ListOn(q)
    BY <2>1 DEF ListOn
  <2> QED BY <2>3, <2>4, <2>5
<1>5. ReferredInv /\ PageInv
  BY <1>2 DEF ReferredInv, PageInv
<1> QED BY <1>1, <1>3, <1>4, <1>5 DEF AccessInv, BroughtInv, VerdictInv, ListInv

LEMMA NextInv == AccessInv /\ [Next]_vars => AccessInv'
BY TypeNext, TokensNext, BroughtNext, VerdictNext, ListNext, CountsGrow, PageNext
   DEF AccessInv

LEMMA InvHolds == Spec => []AccessInv
BY InitInv, NextInv, PTL DEF Spec

-----------------------------------------------------------------------------
(* A handler runs only for a request that brought a token which, since it  *)
(* arrived, belonged to an account with the access the operation takes.    *)
THEOREM AdmissionNeedsAccess == Spec => []AdmittedHadAccess
<1>1. AccessInv => AdmittedHadAccess
  BY DEF AccessInv, VerdictInv, VerdictOn, AdmittedHadAccess
<1> QED BY <1>1, InvHolds, PTL

(* A request with a token that had an account all along is not told that a *)
(* valid token is required, and "insufficient access" is said for a reason.*)
THEOREM RefusalsAreJustified == Spec => []RefusalsHaveReason
<1>1. AccessInv => RefusalsHaveReason
  BY DEF AccessInv, VerdictInv, VerdictOn, RefusalsHaveReason
<1> QED BY <1>1, InvHolds, PTL

(* The referral statistics of others are for admins and viewers, and only  *)
(* referrals that were made count.                                         *)
THEOREM StatisticsArePrivate == Spec => []OwnStatisticsOnly
<1>1. AccessInv => OwnStatisticsOnly
  BY DEF AccessInv, ListInv, ListOn, Privileged, ReferredInv, Group, OwnStatisticsOnly
<1> QED BY <1>1, InvHolds, PTL

(* The page of the statistics shows every group the total counted.         *)
THEOREM StatisticsAgree == Spec => []StatisticsConsistent
<1>1. AccessInv => StatisticsConsistent
  BY DEF AccessInv, ListInv, ListOn, StatisticsConsistent
<1> QED BY <1>1, InvHolds, PTL

-----------------------------------------------------------------------------
(* The page's view of an access column is what the policies make of it.    *)
LEMMA ViewFacts ==
    ASSUME NEW access \in SUBSET Permission, NEW op \in Operation
    PROVE  /\ Suffices(access, op) =>
                op \in View(access) \/ access \cap {"admin", "viewall"} # {}
           /\ op \in View(access) => Suffices(access, op) \/ access = Damaged
<1> USE DEF Suffices, View, Takes, Public
<1>1. CASE op \in {"GET /user", "POST /user/ref"}
  BY <1>1
<1>2. CASE op = "GET /am/refstatistics/list"
  BY <1>2
<1>3. CASE op = "GET /admin/users/list"
  BY <1>3
<1>4. CASE op = "POST /admin/users/update"
  BY <1>4
<1> QED BY <1>1, <1>2, <1>3, <1>4 DEF Operation

LEMMA PageStep == AccessInv /\ [Next]_vars =>
    \A q \in Request :
       (/\ request[q].pc = "auth"
        /\ page.account # Nobody
        /\ row[page.account] = page.row
        /\ request[q].brought = {<<page.row.token>>}) =>
          /\ request'[q].pc = "handler" => request[q].op \in page.allowed \/ page.showAll
          /\ request'[q].answer \in {"401", "403"} => request[q].op \notin page.allowed
<1> SUFFICES ASSUME AccessInv, [Next]_vars, NEW q \in Request,
                    request[q].pc = "auth", page.account # Nobody,
                    row[page.account] = page.row,
                    request[q].brought = {<<page.row.token>>}
             PROVE  /\ request'[q].pc = "handler" =>
                          request[q].op \in page.allowed \/ page.showAll
                    /\ request'[q].answer \in {"401", "403"} =>
                          request[q].op \notin page.allowed
  OBVIOUS
<1> DEFINE access == page.row.access
<1>1. TypeInv /\ BroughtBy(q) /\ VerdictOn(q) /\ TokensInv
  BY DEF AccessInv, BroughtInv, VerdictInv
<1>2. /\ page.account \in User /\ page.row \in Row
      /\ access \in SUBSET Permission /\ access # Damaged
      /\ page.allowed = View(access)
      /\ page.showAll = (access \cap {"admin", "viewall"} # {})
  BY DEF AccessInv, PageInv, Row, Column
<1>3. request[q].answer = "none"
  BY <1>1 DEF VerdictOn
<1>4. CASE request'[q] = request[q]
  BY <1>3, <1>4
<1>5. CASE Unknown(q) \/ LookupFails(q)
  <2>1. request'[q].pc = "auth" /\ request'[q].answer = "none"
    <3>1. CASE Unknown(q)
      BY <1>1, <1>3, <3>1, CallTypes DEF Unknown, TypeInv, Call
    <3>2. CASE LookupFails(q)
      BY <1>1, <1>3, <3>2, CallTypes DEF LookupFails, TypeInv, Call
    <3> QED BY <1>5, <3>1, <3>2
  <2> QED BY <2>1
<1>6. CASE Resolve(q)
  <2>1. request[q].tokens # <<>>
    BY <1>6 DEF Resolve
  <2>2. Head(request[q].tokens) = <<page.row.token>>
    BY <1>1, <2>1, CallTypes, TokenLists DEF BroughtBy
  <2>3. Owners(row, <<page.row.token>>) = {page.account}
    <3>1. \A x, y : <<x>> = <<y>> => x = y
      OBVIOUS
    <3> QED BY <1>1, <1>2, <3>1 DEF Owners, TokensInv
  <2>4. IF Admits(access, Policy[request[q].op])
        THEN request' = [request EXCEPT ![q].pc = "handler", ![q].tokens = <<>>,
                                        ![q].account = page.account,
                                        ![q].granted = access]
        ELSE request' = [request EXCEPT ![q].pc = "done", ![q].tokens = <<>>,
                                        ![q].answer = "403"]
    BY <1>6, <2>2, <2>3 DEF Resolve
  <2>5. Admits(access, Policy[request[q].op]) <=> Suffices(access, request[q].op)
    BY <1>1, <1>2, CallTypes, PolicyFacts DEF Column
  <2> HIDE DEF access
  <2>6. IF Suffices(access, request[q].op)
        THEN request'[q].pc = "handler" /\ request'[q].answer = "none"
        ELSE request'[q].pc = "done" /\ request'[q].answer = "403"
    BY <1>1, <1>3, <2>4, <2>5, CallTypes DEF TypeInv, Call
  <2>7. /\ Suffices(access, request[q].op) =>
              request[q].op \in View(access) \/ access \cap {"admin", "viewall"} # {}
        /\ request[q].op \in View(access) => Suffices(access, request[q].op)
    BY <1>1, <1>2, CallTypes, ViewFacts
  <2> QED BY <1>2, <2>6, <2>7
<1>7. CASE GiveUp(q)
  <2>1. /\ request[q].tokens = <<>> /\ request'[q].pc = "done"
        /\ request'[q].answer = Verdict(request[q].failed)
    BY <1>1, <1>7, CallTypes DEF GiveUp, Reply, TypeInv, Call
  <2>2. <<page.row.token>> \in lasting[q]
    BY <1>1, <1>2 DEF BroughtBy, OwnedOf, Owners
  <2>3. ToSet(<<>>) = {}
    BY DEF ToSet
  <2>4. request[q].failed
    BY <1>1, <2>1, <2>2, <2>3 DEF BroughtBy
  <2> QED BY <2>1, <2>4 DEF Verdict
<1> QED BY <1>1, <1>4, <1>5, <1>6, <1>7, MoveOfRequest
        DEF Arrive, Handle, GenerateRefHandler, ListHandler, ListPage, UpdateHandler,
            Handles

(* While an account is what it was when the page was loaded, the page      *)
(* offers it nothing that is refused and hides nothing that is admitted.   *)
THEOREM PageIsRight == Spec => PageAgrees
<1>1. AccessInv /\ [Next]_vars =>
        [\A q \in Request :
           (/\ request[q].pc = "auth"
            /\ page.account # Nobody
            /\ row[page.account] = page.row
            /\ request[q].brought = {<<page.row.token>>}) =>
              /\ request'[q].pc = "handler" =>
                    request[q].op \in page.allowed \/ page.showAll
              /\ request'[q].answer \in {"401", "403"} =>
                    request[q].op \notin page.allowed]_vars
  BY PageStep
<1> QED BY <1>1, InvHolds, PTL DEF Spec, PageAgrees

-----------------------------------------------------------------------------
(* The documentation page's script, for any operations, components and     *)
(* references between them.  The work list is why it is right: all that is *)
(* shown or retained is either visited or pending, what the visited refer  *)
(* to is retained, and nothing is retained that is not reached.  When      *)
(* nothing is pending, what is retained is closed, and so holds the least  *)
(* closed set.                                                             *)
Loaded ==
    /\ operations = Documented /\ components = Component
    /\ pending = {} /\ visited = {} /\ retained = {} /\ unresolved = FALSE

Following ==
    /\ ~ showAll /\ components = Component
    /\ visited \cup pending = operations \cup retained
    /\ \A v \in visited : RefsOf(v) \cap Component \subseteq retained
    /\ retained \subseteq Reached
    /\ unresolved <=> \E v \in visited : Broken \in RefsOf(v)

PruneInv ==
    /\ ScriptTypeOK
    /\ pc = "loaded" => Loaded
    /\ pc = "follow" => Following
    /\ PrunedExactly

-----------------------------------------------------------------------------
LEMMA PruneInit == ScriptInit => PruneInv
<1> SUFFICES ASSUME ScriptInit PROVE PruneInv
  OBVIOUS
<1>1. ScriptTypeOK
  BY DEF ScriptInit, ScriptTypeOK
<1>2. pc = "loaded" /\ Loaded
  BY DEF ScriptInit, Loaded
<1> QED BY <1>1, <1>2 DEF PruneInv, PrunedExactly

(* What the document and the operations that are shown determine.          *)
LEMMA SameDocument ==
    ASSUME UNCHANGED <<operationRefs, componentRefs, operations>>
    PROVE  /\ \A v : RefsOf(v)' = RefsOf(v)
           /\ Reached' = Reached /\ Whole' = Whole
<1>1. \A v : RefsOf(v)' = RefsOf(v)
  BY DEF RefsOf
<1>2. \A set : Closed(set)' = Closed(set)
  BY <1>1 DEF Closed
<1>3. Reached' = Reached
  BY <1>2 DEF Reached
<1> QED BY <1>1, <1>3 DEF Whole

LEMMA ClosedHoldsReached ==
    ASSUME NEW set \in SUBSET Component, Closed(set)
    PROVE  Reached \subseteq set
BY DEF Reached

LEMMA PruneFilter == ASSUME PruneInv, FilterOperations PROVE PruneInv'
<1> USE DEF PruneInv
<1>1. /\ pc = "loaded" /\ Loaded /\ UNCHANGED <<served, components, visited, retained, unresolved>>
  BY DEF FilterOperations
<1>2. CASE showAll
  <2>1. pc' = "ready" /\ UNCHANGED <<operations, pending>>
    BY <1>2 DEF FilterOperations
  <2>2. ScriptTypeOK'
    BY <1>1, <2>1 DEF ScriptTypeOK, served
  <2>3. PrunedExactly'
    BY <1>1, <1>2, <2>1 DEF PrunedExactly, Loaded, served
  <2> QED BY <2>1, <2>2, <2>3
<1>3. CASE ~ showAll
  <2>1. pc' = "follow" /\ operations' = operations \cap allowed /\ pending' = operations'
    BY <1>3 DEF FilterOperations
  <2>2. ScriptTypeOK'
    BY <1>1, <2>1 DEF ScriptTypeOK, Loaded, served
  <2>3. Following'
    BY <1>1, <1>3, <2>1 DEF Following, Loaded, served
  <2>4. PrunedExactly'
    BY <2>1 DEF PrunedExactly
  <2> QED BY <2>1, <2>2, <2>3, <2>4
<1> QED BY <1>2, <1>3

LEMMA PruneFollow == ASSUME PruneInv, NEW value, Follow(value) PROVE PruneInv'
<1> USE DEF PruneInv
<1> DEFINE fresh == (RefsOf(value) \cap Component) \ retained
<1>1. /\ pc = "follow" /\ value \in pending /\ Following
      /\ visited' = visited \cup {value}
      /\ retained' = retained \cup fresh
      /\ pending' = (pending \cup fresh) \ (visited \cup {value})
      /\ unresolved' = (unresolved \/ Broken \in RefsOf(value))
      /\ UNCHANGED <<served, pc, operations, components>>
  BY DEF Follow, Retained, Pending
<1>2. /\ \A v : RefsOf(v)' = RefsOf(v)
      /\ Reached' = Reached
  BY <1>1, SameDocument DEF served
<1>3. ScriptTypeOK'
  BY <1>1 DEF ScriptTypeOK, served
<1>4. fresh \subseteq Reached
  <2> SUFFICES ASSUME NEW w \in fresh, NEW set \in SUBSET Component, Closed(set)
               PROVE  w \in set
    BY DEF Reached
  <2>1. retained \subseteq set
    BY <1>1, ClosedHoldsReached DEF Following
  <2>2. value \in operations \cup retained
    BY <1>1 DEF Following
  <2> QED BY <2>1, <2>2 DEF Closed
<1> HIDE DEF fresh
<1>5. Following'
  <2>1. ~ showAll' /\ components' = Component
    BY <1>1 DEF Following, served
  <2>2. visited' \cup pending' = operations' \cup retained'
    BY <1>1 DEF Following
  <2>3. \A v \in visited' : RefsOf(v)' \cap Component \subseteq retained'
    BY <1>1, <1>2 DEF Following, fresh
  <2>4. retained' \subseteq Reached'
    BY <1>1, <1>2, <1>4 DEF Following
  <2>5. unresolved' <=> \E v \in visited' : Broken \in RefsOf(v)'
    BY <1>1, <1>2 DEF Following
  <2> QED BY <2>1, <2>2, <2>3, <2>4, <2>5 DEF Following
<1>6. PrunedExactly' /\ pc' = "follow"
  BY <1>1 DEF PrunedExactly
<1> QED BY <1>3, <1>5, <1>6

LEMMA PruneRemove == ASSUME PruneInv, RemoveUnused PROVE PruneInv'
<1> USE DEF PruneInv
<1>1. /\ pc = "follow" /\ pending = {} /\ Following /\ pc' = "ready"
      /\ components' = IF unresolved THEN components ELSE components \cap retained
      /\ UNCHANGED <<served, operations, pending, visited, retained, unresolved>>
  BY DEF RemoveUnused, Kept
<1>2. visited = operations \cup retained /\ retained \in SUBSET Component
  BY <1>1 DEF Following, ScriptTypeOK
<1>3. Reached = retained
  <2>1. Closed(retained)
    BY <1>1, <1>2 DEF Closed, Following
  <2>2. Reached \subseteq retained
    BY <1>2, <2>1, ClosedHoldsReached
  <2> QED BY <1>1, <2>2 DEF Following
<1>4. Whole <=> ~ unresolved
  BY <1>1, <1>2, <1>3 DEF Whole, Following
<1>5. components' = IF Whole THEN Reached ELSE Component
  BY <1>1, <1>2, <1>3, <1>4 DEF Following
<1>6. Reached' = Reached /\ Whole' = Whole /\ ~ showAll'
  BY <1>1, SameDocument DEF served, Following
<1>7. PrunedExactly'
  BY <1>5, <1>6 DEF PrunedExactly
<1>8. ScriptTypeOK'
  BY <1>1 DEF ScriptTypeOK, served
<1> QED BY <1>1, <1>7, <1>8

LEMMA PruneNext == PruneInv /\ [ScriptNext]_script => PruneInv'
<1> SUFFICES ASSUME PruneInv, [ScriptNext]_script PROVE PruneInv'
  OBVIOUS
<1>1. CASE UNCHANGED script
  <2>1. /\ \A v : RefsOf(v)' = RefsOf(v)
        /\ Reached' = Reached /\ Whole' = Whole
    BY <1>1, SameDocument DEF script
  <2>2. ScriptTypeOK' /\ (pc' = "loaded" => Loaded')
    BY <1>1 DEF script, PruneInv, ScriptTypeOK, Loaded
  <2>3. pc' = "follow" => Following'
    BY <1>1, <2>1 DEF script, PruneInv, Following
  <2>4. PrunedExactly'
    BY <1>1, <2>1 DEF script, PruneInv, PrunedExactly
  <2> QED BY <2>2, <2>3, <2>4 DEF PruneInv
<1> QED BY <1>1, PruneFilter, PruneFollow, PruneRemove DEF ScriptNext

LEMMA PruneHolds == ScriptSpec => []PruneInv
BY PruneInit, PruneNext, PTL DEF ScriptSpec

(* A document that is filtered keeps exactly what its operations reach,    *)
(* however the components refer to each other; one that cannot be followed *)
(* to its end, or that is shown as a whole, keeps everything               *)
(* (docs_auth.js, pruneUnusedComponents).                                  *)
THEOREM PruningIsExact == ScriptSpec => []PrunedExactly
<1>1. PruneInv => PrunedExactly
  BY DEF PruneInv
<1> QED BY <1>1, PruneHolds, PTL
=============================================================================
