------------------------------- MODULE Users -------------------------------
(***************************************************************************)
(* The accounts of app/users/user.go and the handlers that change them:    *)
(* RegisterHandler, LoginHandler and ResetPasswordHandler of               *)
(* api_handler/user/session.go, UpdateHandler (and CreateHandler, which    *)
(* creates as RegisterHandler does) of api_handler/admin/users/users.go.   *)
(*                                                                         *)
(* A handler reads a cached copy of the account, works on it, and writes   *)
(* the columns of its copy back; then it refreshes the cache under every   *)
(* key the account has or had.  One key of the cache is one step here: the *)
(* races inside a key are those of CacheHelper.                            *)
(***************************************************************************)
EXTENDS Naturals, FiniteSets, Sequences, SequencesExt

CONSTANTS Email,
          Registration, Edit, Reset, Login,  \* the calls, each made at most once
          MaxCalls,       \* bounds the calls that are made
          SetsPassword,   \* the edits that come with a password
          Fails,          \* the calls whose refresh may fail
          Profile,        \* name and access
          Bootstrap,      \* who made the secrets of the first account
          FirstEmail, FirstProfile,
          MaxStamp, Gap,  \* wall clock, and the five minutes of RecordLogin
          Absent,         \* no account
          Unknown         \* nothing cached

Account == 1..(1 + Cardinality(Registration))
Call == Registration \cup Edit \cup Reset \cup Login
Maker == Registration \cup Reset \cup {Bootstrap}

(* A password and a token are known by the call that made them.            *)
Row == [id : Account, email : Email, profile : Profile,
        password : Maker \cup Edit, token : Maker, login : 0..MaxStamp]
Key == {<<"id", i>> : i \in Account} \cup {<<"email", e>> : e \in Email}
       \cup {<<"token", m>> : m \in Maker}

ASSUME CallAssumption == /\ IsFiniteSet(Registration)
                         /\ Registration \cap (Edit \cup Reset \cup Login) = {}
                         /\ Edit \cap Reset = {}
                         /\ Bootstrap \notin Call
                         /\ SetsPassword \subseteq Edit
                         /\ MaxCalls \in Nat
                         /\ Fails \subseteq Call
ASSUME FirstAssumption == FirstEmail \in Email /\ FirstProfile \in Profile
ASSUME StampAssumption == MaxStamp \in Nat /\ Gap \in Nat \ {0}
ASSUME NoRowAssumption == {Absent, Unknown} \cap Row = {} /\ Absent # Unknown

VARIABLES rows,   \* the users table; its index keeps emails apart
          cache,  \* what a read finds under a key
          calls,  \* the handlers
          owner,  \* history: the account a token was made for
          lagging \* history: keys that a failed refresh has left to expire

vars == <<rows, cache, calls, owner, lagging>>

(* overlap: history, whether another write has committed, or was still     *)
(* being refreshed, between the read and the write of the call.            *)
Progress == [pc : {"idle", "read", "refresh", "done"},
             copy : Row \cup {Absent},
             todo : Seq(Key),
             overlap : BOOLEAN]

TypeOK ==
    /\ rows \in [Account -> Row \cup {Absent}]
    /\ \A i \in Account : rows[i] # Absent => rows[i].id = i
    /\ cache \in [Key -> Row \cup {Absent, Unknown}]
    /\ calls \in [Call -> Progress]
    /\ owner \in [Maker -> Account \cup {0}]
    /\ lagging \subseteq Key

Init ==
    /\ rows = [i \in Account |->
                 IF i = 1 THEN [id |-> 1, email |-> FirstEmail,
                                profile |-> FirstProfile, password |-> Bootstrap,
                                token |-> Bootstrap, login |-> 0]
                 ELSE Absent]
    /\ cache = [k \in Key |-> Unknown]
    /\ calls = [c \in Call |-> [pc |-> "idle", copy |-> Absent,
                                todo |-> <<>>, overlap |-> FALSE]]
    /\ owner = [m \in Maker |-> IF m = Bootstrap THEN 1 ELSE 0]
    /\ lagging = {}

-----------------------------------------------------------------------------
Stored == {rows[i] : i \in Account} \ {Absent}

(* The row that has the key now. *)
Lookup(key) ==
    IF \E row \in Stored : row[key[1]] = key[2]
    THEN CHOOSE row \in Stored : row[key[1]] = key[2]
    ELSE Absent

Cached(key) == IF cache[key] = Unknown THEN Lookup(key) ELSE cache[key]

Fill(key) == cache' = [cache EXCEPT ![key] = Cached(key)]

KeyOf(row, column) == <<column, row[column]>>
KeysOf(row) == <<KeyOf(row, "id"), KeyOf(row, "email"), KeyOf(row, "token")>>

(* A key of row that previous did not have. *)
Moved(previous, row, column) ==
    IF row[column] = previous[column] THEN <<>> ELSE <<KeyOf(row, column)>>

(* Mutant: only the keys of the new row are refreshed. *)
RefreshKeysOfNew(previous, row) == KeysOf(row)

(* Mutant: the refresh forgets the key that UpdateHandler reads. *)
RefreshKeysOfLogin(previous, row) ==
    Tail(KeysOf(previous)) \o Moved(previous, row, "email")
                           \o Moved(previous, row, "token")

(* refreshUserCache: the keys of both rows, none of them twice. *)
RefreshKeys(previous, row) ==
    KeysOf(previous) \o Moved(previous, row, "id")
                     \o Moved(previous, row, "email")
                     \o Moved(previous, row, "token")

Refreshing == {c \in Call : calls[c].pc = "refresh"}

(* Another call overlaps when a write commits while it holds a copy. *)
Committed(c, progress) ==
    [d \in Call |-> IF d = c THEN progress
                    ELSE IF calls[d].pc = "read" THEN [calls[d] EXCEPT !.overlap = TRUE]
                    ELSE calls[d]]

Finished == [pc |-> "done", copy |-> Absent, todo |-> <<>>, overlap |-> FALSE]
ToRefresh(keys) == [Finished EXCEPT !.pc = "refresh", !.todo = keys]

(* A call begins only while fewer than MaxCalls have begun. *)
Idle(c) == /\ calls[c].pc = "idle"
           /\ Cardinality({d \in Call : calls[d].pc # "idle"}) < MaxCalls

-----------------------------------------------------------------------------
(* GetByID of UpdateHandler, GetByEmail of the others. *)
Read(c, key) ==
    /\ Idle(c)
    /\ Fill(key)
    /\ calls' = [calls EXCEPT ![c] =
          IF Cached(key) = Absent THEN Finished
          ELSE [pc |-> "read", copy |-> Cached(key), todo |-> <<>>,
                overlap |-> Refreshing # {} \/ key \in lagging]]
    /\ UNCHANGED <<rows, owner, lagging>>

(* An input that is refused, a failing database, a client that goes away.  *)
(* Before the read nothing has been done that would have to be given up.   *)
GiveUp(c) ==
    /\ calls[c].pc = "read"
    /\ calls' = [calls EXCEPT ![c] = Finished]
    /\ UNCHANGED <<rows, cache, owner, lagging>>

EmailFree(id, email) == \A row \in Stored : row.email = email => row.id = id

(* Mutant: the stale copy is written back as a whole. *)
ColumnsOfCopy(current, updated) == updated

(* The columns that update writes; the rest of the row stays.              *)
Columns(current, updated) == [updated EXCEPT !.login = current.login]

(* Mutant: the row is found by its email. *)
TargetByEmail(updated) ==
    IF Lookup(<<"email", updated.email>>) = Absent THEN updated.id
    ELSE Lookup(<<"email", updated.email>>).id

Target(updated) == updated.id

(* update: the row is locked, read and written in one transaction, then    *)
(* the caches are refreshed.  A taken email ends it without a change.  A   *)
(* commit whose reply is lost is a refresh that fails under every key.     *)
Update(c, updated) ==
    LET id == Target(updated)
        previous == rows[id]
    IN  /\ calls[c].pc = "read"
        /\ EmailFree(id, updated.email)
        /\ rows' = [rows EXCEPT ![id] = [Columns(previous, updated) EXCEPT !.id = id]]
        /\ calls' = Committed(c, ToRefresh(RefreshKeys(previous, updated)))
        /\ UNCHANGED <<cache, lagging>>

UpdateHandler(c, email, profile) ==
    /\ Update(c, [calls[c].copy EXCEPT
                    !.email = email, !.profile = profile,
                    !.password = IF c \in SetsPassword THEN c ELSE @])
    /\ UNCHANGED owner

ResetPasswordHandler(c) ==
    /\ Update(c, [calls[c].copy EXCEPT !.password = c, !.token = c])
    /\ owner' = [owner EXCEPT ![c] = calls[c].copy.id]

NextId == 1 + Cardinality(Stored)

(* Create: the row gets the next identifier. *)
Register(c, email, profile) ==
    LET id == NextId
        row == [id |-> id, email |-> email, profile |-> profile,
                password |-> c, token |-> c, login |-> 0]
    IN  /\ Idle(c)
        /\ EmailFree(id, email)
        /\ rows' = [rows EXCEPT ![id] = row]
        /\ owner' = [owner EXCEPT ![c] = id]
        /\ calls' = Committed(c, ToRefresh(KeysOf(row)))
        /\ UNCHANGED <<cache, lagging>>

Due(row, now) == row.login = 0 \/ row.login + Gap < now

(* RecordLogin: one conditional statement, with a clock that was read      *)
(* before; the caches are refreshed under the keys of the copy, which may  *)
(* be out of date by now, unless reading the row again fails.              *)
RecordLogin(c, now) ==
    LET copy == calls[c].copy
        row == rows[copy.id]
    IN  /\ calls[c].pc = "read"
        /\ IF Due(row, now)
           THEN /\ rows' = [rows EXCEPT ![copy.id].login = now]
                /\ \E progress \in {ToRefresh(KeysOf(copy)), Finished} :
                      calls' = [calls EXCEPT ![c] = progress]
           ELSE /\ calls' = [calls EXCEPT ![c] = Finished]
                /\ UNCHANGED rows
        /\ UNCHANGED <<cache, owner, lagging>>

(* One key of the refresh.  When Redis or the database fails, or the       *)
(* client has gone, the old entry is left to expire and the error ignored. *)
Refresh(c) ==
    LET key == Head(calls[c].todo)
    IN  /\ calls[c].pc = "refresh"
        /\ \/ /\ cache' = [cache EXCEPT ![key] = Lookup(key)]
              /\ lagging' = lagging \ {key}
           \/ /\ c \in Fails /\ cache[key] # Unknown
              /\ lagging' = lagging \cup {key}
              /\ UNCHANGED cache
        /\ calls' = [calls EXCEPT ![c] =
              IF Len(calls[c].todo) = 1 THEN Finished
              ELSE ToRefresh(Tail(calls[c].todo))]
        /\ UNCHANGED <<rows, owner>>

(* The read of userAuthMiddleware with a token.  A handler that only looks *)
(* an account up by its identifier or email is a call that gives up.       *)
Get(key) ==
    /\ cache[key] = Unknown
    /\ Fill(key)
    /\ UNCHANGED <<rows, calls, owner, lagging>>

Expire(key) ==
    /\ cache[key] # Unknown
    /\ cache' = [cache EXCEPT ![key] = Unknown]
    /\ lagging' = lagging \ {key}
    /\ UNCHANGED <<rows, calls, owner>>

EditStep(c) ==
    \/ \E i \in Account : Read(c, <<"id", i>>)
    \/ \E e \in Email, p \in Profile : UpdateHandler(c, e, p)

ResetStep(c) == (\E e \in Email : Read(c, <<"email", e>>)) \/ ResetPasswordHandler(c)

LoginStep(c) ==
    \/ \E e \in Email : Read(c, <<"email", e>>)
    \/ \E now \in 1..MaxStamp : RecordLogin(c, now)

Next ==
    \/ \E c \in Registration : \E e \in Email, p \in Profile : Register(c, e, p)
    \/ \E c \in Edit : EditStep(c)
    \/ \E c \in Reset : ResetStep(c)
    \/ \E c \in Login : LoginStep(c)
    \/ \E c \in Call : GiveUp(c) \/ Refresh(c)
    \/ \E m \in Maker : Get(<<"token", m>>)
    \/ \E k \in Key : Expire(k)

Spec == Init /\ [][Next]_vars

-----------------------------------------------------------------------------
(* The keys that refreshUserCache visits are enough: once no refresh is    *)
(* running, whatever is cached under any key is the row that has the key   *)
(* now, except under a key whose refresh has failed and whose entry has    *)
(* not expired since.  The time of the last login is left out: a login     *)
(* with an outdated copy refreshes it under an outdated token.             *)
WithoutLogin(row) == IF row \in {Absent, Unknown} THEN row
                     ELSE [row EXCEPT !.login = 0]

CacheAgreesWhenQuiet ==
    Refreshing = {} =>
        \A k \in Key \ lagging :
            cache[k] = Unknown \/ WithoutLogin(cache[k]) = WithoutLogin(Lookup(k))

(* A token is only ever found under the account it was made for, in the    *)
(* table and in any cache, although handlers write back old copies and     *)
(* emails move from one account to another.                                *)
TokenKeepsOwner ==
    /\ \A row \in Stored : owner[row.token] = row.id
    /\ \A k \in Key : cache[k] \notin {Absent, Unknown}
                      => owner[cache[k].token] = cache[k].id

(* An edit loses no other change unless one overlaps with it: without a    *)
(* password it leaves password and token as they are.                      *)
SecretsKept(c) ==
    \A row \in Stored : /\ rows'[row.id].token = row.token
                        /\ c \in SetsPassword \/ rows'[row.id].password = row.password
EditAloneKeepsSecrets ==
    [][\A c \in Edit :
         (calls[c].pc = "read" /\ calls'[c].pc = "refresh" /\ ~ calls[c].overlap)
            => SecretsKept(c)]_vars

(* The time of the last login never goes back, whatever the order in which *)
(* logins read the clock and whatever old copies the others write.         *)
LoginAdvances ==
    [][\A row \in Stored : rows'[row.id].login >= row.login]_vars
=============================================================================
