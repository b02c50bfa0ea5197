----------------------------- MODULE UsersProofs -----------------------------
(***************************************************************************)
(* Theorems about Users, for any sets of calls, emails and profiles.       *)
(***************************************************************************)
EXTENDS Users, FiniteSetTheorems, TLAPS

(* Identifiers are given out in order, one to a registration. *)
Registered == {c \in Registration : calls[c].pc # "idle"}

CountInv ==
    \A i \in Account : rows[i] # Absent <=> i <= 1 + Cardinality(Registered)

EmailsApart ==
    \A i, j \in Account : /\ rows[i] # Absent /\ rows[j] # Absent
                          /\ rows[i].email = rows[j].email
                          => i = j

(* A row or a copy of one: the account is there, its token was made for it *)
(* by a call that has done its write.                                      *)
Known(row) ==
    /\ row \in Row
    /\ rows[row.id] # Absent
    /\ owner[row.token] = row.id
    /\ row.token = Bootstrap \/ calls[row.token].pc \in {"refresh", "done"}

KnownInv ==
    /\ \A row \in Stored : Known(row)
    /\ \A k \in Key : cache[k] \in {Absent, Unknown} \/ Known(cache[k])
    /\ \A c \in Call : calls[c].pc = "read" => Known(calls[c].copy)

(* Whatever disagrees with the table is still to be refreshed, or lagging. *)
Agrees(k) == cache[k] = Unknown \/ WithoutLogin(cache[k]) = WithoutLogin(Lookup(k))

AgreesInv ==
    \A k \in Key \ lagging :
       Agrees(k) \/ \E c \in Refreshing : k \in ToSet(calls[c].todo)

(* The secrets of a copy are current until another write overlaps.         *)
FreshInv ==
    \A c \in Call : calls[c].pc = "read" /\ ~ calls[c].overlap =>
        /\ calls[c].copy.token = rows[calls[c].copy.id].token
        /\ calls[c].copy.password = rows[calls[c].copy.id].password

TodoInv == \A c \in Refreshing : calls[c].todo # <<>>

UsersInv ==
    /\ TypeOK /\ CountInv /\ EmailsApart /\ KnownInv /\ AgreesInv /\ FreshInv /\ TodoInv

-----------------------------------------------------------------------------
(* Accounts and keys. *)
LEMMA AccountFacts ==
    /\ IsFiniteSet(Registration) /\ Cardinality(Registration) \in Nat
    /\ Account \subseteq Nat /\ 1 \in Account
BY CallAssumption, FS_CardinalityType DEF Account

LEMMA RowFacts ==
    ASSUME NEW row \in Row
    PROVE  /\ row # Absent /\ row # Unknown
           /\ row.id \in Account /\ row.email \in Email /\ row.token \in Maker
           /\ row.login \in 0..MaxStamp
           /\ \A column \in {"id", "email", "token"} : KeyOf(row, column) \in Key
           /\ KeysOf(row) \in Seq(Key)
<1>1. row # Absent /\ row # Unknown
  BY NoRowAssumption
<1>2. /\ row.id \in Account /\ row.email \in Email /\ row.token \in Maker
      /\ row.login \in 0..MaxStamp
  BY DEF Row
<1>3. \A column \in {"id", "email", "token"} : KeyOf(row, column) \in Key
  BY <1>2 DEF KeyOf, Key
<1> QED BY <1>1, <1>2, <1>3 DEF KeysOf

LEMMA StoredFacts ==
    ASSUME TypeOK, NEW row \in Stored
    PROVE  row \in Row /\ row.id \in Account /\ rows[row.id] = row
<1>1. PICK i \in Account : rows[i] = row /\ row # Absent
  BY DEF Stored
<1>2. row \in Row /\ row.id = i
  BY <1>1 DEF TypeOK
<1> QED BY <1>1, <1>2

Has(row, k) == row[k[1]] = k[2]

LEMMA KeyFacts ==
    ASSUME NEW k \in Key, NEW row \in Row
    PROVE  Has(row, k) <=> k \in ToSet(KeysOf(row))
<1> DEFINE keys == {<<"id", row.id>>, <<"email", row.email>>, <<"token", row.token>>}
<1>1. ToSet(KeysOf(row)) = keys
  BY DEF ToSet, KeysOf, KeyOf
<1>2. Has(row, k) <=> k \in keys
  BY DEF Has, Key
<1> QED BY <1>1, <1>2

LEMMA LookupFacts ==
    ASSUME NEW k \in Key
    PROVE  \/ Lookup(k) = Absent /\ \A row \in Stored : ~ Has(row, k)
           \/ Lookup(k) \in Stored /\ Has(Lookup(k), k)
BY DEF Lookup, Has

LEMMA OneOwner ==
    ASSUME TypeOK, EmailsApart, KnownInv, NEW k \in Key,
           NEW r \in Stored, NEW s \in Stored, Has(r, k), Has(s, k)
    PROVE  r = s
<1>1. /\ r \in Row /\ rows[r.id] = r /\ r # Absent
      /\ s \in Row /\ rows[s.id] = s /\ s # Absent
  BY StoredFacts, RowFacts
<1>2. Known(r) /\ Known(s)
  BY DEF KnownInv
<1>3. CASE r.id = s.id
  BY <1>1, <1>3
<1>4. CASE r.email = s.email
  BY <1>1, <1>4, StoredFacts DEF EmailsApart
<1>5. CASE r.token = s.token
  BY <1>1, <1>2, <1>5 DEF Known
<1>6. k[1] \in {"id", "email", "token"}
  BY DEF Key
<1> QED BY <1>3, <1>4, <1>5, <1>6 DEF Has

LookupIsRight ==
    \A k \in Key :
       /\ \A row \in Stored : Has(row, k) => Lookup(k) = row
       /\ (\A row \in Stored : ~ Has(row, k)) => Lookup(k) = Absent

LEMMA RightLookups == TypeOK /\ EmailsApart /\ KnownInv => LookupIsRight
BY LookupFacts, OneOwner DEF LookupIsRight

LEMMA Joined ==
    ASSUME NEW x \in Seq(Key), NEW y \in Seq(Key)
    PROVE  /\ x \o y \in Seq(Key)
           /\ x # <<>> => x \o y # <<>>
           /\ ToSet(x \o y) = ToSet(x) \cup ToSet(y)
<1> DEFINE z == x \o y
<1>1. /\ DOMAIN x = 1..Len(x) /\ DOMAIN y = 1..Len(y) /\ DOMAIN z = 1..(Len(x) + Len(y))
      /\ Len(x) \in Nat /\ Len(y) \in Nat
      /\ \A i \in 1..Len(x) : z[i] = x[i]
      /\ \A i \in 1..Len(y) : z[i + Len(x)] = y[i]
      /\ z \in Seq(Key) /\ (x # <<>> => z # <<>>)
  OBVIOUS
<1> HIDE DEF z
<1>2. \A i \in DOMAIN z : z[i] \in ToSet(x) \cup ToSet(y)
  <2> SUFFICES ASSUME NEW i \in DOMAIN z PROVE z[i] \in ToSet(x) \cup ToSet(y)
    OBVIOUS
  <2>1. CASE i <= Len(x)
    BY <1>1, <2>1 DEF ToSet
  <2>2. CASE i > Len(x)
    <3>1. i - Len(x) \in DOMAIN y /\ z[(i - Len(x)) + Len(x)] = y[i - Len(x)]
      BY <1>1, <2>2
    <3>2. z[i] = y[i - Len(x)]
      BY <1>1, <3>1
    <3> QED BY <3>1, <3>2 DEF ToSet
  <2> QED BY <1>1, <2>1, <2>2
<1>3. \A i \in DOMAIN x : x[i] \in ToSet(z)
  BY <1>1 DEF ToSet
<1>4. \A i \in DOMAIN y : y[i] \in ToSet(z)
  <2> SUFFICES ASSUME NEW i \in DOMAIN y PROVE y[i] \in ToSet(z)
    OBVIOUS
  <2>1. i + Len(x) \in DOMAIN z /\ z[i + Len(x)] = y[i]
    BY <1>1
  <2> QED BY <2>1 DEF ToSet
<1>5. ToSet(z) = ToSet(x) \cup ToSet(y)
  BY <1>2, <1>3, <1>4 DEF ToSet
<1> QED BY <1>1, <1>5 DEF z

LEMMA RefreshKeysFacts ==
    ASSUME NEW previous \in Row, NEW row \in Row
    PROVE  /\ RefreshKeys(previous, row) \in Seq(Key) /\ RefreshKeys(previous, row) # <<>>
           /\ ToSet(KeysOf(previous)) \subseteq ToSet(RefreshKeys(previous, row))
           /\ ToSet(KeysOf(row)) \subseteq ToSet(RefreshKeys(previous, row))
<1> DEFINE moved(column) == Moved(previous, row, column)
<1>1. \A column \in {"id", "email", "token"} :
         /\ KeyOf(row, column) \in Key /\ KeyOf(previous, column) \in Key
         /\ moved(column) \in Seq(Key)
         /\ KeyOf(row, column) \in {KeyOf(previous, column)} \cup ToSet(moved(column))
  <2> SUFFICES ASSUME NEW column \in {"id", "email", "token"}
               PROVE  /\ KeyOf(row, column) \in Key /\ KeyOf(previous, column) \in Key
                      /\ moved(column) \in Seq(Key)
                      /\ KeyOf(row, column)
                            \in {KeyOf(previous, column)} \cup ToSet(moved(column))
    OBVIOUS
  <2>1. KeyOf(row, column) \in Key /\ KeyOf(previous, column) \in Key
    BY RowFacts
  <2>2. CASE row[column] = previous[column]
    <3>1. KeyOf(row, column) = KeyOf(previous, column) /\ moved(column) = <<>>
      BY <2>2 DEF Moved, KeyOf
    <3> QED BY <2>1, <3>1
  <2>3. CASE row[column] # previous[column]
    <3>1. moved(column) = <<KeyOf(row, column)>>
      BY <2>3 DEF Moved
    <3> QED BY <2>1, <3>1 DEF ToSet
  <2> QED BY <2>2, <2>3
<1> DEFINE a == KeysOf(previous)
           b == moved("id")
           c == moved("email")
           d == moved("token")
<1>2. a \in Seq(Key) /\ a # <<>>
  BY RowFacts DEF KeysOf
<1>3. b \in Seq(Key) /\ c \in Seq(Key) /\ d \in Seq(Key)
  BY <1>1
<1>4. ToSet(a) = {KeyOf(previous, "id"), KeyOf(previous, "email"), KeyOf(previous, "token")}
      /\ ToSet(KeysOf(row)) = {KeyOf(row, "id"), KeyOf(row, "email"), KeyOf(row, "token")}
  BY DEF KeysOf, ToSet
<1>5. ToSet(KeysOf(row)) \subseteq ToSet(a) \cup ToSet(b) \cup ToSet(c) \cup ToSet(d)
  BY <1>1, <1>4
<1>6. RefreshKeys(previous, row) = a \o b \o c \o d
  BY DEF RefreshKeys
<1> HIDE DEF a, b, c, d
<1>7. /\ a \o b \o c \o d \in Seq(Key) /\ a \o b \o c \o d # <<>>
      /\ ToSet(a \o b \o c \o d) = ToSet(a) \cup ToSet(b) \cup ToSet(c) \cup ToSet(d)
  <2>1. /\ a \o b \in Seq(Key) /\ a \o b # <<>>
        /\ ToSet(a \o b) = ToSet(a) \cup ToSet(b)
    BY <1>2, <1>3, Joined
  <2>2. /\ a \o b \o c \in Seq(Key) /\ a \o b \o c # <<>>
        /\ ToSet(a \o b \o c) = ToSet(a \o b) \cup ToSet(c)
    BY <1>3, <2>1, Joined
  <2>3. /\ a \o b \o c \o d \in Seq(Key) /\ a \o b \o c \o d # <<>>
        /\ ToSet(a \o b \o c \o d) = ToSet(a \o b \o c) \cup ToSet(d)
    BY <1>3, <2>2, Joined
  <2> QED BY <2>1, <2>2, <2>3
<1> QED BY <1>5, <1>6, <1>7 DEF a

LEMMA TodoFacts ==
    ASSUME NEW list \in Seq(Key), list # <<>>
    PROVE  /\ Head(list) \in Key /\ Tail(list) \in Seq(Key)
           /\ ToSet(list) \subseteq {Head(list)} \cup ToSet(Tail(list))
           /\ Len(list) = 1 => ToSet(list) = {Head(list)}
           /\ Len(list) # 1 => Tail(list) # <<>>
<1>1. /\ Head(list) \in Key /\ Tail(list) \in Seq(Key)
      /\ Len(Tail(list)) = Len(list) - 1 /\ Len(list) \in Nat
  OBVIOUS
<1>2. Len(list) = 1 => ToSet(list) = {Head(list)}
  BY DEF ToSet
<1>3. ToSet(list) \subseteq {Head(list)} \cup ToSet(Tail(list))
  <2> DEFINE rest == Tail(list)
  <2> SUFFICES ASSUME NEW i \in 1..Len(list), i # 1 PROVE list[i] \in ToSet(rest)
    BY DEF ToSet
  <2>1. i - 1 \in DOMAIN rest /\ rest[i - 1] = list[i]
    OBVIOUS
  <2> HIDE DEF rest
  <2> QED BY <2>1 DEF ToSet
<1>4. ASSUME Tail(list) = <<>> PROVE Len(list) = 1
  <2> DEFINE rest == Tail(list)
  <2>1. Len(rest) = Len(list) - 1 /\ Len(list) \in Nat /\ rest = <<>>
    BY <1>1, <1>4
  <2>2. Len(<<>>) = 0
    OBVIOUS
  <2> HIDE DEF rest
  <2>3. Len(rest) = 0
    BY <2>1, <2>2
  <2> QED BY <2>1, <2>3
<1> QED BY <1>1, <1>2, <1>3, <1>4

-----------------------------------------------------------------------------
(* What a step leaves as it is. *)
LEMMA KnownKept ==
    ASSUME TypeOK,
           \A i \in Account : rows[i] # Absent => rows'[i] # Absent,
           \A m \in Maker : m = Bootstrap \/ calls[m].pc \in {"refresh", "done"} =>
              owner'[m] = owner[m],
           \A c \in Call : calls[c].pc \in {"refresh", "done"} =>
              calls'[c].pc \in {"refresh", "done"}
    PROVE  \A row : Known(row) => Known(row)'
<1> SUFFICES ASSUME NEW row, Known(row) PROVE Known(row)'
  OBVIOUS
<1>1. row \in Row /\ row.id \in Account /\ row.token \in Maker
  BY RowFacts DEF Known
<1> QED BY <1>1 DEF Known, Maker, Call

LEMMA RegisteredKept ==
    ASSUME CountInv, \A i \in Account : rows'[i] # Absent <=> rows[i] # Absent,
           \A c \in Registration : calls'[c].pc = "idle" <=> calls[c].pc = "idle"
    PROVE  CountInv'
<1>1. Registered' = Registered
  BY DEF Registered
<1> QED BY <1>1 DEF CountInv

LEMMA SameLookup == UNCHANGED rows => \A k : Lookup(k)' = Lookup(k)
BY DEF Lookup, Stored

LEMMA CachedFacts ==
    ASSUME TypeOK, KnownInv, AgreesInv, NEW k \in Key
    PROVE  /\ Lookup(k) = Absent \/ (Lookup(k) \in Stored /\ Known(Lookup(k)))
           /\ Cached(k) = Absent \/ Known(Cached(k))
           /\ Refreshing = {} /\ k \notin lagging =>
                 WithoutLogin(Cached(k)) = WithoutLogin(Lookup(k))
<1>1. Lookup(k) = Absent \/ (Lookup(k) \in Stored /\ Known(Lookup(k)))
  BY LookupFacts DEF KnownInv
<1>2. Cached(k) = Absent \/ Known(Cached(k))
  BY <1>1 DEF Cached, KnownInv
<1>3. ASSUME Refreshing = {}, k \notin lagging
      PROVE  WithoutLogin(Cached(k)) = WithoutLogin(Lookup(k))
  BY <1>3 DEF AgreesInv, Agrees, Cached
<1> QED BY <1>1, <1>2, <1>3

LEMMA ExpireInv == ASSUME UsersInv, NEW k \in Key, Expire(k) PROVE UsersInv'
<1> USE DEF UsersInv
<1>1. TypeOK'
  BY DEF Expire, TypeOK
<1>2. CountInv' /\ EmailsApart'
  BY RegisteredKept DEF Expire, EmailsApart
<1>3. KnownInv'
  <2>1. \A row : Known(row) => Known(row)'
    BY KnownKept DEF Expire
  <2>2. Stored' = Stored /\ calls' = calls
    BY DEF Expire, Stored
  <2>3. \A j \in Key : cache'[j] = cache[j] \/ cache'[j] = Unknown
    BY DEF Expire, TypeOK
  <2> QED BY <2>1, <2>2, <2>3 DEF KnownInv
<1>4. AgreesInv'
  <2>1. \A j : Lookup(j)' = Lookup(j)
    BY SameLookup DEF Expire
  <2>2. \A j \in Key : IF j = k THEN cache'[j] = Unknown ELSE cache'[j] = cache[j]
    BY DEF Expire, TypeOK
  <2>3. Refreshing' = Refreshing /\ calls' = calls /\ lagging' = lagging \ {k}
    BY DEF Expire, Refreshing
  <2> QED BY <2>1, <2>2, <2>3 DEF AgreesInv, Agrees
<1>5. FreshInv' /\ TodoInv'
  BY DEF Expire, FreshInv, TodoInv, Refreshing
<1> QED BY <1>1, <1>2, <1>3, <1>4, <1>5

LEMMA GetInv == ASSUME UsersInv, NEW k \in Key, Get(k) PROVE UsersInv'
<1> USE DEF UsersInv
<1>1. \A j \in Key : IF j = k THEN cache'[j] = Lookup(k) ELSE cache'[j] = cache[j]
  BY DEF Get, Fill, Cached, TypeOK
<1>2. UNCHANGED <<rows, calls, owner, lagging>>
  BY DEF Get
<1>3. Lookup(k) = Absent \/ (Lookup(k) \in Stored /\ Known(Lookup(k)))
  BY CachedFacts
<1>4. TypeOK'
  <2>1. Lookup(k) \in Row \cup {Absent}
    BY <1>3, StoredFacts
  <2> QED BY <1>2, <2>1 DEF Get, Fill, Cached, TypeOK
<1>5. CountInv' /\ EmailsApart'
  BY <1>2, RegisteredKept DEF EmailsApart
<1>6. KnownInv'
  <2>1. \A row : Known(row) => Known(row)'
    BY <1>2, KnownKept
  <2>2. Stored' = Stored
    BY <1>2 DEF Stored
  <2> QED BY <1>1, <1>2, <1>3, <2>1, <2>2 DEF KnownInv
<1>7. AgreesInv'
  <2>1. \A j : Lookup(j)' = Lookup(j)
    BY <1>2, SameLookup
  <2>2. Refreshing' = Refreshing
    BY <1>2 DEF Refreshing
  <2> QED BY <1>1, <1>2, <2>1, <2>2 DEF AgreesInv, Agrees
<1>8. FreshInv' /\ TodoInv'
  BY <1>2 DEF FreshInv, TodoInv, Refreshing
<1> QED BY <1>4, <1>5, <1>6, <1>7, <1>8

LEMMA GiveUpInv == ASSUME UsersInv, NEW c \in Call, GiveUp(c) PROVE UsersInv'
<1> USE DEF UsersInv
<1>1. UNCHANGED <<rows, cache, owner, lagging>>
  BY DEF GiveUp
<1>2. \A d \in Call : IF d = c THEN calls[d].pc = "read" /\ calls'[d] = Finished
                      ELSE calls'[d] = calls[d]
  BY DEF GiveUp, TypeOK
<1>3. Finished \in Progress /\ Finished.pc = "done"
  BY DEF Finished, Progress
<1>4. TypeOK'
  BY <1>1, <1>3 DEF GiveUp, TypeOK
<1>5. CountInv' /\ EmailsApart'
  BY <1>1, <1>2, <1>3, RegisteredKept DEF EmailsApart, Call
<1>6. KnownInv'
  <2>1. \A row : Known(row) => Known(row)'
    BY <1>1, <1>2, <1>3, KnownKept
  <2>2. Stored' = Stored
    BY <1>1 DEF Stored
  <2> QED BY <1>1, <1>2, <1>3, <2>1, <2>2 DEF KnownInv
<1>7. AgreesInv'
  <2>1. \A j : Lookup(j)' = Lookup(j)
    BY <1>1, SameLookup
  <2>2. Refreshing' = Refreshing /\ \A d \in Refreshing : calls'[d] = calls[d]
    BY <1>2, <1>3 DEF Refreshing
  <2> QED BY <1>1, <2>1, <2>2 DEF AgreesInv, Agrees
<1>8. FreshInv' /\ TodoInv'
  BY <1>1, <1>2, <1>3 DEF FreshInv, TodoInv, Refreshing
<1> QED BY <1>4, <1>5, <1>6, <1>7, <1>8

LEMMA ReadInv ==
    ASSUME UsersInv, NEW c \in Edit \cup Reset \cup Login, NEW k \in Key, Read(c, k)
    PROVE  UsersInv'
<1> USE DEF UsersInv
<1>1. /\ \A j \in Key : IF j = k THEN cache'[j] = Cached(k) ELSE cache'[j] = cache[j]
      /\ UNCHANGED <<rows, owner, lagging>>
      /\ calls[c].pc = "idle" /\ c \in Call /\ c \notin Registration
  BY CallAssumption DEF Read, Fill, Idle, TypeOK, Call
<1>2. Cached(k) = Absent \/ Known(Cached(k))
  BY CachedFacts
<1>3. \A d \in Call : IF d = c
                      THEN \/ calls'[d] = Finished
                           \/ /\ calls'[d] = [pc |-> "read", copy |-> Cached(k), todo |-> <<>>,
                                             overlap |-> Refreshing # {} \/ k \in lagging]
                              /\ Cached(k) # Absent
                      ELSE calls'[d] = calls[d]
  BY <1>1 DEF Read, TypeOK
<1>4. \A d \in Call : IF d = c
                       THEN \/ calls'[d].pc = "done"
                            \/ /\ calls'[d].pc = "read" /\ calls'[d].copy = Cached(k)
                               /\ Cached(k) # Absent
                               /\ ~ calls'[d].overlap => Refreshing = {} /\ k \notin lagging
                       ELSE calls'[d] = calls[d]
  <2> DEFINE late == Refreshing # {} \/ k \in lagging
             reading == [pc |-> "read", copy |-> Cached(k), todo |-> <<>>, overlap |-> late]
  <2>1. Finished.pc = "done"
    BY DEF Finished
  <2>2. late \in BOOLEAN /\ (~ late => Refreshing = {} /\ k \notin lagging)
    OBVIOUS
  <2>3. reading.pc = "read" /\ reading.copy = Cached(k) /\ reading.overlap = late
    <3> HIDE DEF late
    <3> QED OBVIOUS
  <2>4. \A d \in Call : IF d = c
                        THEN \/ calls'[d] = Finished
                             \/ calls'[d] = reading /\ Cached(k) # Absent
                        ELSE calls'[d] = calls[d]
    BY <1>3
  <2>5. ~ reading.overlap => Refreshing = {} /\ k \notin lagging
    BY <2>2, <2>3
  <2> HIDE DEF reading, late
  <2> QED BY <2>1, <2>3, <2>4, <2>5
<1>5. Finished \in Progress /\ Finished.pc = "done"
  BY DEF Finished, Progress
<1>6. TypeOK'
  <2>1. Cached(k) \in Row \cup {Absent}
    BY <1>2 DEF Known
  <2>2. cache' \in [Key -> Row \cup {Absent, Unknown}]
    BY <2>1 DEF Read, Fill, TypeOK
  <2>3. [pc |-> "read", copy |-> Cached(k), todo |-> <<>>,
         overlap |-> Refreshing # {} \/ k \in lagging] \in Progress
    BY <2>1 DEF Progress
  <2>4. calls' \in [Call -> Progress]
    BY <1>1, <1>5, <2>3 DEF Read, TypeOK
  <2> QED BY <1>1, <2>2, <2>4 DEF TypeOK
<1>7. CountInv' /\ EmailsApart'
  BY <1>1, <1>4, RegisteredKept DEF EmailsApart, Call
<1>8. KnownInv'
  <2>1. \A row : Known(row) => Known(row)'
    BY <1>1, <1>4, <1>5, KnownKept
  <2>2. Stored' = Stored
    BY <1>1 DEF Stored
  <2>3. \A j \in Key : cache'[j] \in {Absent, Unknown} \/ Known(cache'[j])
    BY <1>1, <1>2 DEF KnownInv
  <2>4. \A d \in Call : calls'[d].pc = "read" => Known(calls'[d].copy)
    BY <1>2, <1>4, <1>5 DEF KnownInv
  <2> QED BY <2>1, <2>2, <2>3, <2>4 DEF KnownInv
<1>9. AgreesInv'
  <2>1. \A j : Lookup(j)' = Lookup(j)
    BY <1>1, SameLookup
  <2>2. Refreshing' = Refreshing /\ \A d \in Refreshing : calls'[d] = calls[d]
    BY <1>1, <1>4, <1>5 DEF Refreshing
  <2>3. Agrees(k) => Agrees(k)'
    BY <1>1, <2>1 DEF Agrees, Cached
  <2> QED BY <1>1, <2>1, <2>2, <2>3 DEF AgreesInv, Agrees
<1>10. FreshInv'
  <2>1. ASSUME Refreshing = {}, k \notin lagging, Cached(k) # Absent
        PROVE  /\ Cached(k).token = rows[Cached(k).id].token
               /\ Cached(k).password = rows[Cached(k).id].password
    <3>1. /\ Known(Cached(k))
          /\ WithoutLogin(Cached(k)) = WithoutLogin(Lookup(k))
          /\ Lookup(k) = Absent \/ (Lookup(k) \in Stored /\ Known(Lookup(k)))
      BY <1>2, <2>1, CachedFacts
    <3>2. Cached(k) \in Row /\ Absent \notin Row /\ Unknown \notin Row
      BY <3>1, NoRowAssumption DEF Known
    <3>3. WithoutLogin(Cached(k)) = [Cached(k) EXCEPT !.login = 0]
      BY <3>2 DEF WithoutLogin
    <3>4. WithoutLogin(Cached(k)) \in Row
      BY <3>2, <3>3, StampAssumption DEF Row
    <3>5. Lookup(k) # Absent
      BY <3>1, <3>2, <3>4 DEF WithoutLogin
    <3>6. Lookup(k) \in Row /\ rows[Lookup(k).id] = Lookup(k)
      BY <3>1, <3>5, StoredFacts
    <3>7. WithoutLogin(Lookup(k)) = [Lookup(k) EXCEPT !.login = 0]
      BY <3>2, <3>6 DEF WithoutLogin
    <3>8. /\ Cached(k).id = Lookup(k).id /\ Cached(k).token = Lookup(k).token
          /\ Cached(k).password = Lookup(k).password
      <4>1. \A row \in Row :
               /\ [row EXCEPT !.login = 0].id = row.id
               /\ [row EXCEPT !.login = 0].token = row.token
               /\ [row EXCEPT !.login = 0].password = row.password
        BY DEF Row
      <4>2. [Cached(k) EXCEPT !.login = 0] = [Lookup(k) EXCEPT !.login = 0]
        BY <3>1, <3>3, <3>7
      <4> QED BY <3>2, <3>6, <4>1, <4>2
    <3> QED BY <3>6, <3>8
  <2> QED BY <1>1, <1>4, <1>5, <2>1 DEF FreshInv
<1>11. TodoInv'
  BY <1>4, <1>5 DEF TodoInv, Refreshing
<1> QED BY <1>6, <1>7, <1>8, <1>9, <1>10, <1>11

LEMMA RefreshCall ==
    /\ Finished \in Progress /\ Finished.pc = "done"
    /\ \A list \in Seq(Key) : /\ ToRefresh(list) \in Progress
                             /\ ToRefresh(list).pc = "refresh"
                             /\ ToRefresh(list).todo = list
<1>1. Finished \in Progress /\ Finished.pc = "done"
  BY DEF Finished, Progress
<1>2. ASSUME NEW p \in Progress, NEW list \in Seq(Key)
      PROVE  /\ [p EXCEPT !.pc = "refresh", !.todo = list] \in Progress
             /\ [p EXCEPT !.pc = "refresh", !.todo = list].pc = "refresh"
             /\ [p EXCEPT !.pc = "refresh", !.todo = list].todo = list
  BY DEF Progress
<1> QED BY <1>1, <1>2 DEF ToRefresh

LEMMA RefreshInv == ASSUME UsersInv, NEW c \in Call, Refresh(c) PROVE UsersInv'
<1> USE DEF UsersInv
<1> DEFINE todo == calls[c].todo
           key == Head(todo)
<1>1. /\ c \in Refreshing /\ calls[c].pc = "refresh" /\ UNCHANGED <<rows, owner>>
      /\ todo \in Seq(Key) /\ todo # <<>>
  BY DEF Refresh, Refreshing, TypeOK, Progress, TodoInv
<1>2. key \in Key
  BY <1>1, TodoFacts
<1>3. \/ /\ cache' = [cache EXCEPT ![key] = Lookup(key)]
         /\ lagging' = lagging \ {key}
      \/ lagging' = lagging \cup {key} /\ cache' = cache
  BY DEF Refresh
<1>4. \A d \in Call : IF d = c
                      THEN calls'[d] = IF Len(todo) = 1 THEN Finished ELSE ToRefresh(Tail(todo))
                      ELSE calls'[d] = calls[d]
  BY DEF Refresh, TypeOK
<1>5. /\ Finished \in Progress /\ Finished.pc = "done"
      /\ \A list \in Seq(Key) : /\ ToRefresh(list) \in Progress
                               /\ ToRefresh(list).pc = "refresh"
                               /\ ToRefresh(list).todo = list
  BY RefreshCall
<1>6. Tail(todo) \in Seq(Key)
  BY <1>1, TodoFacts
<1>7. Lookup(key) = Absent \/ (Lookup(key) \in Stored /\ Known(Lookup(key)))
  BY <1>2, CachedFacts
<1>8. TypeOK'
  <2>1. Lookup(key) \in Row \cup {Absent}
    BY <1>7, StoredFacts
  <2>2. cache' \in [Key -> Row \cup {Absent, Unknown}] /\ lagging' \subseteq Key
    BY <1>2, <1>3, <2>1 DEF TypeOK
  <2>3. calls' \in [Call -> Progress]
    BY <1>5, <1>6 DEF Refresh, TypeOK
  <2> QED BY <1>1, <2>2, <2>3 DEF TypeOK
<1> HIDE DEF todo
<1>9. CountInv' /\ EmailsApart'
  BY <1>1, <1>4, <1>5, <1>6, RegisteredKept DEF EmailsApart, Call
<1>10. KnownInv'
  <2>1. \A row : Known(row) => Known(row)'
    BY <1>1, <1>4, <1>5, <1>6, KnownKept
  <2>2. Stored' = Stored
    BY <1>1 DEF Stored
  <2>3. \A j \in Key : cache'[j] \in {Absent, Unknown} \/ Known(cache'[j])
    BY <1>2, <1>3, <1>7 DEF KnownInv, TypeOK
  <2>4. \A d \in Call : calls'[d].pc = "read" => Known(calls'[d].copy)
    BY <1>4, <1>5, <1>6 DEF KnownInv
  <2> QED BY <2>1, <2>2, <2>3, <2>4 DEF KnownInv
<1>11. AgreesInv'
  <2> SUFFICES ASSUME NEW k \in Key, k \notin lagging'
               PROVE  Agrees(k)' \/ \E d \in Refreshing' : k \in ToSet(calls'[d].todo)
    BY DEF AgreesInv
  <2>1. Lookup(k)' = Lookup(k)
    BY <1>1, SameLookup
  <2>2. CASE k = key
    <3>1. cache'[k] = Lookup(k)
      BY <1>2, <1>3, <2>2 DEF TypeOK
    <3> QED BY <2>1, <3>1 DEF Agrees
  <2>3. CASE k # key
    <3>1. k \notin lagging /\ cache'[k] = cache[k]
      BY <1>3, <2>3 DEF TypeOK
    <3>2. CASE Agrees(k)
      BY <2>1, <3>1, <3>2 DEF Agrees
    <3>3. ASSUME NEW d \in Refreshing, k \in ToSet(calls[d].todo)
          PROVE  d \in Refreshing' /\ k \in ToSet(calls'[d].todo)
      <4>1. CASE d = c
        <5>1. k \in ToSet(Tail(todo)) /\ Len(todo) # 1
          BY <1>1, <2>3, <3>3, <4>1, TodoFacts DEF todo
        <5> QED BY <1>4, <1>5, <1>6, <4>1, <5>1 DEF Refreshing
      <4>2. CASE d # c
        BY <1>4, <3>3, <4>2 DEF Refreshing
      <4> QED BY <4>1, <4>2
    <3> QED BY <3>1, <3>2, <3>3 DEF AgreesInv
  <2> QED BY <2>2, <2>3
<1>12. FreshInv'
  <2>1. \A d \in Call : calls'[d].pc = "read" => calls'[d] = calls[d]
    BY <1>1, <1>4, <1>5, <1>6
  <2> QED BY <1>1, <2>1 DEF FreshInv
<1>13. TodoInv'
  <2>1. Len(todo) # 1 => Tail(todo) # <<>>
    BY <1>1, TodoFacts
  <2> QED BY <1>4, <1>5, <1>6, <2>1 DEF TodoInv, Refreshing
<1> QED BY <1>8, <1>9, <1>10, <1>11, <1>12, <1>13

-----------------------------------------------------------------------------
(* A key that a written row had not and has not is found where it was.     *)
LEMMA LookupStays ==
    ASSUME TypeOK, EmailsApart, KnownInv, TypeOK', EmailsApart', KnownInv',
           NEW id \in Account, NEW row \in Row, row.id = id,
           rows' = [rows EXCEPT ![id] = row],
           NEW k \in Key, rows[id] = Absent \/ ~ Has(rows[id], k), ~ Has(row, k)
    PROVE  Lookup(k)' = Lookup(k)
<1>1. \A i \in Account : rows'[i] = IF i = id THEN row ELSE rows[i]
  BY DEF TypeOK
<1>2. \A s \in Stored : Has(s, k) => s \in Stored'
  <2> SUFFICES ASSUME NEW s \in Stored, Has(s, k) PROVE s \in Stored'
    OBVIOUS
  <2>1. s \in Row /\ s.id \in Account /\ rows[s.id] = s /\ s # Absent
    BY StoredFacts, RowFacts
  <2>2. s.id # id
    BY <2>1
  <2> QED BY <1>1, <2>1, <2>2 DEF Stored
<1>3. \A s \in Stored' : s = row \/ s \in Stored
  BY <1>1 DEF Stored
<1>4. LookupIsRight'
  BY RightLookups, PTL
<1>5. CASE Lookup(k) \in Stored /\ Has(Lookup(k), k)
  <2>1. PICK s : s = Lookup(k)
    OBVIOUS
  <2>2. s \in Stored' /\ Has(s, k)
    BY <1>2, <1>5, <2>1
  <2> QED BY <1>4, <2>1, <2>2 DEF LookupIsRight
<1>6. CASE Lookup(k) = Absent /\ \A s \in Stored : ~ Has(s, k)
  <2>1. \A s \in Stored' : ~ Has(s, k)
    BY <1>3, <1>6
  <2> QED BY <1>4, <1>6, <2>1 DEF LookupIsRight
<1> QED BY <1>5, <1>6, LookupFacts

LEMMA CommittedCalls ==
    ASSUME TypeOK, NEW c \in Call, NEW progress \in Progress,
           progress.pc \in {"refresh", "done"}, calls' = Committed(c, progress)
    PROVE  /\ calls' \in [Call -> Progress] /\ calls'[c] = progress
           /\ \A d \in Call \ {c} :
                /\ calls'[d].pc = calls[d].pc /\ calls'[d].copy = calls[d].copy
                /\ calls'[d].todo = calls[d].todo
                /\ calls[d].pc = "read" => calls'[d].overlap
           /\ \A d \in Call : calls[d].pc \in {"refresh", "done"} =>
                calls'[d].pc \in {"refresh", "done"}
<1>1. \A d \in Call : calls'[d] = IF d = c THEN progress
                                ELSE IF calls[d].pc = "read"
                                     THEN [calls[d] EXCEPT !.overlap = TRUE]
                                     ELSE calls[d]
  BY DEF Committed
<1>2. \A d \in Call : calls[d] \in Progress
  BY DEF TypeOK
<1>3. ASSUME NEW p \in Progress
      PROVE  /\ [p EXCEPT !.overlap = TRUE] \in Progress
             /\ [p EXCEPT !.overlap = TRUE].pc = p.pc
             /\ [p EXCEPT !.overlap = TRUE].copy = p.copy
             /\ [p EXCEPT !.overlap = TRUE].todo = p.todo
             /\ [p EXCEPT !.overlap = TRUE].overlap
  BY DEF Progress
<1>4. \A d \in Call : calls'[d] \in Progress
  BY <1>1, <1>2, <1>3
<1>5. calls' \in [Call -> Progress]
  BY <1>4 DEF Committed
<1>6. \A d \in Call \ {c} :
         /\ calls'[d].pc = calls[d].pc /\ calls'[d].copy = calls[d].copy
         /\ calls'[d].todo = calls[d].todo
         /\ calls[d].pc = "read" => calls'[d].overlap
  BY <1>1, <1>2, <1>3
<1> QED BY <1>1, <1>5, <1>6

LEMMA UpdateInv ==
    ASSUME UsersInv, NEW c \in Edit \cup Reset, NEW updated \in Row,
           Update(c, updated), updated.id = calls[c].copy.id,
           owner' \in [Maker -> Account \cup {0}],
           \A m \in Maker \ {c} : owner'[m] = owner[m],
           updated.token \in {calls[c].copy.token, c},
           owner'[updated.token] = updated.id
    PROVE  UsersInv'
<1> USE DEF UsersInv
<1> DEFINE id == updated.id
           previous == rows[id]
           row == [Columns(previous, updated) EXCEPT !.id = id]
           keys == RefreshKeys(previous, updated)
<1>1. /\ c \in Call /\ calls[c].pc = "read" /\ Known(calls[c].copy) /\ c # Bootstrap
      /\ c \notin Registration
  BY CallAssumption DEF Update, KnownInv, Call
<1>2. /\ id \in Account /\ previous \in Row /\ previous # Absent /\ previous.id = id
      /\ previous \in Stored
  BY <1>1, RowFacts DEF Known, TypeOK, Stored
<1>3. /\ EmailFree(id, updated.email)
      /\ rows' = [rows EXCEPT ![id] = row]
      /\ calls' = Committed(c, ToRefresh(keys))
      /\ UNCHANGED <<cache, lagging>>
  BY DEF Update, Target
<1>4. /\ row \in Row /\ row.id = id /\ row.email = updated.email
      /\ row.token = updated.token /\ row # Absent
  <2>1. row = [updated EXCEPT !.login = previous.login, !.id = id]
    BY DEF Columns
  <2>2. previous.login \in 0..MaxStamp
    BY <1>2, RowFacts
  <2>3. row \in Row /\ row.id = id /\ row.email = updated.email /\ row.token = updated.token
    BY <1>2, <2>1, <2>2 DEF Row
  <2> QED BY <2>3, RowFacts
<1>5. /\ keys \in Seq(Key) /\ keys # <<>>
      /\ ToSet(KeysOf(previous)) \subseteq ToSet(keys)
      /\ ToSet(KeysOf(updated)) \subseteq ToSet(keys)
  BY <1>2, RefreshKeysFacts
<1> HIDE DEF row, keys
<1>6. ToRefresh(keys) \in Progress /\ ToRefresh(keys).pc = "refresh"
      /\ ToRefresh(keys).todo = keys
  BY <1>5, RefreshCall
<1>7. /\ calls' \in [Call -> Progress] /\ calls'[c] = ToRefresh(keys)
      /\ \A d \in Call \ {c} :
           /\ calls'[d].pc = calls[d].pc /\ calls'[d].copy = calls[d].copy
           /\ calls'[d].todo = calls[d].todo
           /\ calls[d].pc = "read" => calls'[d].overlap
      /\ \A d \in Call : calls[d].pc \in {"refresh", "done"} =>
           calls'[d].pc \in {"refresh", "done"}
  BY <1>1, <1>3, <1>6, CommittedCalls
<1>8. \A i \in Account : rows'[i] = IF i = id THEN row ELSE rows[i]
  BY <1>3 DEF TypeOK
<1>9. TypeOK'
  <2>1. rows' \in [Account -> Row \cup {Absent}]
    BY <1>3, <1>4 DEF TypeOK
  <2>2. \A i \in Account : rows'[i] # Absent => rows'[i].id = i
    BY <1>4, <1>8 DEF TypeOK
  <2> QED BY <1>3, <1>7, <2>1, <2>2 DEF TypeOK
<1>10. CountInv'
  BY <1>1, <1>2, <1>4, <1>7, <1>8, RegisteredKept DEF Call
<1>11. EmailsApart'
  <2>1. \A i \in Account : /\ rows[i] # Absent /\ rows[i].email = updated.email => i = id
    BY <1>3 DEF EmailFree, Stored, TypeOK
  <2> QED BY <1>4, <1>8, <2>1 DEF EmailsApart
<1>12. KnownInv'
  <2>1. \A r : Known(r) => Known(r)'
    BY <1>1, <1>2, <1>4, <1>7, <1>8, KnownKept
  <2>2. ASSUME NEW r, r = row PROVE Known(r)'
    <3>1. r.token = Bootstrap \/ calls'[r.token].pc \in {"refresh", "done"}
      BY <1>1, <1>4, <1>6, <1>7, <2>2, RowFacts DEF Known, Maker, Call
    <3> QED BY <1>2, <1>4, <1>8, <2>2, <3>1 DEF Known
  <2>3. \A r \in Stored' : r = row \/ r \in Stored
    BY <1>8 DEF Stored
  <2>4. \A d \in Call : calls'[d].pc = "read" =>
          calls[d].pc = "read" /\ calls'[d].copy = calls[d].copy
    BY <1>6, <1>7
  <2> QED BY <1>3, <2>1, <2>2, <2>3, <2>4 DEF KnownInv
<1>13. AgreesInv'
  <2> SUFFICES ASSUME NEW k \in Key, k \notin lagging'
               PROVE  Agrees(k)' \/ \E d \in Refreshing' : k \in ToSet(calls'[d].todo)
    BY DEF AgreesInv
  <2>1. CASE Has(previous, k) \/ Has(row, k)
    <3>1. Has(row, k) => Has(updated, k)
      BY <1>4 DEF Has, Key
    <3>2. k \in ToSet(keys)
      BY <1>2, <1>5, <2>1, <3>1, KeyFacts
    <3> QED BY <1>1, <1>6, <1>7, <3>2 DEF Refreshing
  <2>2. CASE ~ (Has(previous, k) \/ Has(row, k))
    <3>1. Lookup(k)' = Lookup(k)
      BY <1>2, <1>3, <1>4, <1>9, <1>11, <1>12, <2>2, LookupStays
    <3>2. Agrees(k) => Agrees(k)'
      BY <1>3, <3>1 DEF Agrees
    <3>3. \A d \in Refreshing : d \in Refreshing' /\ calls'[d].todo = calls[d].todo
      BY <1>1, <1>7 DEF Refreshing
    <3> QED BY <1>3, <3>2, <3>3 DEF AgreesInv
  <2> QED BY <2>1, <2>2
<1>14. FreshInv' /\ TodoInv'
  BY <1>5, <1>6, <1>7 DEF FreshInv, TodoInv, Refreshing
<1> QED BY <1>9, <1>10, <1>11, <1>12, <1>13, <1>14

-----------------------------------------------------------------------------
(* The next identifier is free, and there is one for every registration.   *)
LEMMA NextIdFacts ==
    ASSUME TypeOK, CountInv, NEW c \in Registration, calls[c].pc = "idle"
    PROVE  /\ NextId = 2 + Cardinality(Registered) /\ Cardinality(Registered) \in Nat
           /\ NextId \in Account /\ rows[NextId] = Absent
           /\ IsFiniteSet(Registered)
<1> DEFINE n == 1 + Cardinality(Registered)
<1>1. /\ IsFiniteSet(Registered) /\ Cardinality(Registered) \in Nat
      /\ Registered \cup {c} \subseteq Registration /\ c \notin Registered
  BY AccountFacts, FS_Subset, FS_CardinalityType DEF Registered
<1>2. n \in Nat /\ n + 1 <= 1 + Cardinality(Registration)
  <2>1. Cardinality(Registered \cup {c}) = Cardinality(Registered) + 1
    BY <1>1, FS_AddElement
  <2>2. Cardinality(Registered \cup {c}) <= Cardinality(Registration)
    BY <1>1, AccountFacts, FS_Subset
  <2> QED BY <1>1, <2>1, <2>2, AccountFacts
<1>3. n + 1 \in Account /\ 1..n \subseteq Account
  BY <1>2, AccountFacts DEF Account
<1>4. \A i \in Account : rows[i] # Absent <=> i \in 1..n
  BY <1>2 DEF CountInv, Account
<1>5. Cardinality(Stored) = n
  <2> DEFINE f == [i \in 1..n |-> rows[i]]
  <2> HIDE DEF n
  <2>1. f \in [1..n -> Stored]
    BY <1>3, <1>4 DEF Stored
  <2>2. \A i, j \in 1..n : f[i] = f[j] => i = j
    BY <1>3, <1>4 DEF TypeOK
  <2>3. \A row \in Stored : \E i \in 1..n : f[i] = row
    BY <1>4 DEF Stored
  <2>4. f \in Bijection(1..n, Stored)
    BY <2>1, <2>2, <2>3 DEF Bijection, Injection, Surjection, IsInjective
  <2>5. ExistsBijection(1..n, Stored)
    BY <2>4 DEF ExistsBijection
  <2> QED BY <1>2, <2>5, FS_CountingElements
<1>6. NextId = n + 1
  BY <1>2, <1>5 DEF NextId
<1>7. rows[n + 1] = Absent
  BY <1>2, <1>3, <1>4
<1> QED BY <1>1, <1>3, <1>6, <1>7

LEMMA RegisterInv ==
    ASSUME UsersInv, NEW c \in Registration, NEW email \in Email, NEW profile \in Profile,
           Register(c, email, profile)
    PROVE  UsersInv'
<1> USE DEF UsersInv
<1> DEFINE id == NextId
           row == [id |-> id, email |-> email, profile |-> profile,
                   password |-> c, token |-> c, login |-> 0]
           keys == KeysOf(row)
<1>1. /\ c \in Call /\ c \in Maker /\ c # Bootstrap
      /\ calls[c].pc = "idle" /\ EmailFree(id, email)
      /\ rows' = [rows EXCEPT ![id] = row]
      /\ owner' = [owner EXCEPT ![c] = id]
      /\ calls' = Committed(c, ToRefresh(keys))
      /\ UNCHANGED <<cache, lagging>>
  BY CallAssumption DEF Register, Idle, Call, Maker
<1>2. /\ id = 2 + Cardinality(Registered) /\ Cardinality(Registered) \in Nat
      /\ id \in Account /\ rows[id] = Absent /\ IsFiniteSet(Registered)
  BY <1>1, NextIdFacts
<1>3. /\ row \in Row /\ row.id = id /\ row.email = email /\ row.token = c
      /\ row # Absent
  <2>1. row \in Row
    BY <1>1, <1>2, StampAssumption DEF Row
  <2> QED BY <2>1, RowFacts
<1>4. keys \in Seq(Key) /\ keys # <<>>
  BY <1>3, RowFacts DEF KeysOf
<1> HIDE DEF id, row
<1> DEFINE todo == KeysOf(row)
<1> HIDE DEF todo
<1>5. /\ ToRefresh(todo) \in Progress /\ ToRefresh(todo).pc = "refresh"
      /\ ToRefresh(todo).todo = todo
  BY <1>4, RefreshCall DEF todo
<1>6. /\ calls' \in [Call -> Progress] /\ calls'[c] = ToRefresh(todo)
      /\ \A d \in Call \ {c} :
           /\ calls'[d].pc = calls[d].pc /\ calls'[d].copy = calls[d].copy
           /\ calls'[d].todo = calls[d].todo
           /\ calls[d].pc = "read" => calls'[d].overlap
      /\ \A d \in Call : calls[d].pc \in {"refresh", "done"} =>
           calls'[d].pc \in {"refresh", "done"}
  BY <1>1, <1>5, CommittedCalls DEF todo
<1>7. \A i \in Account : rows'[i] = IF i = id THEN row ELSE rows[i]
  BY <1>1 DEF TypeOK
<1>8. owner'[c] = id /\ \A m \in Maker \ {c} : owner'[m] = owner[m]
  BY <1>1 DEF TypeOK
<1>9. TypeOK'
  <2>1. rows' \in [Account -> Row \cup {Absent}]
    BY <1>1, <1>3 DEF TypeOK
  <2>2. \A i \in Account : rows'[i] # Absent => rows'[i].id = i
    BY <1>3, <1>7 DEF TypeOK
  <2>3. owner' \in [Maker -> Account \cup {0}]
    BY <1>1, <1>2 DEF TypeOK
  <2> QED BY <1>1, <1>6, <2>1, <2>2, <2>3 DEF TypeOK
<1>10. CountInv'
  <2>1. Registered' = Registered \cup {c} /\ c \notin Registered
    BY <1>1, <1>5, <1>6 DEF Registered, Call
  <2>2. Cardinality(Registered') = Cardinality(Registered) + 1
    BY <1>2, <2>1, FS_AddElement
  <2>3. \A i \in Account : rows[i] # Absent <=> i <= id - 1
    BY <1>2 DEF CountInv
  <2>4. \A i \in Account : rows'[i] # Absent <=> i <= id
    <3>1. \A i \in Account : i \in Nat
      BY AccountFacts
    <3> QED BY <1>2, <1>3, <1>7, <2>3, <3>1
  <2> QED BY <1>2, <2>2, <2>4 DEF CountInv
<1>11. EmailsApart'
  <2>1. \A i \in Account : /\ rows[i] # Absent /\ rows[i].email = email => i = id
    BY <1>1 DEF EmailFree, Stored, TypeOK
  <2> QED BY <1>3, <1>7, <2>1 DEF EmailsApart
<1>12. KnownInv'
  <2>1. \A r : Known(r) => Known(r)'
    BY <1>1, <1>2, <1>3, <1>6, <1>7, <1>8, KnownKept
  <2>2. ASSUME NEW r, r = row PROVE Known(r)'
    BY <1>2, <1>3, <1>5, <1>6, <1>7, <1>8, <2>2 DEF Known
  <2>3. \A r \in Stored' : r = row \/ r \in Stored
    BY <1>7 DEF Stored
  <2>4. \A d \in Call : calls'[d].pc = "read" =>
          calls[d].pc = "read" /\ calls'[d].copy = calls[d].copy
    BY <1>5, <1>6
  <2> QED BY <1>1, <2>1, <2>2, <2>3, <2>4 DEF KnownInv
<1>13. AgreesInv'
  <2> SUFFICES ASSUME NEW k \in Key, k \notin lagging'
               PROVE  Agrees(k)' \/ \E d \in Refreshing' : k \in ToSet(calls'[d].todo)
    BY DEF AgreesInv
  <2>1. CASE Has(row, k)
    <3>1. k \in ToSet(todo)
      BY <1>3, <2>1, KeyFacts DEF todo
    <3> QED BY <1>1, <1>5, <1>6, <3>1 DEF Refreshing
  <2>2. CASE ~ Has(row, k)
    <3>1. Lookup(k)' = Lookup(k)
      BY <1>1, <1>2, <1>3, <1>9, <1>11, <1>12, <2>2, LookupStays
    <3>2. Agrees(k) => Agrees(k)'
      BY <1>1, <3>1 DEF Agrees
    <3>3. \A d \in Refreshing : d \in Refreshing' /\ calls'[d].todo = calls[d].todo
      BY <1>1, <1>6 DEF Refreshing
    <3> QED BY <1>1, <3>2, <3>3 DEF AgreesInv
  <2> QED BY <2>1, <2>2
<1>14. FreshInv' /\ TodoInv'
  BY <1>4, <1>5, <1>6 DEF FreshInv, TodoInv, Refreshing, todo
<1> QED BY <1>9, <1>10, <1>11, <1>12, <1>13, <1>14

-----------------------------------------------------------------------------
(* A login changes nothing but the time. *)
LEMMA LoginLookup ==
    ASSUME TypeOK, EmailsApart, KnownInv, TypeOK', EmailsApart', KnownInv',
           NEW id \in Account, rows[id] # Absent, NEW now \in 0..MaxStamp,
           rows' = [rows EXCEPT ![id].login = now], NEW k \in Key
    PROVE  WithoutLogin(Lookup(k)') = WithoutLogin(Lookup(k))
<1>1. \A i \in Account : rows'[i] = IF i = id THEN [rows[i] EXCEPT !.login = now] ELSE rows[i]
  BY DEF TypeOK
<1>2. rows[id] \in Row
  BY DEF TypeOK
<1>3. ASSUME NEW r \in Row
      PROVE  /\ [r EXCEPT !.login = now] \in Row
             /\ Has([r EXCEPT !.login = now], k) <=> Has(r, k)
             /\ WithoutLogin([r EXCEPT !.login = now]) = WithoutLogin(r)
  <2>1. [r EXCEPT !.login = now] \in Row
    BY DEF Row
  <2>2. Has([r EXCEPT !.login = now], k) <=> Has(r, k)
    BY DEF Has, Row, Key
  <2>3. r \notin {Absent, Unknown} /\ [r EXCEPT !.login = now] \notin {Absent, Unknown}
    BY <2>1, NoRowAssumption
  <2>4. [[r EXCEPT !.login = now] EXCEPT !.login = 0] = [r EXCEPT !.login = 0]
    BY DEF Row
  <2> QED BY <2>1, <2>2, <2>3, <2>4 DEF WithoutLogin
<1>4. LookupIsRight'
  BY RightLookups, PTL
<1>5. \A s \in Stored : s \in Row /\ s.id \in Account /\ rows[s.id] = s /\ s # Absent
  BY StoredFacts, RowFacts
<1>6. CASE Lookup(k) \in Stored /\ Has(Lookup(k), k)
  <2>1. PICK s : s = Lookup(k)
    OBVIOUS
  <2>2. PICK t : t = IF s.id = id THEN [s EXCEPT !.login = now] ELSE s
    OBVIOUS
  <2>3. s \in Stored /\ Has(s, k)
    BY <1>6, <2>1
  <2>4. t \in Row /\ Has(t, k) /\ WithoutLogin(t) = WithoutLogin(s)
    BY <1>3, <1>5, <2>2, <2>3
  <2>5. t = rows'[s.id]
    BY <1>1, <1>5, <2>2, <2>3
  <2>6. t \in Stored'
    BY <1>5, <2>3, <2>4, <2>5, RowFacts DEF Stored
  <2> QED BY <1>4, <2>1, <2>4, <2>6 DEF LookupIsRight
<1>7. CASE Lookup(k) = Absent /\ \A s \in Stored : ~ Has(s, k)
  <2>1. ASSUME NEW s \in Stored' PROVE ~ Has(s, k)
    <3>1. PICK i \in Account : rows'[i] = s /\ s # Absent
      BY <2>1 DEF Stored
    <3>2. CASE i = id
      <4>1. rows[id] \in Stored
        BY DEF Stored
      <4> QED BY <1>1, <1>2, <1>3, <1>7, <3>1, <3>2, <4>1
    <3>3. CASE i # id
      BY <1>1, <1>7, <3>1, <3>3 DEF Stored
    <3> QED BY <3>2, <3>3
  <2> QED BY <1>4, <1>7, <2>1 DEF LookupIsRight
<1> QED BY <1>6, <1>7, LookupFacts

LEMMA LoginInv ==
    ASSUME UsersInv, NEW c \in Login, NEW now \in 1..MaxStamp, RecordLogin(c, now)
    PROVE  UsersInv'
<1> USE DEF UsersInv
<1> DEFINE copy == calls[c].copy
           id == copy.id
<1>1. /\ c \in Call /\ c \notin Registration /\ calls[c].pc = "read" /\ Known(copy)
      /\ copy \in Row /\ id \in Account /\ rows[id] # Absent /\ rows[id] \in Row
  BY CallAssumption, RowFacts DEF RecordLogin, KnownInv, Known, Call, TypeOK
<1>2. KeysOf(copy) \in Seq(Key) /\ KeysOf(copy) # <<>>
  BY <1>1, RowFacts DEF KeysOf
<1>3. PICK progress \in {ToRefresh(KeysOf(copy)), Finished} :
             calls' = [calls EXCEPT ![c] = progress]
  BY DEF RecordLogin
<1>4. /\ progress \in Progress /\ progress.pc \in {"refresh", "done"}
      /\ progress.pc = "refresh" => progress.todo # <<>>
  BY <1>2, <1>3, RefreshCall
<1>5. /\ UNCHANGED <<cache, owner, lagging>>
      /\ UNCHANGED rows \/ rows' = [rows EXCEPT ![id].login = now]
      /\ now \in 0..MaxStamp
  BY StampAssumption DEF RecordLogin
<1> HIDE DEF copy
<1>6. \A d \in Call : calls'[d] = IF d = c THEN progress ELSE calls[d]
  BY <1>3 DEF TypeOK
<1>7. \A i \in Account :
         \/ rows'[i] = rows[i]
         \/ /\ rows[i] \in Row /\ rows'[i] \in Row /\ rows'[i].id = rows[i].id
            /\ rows'[i].email = rows[i].email /\ rows'[i].token = rows[i].token
            /\ rows'[i].password = rows[i].password
  <2>1. [rows[id] EXCEPT !.login = now] \in Row
    BY <1>1, <1>5 DEF Row
  <2>2. \A i \in Account : rows'[i] = rows[i]
                           \/ (i = id /\ rows'[i] = [rows[id] EXCEPT !.login = now])
    BY <1>5 DEF TypeOK
  <2> QED BY <1>1, <2>1, <2>2 DEF Row
<1>8. Absent \notin Row
  BY NoRowAssumption
<1>9. TypeOK'
  <2>1. rows' \in [Account -> Row \cup {Absent}]
    <3>1. [rows[id] EXCEPT !.login = now] \in Row
      BY <1>1, <1>5 DEF Row
    <3> QED BY <1>5, <3>1 DEF TypeOK
  <2>2. \A i \in Account : rows'[i] # Absent => rows'[i].id = i
    BY <1>7, <1>8 DEF TypeOK
  <2>3. calls' \in [Call -> Progress]
    BY <1>3, <1>4 DEF TypeOK
  <2> QED BY <1>5, <2>1, <2>2, <2>3 DEF TypeOK
<1>10. CountInv' /\ EmailsApart'
  <2>1. \A i \in Account : rows'[i] # Absent <=> rows[i] # Absent
    BY <1>7, <1>8
  <2>2. CountInv'
    BY <1>1, <1>6, <2>1, RegisteredKept DEF Call
  <2>3. EmailsApart'
    BY <1>7, <1>8, <2>1 DEF EmailsApart
  <2> QED BY <2>2, <2>3
<1>11. KnownInv'
  <2>1. \A r : Known(r) => Known(r)'
    BY <1>4, <1>5, <1>6, <1>7, <1>8, KnownKept
  <2>2. ASSUME NEW r \in Stored' PROVE Known(r)'
    <3>1. PICK i \in Account : rows'[i] = r /\ r # Absent
      BY DEF Stored
    <3>2. CASE rows'[i] = rows[i]
      BY <2>1, <3>1, <3>2 DEF Stored, KnownInv
    <3>3. CASE rows'[i] # rows[i]
      <4>1. PICK s : s = rows[i]
        OBVIOUS
      <4>2. s \in Stored /\ r \in Row /\ r.id = s.id /\ r.token = s.token
        BY <1>7, <1>8, <3>1, <3>3, <4>1 DEF Stored
      <4>3. Known(s)'
        BY <2>1, <4>2 DEF KnownInv
      <4> QED BY <4>2, <4>3 DEF Known
    <3> QED BY <3>2, <3>3
  <2>3. \A d \in Call : calls'[d].pc = "read" => calls'[d] = calls[d]
    BY <1>4, <1>6
  <2> QED BY <1>5, <2>1, <2>2, <2>3 DEF KnownInv
<1>12. AgreesInv'
  <2> SUFFICES ASSUME NEW k \in Key, k \notin lagging'
               PROVE  Agrees(k)' \/ \E d \in Refreshing' : k \in ToSet(calls'[d].todo)
    BY DEF AgreesInv
  <2>1. WithoutLogin(Lookup(k)') = WithoutLogin(Lookup(k))
    <3>1. CASE UNCHANGED rows
      BY <3>1, SameLookup
    <3>2. CASE rows' = [rows EXCEPT ![id].login = now]
      BY <1>1, <1>5, <1>9, <1>10, <1>11, <3>2, LoginLookup
    <3> QED BY <1>5, <3>1, <3>2
  <2>2. Agrees(k) => Agrees(k)'
    <3>1. WithoutLogin(Lookup(k))' = WithoutLogin(Lookup(k)')
      BY DEF WithoutLogin
    <3> QED BY <1>5, <2>1, <3>1 DEF Agrees, WithoutLogin
  <2>3. \A d \in Refreshing : d \in Refreshing' /\ calls'[d] = calls[d]
    BY <1>1, <1>6 DEF Refreshing
  <2> QED BY <1>5, <2>2, <2>3 DEF AgreesInv
<1>13. FreshInv'
  <2>1. ASSUME NEW d \in Call, calls'[d].pc = "read", ~ calls'[d].overlap
        PROVE  /\ calls'[d].copy.token = rows'[calls'[d].copy.id].token
               /\ calls'[d].copy.password = rows'[calls'[d].copy.id].password
    <3>1. calls'[d] = calls[d]
      BY <1>4, <1>6, <2>1
    <3>2. Known(calls[d].copy)
      BY <2>1, <3>1 DEF KnownInv
    <3>3. calls[d].copy.id \in Account
      BY <3>2, RowFacts DEF Known
    <3> QED BY <1>7, <2>1, <3>1, <3>3 DEF FreshInv
  <2> QED BY <2>1 DEF FreshInv
<1>14. TodoInv'
  BY <1>4, <1>6 DEF TodoInv, Refreshing
<1> QED BY <1>9, <1>10, <1>11, <1>12, <1>13, <1>14
-----------------------------------------------------------------------------
LEMMA UpdateHandlerInv ==
    ASSUME UsersInv, NEW c \in Edit, NEW email \in Email, NEW profile \in Profile,
           UpdateHandler(c, email, profile)
    PROVE  UsersInv'
<1> DEFINE copy == calls[c].copy
           updated == [copy EXCEPT !.email = email, !.profile = profile,
                                   !.password = IF c \in SetsPassword THEN c ELSE @]
<1>1. Update(c, updated) /\ owner' = owner
  BY DEF UpdateHandler
<1>2. c \in Call /\ calls[c].pc = "read" /\ Known(copy)
  BY <1>1 DEF Update, UsersInv, KnownInv, Call
<1>3. updated \in Row /\ updated.id = copy.id /\ updated.token = copy.token
  BY <1>2 DEF Known, Row
<1> HIDE DEF updated
<1>4. owner' \in [Maker -> Account \cup {0}] /\ owner'[updated.token] = updated.id
  BY <1>1, <1>2, <1>3 DEF UsersInv, TypeOK, Known
<1> QED BY <1>1, <1>3, <1>4, UpdateInv

LEMMA ResetHandlerInv ==
    ASSUME UsersInv, NEW c \in Reset, ResetPasswordHandler(c)
    PROVE  UsersInv'
<1> DEFINE copy == calls[c].copy
           updated == [copy EXCEPT !.password = c, !.token = c]
<1>1. Update(c, updated) /\ owner' = [owner EXCEPT ![c] = copy.id]
  BY DEF ResetPasswordHandler
<1>2. c \in Call /\ c \in Maker /\ calls[c].pc = "read" /\ Known(copy)
  BY <1>1 DEF Update, UsersInv, KnownInv, Call, Maker
<1>3. /\ updated \in Row /\ updated.id = copy.id /\ updated.token = c
      /\ copy.id \in Account
  BY <1>2 DEF Known, Row
<1> HIDE DEF updated
<1>4. /\ owner' \in [Maker -> Account \cup {0}] /\ owner'[updated.token] = updated.id
      /\ \A m \in Maker \ {c} : owner'[m] = owner[m]
  BY <1>1, <1>2, <1>3 DEF UsersInv, TypeOK
<1> QED BY <1>1, <1>3, <1>4, UpdateInv

LEMMA InitInv == Init => UsersInv
<1> SUFFICES ASSUME Init PROVE UsersInv
  OBVIOUS
<1>1. \A i \in Account : rows[i] = IF i = 1 THEN [id |-> 1, email |-> FirstEmail,
                                profile |-> FirstProfile, password |-> Bootstrap,
                                token |-> Bootstrap, login |-> 0]
                                ELSE Absent
  BY DEF Init
<1>2. /\ [id |-> 1, email |-> FirstEmail, profile |-> FirstProfile,
          password |-> Bootstrap, token |-> Bootstrap, login |-> 0] \in Row
      /\ Absent \notin Row
  BY AccountFacts, FirstAssumption, StampAssumption, NoRowAssumption DEF Row, Maker
<1> DEFINE first == [id |-> 1, email |-> FirstEmail, profile |-> FirstProfile,
                     password |-> Bootstrap, token |-> Bootstrap, login |-> 0]
<1>3. first.id = 1 /\ first.token = Bootstrap
  OBVIOUS
<1>4. \A i \in Account : rows[i] = IF i = 1 THEN first ELSE Absent
  BY <1>1
<1> DEFINE idle == [pc |-> "idle", copy |-> Absent, todo |-> <<>>, overlap |-> FALSE]
<1>5. idle \in Progress /\ \A c \in Call : calls[c] = idle /\ calls[c].pc = "idle"
  BY DEF Init, Progress
<1>6. first \in Row
  BY <1>2
<1>7. rows \in [Account -> Row \cup {Absent}]
  BY <1>4, <1>6 DEF Init
<1> HIDE DEF first, idle
<1>8. owner \in [Maker -> Account \cup {0}] /\ owner[Bootstrap] = 1
  BY AccountFacts DEF Init, Maker
<1>9. TypeOK
  <2>1. \A i \in Account : rows[i] # Absent => rows[i].id = i
    BY <1>3, <1>4
  <2>2. calls \in [Call -> Progress]
    BY <1>5 DEF Init
  <2> QED BY <1>7, <1>8, <2>1, <2>2 DEF TypeOK, Init
<1>10. CountInv
  <2>1. Registered = {}
    BY <1>5 DEF Registered, Call
  <2>2. Cardinality(Registered) = 0
    BY <2>1, FS_EmptySet
  <2>3. \A i \in Account : i = 1 <=> i <= 1
    BY DEF Account
  <2> QED BY <1>2, <1>4, <1>6, <2>2, <2>3 DEF CountInv
<1>11. EmailsApart
  BY <1>4 DEF EmailsApart
<1>12. KnownInv
  <2>1. \A row \in Stored : row = first
    BY <1>4 DEF Stored
  <2>2. ASSUME NEW row, row = first PROVE Known(row)
    BY <1>2, <1>3, <1>4, <1>6, <1>8, <2>2, AccountFacts DEF Known
  <2> QED BY <1>5, <2>1, <2>2 DEF KnownInv, Init
<1>13. AgreesInv /\ FreshInv /\ TodoInv
  BY <1>5 DEF AgreesInv, Agrees, FreshInv, TodoInv, Refreshing, Init
<1> QED BY <1>9, <1>10, <1>11, <1>12, <1>13 DEF UsersInv

LEMMA NextInv == UsersInv /\ [Next]_vars => UsersInv'
<1> SUFFICES ASSUME UsersInv, [Next]_vars PROVE UsersInv'
  OBVIOUS
<1>1. ASSUME NEW c \in Registration, NEW e \in Email, NEW p \in Profile, Register(c, e, p)
      PROVE  UsersInv'
  BY <1>1, RegisterInv
<1>2. ASSUME NEW c \in Edit, EditStep(c) PROVE UsersInv'
  <2>1. ASSUME NEW i \in Account, Read(c, <<"id", i>>) PROVE UsersInv'
    <3>1. <<"id", i>> \in Key
      BY DEF Key
    <3> QED BY <2>1, <3>1, ReadInv
  <2> QED BY <1>2, <2>1, UpdateHandlerInv DEF EditStep
<1>3. ASSUME NEW e \in Email, NEW c \in Reset \cup Login, Read(c, <<"email", e>>)
      PROVE  UsersInv'
  <2>1. <<"email", e>> \in Key
    BY DEF Key
  <2> QED BY <1>3, <2>1, ReadInv
<1>4. ASSUME NEW c \in Reset, ResetStep(c) PROVE UsersInv'
  BY <1>3, <1>4, ResetHandlerInv DEF ResetStep
<1>5. ASSUME NEW c \in Login, LoginStep(c) PROVE UsersInv'
  BY <1>3, <1>5, LoginInv DEF LoginStep
<1>6. ASSUME NEW c \in Call, GiveUp(c) \/ Refresh(c) PROVE UsersInv'
  BY <1>6, GiveUpInv, RefreshInv
<1>7. ASSUME NEW m \in Maker, Get(<<"token", m>>) PROVE UsersInv'
  <2>1. <<"token", m>> \in Key
    BY DEF Key
  <2> QED BY <1>7, <2>1, GetInv
<1>8. ASSUME NEW k \in Key, Expire(k) PROVE UsersInv'
  BY <1>8, ExpireInv
<1>9. CASE UNCHANGED vars
  BY <1>9 DEF vars, UsersInv, TypeOK, CountInv, Registered, EmailsApart, KnownInv, Known,
     Stored, AgreesInv, Agrees, Lookup, FreshInv, TodoInv, Refreshing
<1> QED BY <1>1, <1>2, <1>4, <1>5, <1>6, <1>7, <1>8, <1>9 DEF Next

LEMMA InvHolds == Spec => []UsersInv
BY InitInv, NextInv, PTL DEF Spec

-----------------------------------------------------------------------------
(* A token is only ever found under the account it was made for, in the    *)
(* table and in any cache, whatever old copies handlers write back and     *)
(* whichever account an email has moved to: an update finds its row by the *)
(* identifier of the copy.                                                 *)
THEOREM TokensKeepOwners == Spec => []TokenKeepsOwner
<1>1. UsersInv => TokenKeepsOwner
  BY DEF UsersInv, KnownInv, Known, TokenKeepsOwner
<1> QED BY <1>1, InvHolds, PTL

(* The keys of the row before and after a change are enough: once nothing  *)
(* is being refreshed, every cached entry agrees with the table, except    *)
(* where a refresh has failed and the entry has not expired since.         *)
THEOREM RefreshedKeysSuffice == Spec => []CacheAgreesWhenQuiet
<1>1. UsersInv => CacheAgreesWhenQuiet
  BY DEF UsersInv, AgreesInv, Agrees, CacheAgreesWhenQuiet
<1> QED BY <1>1, InvHolds, PTL

-----------------------------------------------------------------------------
(* A call goes from its copy to its refresh by its own write only.         *)
LEMMA OwnWrite ==
    ASSUME UsersInv, Next, NEW c \in Edit,
           calls[c].pc = "read", calls'[c].pc = "refresh"
    PROVE  \/ \E e \in Email, p \in Profile : UpdateHandler(c, e, p)
           \/ \E now \in 1..MaxStamp : RecordLogin(c, now)
<1>1. c \in Call /\ c \notin Registration /\ c \notin Reset /\ TypeOK
      /\ DOMAIN calls = Call
  BY CallAssumption DEF Call, UsersInv, TypeOK
<1>2. ASSUME NEW d \in Call, NEW progress, d # c, calls' = Committed(d, progress)
      PROVE  FALSE
  <2>1. calls'[c] = [calls[c] EXCEPT !.overlap = TRUE]
    BY <1>1, <1>2 DEF Committed
  <2>2. calls[c] \in Progress
    BY <1>1 DEF TypeOK
  <2>3. calls'[c].pc = calls[c].pc
    BY <2>1, <2>2 DEF Progress
  <2> QED BY <2>3
<1>3. ASSUME NEW d, NEW progress, d # c, calls' = [calls EXCEPT ![d] = progress]
      PROVE  FALSE
  BY <1>1, <1>3
<1>4. ASSUME NEW d \in Registration, NEW e \in Email, NEW p \in Profile, Register(d, e, p)
      PROVE  FALSE
  BY <1>1, <1>2, <1>4 DEF Register, Call
<1>5. ASSUME NEW d \in Call, NEW k, Read(d, k) PROVE FALSE
  <2>1. d # c
    BY <1>5 DEF Read, Idle
  <2> QED BY <1>3, <1>5, <2>1 DEF Read
<1>6. ASSUME NEW d \in Edit, NEW e \in Email, NEW p \in Profile, UpdateHandler(d, e, p)
      PROVE  d = c
  BY <1>2, <1>6 DEF UpdateHandler, Update, Call
<1>7. ASSUME NEW d \in Reset, ResetPasswordHandler(d) PROVE FALSE
  BY <1>1, <1>2, <1>7 DEF ResetPasswordHandler, Update, Call
<1>8. ASSUME NEW d \in Login, NEW now \in 1..MaxStamp, RecordLogin(d, now)
      PROVE  d = c
  <2>1. PICK progress : calls' = [calls EXCEPT ![d] = progress]
    BY <1>8 DEF RecordLogin
  <2> QED BY <1>3, <2>1
<1>9. ASSUME NEW d \in Call, GiveUp(d) PROVE FALSE
  <2>1. d # c
    BY <1>1, <1>9 DEF GiveUp, Finished
  <2> QED BY <1>3, <1>9, <2>1 DEF GiveUp
<1>10. ASSUME NEW d \in Call, Refresh(d) PROVE FALSE
  <2>1. d # c
    BY <1>10 DEF Refresh
  <2>2. PICK progress : calls' = [calls EXCEPT ![d] = progress]
    BY <1>10 DEF Refresh
  <2> QED BY <1>3, <2>1, <2>2
<1>11. ASSUME NEW k, Get(k) \/ Expire(k) PROVE FALSE
  BY <1>11 DEF Get, Expire
<1>12. CASE \E d \in Edit : EditStep(d)
  <2>1. PICK d \in Edit : EditStep(d)
    BY <1>12
  <2>2. \E e \in Email, p \in Profile : UpdateHandler(d, e, p)
    BY <1>5, <2>1 DEF EditStep, Call
  <2> QED BY <1>6, <2>2
<1>13. CASE \E d \in Login : LoginStep(d)
  <2>1. PICK d \in Login : LoginStep(d)
    BY <1>13
  <2>2. \E now \in 1..MaxStamp : RecordLogin(d, now)
    BY <1>5, <2>1 DEF LoginStep, Call
  <2> QED BY <1>8, <2>2
<1>14. ~ \E d \in Reset : ResetStep(d)
  BY <1>5, <1>7 DEF ResetStep, Call
<1> QED BY <1>4, <1>9, <1>10, <1>11, <1>12, <1>13, <1>14 DEF Next

(* What an update and a login do to the rows, column by column.            *)
LEMMA UpdatedRow ==
    ASSUME UsersInv, NEW c \in Call, NEW updated \in Row, Update(c, updated),
           updated.id = calls[c].copy.id
    PROVE  /\ updated.id \in Account /\ rows[updated.id] \in Row
           /\ rows'[updated.id].login = rows[updated.id].login
           /\ rows'[updated.id].token = updated.token
           /\ rows'[updated.id].password = updated.password
           /\ \A i \in Account \ {updated.id} : rows'[i] = rows[i]
<1> DEFINE id == updated.id
<1>1. Known(calls[c].copy)
  BY DEF Update, UsersInv, KnownInv
<1>2. id \in Account /\ rows[id] # Absent /\ rows[id] \in Row
  BY <1>1, RowFacts DEF Known, UsersInv, TypeOK
<1>3. rows' = [rows EXCEPT ![id] = [[updated EXCEPT !.login = rows[id].login] EXCEPT !.id = id]]
  BY DEF Update, Target, Columns
<1>4. \A i \in Account :
         rows'[i] = IF i = id THEN [[updated EXCEPT !.login = rows[id].login] EXCEPT !.id = id]
                    ELSE rows[i]
  BY <1>3 DEF UsersInv, TypeOK
<1>5. rows'[id] = [[updated EXCEPT !.login = rows[id].login] EXCEPT !.id = id]
  BY <1>2, <1>4
<1>6. /\ rows'[id].login = rows[id].login /\ rows'[id].token = updated.token
      /\ rows'[id].password = updated.password
  BY <1>5 DEF Row
<1> QED BY <1>2, <1>4, <1>6

LEMMA LoggedInRow ==
    ASSUME UsersInv, NEW c \in Call, NEW now \in 1..MaxStamp, RecordLogin(c, now),
           NEW row \in Stored
    PROVE  /\ rows'[row.id].token = row.token /\ rows'[row.id].password = row.password
           /\ rows'[row.id].login >= row.login
<1> DEFINE id == calls[c].copy.id
<1>1. row \in Row /\ row.id \in Account /\ rows[row.id] = row /\ row.login \in 0..MaxStamp
  BY StoredFacts, RowFacts DEF UsersInv
<1>2. CASE UNCHANGED rows
  BY <1>1, <1>2
<1>3. CASE Due(rows[id], now) /\ rows' = [rows EXCEPT ![id].login = now]
  <2>1. CASE row.id = id
    <3>1. rows'[row.id] = [row EXCEPT !.login = now]
      BY <1>1, <1>3, <2>1 DEF UsersInv, TypeOK
    <3>2. /\ rows'[row.id].token = row.token /\ rows'[row.id].password = row.password
          /\ rows'[row.id].login = now
      BY <1>1, <3>1 DEF Row
    <3>3. now >= row.login
      BY <1>1, <1>3, <2>1, StampAssumption DEF Due
    <3> QED BY <3>2, <3>3
  <2>2. CASE row.id # id
    <3>1. rows'[row.id] = row
      BY <1>1, <1>3, <2>2 DEF UsersInv, TypeOK
    <3> QED BY <1>1, <3>1
  <2> QED BY <2>1, <2>2
<1> QED BY <1>2, <1>3 DEF RecordLogin

LEMMA EditStepKeeps ==
    ASSUME UsersInv, Next, NEW c \in Edit,
           calls[c].pc = "read", calls'[c].pc = "refresh", ~ calls[c].overlap
    PROVE  SecretsKept(c)
<1> SUFFICES ASSUME NEW row \in Stored
             PROVE  /\ rows'[row.id].token = row.token
                    /\ c \in SetsPassword \/ rows'[row.id].password = row.password
  BY DEF SecretsKept
<1>1. row \in Row /\ row.id \in Account /\ rows[row.id] = row
  BY StoredFacts DEF UsersInv
<1>2. c \in Call
  BY DEF Call
<1>3. ASSUME NEW e \in Email, NEW p \in Profile, UpdateHandler(c, e, p)
      PROVE  /\ rows'[row.id].token = row.token
             /\ c \in SetsPassword \/ rows'[row.id].password = row.password
  <2> DEFINE copy == calls[c].copy
             updated == [copy EXCEPT !.email = e, !.profile = p,
                                     !.password = IF c \in SetsPassword THEN c ELSE @]
  <2>1. Update(c, updated)
    BY <1>3 DEF UpdateHandler
  <2>2. Known(copy) /\ copy.token = rows[copy.id].token
        /\ copy.password = rows[copy.id].password
    BY <1>2 DEF UsersInv, KnownInv, FreshInv
  <2>3. /\ updated \in Row /\ updated.id = copy.id /\ updated.token = copy.token
        /\ c \in SetsPassword \/ updated.password = copy.password
    BY <2>2 DEF Known, Row
  <2> HIDE DEF updated
  <2>4. /\ rows'[copy.id].token = copy.token
        /\ c \in SetsPassword \/ rows'[copy.id].password = copy.password
        /\ \A i \in Account \ {copy.id} : rows'[i] = rows[i]
    BY <1>2, <2>1, <2>3, UpdatedRow
  <2> QED BY <1>1, <2>2, <2>4
<1>4. ASSUME NEW now \in 1..MaxStamp, RecordLogin(c, now)
      PROVE  rows'[row.id].token = row.token /\ rows'[row.id].password = row.password
  BY <1>2, <1>4, LoggedInRow
<1> QED BY <1>3, <1>4, OwnWrite

(* An edit that no other write overlaps with leaves every token as it is,  *)
(* and every password too unless it brings a new one: the copy it writes   *)
(* back holds the secrets that are in the table.                           *)
THEOREM LoneEditsKeepSecrets == Spec => EditAloneKeepsSecrets
<1>1. UsersInv /\ [Next]_vars =>
        [\A c \in Edit :
           (calls[c].pc = "read" /\ calls'[c].pc = "refresh" /\ ~ calls[c].overlap)
              => SecretsKept(c)]_vars
  BY EditStepKeeps
<1> QED BY <1>1, InvHolds, PTL DEF Spec, EditAloneKeepsSecrets

-----------------------------------------------------------------------------
LEMMA LoginStepAdvances ==
    ASSUME UsersInv, Next, NEW row \in Stored
    PROVE  rows'[row.id].login >= row.login
<1>1. /\ row \in Row /\ row.id \in Account /\ rows[row.id] = row /\ row # Absent
      /\ row.login \in 0..MaxStamp
  BY StoredFacts, RowFacts DEF UsersInv
<1>2. row.login >= row.login
  BY <1>1, StampAssumption
<1>3. CASE UNCHANGED rows
  BY <1>1, <1>2, <1>3
<1>4. ASSUME NEW c \in Registration, NEW e \in Email, NEW p \in Profile, Register(c, e, p)
      PROVE  rows'[row.id].login >= row.login
  <2>1. calls[c].pc = "idle" /\ \A i \in Account : i # NextId => rows'[i] = rows[i]
    BY <1>4 DEF Register, Idle, UsersInv, TypeOK
  <2>2. rows[NextId] = Absent
    BY <2>1, NextIdFacts DEF UsersInv
  <2> QED BY <1>1, <1>2, <2>1, <2>2
<1>5. ASSUME NEW c \in Call, NEW updated \in Row, Update(c, updated),
             updated.id = calls[c].copy.id
      PROVE  rows'[row.id].login >= row.login
  BY <1>1, <1>2, <1>5, UpdatedRow
<1>6. ASSUME NEW c \in Edit, NEW e \in Email, NEW p \in Profile, UpdateHandler(c, e, p)
      PROVE  rows'[row.id].login >= row.login
  <2> DEFINE updated == [calls[c].copy EXCEPT !.email = e, !.profile = p,
                            !.password = IF c \in SetsPassword THEN c ELSE @]
  <2>1. c \in Call /\ Update(c, updated)
    BY <1>6 DEF UpdateHandler, Call
  <2>2. Known(calls[c].copy)
    BY <2>1 DEF Update, UsersInv, KnownInv
  <2>3. updated \in Row /\ updated.id = calls[c].copy.id
    BY <2>2 DEF Known, Row
  <2> HIDE DEF updated
  <2> QED BY <1>5, <2>1, <2>3
<1>7. ASSUME NEW c \in Reset, ResetPasswordHandler(c)
      PROVE  rows'[row.id].login >= row.login
  <2> DEFINE updated == [calls[c].copy EXCEPT !.password = c, !.token = c]
  <2>1. c \in Call /\ c \in Maker /\ Update(c, updated)
    BY <1>7 DEF ResetPasswordHandler, Call, Maker
  <2>2. Known(calls[c].copy)
    BY <2>1 DEF Update, UsersInv, KnownInv
  <2>3. updated \in Row /\ updated.id = calls[c].copy.id
    BY <2>1, <2>2 DEF Known, Row
  <2> HIDE DEF updated
  <2> QED BY <1>5, <2>1, <2>3
<1>8. ASSUME NEW c \in Login, NEW now \in 1..MaxStamp, RecordLogin(c, now)
      PROVE  rows'[row.id].login >= row.login
  BY <1>8, LoggedInRow DEF Call
<1>9. ASSUME NEW c, NEW k, Read(c, k) PROVE UNCHANGED rows
  BY <1>9 DEF Read
<1>10. ASSUME NEW c, GiveUp(c) \/ Refresh(c) PROVE UNCHANGED rows
  BY <1>10 DEF GiveUp, Refresh
<1>11. ASSUME NEW k, Get(k) \/ Expire(k) PROVE UNCHANGED rows
  BY <1>11 DEF Get, Expire
<1> QED BY <1>3, <1>4, <1>6, <1>7, <1>8, <1>9, <1>10, <1>11
        DEF Next, EditStep, ResetStep, LoginStep

(* The time of the last login never goes back: RecordLogin compares with   *)
(* the row and no other write touches the column.                          *)
THEOREM LoginsAdvance == Spec => LoginAdvances
<1>1. UsersInv /\ [Next]_vars =>
        [\A row \in Stored : rows'[row.id].login >= row.login]_vars
  BY LoginStepAdvances
<1> QED BY <1>1, InvHolds, PTL DEF Spec, LoginAdvances
=============================================================================
