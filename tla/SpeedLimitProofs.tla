-------------------------- MODULE SpeedLimitProofs --------------------------
(***************************************************************************)
(* For any requests, keys, limit and window: what the limiter admits and   *)
(* what it refuses.                                                        *)
(*                                                                         *)
(* The mutex, held from the lookup to the count, gives every admission to  *)
(* the newest counter of its key.  What was admitted with the counter      *)
(* before it is at least as old as the newest one, so that it has left the *)
(* window when a third counter comes: two counters, two quotas.            *)
(***************************************************************************)
EXTENDS SpeedLimit, FiniteSetTheorems, TLAPS

Counted(c) == {r \in Request : /\ request[r].counter = c
                               /\ request[r].pc \in {"admitted", "limited"}}
Admitted(c) == {r \in Request : request[r].counter = c /\ request[r].pc = "admitted"}
Served == {r \in Request : request[r].pc \in {"found", "admitted", "limited"}}

CallInv ==
    \A r \in Request :
       /\ request[r].pc \in {"idle", "missing", "refused"} => request[r].counter = 0
       /\ r \in Served => request[r].counter \in 1..made /\ KeyOf[r] \in Key
       /\ age[r] < Window => request[r].pc = "admitted"

MadeInv == made <= Cardinality(Served)

(* Whoever is between lookup and count holds the mutex, and has a key.     *)
HoldsMutex ==
    \A r \in Request :
        request[r].pc \in {"missing", "found"} =>
            /\ counterMu = r /\ KeyOf[r] \in Key
            /\ request[r].pc = "missing" => entry[KeyOf[r]] = NoEntry

(* A counter tells how many requests have used it; a quota are admitted.   *)
CountedInv ==
    \A c \in Counter :
       /\ count[c] = Cardinality(Counted(c))
       /\ Cardinality(Admitted(c)) = IF count[c] < Limit THEN count[c] ELSE Limit

(* The requests of a living counter are of its key and younger than it;    *)
(* the others of the key are as old as it at least.                        *)
EntryInv ==
    \A k \in Key : entry[k] # NoEntry =>
       /\ entry[k].counter <= made
       /\ \A j \in Key \ {k} : entry[j] # NoEntry => entry[j].counter # entry[k].counter
       /\ \A r \in Request : request[r].counter = entry[k].counter =>
             /\ KeyOf[r] = k
             /\ request[r].pc = "admitted" => age[r] <= Window - entry[k].ttl
       /\ \A r \in Recent(k) : request[r].counter # entry[k].counter =>
             age[r] >= Window - entry[k].ttl

(* Beside a living counter at most one other has admissions in the window. *)
Drawing(k) == Recent(k) \cup {r \in Request : KeyOf[r] = k /\ request[r].pc = "found"}
Outdated(r, k) == entry[k] = NoEntry \/ request[r].counter # entry[k].counter

PairInv ==
    \A k \in Key : \A r, q \in Drawing(k) :
       Outdated(r, k) /\ Outdated(q, k) => request[r].counter = request[q].counter

FullInv ==
    \A r \in Request :
       request[r].pc = "found" /\ count[request[r].counter] >= Limit => request[r].full

LimitInv ==
    /\ TypeOK /\ CallInv /\ MadeInv /\ HoldsMutex /\ CountedInv
    /\ EntryInv /\ PairInv /\ OneCounterPerWindow /\ FullInv /\ LimitedOnlyWhenFull
-----------------------------------------------------------------------------
LEMMA Sizes ==
    /\ IsFiniteSet(Request) /\ Cardinality(Request) \in Nat
    /\ Limit \in Nat /\ Limit >= 1 /\ Window \in Nat /\ Window >= 1
    /\ \A set : set \subseteq Request =>
          /\ IsFiniteSet(set) /\ Cardinality(set) \in Nat
          /\ Cardinality(set) <= Cardinality(Request)
BY RequestAssumption, PolicyAssumption, FS_CardinalityType, FS_Subset

LEMMA EntryFacts ==
    ASSUME TypeOK, NEW k \in Key, entry[k] # NoEntry
    PROVE  /\ entry[k] \in Entry
           /\ entry[k].counter \in Counter /\ entry[k].counter \in Nat \ {0}
           /\ entry[k].ttl \in 1..Window
<1>1. entry[k] \in Entry
  BY DEF TypeOK
<1> QED BY <1>1, Sizes DEF Entry, Counter

(* An entry that is still found a second later refers to the same counter. *)
LEMMA AgedFacts ==
    ASSUME NEW e \in Entry \cup {NoEntry}
    PROVE  /\ Aged(e) \in Entry \cup {NoEntry}
           /\ Aged(e) # NoEntry => /\ e # NoEntry /\ Aged(e).counter = e.counter
                                   /\ Aged(e).ttl = e.ttl - 1
           /\ Aged(e) = NoEntry => e = NoEntry \/ e.ttl = 1
<1>1. CASE e = NoEntry
  BY <1>1 DEF Aged
<1>2. CASE e \in Entry /\ e # NoEntry /\ e.ttl = 1
  BY <1>2 DEF Aged
<1>3. CASE e \in Entry /\ e # NoEntry /\ e.ttl # 1
  <2>1. Aged(e) = [e EXCEPT !.ttl = e.ttl - 1]
    BY <1>3 DEF Aged
  <2>2. e.ttl - 1 \in 1..Window
    BY <1>3, Sizes DEF Entry
  <2>3. Aged(e) \in Entry /\ Aged(e).counter = e.counter /\ Aged(e).ttl = e.ttl - 1
    BY <1>3, <2>1, <2>2 DEF Entry
  <2> QED BY <1>3, <2>3, NoEntryAssumption
<1> QED BY <1>1, <1>2, <1>3

LEMMA InitInv == Init => LimitInv
<1> SUFFICES ASSUME Init PROVE LimitInv
  OBVIOUS
<1> USE DEF Init
<1>1. TypeOK
  BY Sizes DEF TypeOK, Call
<1>2. CallInv /\ HoldsMutex /\ OneCounterPerWindow /\ FullInv /\ LimitedOnlyWhenFull
  <2>1. \A r \in Request :
           request[r].pc = "idle" /\ request[r].counter = 0 /\ ~ (age[r] < Window)
    BY Sizes
  <2> QED BY <2>1 DEF CallInv, HoldsMutex, OneCounterPerWindow, FullInv,
                      LimitedOnlyWhenFull, Served
<1>3. MadeInv
  BY Sizes DEF MadeInv, Served
<1>4. CountedInv
  <2>1. \A c \in Counter : Counted(c) = {} /\ Admitted(c) = {} /\ count[c] = 0
    BY DEF Counted, Admitted
  <2> QED BY <2>1, Sizes, FS_EmptySet DEF CountedInv
<1>5. EntryInv
  BY DEF EntryInv
<1>6. PairInv
  BY DEF PairInv, Drawing, Recent
<1> QED BY <1>1, <1>2, <1>3, <1>4, <1>5, <1>6 DEF LimitInv

-----------------------------------------------------------------------------
(* A request that comes to no counter is like one that has not come.       *)
LEMMA RefuseInv == ASSUME LimitInv, NEW r \in Request, Refuse(r) PROVE LimitInv'
<1> USE DEF LimitInv
<1>1. /\ request[r].pc = "idle" /\ UNCHANGED <<counterMu, entry, count, made, age>>
      /\ request' = [request EXCEPT ![r].pc = "refused"]
  BY DEF Refuse
<1>2. \A q \in Request :
        /\ request'[q].counter = request[q].counter /\ request'[q].full = request[q].full
        /\ request'[q].pc = IF q = r THEN "refused" ELSE request[q].pc
  BY <1>1 DEF TypeOK, Call
<1>3. TypeOK'
  BY <1>1 DEF TypeOK, Call
<1>4. Served' = Served
  BY <1>1, <1>2 DEF Served
<1>5. CallInv'
  BY <1>1, <1>2, <1>4 DEF CallInv
<1>6. MadeInv' /\ HoldsMutex' /\ OneCounterPerWindow' /\ FullInv' /\ LimitedOnlyWhenFull'
  BY <1>1, <1>2, <1>4
     DEF MadeInv, HoldsMutex, OneCounterPerWindow, FullInv, LimitedOnlyWhenFull
<1>7. CountedInv'
  <2>1. \A c : Counted(c)' = Counted(c) /\ Admitted(c)' = Admitted(c)
    BY <1>1, <1>2 DEF Counted, Admitted
  <2> QED BY <1>1, <2>1 DEF CountedInv
<1>8. \A k : Recent(k)' = Recent(k) /\ Drawing(k)' = Drawing(k)
  BY <1>1, <1>2 DEF Recent, Drawing
<1>9. EntryInv'
  <2>1. \A k \in Key : entry'[k] = entry[k]
    BY <1>1
  <2>2. \A q \in Request : request'[q].pc = "admitted" => request[q].pc = "admitted"
    BY <1>2
  <2>3. \A k : \A q \in Recent(k) : q \in Request
    BY DEF Recent
  <2> QED BY <1>1, <1>2, <1>8, <2>1, <2>2, <2>3 DEF EntryInv
<1>10. PairInv'
  <2>1. \A k : \A q \in Drawing(k) : q \in Request
    BY DEF Recent, Drawing
  <2> QED BY <1>1, <1>2, <1>8, <2>1 DEF PairInv, Outdated
<1> QED BY <1>3, <1>5, <1>6, <1>7, <1>9, <1>10

(* A counter that is found is the living one of the key; if it is used up, *)
(* its quota is in the window.                                             *)
LEMMA LookInv == ASSUME LimitInv, NEW r \in Request, Look(r) PROVE LimitInv'
<1> USE DEF LimitInv
<1> DEFINE k == KeyOf[r]
           full == Admissions(k) >= Limit
<1>1. /\ request[r].pc = "idle" /\ k \in Key /\ counterMu = Free /\ counterMu' = r
      /\ UNCHANGED <<entry, count, made, age>>
      /\ request' = [request EXCEPT ![r] =
           IF entry[k] = NoEntry
           THEN [pc |-> "missing", counter |-> 0, full |-> full]
           ELSE [pc |-> "found", counter |-> entry[k].counter, full |-> full]]
  BY KeyAssumption DEF Look, Unlocked
<1>2. \A q \in Request : request[q].pc \notin {"missing", "found"}
  BY <1>1, RequestAssumption DEF HoldsMutex
<1>3. full \in BOOLEAN
  OBVIOUS
<1>4. ASSUME entry[k] # NoEntry, count[entry[k].counter] >= Limit PROVE full
  <2> DEFINE c == entry[k].counter
  <2>1. c \in Counter /\ c \in Nat \ {0} /\ entry[k].ttl \in 1..Window
    BY <1>1, <1>4, EntryFacts
  <2>2. Cardinality(Admitted(c)) = Limit
    BY <1>4, <2>1, Sizes DEF CountedInv, TypeOK
  <2>3. Admitted(c) \subseteq Recent(k)
    <3> SUFFICES ASSUME NEW q \in Request, request[q].counter = c, request[q].pc = "admitted"
                 PROVE  KeyOf[q] = k /\ age[q] < Window
      BY DEF Admitted, Recent
    <3>1. KeyOf[q] = k /\ age[q] <= Window - entry[k].ttl /\ age[q] \in 0..Window
      BY <1>1, <1>4 DEF EntryInv, TypeOK
    <3> QED BY <2>1, <3>1, Sizes
  <2>4. IsFiniteSet(Recent(k)) /\ Cardinality(Recent(k)) \in Nat
    BY Sizes DEF Recent
  <2>5. Cardinality(Admitted(c)) <= Cardinality(Recent(k))
    BY <2>3, <2>4, FS_Subset
  <2> QED BY <2>2, <2>4, <2>5, Sizes DEF Admissions
<1> HIDE DEF full
<1>5. \A q \in Request \ {r} : request'[q] = request[q]
  BY <1>1 DEF TypeOK
<1>6. CASE entry[k] = NoEntry
  <2>1. /\ request'[r].pc = "missing" /\ request'[r].counter = 0
        /\ request' = [request EXCEPT ![r] = [pc |-> "missing", counter |-> 0, full |-> full]]
    BY <1>1, <1>6 DEF TypeOK
  <2>2. TypeOK'
    BY <1>1, <1>3, <2>1 DEF TypeOK, Call
  <2>3. Served' = Served /\ r \notin Served
    BY <1>1, <1>5, <2>1 DEF Served
  <2>4. CallInv'
    BY <1>1, <1>5, <2>1, <2>3 DEF CallInv
  <2>5. MadeInv' /\ HoldsMutex' /\ OneCounterPerWindow' /\ FullInv' /\ LimitedOnlyWhenFull'
    BY <1>1, <1>2, <1>5, <1>6, <2>1, <2>3
       DEF MadeInv, HoldsMutex, OneCounterPerWindow, FullInv, LimitedOnlyWhenFull
  <2>6. CountedInv'
    <3>1. \A c : Counted(c)' = Counted(c) /\ Admitted(c)' = Admitted(c)
      BY <1>1, <1>5, <2>1 DEF Counted, Admitted
    <3> QED BY <1>1, <3>1 DEF CountedInv
  <2>7. \A j : Recent(j)' = Recent(j) /\ Drawing(j)' = Drawing(j)
    BY <1>1, <1>5, <2>1 DEF Recent, Drawing
  <2>8. \A q \in Request : /\ request'[q].counter = request[q].counter
                           /\ request'[q].pc = "admitted" => request[q].pc = "admitted"
    BY <1>1, <1>5, <2>1 DEF CallInv
  <2>9. EntryInv'
    <3>1. \A j : \A q \in Recent(j) : q \in Request
      BY DEF Recent
    <3> QED BY <1>1, <2>7, <2>8, <3>1 DEF EntryInv
  <2>10. PairInv'
    <3>1. \A j : \A q \in Drawing(j) : q \in Request
      BY DEF Recent, Drawing
    <3> QED BY <1>1, <2>7, <2>8, <3>1 DEF PairInv, Outdated
  <2> QED BY <2>2, <2>4, <2>5, <2>6, <2>9, <2>10
<1>7. CASE entry[k] # NoEntry
  <2> DEFINE c == entry[k].counter
  <2>1. c \in Counter /\ c \in Nat \ {0} /\ c <= made /\ made \in Nat
    BY <1>1, <1>7, EntryFacts, Sizes DEF EntryInv, TypeOK
  <2>2. /\ request'[r].pc = "found" /\ request'[r].counter = c /\ request'[r].full = full
        /\ request' = [request EXCEPT ![r] = [pc |-> "found", counter |-> c, full |-> full]]
    BY <1>1, <1>7 DEF TypeOK
  <2> HIDE DEF c
  <2>3. TypeOK'
    BY <1>1, <1>3, <2>1, <2>2 DEF TypeOK, Call
  <2>4. Served' = Served \cup {r} /\ r \notin Served
    BY <1>1, <1>5, <2>2 DEF Served
  <2>5. CallInv'
    BY <1>1, <1>5, <2>1, <2>2, <2>4 DEF CallInv
  <2>6. MadeInv'
    <3>1. Cardinality(Served') = Cardinality(Served) + 1 /\ Cardinality(Served) \in Nat
      BY <2>4, Sizes, FS_AddElement DEF Served
    <3> QED BY <1>1, <2>1, <3>1 DEF MadeInv
  <2>7. HoldsMutex' /\ OneCounterPerWindow' /\ LimitedOnlyWhenFull'
    BY <1>1, <1>2, <1>5, <2>2
       DEF HoldsMutex, OneCounterPerWindow, LimitedOnlyWhenFull, c
  <2>8. FullInv'
    BY <1>1, <1>4, <1>5, <1>7, <2>2 DEF FullInv, c
  <2>9. CountedInv'
    <3>1. \A d : Counted(d)' = Counted(d) /\ Admitted(d)' = Admitted(d)
      BY <1>1, <1>5, <2>2 DEF Counted, Admitted
    <3> QED BY <1>1, <3>1 DEF CountedInv
  <2>10. \A j : /\ Recent(j)' = Recent(j)
                /\ Drawing(j)' \subseteq Drawing(j) \cup {r}
                /\ r \in Drawing(j)' => j = k
    <3>1. r \notin Recent(k) /\ \A j : Recent(j)' = Recent(j)
      BY <1>1 DEF Recent, CallInv
    <3> QED BY <1>1, <1>5, <2>2, <3>1 DEF Recent, Drawing
  <2>11. \A j \in Key \ {k} : entry[j] # NoEntry => entry[j].counter # c
    BY <1>1, <1>7 DEF EntryInv, c
  <2>12. EntryInv'
    <3> SUFFICES ASSUME NEW j \in Key, entry[j] # NoEntry
                 PROVE  /\ entry[j].counter <= made
                        /\ \A i \in Key \ {j} : entry[i] # NoEntry =>
                               entry[i].counter # entry[j].counter
                        /\ \A q \in Request : request'[q].counter = entry[j].counter =>
                              /\ KeyOf[q] = j
                              /\ request'[q].pc = "admitted" => age[q] <= Window - entry[j].ttl
                        /\ \A q \in Recent(j) : request'[q].counter # entry[j].counter =>
                               age[q] >= Window - entry[j].ttl
      BY <1>1, <2>10 DEF EntryInv
    <3>1. \A q \in Recent(j) : q \in Request /\ q # r
      BY <1>1 DEF Recent, CallInv
    <3>2. \A q \in Request : request'[q].counter = entry[j].counter =>
             /\ KeyOf[q] = j
             /\ request'[q].pc = "admitted" => age[q] <= Window - entry[j].ttl
      BY <1>1, <1>5, <2>2, <2>11 DEF EntryInv
    <3> QED BY <1>5, <3>1, <3>2 DEF EntryInv
  <2>13. PairInv'
    <3>1. \A j : \A q \in Drawing(j) : q \in Request
      BY DEF Recent, Drawing
    <3>2. \A j \in Key : \A q \in Drawing(j)' :
             Outdated(q, j)' => q \in Drawing(j) /\ Outdated(q, j)
                                /\ request'[q].counter = request[q].counter
      BY <1>1, <1>5, <1>7, <2>2, <2>10, <3>1 DEF Outdated, c
    <3> QED BY <3>2 DEF PairInv
  <2> QED BY <2>3, <2>5, <2>6, <2>7, <2>8, <2>9, <2>12, <2>13
<1> QED BY <1>6, <1>7

(* The next counter is one that no request has used. *)
LEMMA FreshCounter ==
    ASSUME LimitInv, NEW r \in Request, request[r].pc = "missing"
    PROVE  /\ made \in Nat /\ made + 1 \in Counter /\ count[made + 1] = 0
           /\ Counted(made + 1) = {} /\ Admitted(made + 1) = {}
           /\ \A q \in Request : request[q].counter # made + 1
           /\ Cardinality(Served \cup {r}) = Cardinality(Served) + 1
           /\ made + 1 <= Cardinality(Served \cup {r})
<1> USE DEF LimitInv
<1>1. made \in Nat
  BY Sizes DEF TypeOK
<1>2. Cardinality(Served \cup {r}) = Cardinality(Served) + 1 /\ Cardinality(Served) \in Nat
  BY Sizes, FS_AddElement DEF Served
<1>3. made + 1 <= Cardinality(Served \cup {r})
  BY <1>1, <1>2 DEF MadeInv
<1>4. Cardinality(Served \cup {r}) <= Cardinality(Request)
  BY Sizes DEF Served
<1>5. made + 1 \in Counter
  BY <1>1, <1>2, <1>3, <1>4, Sizes DEF Counter
<1>6. \A q \in Request : request[q].counter # made + 1
  <2> SUFFICES ASSUME NEW q \in Request PROVE request[q].counter # made + 1
    OBVIOUS
  <2>1. CASE q \in Served
    BY <1>1, <2>1 DEF CallInv
  <2>2. CASE q \notin Served
    BY <1>1, <2>2 DEF CallInv, Served, TypeOK, Call
  <2> QED BY <2>1, <2>2
<1>7. Counted(made + 1) = {} /\ Admitted(made + 1) = {}
  BY <1>6 DEF Counted, Admitted
<1>8. count[made + 1] = 0
  BY <1>5, <1>7, FS_EmptySet DEF CountedInv
<1> QED BY <1>1, <1>2, <1>3, <1>5, <1>6, <1>7, <1>8

(* The admissions of the counters before it belong to one counter: the key *)
(* had no entry since the lookup.                                          *)
LEMMA MakeInv == ASSUME LimitInv, NEW r \in Request, Make(r) PROVE LimitInv'
<1> USE DEF LimitInv
<1> DEFINE k == KeyOf[r]
           c == made + 1
           new == [counter |-> c, ttl |-> Window]
<1>1. /\ request[r].pc = "missing" /\ k \in Key /\ counterMu = r /\ entry[k] = NoEntry
      /\ request[r].counter = 0
      /\ made' = c /\ entry' = [entry EXCEPT ![k] = new]
      /\ request' = [request EXCEPT ![r].pc = "found", ![r].counter = c]
      /\ UNCHANGED <<counterMu, count, age>>
  BY DEF Make, HoldsMutex, CallInv
<1>2. /\ made \in Nat /\ c \in Counter /\ count[c] = 0
      /\ \A q \in Request : request[q].counter # c
      /\ c <= Cardinality(Served \cup {r})
      /\ Counted(c) = {} /\ Admitted(c) = {}
  BY <1>1, FreshCounter
<1>3. \A q \in Request \ {r} : request[q].pc \notin {"missing", "found"}
  BY <1>1 DEF HoldsMutex
<1>4. new \in Entry /\ new # NoEntry /\ new.counter = c /\ new.ttl = Window
  BY <1>2, NoEntryAssumption, PolicyAssumption DEF Entry
<1> HIDE DEF new
<1>5. /\ \A q \in Request \ {r} : request'[q] = request[q]
      /\ request'[r].pc = "found" /\ request'[r].counter = c
      /\ request' \in [Request -> Call]
  BY <1>1, <1>2 DEF TypeOK, Call
<1>6. /\ \A j \in Key : entry'[j] = IF j = k THEN new ELSE entry[j]
      /\ entry' \in [Key -> Entry \cup {NoEntry}]
  BY <1>1, <1>4 DEF TypeOK
<1>7. Served' = Served \cup {r}
  BY <1>1, <1>5 DEF Served
<1>8. c <= Cardinality(Request) /\ c \in Nat
  BY <1>2, Sizes DEF Counter
<1>9. TypeOK'
  BY <1>1, <1>5, <1>6, <1>8 DEF TypeOK
<1> HIDE DEF c
<1>10. CallInv' /\ MadeInv'
  <2>1. 1..made \subseteq 1..c /\ c \in 1..c
    BY <1>2, <1>8 DEF c
  <2>2. CallInv'
    BY <1>1, <1>5, <1>7, <2>1 DEF CallInv
  <2>3. MadeInv'
    BY <1>1, <1>2, <1>7 DEF MadeInv
  <2> QED BY <2>2, <2>3
<1>11. HoldsMutex' /\ OneCounterPerWindow' /\ LimitedOnlyWhenFull'
  BY <1>1, <1>3, <1>4, <1>5, <1>6
     DEF HoldsMutex, OneCounterPerWindow, LimitedOnlyWhenFull, TypeOK, Call
<1>12. FullInv'
  BY <1>1, <1>2, <1>3, <1>5, Sizes DEF FullInv
<1>13. CountedInv'
  <2>1. \A d : Counted(d)' = Counted(d) /\ Admitted(d)' = Admitted(d)
    BY <1>1, <1>5 DEF Counted, Admitted
  <2> QED BY <1>1, <2>1 DEF CountedInv
<1>14. /\ \A j : Recent(j)' = Recent(j)
       /\ \A j : Drawing(j)' \subseteq Drawing(j) \cup {r}
       /\ \A j : r \in Drawing(j)' => j = k
       /\ \A j : \A q \in Recent(j) : q \in Request \ {r}
  <2>1. ~ (age[r] < Window)
    BY <1>1 DEF CallInv
  <2>2. \A j : Recent(j)' = Recent(j) /\ r \notin Recent(j)
    BY <1>1, <2>1 DEF Recent
  <2> QED BY <1>5, <2>2 DEF Drawing, Recent
<1>15. EntryInv'
  <2> SUFFICES ASSUME NEW j \in Key, entry'[j] # NoEntry
               PROVE  /\ entry'[j].counter <= made'
                      /\ \A i \in Key \ {j} : entry'[i] # NoEntry =>
                             entry'[i].counter # entry'[j].counter
                      /\ \A q \in Request : request'[q].counter = entry'[j].counter =>
                            /\ KeyOf[q] = j
                            /\ request'[q].pc = "admitted" => age'[q] <= Window - entry'[j].ttl
                      /\ \A q \in Recent(j)' : request'[q].counter # entry'[j].counter =>
                             age'[q] >= Window - entry'[j].ttl
    BY DEF EntryInv
  <2>1. \A i \in Key : i # k /\ entry[i] # NoEntry =>
           entry[i].counter \in Nat /\ entry[i].counter <= made /\ entry[i].counter # c
    BY <1>2, EntryFacts DEF EntryInv, c
  <2>2. CASE j = k
    <3>1. entry'[j] = new
      BY <1>6, <2>2
    <3>2. \A q \in Request : request'[q].counter = c => q = r
      BY <1>2, <1>5
    <3>3. \A q \in Request : age[q] >= Window - Window
      BY Sizes DEF TypeOK
    <3>4. c <= made'
      BY <1>1, <1>8
    <3> QED BY <1>1, <1>4, <1>5, <1>6, <1>14, <2>1, <2>2, <3>1, <3>2, <3>3, <3>4
  <2>3. CASE j # k
    <3>1. entry'[j] = entry[j] /\ entry[j].counter \in Nat /\ entry[j].counter <= made
          /\ entry[j].counter # c
      BY <1>6, <2>1, <2>3
    <3>2. entry'[j].counter <= made'
      BY <1>1, <1>2, <3>1 DEF c
    <3>3. \A i \in Key \ {j} : entry'[i] # NoEntry => entry'[i].counter # entry'[j].counter
      BY <1>4, <1>6, <3>1 DEF EntryInv
    <3>4. \A q \in Request : request'[q].counter = entry'[j].counter =>
             q # r /\ KeyOf[q] = j
             /\ (request'[q].pc = "admitted" => age'[q] <= Window - entry'[j].ttl)
      BY <1>1, <1>5, <3>1 DEF EntryInv
    <3>5. \A q \in Recent(j)' : request'[q].counter # entry'[j].counter =>
             age'[q] >= Window - entry'[j].ttl
      BY <1>1, <1>5, <1>14, <3>1 DEF EntryInv
    <3> QED BY <3>2, <3>3, <3>4, <3>5
  <2> QED BY <2>2, <2>3
<1>16. PairInv'
  <2>1. \A j : \A q \in Drawing(j) : q \in Request
    BY DEF Recent, Drawing
  <2>2. ASSUME NEW j \in Key, NEW q \in Drawing(j)', Outdated(q, j)'
        PROVE  /\ q \in Drawing(j) /\ Outdated(q, j)
               /\ request'[q].counter = request[q].counter
    <3>1. CASE j = k
      <4>1. ~ Outdated(r, k)'
        BY <1>1, <1>4, <1>5, <1>6 DEF Outdated
      <4> QED BY <1>1, <1>5, <1>14, <2>1, <2>2, <3>1, <4>1 DEF Outdated
    <3>2. CASE j # k
      BY <1>5, <1>6, <1>14, <2>1, <2>2, <3>2 DEF Outdated
    <3> QED BY <3>1, <3>2
  <2> QED BY <2>2 DEF PairInv
<1> QED BY <1>9, <1>10, <1>11, <1>12, <1>13, <1>15, <1>16

-----------------------------------------------------------------------------
LEMMA UseCounter ==
    ASSUME LimitInv, NEW r \in Request, Count(r), NEW c, c = request[r].counter
    PROVE  /\ c \in Counter /\ KeyOf[r] \in Key /\ request[r].pc = "found"
           /\ count[c] \in Nat /\ count' = [count EXCEPT ![c] = count[c] + 1]
           /\ IF count[c] + 1 <= Limit
              THEN /\ request' = [request EXCEPT ![r].pc = "admitted"]
                   /\ age' = [age EXCEPT ![r] = 0]
              ELSE /\ request' = [request EXCEPT ![r].pc = "limited"]
                   /\ age' = age
           /\ counterMu' = Free /\ UNCHANGED <<entry, made>>
<1> USE DEF LimitInv
<1>1. /\ request[r].pc = "found" /\ KeyOf[r] \in Key
      /\ counterMu' = Free /\ UNCHANGED <<entry, made>>
  BY DEF Count, HoldsMutex
<1>2. c \in Counter /\ count[c] \in Nat
  <2>1. c \in 1..made
    BY <1>1 DEF CallInv, Served
  <2>2. c \in Counter
    BY <2>1, Sizes DEF TypeOK, Counter
  <2> QED BY <2>2, Sizes DEF TypeOK
<1>3. count' = [count EXCEPT ![c] = count[c] + 1]
  BY <1>2 DEF Count
<1>4. count'[c] = count[c] + 1
  BY <1>2, <1>3 DEF TypeOK
<1>5. IF count[c] + 1 <= Limit
      THEN /\ request' = [request EXCEPT ![r].pc = "admitted"]
           /\ age' = [age EXCEPT ![r] = 0]
      ELSE /\ request' = [request EXCEPT ![r].pc = "limited"]
           /\ age' = age
  BY <1>4 DEF Count, Allowed
<1> QED BY <1>1, <1>2, <1>3, <1>5

LEMMA CountInv == ASSUME LimitInv, NEW r \in Request, Count(r) PROVE LimitInv'
<1> USE DEF LimitInv
<1>0. PICK c : c = request[r].counter
  OBVIOUS
<1> DEFINE k == KeyOf[r]
           admitted == count[c] + 1 <= Limit
           answer == IF admitted THEN "admitted" ELSE "limited"
<1>1. /\ c \in Counter /\ k \in Key /\ request[r].pc = "found"
      /\ count[c] \in Nat /\ count' = [count EXCEPT ![c] = count[c] + 1]
      /\ IF admitted THEN /\ request' = [request EXCEPT ![r].pc = "admitted"]
                          /\ age' = [age EXCEPT ![r] = 0]
                     ELSE /\ request' = [request EXCEPT ![r].pc = "limited"]
                          /\ age' = age
      /\ counterMu' = Free /\ UNCHANGED <<entry, made>>
  BY <1>0, UseCounter
<1>2. \A q \in Request \ {r} : request[q].pc \notin {"missing", "found"}
  <2>1. counterMu = r
    BY <1>1 DEF HoldsMutex
  <2> QED BY <2>1 DEF HoldsMutex
<1>3. admitted \in BOOLEAN
  OBVIOUS
<1> HIDE DEF admitted
<1>4. /\ \A q \in Request : request'[q].counter = request[q].counter
                            /\ request'[q].full = request[q].full
      /\ \A q \in Request \ {r} : request'[q] = request[q] /\ age'[q] = age[q]
      /\ request'[r].pc = answer
      /\ age'[r] = IF admitted THEN 0 ELSE age[r]
      /\ request' \in [Request -> Call]
      /\ age' \in [Request -> 0..Window]
  <2>1. /\ request \in [Request -> Call] /\ age \in [Request -> 0..Window]
        /\ 0 \in 0..Window
    BY Sizes DEF TypeOK
  <2>2. /\ request' = [request EXCEPT ![r].pc = answer]
        /\ age' = [age EXCEPT ![r] = IF admitted THEN 0 ELSE age[r]]
    BY <1>1, <2>1
  <2>3. answer \in {"admitted", "limited"}
    OBVIOUS
  <2> HIDE DEF answer
  <2>4. \A q \in Request \ {r} : request'[q] = request[q] /\ age'[q] = age[q]
    BY <2>1, <2>2
  <2>5. age'[r] = IF admitted THEN 0 ELSE age[r]
    BY <2>1, <2>2
  <2>6. request'[r] = [request[r] EXCEPT !.pc = answer] /\ request[r] \in Call
    BY <2>1, <2>2
  <2>7. /\ request'[r].pc = answer /\ request'[r].counter = request[r].counter
        /\ request'[r].full = request[r].full /\ request'[r] \in Call
    BY <2>3, <2>6 DEF Call
  <2>8. request' \in [Request -> Call]
    BY <2>1, <2>2, <2>4, <2>7
  <2>9. age' \in [Request -> 0..Window]
    BY <1>3, <2>1, <2>2, <2>4, <2>5
  <2> QED BY <2>4, <2>5, <2>7, <2>8, <2>9
<1> HIDE DEF answer
<1>5. answer \in {"admitted", "limited"} /\ (answer = "admitted" <=> admitted)
  BY <1>3 DEF answer
<1>6. ~ (age[r] < Window) /\ r \notin Counted(c) /\ r \notin Admitted(c)
      /\ age[r] \in 0..Window
  BY <1>0, <1>1 DEF CallInv, Counted, Admitted, TypeOK
<1>7. Served' = Served
  BY <1>1, <1>4, <1>5 DEF Served
<1>8. Counted(c)' = Counted(c) \cup {r} /\ \A d : d # c => Counted(d)' = Counted(d)
  BY <1>0, <1>1, <1>4, <1>5 DEF Counted
<1>9. /\ Admitted(c)' = IF admitted THEN Admitted(c) \cup {r} ELSE Admitted(c)
      /\ \A d : d # c => Admitted(d)' = Admitted(d)
  BY <1>0, <1>1, <1>3, <1>4, <1>5 DEF Admitted
<1>10. /\ Cardinality(Counted(c)') = Cardinality(Counted(c)) + 1
       /\ Cardinality(Counted(c)') <= Cardinality(Request)
       /\ Cardinality(Counted(c)') \in Nat
  <2>1. IsFiniteSet(Counted(c))
    BY Sizes DEF Counted
  <2>2. Cardinality(Counted(c) \cup {r}) = Cardinality(Counted(c)) + 1
    BY <1>6, <2>1, FS_AddElement
  <2>3. Counted(c) \cup {r} \subseteq Request
    BY DEF Counted
  <2>4. /\ Cardinality(Counted(c) \cup {r}) <= Cardinality(Request)
        /\ Cardinality(Counted(c) \cup {r}) \in Nat
    BY <2>3, Sizes
  <2> QED BY <1>8, <2>2, <2>4
<1>11. count[c] = Cardinality(Counted(c))
       /\ Cardinality(Admitted(c)) = IF count[c] < Limit THEN count[c] ELSE Limit
  BY <1>1 DEF CountedInv
<1>12. \A d \in Counter : count'[d] = IF d = c THEN count[c] + 1 ELSE count[d]
  BY <1>1 DEF TypeOK
<1>13. TypeOK'
  <2>1. count[c] + 1 \in 0..Cardinality(Request)
    BY <1>1, <1>10, <1>11, Sizes
  <2>2. count' \in [Counter -> 0..Cardinality(Request)]
    BY <1>1, <2>1 DEF TypeOK
  <2> QED BY <1>1, <1>4, <2>2 DEF TypeOK
<1>14. CountedInv'
  <2>1. Cardinality(Admitted(c)') = IF count[c] + 1 < Limit THEN count[c] + 1 ELSE Limit
    <3>1. CASE admitted
      <4>1. IsFiniteSet(Admitted(c))
        BY Sizes DEF Admitted
      <4>2. Cardinality(Admitted(c) \cup {r}) = Cardinality(Admitted(c)) + 1
        BY <1>6, <4>1, FS_AddElement
      <4> QED BY <1>1, <1>9, <1>11, <3>1, <4>2, Sizes DEF admitted
    <3>2. CASE ~ admitted
      BY <1>1, <1>9, <1>11, <3>2, Sizes DEF admitted
    <3> QED BY <3>1, <3>2
  <2>2. /\ count'[c] = Cardinality(Counted(c)')
        /\ Cardinality(Admitted(c)') = IF count'[c] < Limit THEN count'[c] ELSE Limit
    BY <1>1, <1>10, <1>11, <1>12, <2>1
  <2>3. \A d \in Counter \ {c} :
           /\ count'[d] = Cardinality(Counted(d)')
           /\ Cardinality(Admitted(d)') = IF count'[d] < Limit THEN count'[d] ELSE Limit
    BY <1>8, <1>9, <1>12 DEF CountedInv
  <2> QED BY <2>2, <2>3 DEF CountedInv
<1>15. CallInv' /\ MadeInv'
  <2>1. CallInv'
    BY <1>1, <1>4, <1>5, <1>6, <1>7 DEF CallInv
  <2> QED BY <1>1, <1>7, <2>1 DEF MadeInv
<1>16. HoldsMutex' /\ OneCounterPerWindow' /\ FullInv'
  BY <1>2, <1>4, <1>5 DEF HoldsMutex, OneCounterPerWindow, FullInv
<1>17. LimitedOnlyWhenFull'
  <2>1. ~ admitted => request[r].full
    BY <1>0, <1>1, Sizes DEF FullInv, admitted
  <2> QED BY <1>4, <1>5, <2>1 DEF LimitedOnlyWhenFull
<1>18. /\ \A j \in Key \ {k} : Recent(j)' = Recent(j)
       /\ Recent(k)' = IF admitted THEN Recent(k) \cup {r} ELSE Recent(k)
       /\ \A j : \A q \in Recent(j) : q \in Request \ {r}
  BY <1>1, <1>4, <1>6, Sizes DEF Recent
<1>19. entry[k] # NoEntry => entry[k].counter = c
  BY <1>0, <1>1 DEF OneCounterPerWindow
<1>20. EntryInv'
  <2> SUFFICES ASSUME NEW j \in Key, entry[j] # NoEntry
               PROVE  /\ entry[j].counter <= made
                      /\ \A i \in Key \ {j} : entry[i] # NoEntry =>
                             entry[i].counter # entry[j].counter
                      /\ \A q \in Request : request'[q].counter = entry[j].counter =>
                            /\ KeyOf[q] = j
                            /\ request'[q].pc = "admitted" => age'[q] <= Window - entry[j].ttl
                      /\ \A q \in Recent(j)' : request'[q].counter # entry[j].counter =>
                             age'[q] >= Window - entry[j].ttl
    BY <1>1 DEF EntryInv
  <2>1. 0 <= Window - entry[j].ttl
    BY EntryFacts, Sizes
  <2>2. \A q \in Request : request'[q].counter = entry[j].counter =>
           /\ KeyOf[q] = j
           /\ request'[q].pc = "admitted" => age'[q] <= Window - entry[j].ttl
    <3> SUFFICES ASSUME NEW q \in Request, request[q].counter = entry[j].counter
                 PROVE  /\ KeyOf[q] = j
                        /\ request'[q].pc = "admitted" => age'[q] <= Window - entry[j].ttl
      BY <1>4
    <3>1. CASE q = r
      BY <1>4, <1>5, <2>1, <3>1 DEF EntryInv
    <3>2. CASE q # r
      BY <1>4, <3>2 DEF EntryInv
    <3> QED BY <3>1, <3>2
  <2>3. \A q \in Recent(j)' : request'[q].counter # entry[j].counter =>
           age'[q] >= Window - entry[j].ttl
    <3> SUFFICES ASSUME NEW q \in Recent(j)', request'[q].counter # entry[j].counter
                 PROVE  age'[q] >= Window - entry[j].ttl
      OBVIOUS
    <3>1. q \in Request /\ KeyOf[q] = j
      BY DEF Recent
    <3>2. q # r
      BY <1>0, <1>4, <1>19, <3>1
    <3>3. q \in Recent(j)
      BY <1>18, <3>2
    <3> QED BY <1>4, <3>1, <3>2, <3>3 DEF EntryInv
  <2> QED BY <2>2, <2>3 DEF EntryInv
<1>21. PairInv'
  <2>1. r \in Drawing(k) /\ \A j : \A q \in Drawing(j) : q \in Request
    BY <1>1 DEF Drawing, Recent
  <2>2. \A j \in Key : Drawing(j)' \subseteq Drawing(j)
    <3> SUFFICES ASSUME NEW j \in Key, NEW q \in Drawing(j)' PROVE q \in Drawing(j)
      OBVIOUS
    <3>1. CASE q = r
      BY <2>1, <3>1 DEF Drawing, Recent
    <3>2. CASE q # r
      BY <1>4, <3>2 DEF Drawing, Recent
    <3> QED BY <3>1, <3>2
  <2>3. \A j \in Key : \A q \in Drawing(j)' :
           Outdated(q, j)' => q \in Drawing(j) /\ Outdated(q, j)
                              /\ request'[q].counter = request[q].counter
    BY <1>1, <1>4, <2>1, <2>2 DEF Outdated
  <2> QED BY <2>3 DEF PairInv
<1> QED BY <1>13, <1>14, <1>15, <1>16, <1>17, <1>20, <1>21

-----------------------------------------------------------------------------
(* An entry ends when its counter is as old as the window; what was        *)
(* admitted with the counter before has left the window by then.           *)
LEMMA TickInv == ASSUME LimitInv, Tick PROVE LimitInv'
<1> USE DEF LimitInv
<1>1. /\ UNCHANGED <<counterMu, count, made, request>>
      /\ \A k \in Key : entry'[k] = Aged(entry[k]) /\ entry[k] \in Entry \cup {NoEntry}
      /\ \A r \in Request : /\ age[r] \in 0..Window
                            /\ age'[r] = IF age[r] < Window THEN age[r] + 1 ELSE Window
  BY DEF Tick, TypeOK
<1>2. \A k \in Key :
         /\ entry'[k] \in Entry \cup {NoEntry}
         /\ entry'[k] # NoEntry => /\ entry[k] # NoEntry
                                   /\ entry'[k].counter = entry[k].counter
                                   /\ entry'[k].ttl = entry[k].ttl - 1
                                   /\ entry[k].ttl \in 1..Window
         /\ entry'[k] = NoEntry => entry[k] = NoEntry \/ entry[k].ttl = 1
  BY <1>1, AgedFacts, EntryFacts
<1>3. TypeOK'
  <2>1. entry' \in [Key -> Entry \cup {NoEntry}]
    BY <1>2 DEF Tick
  <2>2. \A r \in Request : age'[r] \in 0..Window
    BY <1>1, Sizes
  <2>3. age' \in [Request -> 0..Window]
    BY <2>2 DEF Tick
  <2> QED BY <1>1, <2>1, <2>3 DEF TypeOK
<1>4. \A r \in Request : /\ age'[r] < Window => age[r] < Window /\ age'[r] = age[r] + 1
                        /\ age'[r] <= age[r] + 1
  BY <1>1, Sizes
<1>5. CallInv' /\ MadeInv' /\ FullInv' /\ LimitedOnlyWhenFull'
  BY <1>1, <1>4 DEF CallInv, MadeInv, Served, FullInv, LimitedOnlyWhenFull
<1>6. HoldsMutex' /\ OneCounterPerWindow'
  BY <1>1, <1>2 DEF HoldsMutex, OneCounterPerWindow
<1>7. CountedInv'
  <2>1. \A c : Counted(c)' = Counted(c) /\ Admitted(c)' = Admitted(c)
    BY <1>1 DEF Counted, Admitted
  <2> QED BY <1>1, <2>1 DEF CountedInv
<1>8. \A k : /\ \A r \in Recent(k)' : r \in Recent(k) /\ r \in Request
                                        /\ age'[r] = age[r] + 1 /\ age'[r] < Window
             /\ \A r \in Drawing(k)' : r \in Drawing(k) /\ r \in Request
  BY <1>1, <1>4 DEF Recent, Drawing
<1>9. EntryInv'
  <2> SUFFICES ASSUME NEW k \in Key, entry'[k] # NoEntry
               PROVE  /\ entry'[k].counter <= made
                      /\ \A j \in Key \ {k} : entry'[j] # NoEntry =>
                             entry'[j].counter # entry'[k].counter
                      /\ \A r \in Request : request[r].counter = entry'[k].counter =>
                            /\ KeyOf[r] = k
                            /\ request[r].pc = "admitted" => age'[r] <= Window - entry'[k].ttl
                      /\ \A r \in Recent(k)' : request[r].counter # entry'[k].counter =>
                             age'[r] >= Window - entry'[k].ttl
    BY <1>1 DEF EntryInv
  <2>1. /\ entry[k] # NoEntry /\ entry'[k].counter = entry[k].counter
        /\ entry'[k].ttl = entry[k].ttl - 1 /\ entry[k].ttl \in 1..Window
    BY <1>2
  <2>2. entry'[k].counter <= made
        /\ \A j \in Key \ {k} : entry'[j] # NoEntry => entry'[j].counter # entry'[k].counter
    BY <1>2, <2>1 DEF EntryInv
  <2>3. ASSUME NEW r \in Request, request[r].counter = entry'[k].counter
        PROVE  /\ KeyOf[r] = k
               /\ request[r].pc = "admitted" => age'[r] <= Window - entry'[k].ttl
    <3>1. KeyOf[r] = k /\ (request[r].pc = "admitted" => age[r] <= Window - entry[k].ttl)
      BY <2>1, <2>3 DEF EntryInv
    <3>2. age[r] \in Nat /\ age'[r] \in Nat /\ age'[r] <= age[r] + 1
      BY <1>1, <1>4, Sizes
    <3> QED BY <2>1, <3>1, <3>2, Sizes
  <2>4. ASSUME NEW r \in Recent(k)', request[r].counter # entry'[k].counter
        PROVE  age'[r] >= Window - entry'[k].ttl
    <3>1. r \in Recent(k) /\ age'[r] = age[r] + 1 /\ age[r] \in Nat
      BY <1>1, <1>8, Sizes
    <3>2. age[r] >= Window - entry[k].ttl
      BY <2>1, <2>4, <3>1 DEF EntryInv
    <3> QED BY <2>1, <3>1, <3>2, Sizes
  <2> QED BY <2>2, <2>3, <2>4
<1>10. PairInv'
  <2> SUFFICES ASSUME NEW k \in Key, NEW r \in Drawing(k)', NEW q \in Drawing(k)',
                      Outdated(r, k)', Outdated(q, k)'
               PROVE  request[r].counter = request[q].counter
    BY <1>1 DEF PairInv
  <2>1. r \in Drawing(k) /\ q \in Drawing(k)
    BY <1>8
  <2>2. CASE entry'[k] # NoEntry \/ entry[k] = NoEntry
    <3>1. Outdated(r, k) /\ Outdated(q, k)
      BY <1>1, <1>2, <2>2 DEF Outdated
    <3> QED BY <2>1, <3>1 DEF PairInv
  <2>3. CASE entry'[k] = NoEntry /\ entry[k] # NoEntry
    <3>1. entry[k].ttl = 1
      BY <1>2, <2>3
    <3>2. ASSUME NEW p \in Drawing(k)' PROVE request[p].counter = entry[k].counter
      <4>1. p \in Request /\ KeyOf[p] = k
        BY DEF Drawing, Recent
      <4>2. CASE request[p].pc = "found"
        BY <2>3, <4>1, <4>2 DEF OneCounterPerWindow
      <4>3. CASE request[p].pc # "found"
        <5>1. p \in Recent(k)'
          BY <1>1, <4>3 DEF Drawing
        <5>2. p \in Recent(k) /\ age[p] + 1 < Window /\ age[p] \in Nat
          BY <1>1, <1>8, <5>1, Sizes
        <5>3. ~ (age[p] >= Window - 1)
          BY <5>2, Sizes
        <5> QED BY <2>3, <3>1, <5>2, <5>3 DEF EntryInv
      <4> QED BY <4>2, <4>3
    <3> QED BY <3>2
  <2> QED BY <2>2, <2>3
<1> QED BY <1>3, <1>5, <1>6, <1>7, <1>9, <1>10

LEMMA NextInv == LimitInv /\ [Next]_vars => LimitInv'
<1> SUFFICES ASSUME LimitInv, [Next]_vars PROVE LimitInv'
  OBVIOUS
<1>1. CASE UNCHANGED vars
  <2> USE <1>1 DEF vars
  <2>1. \A k : Recent(k)' = Recent(k) /\ Drawing(k)' = Drawing(k)
    BY DEF Recent, Drawing
  <2>2. \A c : Counted(c)' = Counted(c) /\ Admitted(c)' = Admitted(c)
    BY DEF Counted, Admitted
  <2>3. TypeOK' /\ CallInv' /\ MadeInv' /\ HoldsMutex'
    BY DEF LimitInv, TypeOK, CallInv, MadeInv, Served, HoldsMutex
  <2>4. CountedInv' /\ EntryInv' /\ PairInv'
    BY <2>1, <2>2 DEF LimitInv, CountedInv, EntryInv, PairInv, Outdated
  <2>5. OneCounterPerWindow' /\ FullInv' /\ LimitedOnlyWhenFull'
    BY DEF LimitInv, OneCounterPerWindow, FullInv, LimitedOnlyWhenFull
  <2> QED BY <2>3, <2>4, <2>5 DEF LimitInv
<1> QED BY <1>1, RefuseInv, LookInv, MakeInv, CountInv, TickInv DEF Next

LEMMA InvHolds == Spec => []LimitInv
BY InitInv, NextInv, PTL DEF Spec

-----------------------------------------------------------------------------
(* The requests of one key that are between lookup and count use the       *)
(* counter the cache refers to, whatever the policy and however requests   *)
(* overlap (speed_limit.go:71-88).                                         *)
THEOREM OneQuotaOneCounter == Spec => []OneCounterPerWindow
<1>1. LimitInv => OneCounterPerWindow
  BY DEF LimitInv
<1> QED BY <1>1, InvHolds, PTL

(* At most one request is between lookup and count at any time.            *)
THEOREM MutualExclusion ==
    Spec => [](\A r, q \in Request :
                  (/\ request[r].pc \in {"missing", "found"}
                   /\ request[q].pc \in {"missing", "found"}) => r = q)
<1>1. LimitInv => \A r, q \in Request :
                    (/\ request[r].pc \in {"missing", "found"}
                     /\ request[q].pc \in {"missing", "found"}) => r = q
  BY DEF LimitInv, HoldsMutex
<1> QED BY <1>1, InvHolds, PTL

(* What the window holds was admitted with two counters at most: all that  *)
(* was not admitted with the living one, with one other.                   *)
LEMMA TwoCounters ==
    ASSUME LimitInv, NEW k \in Key
    PROVE  \E c, d : Recent(k) \subseteq Admitted(c) \cup Admitted(d)
<1> USE DEF LimitInv
<1>1. \A r \in Recent(k) : r \in Admitted(request[r].counter) /\ r \in Drawing(k)
  BY DEF Recent, CallInv, Drawing, Admitted
<1>2. CASE \E r \in Recent(k) : Outdated(r, k)
  <2>1. PICK p \in Recent(k) : Outdated(p, k)
    BY <1>2
  <2>2. \A r \in Recent(k) : Outdated(r, k) => request[r].counter = request[p].counter
    BY <1>1, <2>1 DEF PairInv
  <2>3. \A r \in Recent(k) : \/ r \in Admitted(request[p].counter)
                            \/ r \in Admitted(entry[k].counter)
    BY <1>1, <2>2 DEF Outdated
  <2> QED BY <2>3
<1>3. CASE ~ \E r \in Recent(k) : Outdated(r, k)
  <2>1. \A r \in Recent(k) : r \in Admitted(entry[k].counter)
    BY <1>1, <1>3 DEF Outdated
  <2> QED BY <2>1
<1> QED BY <1>2, <1>3

LEMMA OneQuotaEach ==
    ASSUME LimitInv, NEW c
    PROVE  /\ IsFiniteSet(Admitted(c)) /\ Cardinality(Admitted(c)) \in Nat
           /\ Cardinality(Admitted(c)) <= Limit
<1> USE DEF LimitInv
<1>1. IsFiniteSet(Admitted(c)) /\ Cardinality(Admitted(c)) \in Nat
  BY Sizes DEF Admitted
<1>2. CASE c \in Counter
  <2>1. count[c] \in Nat
    BY <1>2, Sizes DEF TypeOK
  <2> QED BY <1>1, <1>2, <2>1, Sizes DEF CountedInv
<1>3. CASE c \notin Counter
  <2>1. ASSUME NEW r \in Admitted(c) PROVE FALSE
    <3>1. r \in Request /\ request[r].pc = "admitted" /\ request[r].counter = c
      BY DEF Admitted
    <3>2. c \in 1..made
      BY <3>1 DEF CallInv, Served
    <3> QED BY <1>3, <3>2, Sizes DEF TypeOK, Counter
  <2>2. Admitted(c) = {}
    BY <2>1
  <2> QED BY <1>1, <2>2, FS_EmptySet, Sizes
<1> QED BY <1>2, <1>3

(* No period of one window lets more than two quotas of a key through,     *)
(* whichever requests overlap and wherever the entry expires between the   *)
(* lookup and the count.                                                   *)
THEOREM AtMostTwoQuotas == Spec => []TwoQuotasPerWindow
<1>1. LimitInv => TwoQuotasPerWindow
  <2> SUFFICES ASSUME LimitInv, NEW k \in Key PROVE Admissions(k) <= 2 * Limit
    BY DEF TwoQuotasPerWindow
  <2>1. PICK c, d : Recent(k) \subseteq Admitted(c) \cup Admitted(d)
    BY TwoCounters
  <2>2. /\ IsFiniteSet(Admitted(c)) /\ Cardinality(Admitted(c)) \in Nat
        /\ Cardinality(Admitted(c)) <= Limit
        /\ IsFiniteSet(Admitted(d)) /\ Cardinality(Admitted(d)) \in Nat
        /\ Cardinality(Admitted(d)) <= Limit
    BY OneQuotaEach
  <2>3. /\ IsFiniteSet(Admitted(c) \cup Admitted(d))
        /\ Cardinality(Admitted(c) \cup Admitted(d)) =
              Cardinality(Admitted(c)) + Cardinality(Admitted(d))
                - Cardinality(Admitted(c) \cap Admitted(d))
    BY <2>2, FS_Union
  <2>4. /\ Cardinality(Recent(k)) <= Cardinality(Admitted(c) \cup Admitted(d))
        /\ Cardinality(Recent(k)) \in Nat
        /\ Cardinality(Admitted(c) \cup Admitted(d)) \in Nat
        /\ Cardinality(Admitted(c) \cap Admitted(d)) \in Nat
    BY <2>1, <2>3, Sizes, FS_Subset, FS_CardinalityType DEF Recent, Admitted
  <2> QED BY <2>2, <2>3, <2>4, Sizes DEF Admissions
<1> QED BY <1>1, InvHolds, PTL

(* A request is answered 429 only when the window before its lookup held a *)
(* whole quota of its key.                                                 *)
THEOREM NobodyLimitedEarly == Spec => []LimitedOnlyWhenFull
<1>1. LimitInv => LimitedOnlyWhenFull
  BY DEF LimitInv
<1> QED BY <1>1, InvHolds, PTL
=============================================================================
