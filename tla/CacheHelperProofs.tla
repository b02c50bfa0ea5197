------------------------- MODULE CacheHelperProofs -------------------------
(***************************************************************************)
(* Theorems about CacheHelper, for any sets of instances, readers and      *)
(* writers placed in any way, any lifetimes that satisfy TTLAssumption and *)
(* any number of writes.                                                   *)
(***************************************************************************)
EXTENDS CacheHelper, TLAPS

(* What a cache, a load or a refresh holds. *)
Carries(flying) == flying.pc \in {"hit", "loaded", "cached"}
Brings(refresh) == refresh.pc \in {"loaded", "cached"}

Held ==
    OnTheWay \cup {entry.ver : entry \in ({remote} \cup {local[i] : i \in Instance})
                                         \ {NoEntry}}

(* FreshAfterGrace is not inductive: it has to be known how long a stale   *)
(* entry still lives, and that one copied from Redis does not outlive it   *)
(* by more than LocalTTL.                                                  *)
LocalLifetimes ==
    \A i \in Instance : local[i] # NoEntry => local[i].ttl <= LocalTTL

LoadsAreFresh ==
    /\ \A i \in Instance : flight[i].pc \in {"loaded", "cached"} => flight[i].ver = row
    /\ \A w \in Writer : Brings(writer[w]) => writer[w].ver = row

StaleIsTimed ==
    /\ \A i \in Instance :
          flight[i].pc = "hit" /\ flight[i].ver # row => localGrace >= LocalTTL
    /\ Stale(remote) => /\ remote.ttl <= remoteGrace
                        /\ remoteGrace + LocalTTL <= localGrace
    /\ \A i \in Instance : Stale(local[i]) => local[i].ttl <= localGrace

GraceInv ==
    /\ TypeOK
    /\ LocalLifetimes
    /\ clean => LoadsAreFresh /\ StaleIsTimed

USE PlacementAssumption, VersionAssumption, TTLAssumption, EntryAssumption

-----------------------------------------------------------------------------
LEMMA TTLFacts ==
    /\ TTL \subseteq Nat \ {0} /\ TTL \subseteq Lifetime
    /\ Lifetime \subseteq Nat \ {0}
    /\ \A t \in Lifetime : t # 1 => t - 1 \in Lifetime
    /\ TouchTTL \in Nat \ {0} /\ LocalTTL \in Nat \ {0} /\ ExpireTTL \in Nat \ {0}
    /\ {TouchTTL, LocalTTL, ExpireTTL, MissingTTL, RedisTTL} = TTL
<1>1. TTL \subseteq Lifetime
  BY DEF Lifetime
<1>2. \A t \in Lifetime : t \in Nat \ {0} /\ (t # 1 => t - 1 \in Lifetime)
  <2> SUFFICES ASSUME NEW t \in Lifetime
               PROVE  t \in Nat \ {0} /\ (t # 1 => t - 1 \in Lifetime)
    OBVIOUS
  <2>1. PICK u \in TTL : t \in 1..u
    BY DEF Lifetime
  <2>2. t \in Nat \ {0} /\ (t # 1 => t - 1 \in 1..u)
    BY <2>1
  <2> QED BY <2>1, <2>2 DEF Lifetime
<1> QED BY <1>1, <1>2 DEF TTL

LEMMA EntryFacts ==
    /\ 0 \in Version /\ Version \subseteq Nat
    /\ \A v \in Version : LocalEntry(v) \in Entry /\ RemoteEntry(v) \in Entry
    /\ \A e \in Entry : /\ e.ver \in Version /\ e.ttl \in Lifetime /\ e # NoEntry
                        /\ [e EXCEPT !.ttl = TouchTTL] \in Entry
                        /\ [e EXCEPT !.ttl = ExpireTTL] \in Entry
<1>1. \A v \in Version, t \in Lifetime : [ver |-> v, ttl |-> t] \in Entry
  BY DEF Entry
<1>2. {LocalTTL, MissingTTL, RedisTTL, TouchTTL, ExpireTTL} \subseteq Lifetime
  BY TTLFacts
<1>3. \A v \in Version : LocalEntry(v) \in Entry /\ RemoteEntry(v) \in Entry
  BY <1>1, <1>2 DEF LocalEntry, RemoteEntry
<1>4. \A e \in Entry : /\ e.ver \in Version /\ e.ttl \in Lifetime /\ e # NoEntry
                       /\ [e EXCEPT !.ttl = TouchTTL] \in Entry
                       /\ [e EXCEPT !.ttl = ExpireTTL] \in Entry
  BY <1>2 DEF Entry
<1> QED BY <1>3, <1>4 DEF Version

LEMMA AgedFacts ==
    ASSUME NEW e \in Entry \cup {NoEntry}
    PROVE  /\ Aged(e) \in Entry \cup {NoEntry}
           /\ Aged(e) # NoEntry =>
                e # NoEntry /\ Aged(e).ver = e.ver /\ Aged(e).ttl = e.ttl - 1
<1>1. CASE e = NoEntry \/ e.ttl = 1
  BY <1>1 DEF Aged
<1>2. CASE ~ (e = NoEntry \/ e.ttl = 1)
  <2>1. e.ttl - 1 \in Lifetime
    BY <1>2, TTLFacts, EntryFacts
  <2> QED BY <1>2, <2>1 DEF Aged, Entry
<1> QED BY <1>1, <1>2

-----------------------------------------------------------------------------
(* Types. *)
LEMMA TypeInit == Init => TypeOK
<1> SUFFICES ASSUME Init PROVE TypeOK
  OBVIOUS
<1>1. NoFlight \in Flight /\ IdleWriter \in Refresh /\ 0 \in Version
  BY EntryFacts DEF NoFlight, IdleWriter, Flight, Refresh
<1>2. 0 \in 0..ExpireTTL /\ 0 \in 0..(ExpireTTL + LocalTTL)
  BY TTLFacts
<1> QED BY <1>1, <1>2 DEF Init, TypeOK

LEMMA SetTypes ==
    ASSUME TypeOK
    PROVE  /\ \A i \in Instance, v \in Version,
                 pc \in {"none", "start", "redis", "hit", "load", "loaded", "cached"} :
                 SetFlight(i, pc, v) => flight' \in [Instance -> Flight]
           /\ \A w \in Writer, v \in Version,
                 pc \in {"idle", "touch", "expire", "load", "loaded", "cached"} :
                 SetWriter(w, pc, v) => writer' \in [Writer -> Refresh]
           /\ \A i \in Instance, e \in Entry \cup {NoEntry} :
                 SetLocal(i, e) => local' \in [Instance -> Entry \cup {NoEntry}]
           /\ \A i \in Instance :
                 Answer(i) => flight' \in [Instance -> Flight] /\ waiting' \subseteq Reader
           /\ \A v \in Version :
                 SetRemote(v) => /\ remote' \in Entry \cup {NoEntry}
                                 /\ clean' = clean
                                 /\ remoteGrace' \in 0..ExpireTTL
                                 /\ localGrace' \in 0..(ExpireTTL + LocalTTL)
<1>1. ASSUME NEW i \in Instance, NEW v \in Version, NEW pc \in
                 {"none", "start", "redis", "hit", "load", "loaded", "cached"},
             SetFlight(i, pc, v)
      PROVE  flight' \in [Instance -> Flight]
  BY <1>1 DEF SetFlight, Flight, TypeOK
<1>2. ASSUME NEW w \in Writer, NEW v \in Version, NEW pc \in
                 {"idle", "touch", "expire", "load", "loaded", "cached"},
             SetWriter(w, pc, v)
      PROVE  writer' \in [Writer -> Refresh]
  BY <1>2 DEF SetWriter, Refresh, TypeOK
<1>3. ASSUME NEW i \in Instance, NEW e \in Entry \cup {NoEntry}, SetLocal(i, e)
      PROVE  local' \in [Instance -> Entry \cup {NoEntry}]
  BY <1>3 DEF SetLocal, TypeOK
<1>4. ASSUME NEW i \in Instance, Answer(i)
      PROVE  flight' \in [Instance -> Flight] /\ waiting' \subseteq Reader
  <2>1. NoFlight \in Flight
    BY EntryFacts DEF NoFlight, Flight
  <2> QED BY <1>4, <2>1 DEF Answer, TypeOK
<1>5. ASSUME NEW v \in Version, SetRemote(v)
      PROVE  /\ remote' \in Entry \cup {NoEntry}
             /\ clean' = clean
             /\ remoteGrace' \in 0..ExpireTTL
             /\ localGrace' \in 0..(ExpireTTL + LocalTTL)
  <2>1. remote' \in {RemoteEntry(v), remote} /\ clean' = clean
    BY <1>5 DEF SetRemote
  <2>2. remoteGrace' \in {0, remoteGrace}
        /\ localGrace' \in {LeastOf(localGrace, LocalTTL), localGrace}
    BY <1>5 DEF SetRemote
  <2>3. LeastOf(localGrace, LocalTTL) \in 0..(ExpireTTL + LocalTTL)
    BY TTLFacts DEF LeastOf, TypeOK
  <2> QED BY <2>1, <2>2, <2>3, EntryFacts, TTLFacts DEF TypeOK
<1> QED BY <1>1, <1>2, <1>3, <1>4, <1>5

LEMMA FlightKeepsTypes ==
    ASSUME TypeOK, NEW i \in Instance, FlightStep(i)
    PROVE  TypeOK'
<1>1. flight[i] \in Flight /\ flight[i].ver \in Version
  BY DEF TypeOK, Flight
<1>2. CASE FlightRecheck(i)
  BY <1>2, SetTypes, EntryFacts DEF FlightRecheck, history, TypeOK
<1>3. CASE FlightGetRemote(i)
  <2>1. remote # NoEntry => remote.ver \in Version
    BY EntryFacts DEF TypeOK
  <2>2. flight' \in [Instance -> Flight]
    BY <1>3, <2>1, SetTypes, EntryFacts DEF FlightGetRemote
  <2> QED BY <1>3, <2>2 DEF FlightGetRemote, history, TypeOK
<1>4. CASE FlightSetFromRemote(i)
  <2>1. LocalEntry(flight[i].ver) \in Entry
    BY <1>1, EntryFacts
  <2> QED BY <1>4, <2>1, SetTypes DEF FlightSetFromRemote, history, TypeOK
<1>5. CASE FlightLoad(i)
  <2>1. flight' \in [Instance -> Flight]
    BY <1>5, SetTypes DEF FlightLoad, TypeOK
  <2> QED BY <1>5, <2>1 DEF FlightLoad, history, TypeOK
<1>6. CASE FlightLoadFail(i)
  BY <1>6, SetTypes DEF FlightLoadFail, history, TypeOK
<1>7. CASE FlightSetLocal(i)
  <2>1. LocalEntry(flight[i].ver) \in Entry
    BY <1>1, EntryFacts
  <2>2. flight' \in [Instance -> Flight] /\ local' \in [Instance -> Entry \cup {NoEntry}]
    BY <1>1, <1>7, <2>1, SetTypes DEF FlightSetLocal
  <2> QED BY <1>7, <2>2 DEF FlightSetLocal, history, TypeOK
<1>8. CASE FlightSetRemote(i)
  <2>1. /\ remote' \in Entry \cup {NoEntry} /\ clean' = clean
        /\ remoteGrace' \in 0..ExpireTTL /\ localGrace' \in 0..(ExpireTTL + LocalTTL)
        /\ flight' \in [Instance -> Flight] /\ waiting' \subseteq Reader
    BY <1>1, <1>8, SetTypes DEF FlightSetRemote
  <2> QED BY <1>8, <2>1 DEF FlightSetRemote, TypeOK
<1> QED BY <1>2, <1>3, <1>4, <1>5, <1>6, <1>7, <1>8 DEF FlightStep

LEMMA WriterKeepsTypes ==
    ASSUME TypeOK, NEW w \in Writer, WriterCommit(w) \/ WriterStep(w)
    PROVE  TypeOK'
<1>1. writer[w].ver \in Version /\ At[w] \in Instance /\ row \in Version
  BY DEF TypeOK, Refresh
<1>2. CASE WriterCommit(w)
  <2>1. row' \in Version
    BY <1>2, <1>1 DEF WriterCommit, Version
  <2>2. writer' \in [Writer -> Refresh]
    BY <1>2, SetTypes, EntryFacts DEF WriterCommit
  <2> QED BY <1>2, <2>1, <2>2 DEF WriterCommit, TypeOK
<1>3. CASE WriterTouch(w)
  <2>1. writer' \in [Writer -> Refresh]
    BY <1>3, SetTypes, EntryFacts DEF WriterTouch
  <2>2. CASE local[At[w]] = NoEntry
    BY <1>3, <2>1, <2>2 DEF WriterTouch, TypeOK
  <2>3. CASE local[At[w]] # NoEntry
    <3>1. [local[At[w]] EXCEPT !.ttl = TouchTTL] \in Entry
      BY <1>1, <2>3, EntryFacts DEF TypeOK
    <3>2. local' \in [Instance -> Entry \cup {NoEntry}]
      BY <1>1, <1>3, <2>3, <3>1, SetTypes DEF WriterTouch
    <3>3. localGrace' \in {localGrace, GreatestOf(localGrace, TouchTTL)}
      BY <1>3, <2>3 DEF WriterTouch
    <3>4. GreatestOf(localGrace, TouchTTL) \in 0..(ExpireTTL + LocalTTL)
      BY TTLFacts DEF GreatestOf, TypeOK
    <3> QED BY <1>3, <2>1, <3>2, <3>3, <3>4 DEF WriterTouch, TypeOK
  <2> QED BY <2>2, <2>3
<1>4. CASE WriterExpire(w)
  <2>1. writer' \in [Writer -> Refresh]
    BY <1>4, SetTypes, EntryFacts DEF WriterExpire
  <2>2. remote' \in Entry \cup {NoEntry}
    BY <1>4, EntryFacts DEF WriterExpire, TypeOK
  <2>3. clean' \in BOOLEAN
    BY <1>4 DEF WriterExpire
  <2>4. remoteGrace' \in 0..ExpireTTL /\ localGrace' \in 0..(ExpireTTL + LocalTTL)
    <3>1. /\ remoteGrace' \in {remoteGrace, ExpireTTL}
          /\ localGrace' \in {localGrace, ExpireTTL + LocalTTL}
      BY <1>4 DEF WriterExpire
    <3> QED BY <3>1, TTLFacts DEF TypeOK
  <2> QED BY <1>4, <2>1, <2>2, <2>3, <2>4 DEF WriterExpire, TypeOK
<1>5. CASE WriterLoad(w)
  BY <1>1, <1>5, SetTypes DEF WriterLoad, history, TypeOK
<1>6. CASE WriterSetLocal(w)
  <2>1. LocalEntry(writer[w].ver) \in Entry
    BY <1>1, EntryFacts
  <2>2. /\ writer' \in [Writer -> Refresh]
        /\ local' \in [Instance -> Entry \cup {NoEntry}]
    BY <1>1, <1>6, <2>1, SetTypes DEF WriterSetLocal
  <2> QED BY <1>6, <2>2 DEF WriterSetLocal, history, TypeOK
<1>7. CASE WriterSetRemote(w)
  <2>1. /\ remote' \in Entry \cup {NoEntry} /\ clean' = clean
        /\ remoteGrace' \in 0..ExpireTTL /\ localGrace' \in 0..(ExpireTTL + LocalTTL)
        /\ writer' \in [Writer -> Refresh]
    BY <1>1, <1>7, SetTypes, EntryFacts DEF WriterSetRemote
  <2> QED BY <1>7, <2>1 DEF WriterSetRemote, TypeOK
<1>8. CASE WriterAbandon(w)
  BY <1>8, SetTypes, EntryFacts DEF WriterAbandon, history, TypeOK
<1> QED BY <1>2, <1>3, <1>4, <1>5, <1>6, <1>7, <1>8 DEF WriterStep

LEMMA TypeNext == TypeOK /\ [Next]_vars => TypeOK'
<1> SUFFICES ASSUME TypeOK, [Next]_vars PROVE TypeOK'
  OBVIOUS
<1>1. ASSUME NEW r \in Reader, ReadMiss(r) PROVE TypeOK'
  <2>1. flight' \in [Instance -> Flight]
    BY <1>1, SetTypes, EntryFacts DEF ReadMiss, TypeOK
  <2> QED BY <1>1, <2>1 DEF ReadMiss, history, TypeOK
<1>2. ASSUME NEW r \in Reader, ReadCancel(r) PROVE TypeOK'
  BY <1>2 DEF ReadCancel, history, TypeOK
<1>3. ASSUME NEW i \in Instance, Restart(i) PROVE TypeOK'
  <2>1. NoFlight \in Flight /\ IdleWriter \in Refresh
    BY EntryFacts DEF NoFlight, IdleWriter, Flight, Refresh
  <2> QED BY <1>3, <2>1 DEF Restart, SetLocal, history, TypeOK
<1>4. CASE Tick
  <2>1. local' \in [Instance -> Entry \cup {NoEntry}]
    BY <1>4, AgedFacts DEF Tick, TypeOK
  <2>2. remote' \in Entry \cup {NoEntry}
    BY <1>4, AgedFacts DEF Tick, TypeOK
  <2>3. remoteGrace' \in 0..ExpireTTL /\ localGrace' \in 0..(ExpireTTL + LocalTTL)
    BY <1>4, TTLFacts DEF Tick, Less, TypeOK
  <2> QED BY <1>4, <2>1, <2>2, <2>3 DEF Tick, TypeOK
<1>5. CASE UNCHANGED vars
  BY <1>5 DEF vars, TypeOK
<1> QED BY <1>1, <1>2, <1>3, <1>4, <1>5, FlightKeepsTypes, WriterKeepsTypes DEF Next

-----------------------------------------------------------------------------
(* What is held, place by place; and a step after which every place holds  *)
(* what some place held or what the row was.                               *)
LEMMA HeldPlaces ==
    ASSUME NEW x
    PROVE  x \in Held <=>
             \/ \E i \in Instance : Carries(flight[i]) /\ flight[i].ver = x
             \/ \E w \in Writer : Brings(writer[w]) /\ writer[w].ver = x
             \/ remote # NoEntry /\ remote.ver = x
             \/ \E i \in Instance : local[i] # NoEntry /\ local[i].ver = x
BY DEF Held, OnTheWay, Carries, Brings

LEMMA HeldKept ==
    ASSUME \A i \in Instance : Carries(flight'[i]) => flight'[i].ver \in Held \cup {row},
           \A w \in Writer : Brings(writer'[w]) => writer'[w].ver \in Held \cup {row},
           remote' # NoEntry => remote'.ver \in Held \cup {row},
           \A i \in Instance : local'[i] # NoEntry => local'[i].ver \in Held \cup {row}
    PROVE  Held' \subseteq Held \cup {row}
BY DEF Held, OnTheWay, Carries, Brings

LEMMA HeldFacts ==
    ASSUME TypeOK
    PROVE  /\ \A i \in Instance : Carries(flight[i]) => flight[i].ver \in Held
           /\ \A w \in Writer : Brings(writer[w]) => writer[w].ver \in Held
           /\ remote # NoEntry => remote.ver \in Held
           /\ \A i \in Instance : local[i] # NoEntry => local[i].ver \in Held
BY HeldPlaces

LEMMA FlightHolds ==
    ASSUME TypeOK, NEW i \in Instance, FlightStep(i)
    PROVE  Held' \subseteq Held \cup {row}
<1> USE HeldFacts
<1>1. \A j \in Instance \ {i} : flight'[j] = flight[j] /\ local'[j] = local[j]
  BY DEF FlightStep, FlightRecheck, FlightGetRemote, FlightSetFromRemote, FlightLoad,
         FlightLoadFail, FlightSetLocal, FlightSetRemote, SetFlight, SetLocal, Answer,
         TypeOK
<1>2. UNCHANGED <<row, writer>>
  BY DEF FlightStep, FlightRecheck, FlightGetRemote, FlightSetFromRemote, FlightLoad,
         FlightLoadFail, FlightSetLocal, FlightSetRemote
<1>3. Carries(flight'[i]) => flight'[i].ver \in Held \cup {row}
  BY DEF FlightStep, FlightRecheck, FlightGetRemote, FlightSetFromRemote, FlightLoad,
         FlightLoadFail, FlightSetLocal, FlightSetRemote, SetFlight, Answer, NoFlight,
         Carries, TypeOK
<1>4. local'[i] # NoEntry => local'[i].ver \in Held
  BY DEF FlightStep, FlightRecheck, FlightGetRemote, FlightSetFromRemote, FlightLoad,
         FlightLoadFail, FlightSetLocal, FlightSetRemote, SetLocal, LocalEntry,
         Carries, TypeOK
<1>5. remote' # NoEntry => remote'.ver \in Held
  BY DEF FlightStep, FlightRecheck, FlightGetRemote, FlightSetFromRemote, FlightLoad,
         FlightLoadFail, FlightSetLocal, FlightSetRemote, SetRemote, RemoteEntry,
         Carries
<1> QED BY <1>1, <1>2, <1>3, <1>4, <1>5, HeldKept

LEMMA WriterHolds ==
    ASSUME TypeOK, NEW w \in Writer, WriterCommit(w) \/ WriterStep(w)
    PROVE  Held' \subseteq Held \cup {row}
<1> USE HeldFacts
<1>1. /\ \A x \in Writer \ {w} : writer'[x] = writer[x]
      /\ \A j \in Instance \ {At[w]} : local'[j] = local[j]
      /\ UNCHANGED flight
  BY DEF WriterCommit, WriterStep, WriterTouch, WriterExpire, WriterLoad, WriterSetLocal,
         WriterSetRemote, WriterAbandon, SetWriter, SetLocal, TypeOK
<1>2. Brings(writer'[w]) => writer'[w].ver \in Held \cup {row}
  BY DEF WriterCommit, WriterStep, WriterTouch, WriterExpire, WriterLoad, WriterSetLocal,
         WriterSetRemote, WriterAbandon, SetWriter, Brings, TypeOK
<1>3. local'[At[w]] # NoEntry => local'[At[w]].ver \in Held
  <2>1. At[w] \in Instance
    OBVIOUS
  <2>2. CASE WriterTouch(w)
    <3>1. local[At[w]] # NoEntry =>
            /\ local[At[w]] \in Entry
            /\ [local[At[w]] EXCEPT !.ttl = TouchTTL].ver = local[At[w]].ver
      BY <2>1 DEF TypeOK, Entry
    <3> QED BY <2>1, <2>2, <3>1 DEF WriterTouch, SetLocal, TypeOK
  <2>3. CASE WriterSetLocal(w)
    BY <2>1, <2>3 DEF WriterSetLocal, SetLocal, LocalEntry, Brings, TypeOK
  <2>4. CASE ~ WriterTouch(w) /\ ~ WriterSetLocal(w)
    <3>1. UNCHANGED local
      BY <2>4 DEF WriterCommit, WriterStep, WriterExpire, WriterLoad, WriterSetRemote,
                  WriterAbandon
    <3> QED BY <2>1, <3>1
  <2> QED BY <2>2, <2>3, <2>4
<1>4. remote' # NoEntry => remote'.ver \in Held
  <2>1. CASE WriterExpire(w)
    BY <2>1 DEF WriterExpire, TypeOK, Entry
  <2>2. CASE WriterSetRemote(w)
    BY <2>2 DEF WriterSetRemote, SetRemote, RemoteEntry, Brings
  <2>3. CASE ~ WriterExpire(w) /\ ~ WriterSetRemote(w)
    <3>1. UNCHANGED remote
      BY <2>3 DEF WriterCommit, WriterStep, WriterTouch, WriterLoad, WriterSetLocal,
                  WriterAbandon
    <3> QED BY <3>1
  <2> QED BY <2>1, <2>2, <2>3
<1> QED BY <1>1, <1>2, <1>3, <1>4, HeldKept

LEMMA StepHolds ==
    ASSUME TypeOK, [Next]_vars
    PROVE  Held' \subseteq Held \cup {row}
<1> USE HeldFacts
<1>1. ASSUME NEW r \in Reader, ReadMiss(r) \/ ReadCancel(r)
      PROVE  Held' \subseteq Held \cup {row}
  <2>1. UNCHANGED <<local, remote, writer>>
    BY <1>1 DEF ReadMiss, ReadCancel
  <2>2. \A i \in Instance : Carries(flight'[i]) => flight'[i] = flight[i]
    BY <1>1 DEF ReadMiss, ReadCancel, SetFlight, Carries, TypeOK
  <2> QED BY <2>1, <2>2, HeldKept
<1>2. ASSUME NEW i \in Instance, Restart(i) PROVE Held' \subseteq Held \cup {row}
  <2>1. UNCHANGED remote
    BY <1>2 DEF Restart
  <2>2. /\ \A j \in Instance : Carries(flight'[j]) => flight'[j] = flight[j]
        /\ \A w \in Writer : Brings(writer'[w]) => writer'[w] = writer[w]
        /\ \A j \in Instance : local'[j] # NoEntry => local'[j] = local[j]
    BY <1>2 DEF Restart, SetLocal, NoFlight, IdleWriter, Carries, Brings, TypeOK
  <2> QED BY <2>1, <2>2, HeldKept
<1>3. CASE Tick
  <2>1. UNCHANGED <<flight, writer>>
    BY <1>3 DEF Tick
  <2>2. remote' # NoEntry => remote # NoEntry /\ remote'.ver = remote.ver
    BY <1>3, AgedFacts DEF Tick, TypeOK
  <2>3. \A j \in Instance : local'[j] # NoEntry =>
                             local[j] # NoEntry /\ local'[j].ver = local[j].ver
    BY <1>3, AgedFacts DEF Tick, TypeOK
  <2> QED BY <2>1, <2>2, <2>3, HeldKept
<1>4. CASE UNCHANGED vars
  BY <1>4, HeldKept DEF vars
<1> QED BY <1>1, <1>2, <1>3, <1>4, FlightHolds, WriterHolds DEF Next

(* Only a commit changes the row, and to a version. *)
LEMMA RowChanges ==
    ASSUME TypeOK, [Next]_vars
    PROVE  row' = row \/ row' \in Version
<1>1. ASSUME NEW w \in Writer, WriterCommit(w) PROVE row' \in Version
  BY <1>1 DEF WriterCommit, TypeOK, Version
<1> QED BY <1>1
        DEF Next, ReadMiss, ReadCancel, FlightStep, FlightRecheck, FlightGetRemote,
            FlightSetFromRemote, FlightLoad, FlightLoadFail, FlightSetLocal,
            FlightSetRemote, Restart, WriterStep, WriterTouch, WriterExpire, WriterLoad,
            WriterSetLocal, WriterSetRemote, WriterAbandon, Tick, vars

LEMMA PromiseInit == Init => Promise!Init
<1> SUFFICES ASSUME Init PROVE row \in Version /\ Lingering = {}
  BY DEF Promise!Init
<1>1. Held = {}
  BY HeldPlaces DEF Init, NoFlight, IdleWriter, Carries, Brings
<1>2. Lingering \subseteq Held
  BY DEF Lingering, Held
<1> QED BY <1>1, <1>2, EntryFacts DEF Init

LEMMA PromiseNext ==
    ASSUME TypeOK, [Next]_vars
    PROVE  [Promise!Next]_Promise!vars
<1>1. Lingering = Held \ {row}
  BY DEF Lingering, Held
<1>2. Lingering' = Held' \ {row'}
  BY DEF Lingering, Held
<1>3. CASE row' = row
  <2>1. Lingering' \subseteq Lingering
    BY <1>1, <1>2, <1>3, StepHolds
  <2>2. Promise!Fade
    BY <1>3, <2>1 DEF Promise!Fade
  <2> QED BY <2>2 DEF Promise!Next
<1>4. CASE row' # row
  <2>1. row' \in Version
    BY <1>4, RowChanges
  <2>2. Lingering' \subseteq Promise!Answers \ {row'}
    BY <1>1, <1>2, StepHolds DEF Promise!Answers
  <2>3. Promise!Commit(row')
    BY <2>2 DEF Promise!Commit
  <2> QED BY <2>1, <2>3 DEF Promise!Next
<1> QED BY <1>3, <1>4

(* cache.go keeps the promise of UserCache, step by step: whichever loads, *)
(* copies from Redis, refreshes, failures, restarts and cancelled calls    *)
(* overlap, a caller is answered with the row or with a value that never   *)
(* left the caches and the loads since it was the row.                     *)
THEOREM CacheKeepsPromise == Spec => [](TypeOK) /\ ImplementsCache
<1>1. Spec => []TypeOK
  BY TypeInit, TypeNext, PTL DEF Spec
<1> QED BY <1>1, PromiseInit, PromiseNext, PTL DEF Spec, ImplementsCache, Promise!Spec

-----------------------------------------------------------------------------
(* How long stale entries still live. *)
LEMMA GraceInit == Init => GraceInv
BY TypeInit
DEF Init, GraceInv, LocalLifetimes, LoadsAreFresh, StaleIsTimed, Stale, NoFlight,
    IdleWriter, Brings

LEMMA LocalLifetimesNext ==
    ASSUME TypeOK, LocalLifetimes, [Next]_vars
    PROVE  LocalLifetimes'
<1> USE TTLFacts DEF LocalLifetimes
<1>1. ASSUME UNCHANGED local PROVE LocalLifetimes'
  BY <1>1
<1>2. ASSUME NEW i \in Instance, NEW e, SetLocal(i, e),
             e # NoEntry => e.ttl <= LocalTTL
      PROVE  LocalLifetimes'
  BY <1>2 DEF SetLocal, TypeOK
<1>3. \A v : LocalEntry(v).ttl <= LocalTTL
  BY DEF LocalEntry
<1>4. ASSUME NEW w \in Writer, WriterTouch(w) PROVE LocalLifetimes'
  <2>1. CASE local[At[w]] = NoEntry
    BY <1>1, <1>4, <2>1 DEF WriterTouch
  <2>2. CASE local[At[w]] # NoEntry
    <3>1. local[At[w]] \in Entry
      BY <2>2 DEF TypeOK
    <3>2. [local[At[w]] EXCEPT !.ttl = TouchTTL].ttl = TouchTTL
      BY <3>1 DEF Entry
    <3> QED BY <1>2, <1>4, <2>2, <3>2 DEF WriterTouch
  <2> QED BY <2>1, <2>2
<1>5. ASSUME NEW w \in Writer, WriterSetLocal(w) PROVE LocalLifetimes'
  BY <1>2, <1>3, <1>5 DEF WriterSetLocal
<1>6. ASSUME NEW i \in Instance, FlightSetFromRemote(i) \/ FlightSetLocal(i)
      PROVE  LocalLifetimes'
  BY <1>2, <1>3, <1>6 DEF FlightSetFromRemote, FlightSetLocal
<1>7. ASSUME NEW i \in Instance, Restart(i) PROVE LocalLifetimes'
  BY <1>2, <1>7 DEF Restart
<1>8. CASE Tick
  <2>1. \A i \in Instance : local'[i] # NoEntry =>
           /\ local[i] # NoEntry /\ local'[i].ttl = local[i].ttl - 1
           /\ local[i].ttl \in Nat \ {0}
    BY <1>8, AgedFacts, EntryFacts DEF Tick, TypeOK
  <2> QED BY <2>1
<1> QED BY <1>1, <1>4, <1>5, <1>6, <1>7, <1>8
        DEF Next, ReadMiss, ReadCancel, FlightStep, FlightRecheck, FlightGetRemote,
            FlightLoad, FlightLoadFail, FlightSetRemote, WriterCommit, WriterStep,
            WriterExpire, WriterLoad, WriterSetRemote, WriterAbandon, vars

LEMMA LoadsAreFreshNext ==
    ASSUME TypeOK, [Next]_vars, clean', clean => LoadsAreFresh
    PROVE  LoadsAreFresh'
<1>1. row' = row
  BY DEF Next, ReadMiss, ReadCancel, FlightStep, FlightRecheck, FlightGetRemote,
         FlightSetFromRemote, FlightLoad, FlightLoadFail, FlightSetLocal,
         FlightSetRemote, Restart, WriterCommit, WriterStep, WriterTouch, WriterExpire,
         WriterLoad, WriterSetLocal, WriterSetRemote, WriterAbandon, Tick, vars
<1>2. ASSUME NEW w \in Writer, WriterExpire(w) PROVE LoadsAreFresh'
  <2>1. LoadsAreFresh
    <3>1. CASE clean
      BY <3>1
    <3>2. CASE ~ StaleOnTheWay
      BY <3>2 DEF StaleOnTheWay, OnTheWay, LoadsAreFresh, Brings
    <3> QED BY <1>2, <3>1, <3>2 DEF WriterExpire
  <2> QED BY <1>1, <1>2, <2>1
          DEF WriterExpire, SetWriter, LoadsAreFresh, Brings, TypeOK
<1>3. CASE ~ \E w \in Writer : WriterExpire(w)
  <2>1. clean /\ LoadsAreFresh
    BY <1>3
    DEF Next, ReadMiss, ReadCancel, FlightStep, FlightRecheck, FlightGetRemote,
        FlightSetFromRemote, FlightLoad, FlightLoadFail, FlightSetLocal,
        FlightSetRemote, Restart, WriterCommit, WriterStep, WriterTouch, WriterLoad,
        WriterSetLocal, WriterSetRemote, WriterAbandon, Tick, vars, history, SetRemote
  <2>2. ASSUME NEW i \in Instance, FlightStep(i) PROVE LoadsAreFresh'
    <3>1. /\ \A j \in Instance \ {i} : flight'[j] = flight[j]
          /\ UNCHANGED writer
      BY <2>2 DEF FlightStep, FlightRecheck, FlightGetRemote, FlightSetFromRemote,
                  FlightLoad, FlightLoadFail, FlightSetLocal, FlightSetRemote,
                  SetFlight, Answer, TypeOK
    <3>2. flight'[i].pc \in {"loaded", "cached"} => flight'[i].ver = row
      BY <2>1, <2>2
      DEF FlightStep, FlightRecheck, FlightGetRemote, FlightSetFromRemote, FlightLoad,
          FlightLoadFail, FlightSetLocal, FlightSetRemote, SetFlight, Answer, NoFlight,
          LoadsAreFresh, TypeOK
    <3> QED BY <1>1, <2>1, <3>1, <3>2 DEF LoadsAreFresh
  <2>3. ASSUME NEW w \in Writer, WriterCommit(w) \/ WriterStep(w) PROVE LoadsAreFresh'
    <3>1. /\ \A x \in Writer \ {w} : writer'[x] = writer[x]
          /\ UNCHANGED flight
      BY <2>3 DEF WriterCommit, WriterStep, WriterTouch, WriterExpire, WriterLoad,
                  WriterSetLocal, WriterSetRemote, WriterAbandon, SetWriter, TypeOK
    <3>2. CASE WriterLoad(w)
      <4>1. writer'[w].ver = row
        BY <3>2 DEF WriterLoad, SetWriter, TypeOK
      <4> QED BY <1>1, <2>1, <3>1, <4>1 DEF LoadsAreFresh
    <3>3. CASE WriterSetLocal(w)
      <4>1. writer'[w].ver = row
        BY <2>1, <3>3 DEF WriterSetLocal, SetWriter, LoadsAreFresh, Brings, TypeOK
      <4> QED BY <1>1, <2>1, <3>1, <4>1 DEF LoadsAreFresh
    <3>4. CASE ~ WriterLoad(w) /\ ~ WriterSetLocal(w)
      <4>1. PICK pc \in {"touch", "expire", "load", "idle"} : SetWriter(w, pc, 0)
        BY <2>3, <3>4
        DEF WriterCommit, WriterStep, WriterTouch, WriterExpire, WriterSetRemote,
            WriterAbandon
      <4>2. ~ Brings(writer'[w])
        BY <4>1 DEF SetWriter, Brings, TypeOK
      <4> QED BY <1>1, <2>1, <3>1, <4>2 DEF LoadsAreFresh
    <3> QED BY <3>2, <3>3, <3>4
  <2>4. ASSUME NEW r \in Reader, ReadMiss(r) \/ ReadCancel(r) PROVE LoadsAreFresh'
    <3>1. /\ \A i \in Instance : flight'[i].pc \in {"loaded", "cached"} =>
                                   flight'[i] = flight[i]
          /\ UNCHANGED writer
      BY <2>4 DEF ReadMiss, ReadCancel, SetFlight, TypeOK
    <3> QED BY <1>1, <2>1, <3>1 DEF LoadsAreFresh
  <2>5. ASSUME NEW i \in Instance, Restart(i) PROVE LoadsAreFresh'
    <3>1. /\ \A j \in Instance : flight'[j].pc \in {"loaded", "cached"} =>
                                   flight'[j] = flight[j]
          /\ \A w \in Writer : Brings(writer'[w]) => writer'[w] = writer[w]
      BY <2>5 DEF Restart, NoFlight, IdleWriter, Brings, TypeOK
    <3> QED BY <1>1, <2>1, <3>1 DEF LoadsAreFresh
  <2>6. CASE Tick \/ UNCHANGED vars
    BY <1>1, <2>1, <2>6 DEF Tick, vars, LoadsAreFresh
  <2> QED BY <2>2, <2>3, <2>4, <2>5, <2>6 DEF Next
<1> QED BY <1>2, <1>3

(* Steps that take nothing from the time that is left. *)
LEMMA StaleIsTimedKept ==
    ASSUME TypeOK, StaleIsTimed, UNCHANGED <<row, remote, remoteGrace>>,
           localGrace' \in Nat, localGrace' >= localGrace,
           \A i \in Instance :
              /\ flight'[i].pc = "hit" => flight'[i] = flight[i]
              /\ local'[i] \in {local[i], NoEntry}
    PROVE  StaleIsTimed'
<1>1. localGrace \in Nat /\ remoteGrace \in Nat /\ LocalTTL \in Nat
  BY TTLFacts DEF TypeOK
<1>2. \A i \in Instance : local[i] # NoEntry => local[i].ttl \in Nat
  BY TTLFacts, EntryFacts DEF TypeOK
<1>3. \A i \in Instance : flight'[i].pc = "hit" /\ flight'[i].ver # row' =>
                          localGrace' >= LocalTTL
  BY <1>1 DEF StaleIsTimed
<1>4. Stale(remote)' => /\ remote'.ttl <= remoteGrace'
                        /\ remoteGrace' + LocalTTL <= localGrace'
  BY <1>1 DEF StaleIsTimed, Stale
<1>5. \A i \in Instance : Stale(local[i])' => local'[i].ttl <= localGrace'
  BY <1>1, <1>2 DEF StaleIsTimed, Stale
<1> QED BY <1>3, <1>4, <1>5 DEF StaleIsTimed

(* Redis is given the row: from here on no local entry is filled with      *)
(* anything else.                                                          *)
LEMMA SetRemoteKeepsTime ==
    ASSUME GraceInv, clean, SetRemote(row), UNCHANGED <<row, local>>,
           \A i \in Instance : flight'[i].pc = "hit" => flight'[i] = flight[i]
    PROVE  StaleIsTimed'
<1> USE DEF GraceInv
<1>1. localGrace \in Nat /\ remoteGrace \in Nat /\ LocalTTL \in Nat
  BY TTLFacts DEF TypeOK
<1>2. CASE UNCHANGED <<remote, remoteGrace, localGrace>>
  BY <1>1, <1>2, StaleIsTimedKept
<1>3. CASE remote' = RemoteEntry(row) /\ localGrace' = LeastOf(localGrace, LocalTTL)
  <2>1. ~ Stale(remote)'
    BY <1>3 DEF Stale, RemoteEntry
  <2>2. \A i \in Instance : local[i] # NoEntry => local[i].ttl \in Nat
    BY TTLFacts, EntryFacts DEF TypeOK
  <2>3. \A i \in Instance : Stale(local[i])' => local'[i].ttl <= localGrace'
    BY <1>1, <1>3, <2>2 DEF StaleIsTimed, Stale, LocalLifetimes, LeastOf
  <2>4. \A i \in Instance : flight'[i].pc = "hit" /\ flight'[i].ver # row =>
                            localGrace' >= LocalTTL
    BY <1>1, <1>3 DEF StaleIsTimed, LeastOf
  <2> QED BY <2>1, <2>3, <2>4 DEF StaleIsTimed
<1> QED BY <1>2, <1>3 DEF SetRemote

LEMMA FlightKeepsTime ==
    ASSUME GraceInv, clean, NEW i \in Instance, FlightStep(i), TypeOK'
    PROVE  StaleIsTimed'
<1> USE DEF GraceInv
<1>1. localGrace \in Nat /\ remoteGrace \in Nat /\ LocalTTL \in Nat /\ localGrace' \in Nat
  BY TTLFacts DEF TypeOK
<1>2. CASE FlightRecheck(i) \/ FlightLoad(i) \/ FlightLoadFail(i)
  <2>1. UNCHANGED <<row, local, remote, remoteGrace, localGrace>>
    BY <1>2 DEF FlightRecheck, FlightLoad, FlightLoadFail, history
  <2>2. Answer(i) \/ SetFlight(i, "redis", 0) \/ SetFlight(i, "loaded", row)
    BY <1>2 DEF FlightRecheck, FlightLoad, FlightLoadFail
  <2>3. \A j \in Instance : flight'[j].pc = "hit" => flight'[j] = flight[j]
    BY <2>2 DEF Answer, NoFlight, SetFlight, TypeOK
  <2> QED BY <1>1, <2>1, <2>3, StaleIsTimedKept
<1>3. CASE FlightGetRemote(i)
  <2>1. /\ \A j \in Instance \ {i} : flight'[j] = flight[j]
        /\ UNCHANGED <<row, local, remote, remoteGrace, localGrace>>
    BY <1>3 DEF FlightGetRemote, SetFlight, history, TypeOK
  <2>2. flight'[i].pc = "hit" => remote # NoEntry /\ flight'[i].ver = remote.ver
    BY <1>3 DEF FlightGetRemote, SetFlight, TypeOK
  <2>3. Stale(remote) => localGrace >= LocalTTL
    BY <1>1 DEF StaleIsTimed
  <2>4. \A j \in Instance : flight'[j].pc = "hit" /\ flight'[j].ver # row =>
                            localGrace >= LocalTTL
    BY <2>1, <2>2, <2>3 DEF StaleIsTimed, Stale
  <2> QED BY <2>1, <2>4 DEF StaleIsTimed, Stale
<1>4. CASE FlightSetFromRemote(i) \/ FlightSetLocal(i)
  <2>1. /\ \A j \in Instance : flight'[j].pc = "hit" => flight'[j] = flight[j]
        /\ \A j \in Instance \ {i} : local'[j] = local[j]
        /\ local'[i] = LocalEntry(flight[i].ver)
        /\ UNCHANGED <<row, remote, remoteGrace, localGrace>>
    <3>1. SetLocal(i, LocalEntry(flight[i].ver))
          /\ UNCHANGED <<row, remote, remoteGrace, localGrace>>
      BY <1>4 DEF FlightSetFromRemote, FlightSetLocal, history
    <3>2. Answer(i) \/ SetFlight(i, "cached", flight[i].ver)
      BY <1>4 DEF FlightSetFromRemote, FlightSetLocal
    <3>3. \A j \in Instance : flight'[j].pc = "hit" => flight'[j] = flight[j]
      BY <3>2 DEF Answer, NoFlight, SetFlight, TypeOK
    <3> QED BY <3>1, <3>3 DEF SetLocal, TypeOK
  <2>2. Stale(local[i])' => local'[i].ttl <= localGrace'
    <3> SUFFICES ASSUME flight[i].ver # row PROVE LocalTTL <= localGrace
      BY <2>1 DEF Stale, LocalEntry
    <3>1. flight[i].pc = "hit"
      BY <1>4 DEF FlightSetFromRemote, FlightSetLocal, LoadsAreFresh
    <3> QED BY <1>1, <3>1 DEF StaleIsTimed
  <2> QED BY <2>1, <2>2 DEF StaleIsTimed, Stale
<1>5. CASE FlightSetRemote(i)
  <2>1. /\ flight[i].ver = row /\ UNCHANGED <<row, local>>
        /\ \A j \in Instance : flight'[j].pc = "hit" => flight'[j] = flight[j]
    BY <1>5 DEF FlightSetRemote, Answer, NoFlight, LoadsAreFresh, TypeOK
  <2>2. SetRemote(row)
    BY <1>5, <2>1 DEF FlightSetRemote
  <2> QED BY <2>1, <2>2, SetRemoteKeepsTime
<1> QED BY <1>2, <1>3, <1>4, <1>5 DEF FlightStep

LEMMA WriterKeepsTime ==
    ASSUME GraceInv, clean', NEW w \in Writer, WriterStep(w), TypeOK'
    PROVE  StaleIsTimed'
<1> USE DEF GraceInv
<1>1. /\ localGrace \in Nat /\ remoteGrace \in Nat /\ localGrace' \in Nat
      /\ LocalTTL \in Nat /\ ExpireTTL \in Nat /\ TouchTTL \in Nat
  BY TTLFacts DEF TypeOK
<1>2. CASE WriterLoad(w) \/ WriterAbandon(w)
  <2>1. clean /\ UNCHANGED <<row, local, remote, flight, remoteGrace, localGrace>>
    BY <1>2 DEF WriterLoad, WriterAbandon, history
  <2> QED BY <1>1, <2>1, StaleIsTimedKept
<1>3. CASE WriterTouch(w)
  <2>1. clean /\ UNCHANGED <<row, remote, flight, remoteGrace>>
    BY <1>3 DEF WriterTouch
  <2>2. CASE local[At[w]] = NoEntry
    <3>1. UNCHANGED <<local, localGrace>>
      BY <1>3, <2>2 DEF WriterTouch
    <3> QED BY <1>1, <2>1, <3>1, StaleIsTimedKept
  <2>3. CASE local[At[w]] # NoEntry
    <3>1. /\ \A i \in Instance \ {At[w]} : local'[i] = local[i]
          /\ local'[At[w]] = [local[At[w]] EXCEPT !.ttl = TouchTTL]
          /\ localGrace' = IF Stale(local[At[w]])
                           THEN GreatestOf(localGrace, TouchTTL) ELSE localGrace
      BY <1>3, <2>3 DEF WriterTouch, SetLocal, TypeOK
    <3>2. local'[At[w]].ver = local[At[w]].ver /\ local'[At[w]].ttl = TouchTTL
      BY <2>3, <3>1 DEF TypeOK, Entry
    <3>3. localGrace' >= localGrace
          /\ (Stale(local[At[w]]) => TouchTTL <= localGrace')
      BY <1>1, <3>1 DEF GreatestOf
    <3>4. \A i \in Instance : local[i] # NoEntry => local[i].ttl \in Nat
      BY TTLFacts, EntryFacts DEF TypeOK
    <3>5. \A i \in Instance : Stale(local[i])' => local'[i].ttl <= localGrace'
      <4> SUFFICES ASSUME NEW i \in Instance, Stale(local[i])'
                   PROVE  local'[i].ttl <= localGrace'
        OBVIOUS
      <4>1. CASE i = At[w]
        <5>1. Stale(local[At[w]])
          BY <2>1, <2>3, <3>2, <4>1 DEF Stale
        <5> QED BY <3>2, <3>3, <4>1, <5>1
      <4>2. CASE i # At[w]
        <5>1. local'[i] = local[i] /\ Stale(local[i])
          BY <2>1, <3>1, <4>2 DEF Stale
        <5>2. local[i].ttl <= localGrace /\ local[i].ttl \in Nat
          BY <2>1, <3>4, <5>1 DEF StaleIsTimed, Stale
        <5> QED BY <1>1, <3>3, <5>1, <5>2
      <4> QED BY <4>1, <4>2
    <3>6. /\ \A i \in Instance :
                flight'[i].pc = "hit" /\ flight'[i].ver # row' => localGrace' >= LocalTTL
          /\ Stale(remote)' => /\ remote'.ttl <= remoteGrace'
                               /\ remoteGrace' + LocalTTL <= localGrace'
      BY <1>1, <2>1, <3>3 DEF StaleIsTimed, Stale
    <3> QED BY <3>5, <3>6 DEF StaleIsTimed
  <2> QED BY <2>2, <2>3
<1>4. CASE WriterExpire(w)
  <2>1. UNCHANGED <<row, local, flight>>
        /\ remoteGrace' = ExpireTTL /\ localGrace' = ExpireTTL + LocalTTL
    BY <1>4 DEF WriterExpire
  <2>2. Stale(remote)' => remote'.ttl = ExpireTTL
    BY <1>4 DEF WriterExpire, Stale, TypeOK, Entry
  <2>3. \A i \in Instance : local[i] # NoEntry =>
                            local[i].ttl \in Nat /\ local[i].ttl <= LocalTTL
    BY TTLFacts, EntryFacts DEF LocalLifetimes, TypeOK
  <2>4. \A i \in Instance : Stale(local[i])' => local'[i].ttl <= localGrace'
    BY <1>1, <2>1, <2>3 DEF Stale
  <2> QED BY <1>1, <2>1, <2>2, <2>4 DEF StaleIsTimed
<1>5. CASE WriterSetLocal(w)
  <2>1. clean /\ UNCHANGED <<row, remote, flight, remoteGrace, localGrace>>
    BY <1>5 DEF WriterSetLocal, history
  <2>2. writer[w].ver = row
    BY <1>5, <2>1 DEF WriterSetLocal, LoadsAreFresh, Brings
  <2>3. \A i \in Instance : local'[i] = IF i = At[w] THEN LocalEntry(row) ELSE local[i]
    BY <1>5, <2>2 DEF WriterSetLocal, SetLocal, TypeOK
  <2> QED BY <2>1, <2>3 DEF StaleIsTimed, Stale, LocalEntry
<1>6. CASE WriterSetRemote(w)
  <2>1. clean /\ UNCHANGED <<row, local, flight>>
    BY <1>6 DEF WriterSetRemote, SetRemote
  <2>2. writer[w].ver = row
    BY <1>6, <2>1 DEF WriterSetRemote, LoadsAreFresh, Brings
  <2>3. SetRemote(row)
    BY <1>6, <2>2 DEF WriterSetRemote
  <2> QED BY <2>1, <2>3, SetRemoteKeepsTime
<1> QED BY <1>2, <1>3, <1>4, <1>5, <1>6 DEF WriterStep

LEMMA TickKeepsTime ==
    ASSUME GraceInv, clean, Tick
    PROVE  StaleIsTimed'
<1> USE DEF GraceInv
<1>1. /\ localGrace \in Nat /\ remoteGrace \in Nat /\ LocalTTL \in Nat
      /\ localGrace' = Less(localGrace) /\ remoteGrace' = Less(remoteGrace)
      /\ UNCHANGED <<row, flight>>
  BY TTLFacts DEF Tick, TypeOK
<1>2. \A i \in Instance : flight'[i].pc # "hit"
  BY DEF Tick
<1>3. Stale(remote)' => /\ remote'.ttl <= remoteGrace'
                        /\ remoteGrace' + LocalTTL <= localGrace'
  <2> SUFFICES ASSUME Stale(remote)'
               PROVE  /\ remote'.ttl <= remoteGrace'
                      /\ remoteGrace' + LocalTTL <= localGrace'
    OBVIOUS
  <2>1. remote # NoEntry /\ remote'.ver = remote.ver /\ remote'.ttl = remote.ttl - 1
    BY AgedFacts DEF Tick, Stale, TypeOK
  <2>2. remote.ttl \in Nat \ {0}
    BY <2>1, TTLFacts, EntryFacts DEF TypeOK
  <2>3. remote.ttl <= remoteGrace /\ remoteGrace + LocalTTL <= localGrace
    BY <1>1, <2>1 DEF Stale, StaleIsTimed
  <2> QED BY <1>1, <2>1, <2>2, <2>3 DEF Less
<1>4. ASSUME NEW i \in Instance, Stale(local[i])' PROVE local'[i].ttl <= localGrace'
  <2>1. local[i] # NoEntry /\ local'[i].ver = local[i].ver
        /\ local'[i].ttl = local[i].ttl - 1
    BY <1>4, AgedFacts DEF Tick, Stale, TypeOK
  <2>2. local[i].ttl \in Nat \ {0}
    BY <2>1, TTLFacts, EntryFacts DEF TypeOK
  <2>3. local[i].ttl <= localGrace
    BY <1>1, <1>4, <2>1 DEF Stale, StaleIsTimed
  <2> QED BY <1>1, <2>1, <2>2, <2>3 DEF Less
<1> QED BY <1>2, <1>3, <1>4 DEF StaleIsTimed

LEMMA GraceNext == GraceInv /\ [Next]_vars => GraceInv'
<1> SUFFICES ASSUME GraceInv, [Next]_vars PROVE GraceInv'
  OBVIOUS
<1>1. TypeOK /\ TypeOK' /\ LocalLifetimes'
  BY TypeNext, LocalLifetimesNext DEF GraceInv
<1>2. ASSUME clean' PROVE LoadsAreFresh' /\ StaleIsTimed'
  <2>1. LoadsAreFresh'
    BY <1>1, <1>2, LoadsAreFreshNext DEF GraceInv
  <2>2. ASSUME NEW i \in Instance, FlightStep(i) PROVE StaleIsTimed'
    <3>1. clean
      BY <1>2, <2>2
      DEF FlightStep, FlightRecheck, FlightGetRemote, FlightSetFromRemote, FlightLoad,
          FlightLoadFail, FlightSetLocal, FlightSetRemote, SetRemote, history
    <3> QED BY <1>1, <2>2, <3>1, FlightKeepsTime
  <2>3. ASSUME NEW w \in Writer, WriterStep(w) PROVE StaleIsTimed'
    BY <1>1, <1>2, <2>3, WriterKeepsTime
  <2>4. ASSUME NEW w \in Writer, WriterCommit(w) PROVE FALSE
    BY <1>2, <2>4 DEF WriterCommit
  <2>5. ASSUME NEW r \in Reader, ReadMiss(r) \/ ReadCancel(r) PROVE StaleIsTimed'
    <3>1. clean /\ UNCHANGED <<row, local, remote, remoteGrace, localGrace>>
      BY <1>2, <2>5 DEF ReadMiss, ReadCancel, history
    <3>2. \A i \in Instance : flight'[i].pc = "hit" => flight'[i] = flight[i]
      BY <2>5, <1>1 DEF ReadMiss, ReadCancel, SetFlight, TypeOK
    <3> QED BY <1>1, <3>1, <3>2, StaleIsTimedKept, TTLFacts DEF GraceInv, TypeOK
  <2>6. ASSUME NEW i \in Instance, Restart(i) PROVE StaleIsTimed'
    <3>1. clean /\ UNCHANGED <<row, remote, remoteGrace, localGrace>>
      BY <1>2, <2>6 DEF Restart, history
    <3>2. \A j \in Instance : /\ flight'[j].pc = "hit" => flight'[j] = flight[j]
                              /\ local'[j] \in {local[j], NoEntry}
      BY <2>6, <1>1 DEF Restart, NoFlight, SetLocal, TypeOK
    <3> QED BY <1>1, <3>1, <3>2, StaleIsTimedKept, TTLFacts DEF GraceInv, TypeOK
  <2>7. CASE Tick
    BY <1>2, <2>1, <2>7, TickKeepsTime DEF Tick
  <2>8. CASE UNCHANGED vars
    BY <1>2, <2>1, <2>8 DEF vars, GraceInv, StaleIsTimed, Stale
  <2> QED BY <2>1, <2>2, <2>3, <2>4, <2>5, <2>6, <2>7, <2>8 DEF Next
<1> QED BY <1>1, <1>2 DEF GraceInv

(* Redis is fresh ExpireTTL after a forced refresh has reached its Redis   *)
(* expiry with nothing older on its way, and every local cache LocalTTL    *)
(* later, or TouchTTL after the last touch of a stale entry: for all       *)
(* lifetimes, whatever fails, restarts or is written by others afterwards. *)
THEOREM StaleEntriesDie == Spec => []FreshAfterGrace
<1>1. GraceInv => FreshAfterGrace
  <2> SUFFICES ASSUME GraceInv, clean
               PROVE  /\ remoteGrace = 0 => ~ Stale(remote)
                      /\ localGrace = 0 => \A i \in Instance : ~ Stale(local[i])
    BY DEF FreshAfterGrace
  <2>1. remote # NoEntry => remote.ttl \in Nat \ {0}
    BY TTLFacts, EntryFacts DEF GraceInv, TypeOK
  <2>2. \A i \in Instance : local[i] # NoEntry => local[i].ttl \in Nat \ {0}
    BY TTLFacts, EntryFacts DEF GraceInv, TypeOK
  <2> QED BY <2>1, <2>2 DEF GraceInv, StaleIsTimed, Stale
<1> QED BY <1>1, GraceInit, GraceNext, PTL DEF Spec
=============================================================================
