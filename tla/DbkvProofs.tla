----------------------------- MODULE DbkvProofs -----------------------------
(***************************************************************************)
(* Theorems about Dbkv, for any number of instances, list requests,        *)
(* sessions, keys and stamps.                                              *)
(***************************************************************************)
EXTENDS Dbkv, TLAPS

(* A connected instance, and one about to be, has found the marker. *)
MarkerExists ==
    \A i \in Instance :
        life[i] \in {"loaded", "open", "closing"} => db.stamp # NoMarker

(* What is about to be stored is a snapshot, never the nil pointer. *)
PendingSnapshots ==
    \A i \in Instance :
        /\ life[i] = "loaded" => first[i] # NoSnapshot
        /\ \A p \in Refresher :
             job[i][p].pc = "store" => job[i][p].snap # NoSnapshot

TypeInv == TypeOK /\ MarkerExists /\ PendingSnapshots /\ ServesWhileOpen

USE StampAssumption, NullAssumption, WorkerAssumption, KeyAssumption

-----------------------------------------------------------------------------
(* The null values are told apart from the values they stand for. *)
LEMMA SnapshotFacts ==
    /\ Snapshot \subseteq Database
    /\ NoSnapshot \notin Snapshot
    /\ \A d \in Database : d.stamp # NoMarker => d \in Snapshot
<1>1. Snapshot \subseteq Database
  BY DEF Snapshot, Database
<1>2. ASSUME NEW d \in Database, d.stamp # NoMarker PROVE d \in Snapshot
  BY <1>2 DEF Snapshot, Database
<1> QED BY <1>1, <1>2

(* The idle values are values of their types. *)
LEMMA IdleTypes == IdleJob \in Job /\ IdleTx \in Tx
<1>1. NoKey \in Key
  BY DEF NoKey
<1> QED BY <1>1 DEF IdleJob, Job, Marker, IdleTx, Tx

(* Giving one refresher a new job changes no other job. *)
LEMMA SetJobType ==
  ASSUME TypeOK, NEW i \in Instance, NEW p \in Refresher, NEW j \in Job,
         SetJob(i, p, j)
  PROVE  /\ job' \in [Instance -> [Refresher -> Job]]
         /\ job'[i][p] = j
         /\ \A i2 \in Instance, p2 \in Refresher :
              i2 # i \/ p2 # p => job'[i2][p2] = job[i2][p2]
  BY DEF TypeOK, SetJob

LEMMA WorkerIsRefresher == Worker \in Refresher
  BY DEF Refresher

LEMMA InitTypeInv == Init => TypeInv
<1> SUFFICES ASSUME Init PROVE TypeInv
  OBVIOUS
<1> USE DEF Init
<1>1. db \in Database
  BY DEF Database, Rows, Row, Marker
<1>2. history \in Seq(Database)
  BY <1>1
<1>3. TypeOK
  BY <1>1, <1>2, IdleTypes DEF TypeOK, LifeState
<1>4. MarkerExists /\ PendingSnapshots /\ ServesWhileOpen
  BY DEF MarkerExists, PendingSnapshots, ServesWhileOpen, Connected, IdleJob
<1> QED BY <1>3, <1>4 DEF TypeInv

(* Committing a table keeps the table and its history well typed. *)
LEMMA CommitTableType ==
  ASSUME TypeOK, NEW table \in Database, CommitTable(table)
  PROVE  db' \in Database /\ history' \in Seq(Database)
  BY DEF TypeOK, CommitTable

LEMMA LifecycleTypeInv ==
  ASSUME TypeInv, NEW i \in Instance, Lifecycle(i)
  PROVE  TypeInv'
<1> USE DEF TypeInv, ServesWhileOpen, MarkerExists, PendingSnapshots, Connected
<1>1. CASE InitEnsureMarker(i)
  <2> USE <1>1 DEF InitEnsureMarker
  <2>1. db' \in Database /\ history' \in Seq(Database)
    <3>1. CASE db.stamp = NoMarker
      <4>1. [db EXCEPT !.stamp = 0] \in Database
        BY DEF TypeOK, Database, Marker
      <4> QED BY <3>1, <4>1, CommitTableType
    <3>2. CASE db.stamp # NoMarker
      BY <3>2 DEF TypeOK
    <3> QED BY <3>1, <3>2
  <2>2. TypeOK'
    BY <2>1 DEF TypeOK, LifeState
  <2>3. db'.stamp # NoMarker
    BY DEF TypeOK, Database, CommitTable, Marker
  <2> QED BY <2>2, <2>3 DEF TypeOK
<1>2. CASE InitLoadSnapshot(i)
  <2> USE <1>2 DEF InitLoadSnapshot
  <2>1. db \in Snapshot
    BY SnapshotFacts DEF TypeOK
  <2>2. TypeOK'
    BY <2>1 DEF TypeOK, LifeState
  <2> QED BY <2>1, <2>2, SnapshotFacts DEF TypeOK
<1>3. CASE InitPublish(i)
  <2> USE <1>3 DEF InitPublish
  <2>1. TypeOK'
    BY DEF TypeOK, LifeState
  <2> QED BY <2>1 DEF TypeOK
<1>4. CASE InitLoadFail(i)
  BY <1>4 DEF InitLoadFail, TypeOK, LifeState
<1>5. CASE InitWorkerFail(i)
  BY <1>5 DEF InitWorkerFail, TypeOK, LifeState
<1>6. CASE CloseStopWorker(i)
  BY <1>6 DEF CloseStopWorker, TypeOK, LifeState
<1>7. CASE CloseFinish(i)
  BY <1>7 DEF CloseFinish, TypeOK, LifeState
<1>8. CASE Crash(i)
  <2> USE <1>8 DEF Crash
  <2>1. TypeOK'
    BY IdleTypes DEF TypeOK, LifeState
  <2>2. \A p \in Refresher : job'[i][p] = IdleJob
    BY DEF TypeOK
  <2>3. \A j \in Instance \ {i} : job'[j] = job[j]
    BY DEF TypeOK
  <2> QED BY <2>1, <2>2, <2>3 DEF TypeOK, IdleJob
<1> QED
  BY <1>1, <1>2, <1>3, <1>4, <1>5, <1>6, <1>7, <1>8 DEF Lifecycle

(* After a Refresh a refresher is idle, or about to answer a list. *)
LEMMA RefreshedType ==
  ASSUME NEW p \in Refresher
  PROVE  Refreshed(p) \in Job /\ Refreshed(p).pc \in {"idle", "list"}
  BY DEF Refreshed, IdleJob, Job, Marker

(* A refresher that goes on to load keeps the marker it has read. *)
LEMMA LoadJobType ==
  ASSUME NEW j \in Job
  PROVE  /\ [j EXCEPT !.pc = "load"] \in Job
         /\ [j EXCEPT !.pc = "load"].pc = "load"
  BY DEF Job

LEMMA RefreshTypeInv ==
  ASSUME TypeInv, NEW i \in Instance, NEW p \in Refresher, Refresh(i, p)
  PROVE  TypeInv'
<1> USE DEF TypeInv, ServesWhileOpen, MarkerExists, PendingSnapshots, Connected
<1> DEFINE Quiet == UNCHANGED <<db, history, life, first, cache, tx>>
<1>1. ASSUME NEW j \in Job, SetJob(i, p, j), Quiet,
             j.pc = "store" => j.snap # NoSnapshot
      PROVE  TypeInv'
  <2>1. /\ job' \in [Instance -> [Refresher -> Job]]
        /\ job'[i][p] = j
        /\ \A i2 \in Instance, p2 \in Refresher :
             i2 # i \/ p2 # p => job'[i2][p2] = job[i2][p2]
    BY <1>1, SetJobType
  <2>2. TypeOK'
    BY <1>1, <2>1 DEF TypeOK
  <2>3. PendingSnapshots'
    BY <1>1, <2>1
  <2> QED BY <1>1, <2>2, <2>3
<1>2. CASE RefreshReadMarker(i, p)
  <2> USE <1>2 DEF RefreshReadMarker
  <2>1. db.stamp \in Marker
    BY DEF MayQuery, TypeOK, Database
  <2>2. [IdleJob EXCEPT !.pc = "compare", !.marker = db.stamp] \in Job
    BY <2>1 DEF IdleJob, Job
  <2> QED BY <2>2, <1>1 DEF IdleJob
<1>3. CASE RefreshCompare(i, p)
  <2> USE <1>3 DEF RefreshCompare
  <2> DEFINE load == [job[i][p] EXCEPT !.pc = "load"]
  <2>1. load \in Job /\ load.pc = "load"
    <3>1. job[i][p] \in Job
      BY DEF TypeOK
    <3> QED BY <3>1, LoadJobType
  <2>3. CASE cache[i] # NoSnapshot /\ cache[i].stamp = job[i][p].marker
    BY <2>3, <1>1, RefreshedType
  <2>4. CASE ~ (cache[i] # NoSnapshot /\ cache[i].stamp = job[i][p].marker)
    <3>1. SetJob(i, p, load)
      BY <2>4
    <3> HIDE DEF load
    <3> QED BY <3>1, <2>1, <1>1
  <2> QED BY <2>3, <2>4
<1>4. CASE RefreshLoad(i, p)
  <2> USE <1>4 DEF RefreshLoad
  <2>1. db \in Snapshot /\ db # NoSnapshot
    BY SnapshotFacts DEF MayQuery, TypeOK
  <2>2. [IdleJob EXCEPT !.pc = "store", !.snap = db] \in Job
    BY <2>1 DEF IdleJob, Job, Marker
  <2>3. [IdleJob EXCEPT !.pc = "store", !.snap = db].snap = db
    BY DEF IdleJob
  <2> QED BY <2>1, <2>2, <2>3, <1>1
<1>5. CASE RefreshStore(i, p)
  <2> USE <1>5 DEF RefreshStore
  <2>1. job[i][p].snap \in Snapshot
    BY DEF TypeOK, Job
  <2>2. job' \in [Instance -> [Refresher -> Job]]
    BY SetJobType, RefreshedType
  <2>3. \A i2 \in Instance, p2 \in Refresher :
          job'[i2][p2].pc = "store" => job'[i2][p2].snap # NoSnapshot
    <3>1. /\ job'[i][p] = Refreshed(p)
          /\ \A i2 \in Instance, p2 \in Refresher :
               i2 # i \/ p2 # p => job'[i2][p2] = job[i2][p2]
      BY SetJobType, RefreshedType
    <3> QED BY <3>1, RefreshedType
  <2>4. TypeOK'
    BY <2>1, <2>2 DEF TypeOK
  <2>5. \A i2 \in Instance :
          cache'[i2] = IF i2 = i THEN job[i][p].snap ELSE cache[i2]
    BY DEF TypeOK
  <2>6. job[i][p].snap # NoSnapshot
    OBVIOUS
  <2> QED BY <2>3, <2>4, <2>5, <2>6
<1>6. CASE RefreshFail(i, p)
  BY <1>6, <1>1, IdleTypes DEF RefreshFail, IdleJob
<1>7. CASE ListAnswer(i, p)
  BY <1>7, <1>1, IdleTypes DEF ListAnswer, IdleJob
<1> QED
  BY <1>2, <1>3, <1>4, <1>5, <1>6, <1>7 DEF Refresh

LEMMA WriteTypeInv ==
  ASSUME TypeInv, NEW s \in Session, Write(s)
  PROVE  TypeInv'
<1> USE DEF TypeInv, ServesWhileOpen, MarkerExists, PendingSnapshots, Connected
<1>1. ASSUME tx' \in [Session -> Tx],
             UNCHANGED <<db, history, life, first, cache, job>>
      PROVE  TypeInv'
  BY <1>1 DEF TypeOK
<1>2. ASSUME NEW i \in Instance, NEW k \in Key, NEW row \in SetRow,
             SetHandlerCheck(s, i, k, row)
      PROVE  TypeInv'
  BY <1>1, <1>2, IdleTypes DEF SetHandlerCheck, SetRow, IdleTx, Tx, TypeOK
<1>3. ASSUME NEW i \in Instance, NEW k \in Key, DeleteHandlerCheck(s, i, k)
      PROVE  TypeInv'
  BY <1>1, <1>3, IdleTypes DEF DeleteHandlerCheck, IdleTx, Tx, TypeOK
<1>4. ASSUME NEW t \in Stamp, ChangeRow(s, t) PROVE TypeInv'
  <2>1. tx[s] \in Tx /\ t \in Marker
    BY <1>4 DEF TypeOK, Marker
  <2>2. tx' = [tx EXCEPT ![s] = [tx[s] EXCEPT !.pc = "changed", !.stamp = t]]
    BY <1>4 DEF ChangeRow, TypeOK, Tx
  <2>3. [tx[s] EXCEPT !.pc = "changed", !.stamp = t] \in Tx
    BY <2>1 DEF Tx
  <2>4. tx' \in [Session -> Tx]
    BY <2>2, <2>3 DEF TypeOK
  <2> QED BY <1>1, <1>4, <2>4 DEF ChangeRow
<1>5. CASE CommitWrite(s)
  <2> DEFINE new == [rows |-> [db.rows EXCEPT ![tx[s].key] = tx[s].row],
                     stamp |-> tx[s].stamp]
  <2> USE <1>5 DEF CommitWrite
  <2>1. new \in Database
    BY DEF TypeOK, Database, Rows, Tx
  <2>2. new.stamp # NoMarker
    BY DEF TypeOK, Tx
  <2>3. tx' \in [Session -> Tx]
    BY IdleTypes DEF TypeOK
  <2>4. db' = new
    BY DEF CommitTable
  <2>5. TypeOK'
    BY <2>1, <2>3, CommitTableType DEF TypeOK
  <2> HIDE DEF new
  <2> QED BY <2>2, <2>4, <2>5 DEF TypeOK
<1>6. CASE Rollback(s)
  BY <1>1, <1>6, IdleTypes DEF Rollback, TypeOK
<1> QED
  BY <1>2, <1>3, <1>4, <1>5, <1>6 DEF Write

LEMMA NextTypeInv == TypeInv /\ [Next]_vars => TypeInv'
<1> SUFFICES ASSUME TypeInv, [Next]_vars PROVE TypeInv'
  OBVIOUS
<1>1. CASE Next
  BY <1>1, LifecycleTypeInv, RefreshTypeInv, WriteTypeInv DEF Next
<1>2. CASE UNCHANGED vars
  BY <1>2 DEF vars, TypeInv, TypeOK, MarkerExists, PendingSnapshots,
              ServesWhileOpen, Connected
<1> QED BY <1>1, <1>2

(* Every reachable state is well typed. *)
THEOREM TypeCorrect == Spec => []TypeOK
<1>1. Spec => []TypeInv
  BY InitTypeInv, NextTypeInv, PTL DEF Spec
<1>2. TypeInv => TypeOK
  BY DEF TypeInv
<1> QED BY <1>1, <1>2, PTL

(* A read is answered from a snapshot at any time between the end of Init  *)
(* (dbkv.go:96-97) and the end of Close, whatever refreshes overlap.       *)
THEOREM OpenStoreServes == Spec => []ServesWhileOpen
<1>1. Spec => []TypeInv
  BY InitTypeInv, NextTypeInv, PTL DEF Spec
<1>2. TypeInv => ServesWhileOpen
  BY DEF TypeInv
<1> QED BY <1>1, <1>2, PTL

-----------------------------------------------------------------------------
(***************************************************************************)
(* A marker names one committed table.  The invariant that carries this    *)
(* speaks of the whole history: stamps of committed tables are distinct,   *)
(* a stamp a transaction has read is not among them, and whatever an       *)
(* instance holds, or is about to hold, is one of the committed tables.    *)
(***************************************************************************)
Committed(t) == \E n \in 1..Len(history) : history[n] = t

LastIsCurrent == Len(history) >= 1 /\ history[Len(history)] = db

StampsDistinct ==
    \A m, n \in 1..Len(history) : history[m].stamp = history[n].stamp => m = n

MarkerComesFirst == db.stamp = NoMarker => Len(history) = 1

PendingStampsFresh ==
    \A s \in Session : tx[s].pc = "changed" =>
        /\ tx[s].stamp \in Stamp
        /\ \A n \in 1..Len(history) : history[n].stamp # tx[s].stamp
        /\ \A r \in Session \ {s} :
             tx[r].pc = "changed" => tx[r].stamp # tx[s].stamp

HeldIsCommitted ==
    \A i \in Instance :
        /\ cache[i] # NoSnapshot => Committed(cache[i])
        /\ first[i] # NoSnapshot => Committed(first[i])
        /\ \A p \in Refresher :
             job[i][p].snap # NoSnapshot => Committed(job[i][p].snap)

HistoryInv == /\ LastIsCurrent
              /\ StampsDistinct
              /\ MarkerComesFirst
              /\ PendingStampsFresh
              /\ HeldIsCommitted

LEMMA InitHistoryInv == Init => HistoryInv
  BY DEF Init, HistoryInv, LastIsCurrent, StampsDistinct, MarkerComesFirst,
         PendingStampsFresh, HeldIsCommitted, IdleJob, IdleTx

(* What a commit of a table under a new stamp does to the history. *)
LEMMA CommitHistory ==
  ASSUME TypeOK, LastIsCurrent, StampsDistinct, NEW table \in Database,
         \A n \in 1..Len(history) : history[n].stamp # table.stamp,
         CommitTable(table)
  PROVE  /\ LastIsCurrent'
         /\ StampsDistinct'
         /\ Len(history') = Len(history) + 1
         /\ history'[Len(history')] = table
         /\ \A n \in 1..Len(history) : history'[n] = history[n]
<1>1. history \in Seq(Database) /\ history' = Append(history, table)
  BY DEF TypeOK, CommitTable
<1>2. /\ Len(history') = Len(history) + 1
      /\ history'[Len(history) + 1] = table
      /\ \A n \in 1..Len(history) : history'[n] = history[n]
  BY <1>1
<1>3. Len(history) \in Nat
  BY <1>1
<1>4. LastIsCurrent'
  BY <1>2, <1>3 DEF LastIsCurrent, CommitTable
<1>5. StampsDistinct'
  BY <1>2, <1>3 DEF StampsDistinct
<1> QED BY <1>2, <1>4, <1>5

(* The table is a committed table. *)
LEMMA CurrentCommitted == TypeOK /\ LastIsCurrent => Committed(db)
  BY DEF TypeOK, LastIsCurrent, Committed

(* A step that leaves the table alone keeps the history invariant if the   *)
(* snapshots it moves were held before or are the table itself.            *)
LEMMA SameHistory ==
  ASSUME HistoryInv, UNCHANGED <<db, history, tx>>, HeldIsCommitted'
  PROVE  HistoryInv'
  BY DEF HistoryInv, LastIsCurrent, StampsDistinct, MarkerComesFirst,
         PendingStampsFresh

LEMMA LifecycleHistoryInv ==
  ASSUME TypeInv, HistoryInv, NEW i \in Instance, Lifecycle(i)
  PROVE  HistoryInv'
<1> USE DEF TypeInv, HistoryInv
<1>1. CASE InitEnsureMarker(i)
  <2> USE <1>1 DEF InitEnsureMarker
  <2>1. CASE db.stamp # NoMarker
    <3>1. HeldIsCommitted'
      BY <2>1 DEF HeldIsCommitted, Committed
    <3> QED BY <2>1, <3>1, SameHistory
  <2>2. CASE db.stamp = NoMarker
    <3> DEFINE new == [db EXCEPT !.stamp = 0]
    <3>1. new \in Database /\ new.stamp = 0
      BY DEF TypeOK, Database, Marker
    <3>2. CommitTable(new)
      BY <2>2
    <3>3. Len(history) = 1 /\ history[1].stamp = NoMarker
      BY <2>2 DEF MarkerComesFirst, LastIsCurrent
    <3>4. 0 # NoMarker
      BY DEF Marker
    <3> HIDE DEF new
    <3>5. /\ LastIsCurrent' /\ StampsDistinct'
          /\ Len(history') = Len(history) + 1
          /\ history'[Len(history')] = new
          /\ \A n \in 1..Len(history) : history'[n] = history[n]
      BY <3>1, <3>2, <3>3, <3>4, CommitHistory
    <3>6. Len(history') = 2
      BY <3>3, <3>5
    <3>7. db' = new
      BY <3>2 DEF CommitTable
    <3>8. MarkerComesFirst'
      BY <3>1, <3>4, <3>7 DEF MarkerComesFirst
    <3>9. PendingStampsFresh'
      BY <3>1, <3>3, <3>5, <3>6 DEF PendingStampsFresh
    <3>10. HeldIsCommitted'
      BY <3>3, <3>5, <3>6 DEF HeldIsCommitted, Committed
    <3> QED BY <3>5, <3>8, <3>9, <3>10
  <2> QED BY <2>1, <2>2
<1>2. CASE InitLoadSnapshot(i)
  BY SMTT(20), <1>2, SameHistory, CurrentCommitted
     DEF InitLoadSnapshot, TypeOK, HeldIsCommitted, Committed
<1>3. CASE InitPublish(i)
  BY SMTT(20), <1>3, SameHistory DEF InitPublish, TypeOK, HeldIsCommitted, Committed
<1>4. CASE InitLoadFail(i)
  BY <1>4, SameHistory DEF InitLoadFail, HeldIsCommitted, Committed
<1>5. CASE InitWorkerFail(i)
  BY <1>5, SameHistory DEF InitWorkerFail, TypeOK, HeldIsCommitted, Committed
<1>6. CASE CloseStopWorker(i)
  BY <1>6, SameHistory DEF CloseStopWorker, HeldIsCommitted, Committed
<1>7. CASE CloseFinish(i)
  <2>1. UNCHANGED <<db, history, first, job, tx>>
    BY <1>7 DEF CloseFinish
  <2>2. \A j \in Instance : cache'[j] = cache[j] \/ cache'[j] = NoSnapshot
    BY <1>7 DEF CloseFinish, TypeOK
  <2>3. HeldIsCommitted'
    BY <2>1, <2>2 DEF HeldIsCommitted, Committed
  <2> QED BY <2>1, <2>3, SameHistory
<1>8. CASE Crash(i)
  <2> USE <1>8 DEF Crash
  <2>1. \A s \in Session : tx'[s].pc = "changed" => tx'[s] = tx[s]
    BY DEF TypeOK, IdleTx
  <2>2. PendingStampsFresh'
    BY <2>1 DEF PendingStampsFresh
  <2>3. HeldIsCommitted'
    <3>1. \A j \in Instance \ {i} :
            first'[j] = first[j] /\ cache'[j] = cache[j] /\ job'[j] = job[j]
      BY DEF TypeOK
    <3>2. /\ first'[i] = NoSnapshot /\ cache'[i] = NoSnapshot
          /\ \A p \in Refresher : job'[i][p].snap = NoSnapshot
      BY DEF TypeOK, IdleJob
    <3> QED BY <3>1, <3>2 DEF HeldIsCommitted, Committed
  <2> QED BY <2>2, <2>3 DEF LastIsCurrent, StampsDistinct, MarkerComesFirst
<1> QED
  BY <1>1, <1>2, <1>3, <1>4, <1>5, <1>6, <1>7, <1>8 DEF Lifecycle

LEMMA RefreshHistoryInv ==
  ASSUME TypeInv, HistoryInv, NEW i \in Instance, NEW p \in Refresher,
         Refresh(i, p)
  PROVE  HistoryInv'
<1> USE DEF TypeInv, HistoryInv
<1>1. UNCHANGED <<db, history, first, tx>>
  BY DEF Refresh, RefreshReadMarker, RefreshCompare, RefreshLoad,
         RefreshStore, RefreshFail, ListAnswer
<1>2. ASSUME NEW j \in Job, SetJob(i, p, j), UNCHANGED <<history, first, cache>>,
             j.snap # NoSnapshot => Committed(j.snap)
      PROVE  HeldIsCommitted'
  <2>1. /\ job'[i][p] = j
        /\ \A i2 \in Instance, p2 \in Refresher :
             i2 # i \/ p2 # p => job'[i2][p2] = job[i2][p2]
    BY <1>2, SetJobType
  <2> QED BY <1>2, <2>1 DEF HeldIsCommitted, Committed
<1>3. /\ IdleJob \in Job /\ IdleJob.snap = NoSnapshot
      /\ Refreshed(p) \in Job /\ Refreshed(p).snap = NoSnapshot
  BY IdleTypes, RefreshedType DEF IdleJob, Refreshed
<1>4. CASE RefreshReadMarker(i, p)
  <2> DEFINE j == [IdleJob EXCEPT !.pc = "compare", !.marker = db.stamp]
  <2>1. db.stamp \in Marker
    BY <1>4 DEF RefreshReadMarker, MayQuery, TypeOK, Database, MarkerExists,
                Connected
  <2>2. j \in Job /\ j.snap = NoSnapshot
    BY <2>1 DEF IdleJob, Job
  <2>3. SetJob(i, p, j) /\ UNCHANGED <<history, first, cache>>
    BY <1>4 DEF RefreshReadMarker
  <2> HIDE DEF j
  <2>4. HeldIsCommitted'
    BY <2>2, <2>3, <1>2
  <2> QED BY <2>4, <1>1, SameHistory
<1>5. CASE RefreshCompare(i, p)
  <2> DEFINE load == [job[i][p] EXCEPT !.pc = "load"]
  <2>1. job[i][p] \in Job
    BY DEF TypeOK
  <2>2. load \in Job /\ load.snap = job[i][p].snap
    BY <2>1 DEF Job
  <2>3. UNCHANGED <<history, first, cache>>
    BY <1>5 DEF RefreshCompare
  <2>4. SetJob(i, p, Refreshed(p)) \/ SetJob(i, p, load)
    BY <1>5 DEF RefreshCompare
  <2> HIDE DEF load
  <2>5. HeldIsCommitted'
    <3>1. CASE SetJob(i, p, Refreshed(p))
      BY <3>1, <2>3, <1>2, <1>3
    <3>2. CASE SetJob(i, p, load)
      <4>1. load.snap # NoSnapshot => Committed(load.snap)
        BY <2>2 DEF HeldIsCommitted
      <4> QED BY <3>2, <4>1, <2>2, <2>3, <1>2
    <3> QED BY <2>4, <3>1, <3>2
  <2> QED BY <2>5, <1>1, SameHistory
<1>6. CASE RefreshLoad(i, p)
  <2> DEFINE j == [IdleJob EXCEPT !.pc = "store", !.snap = db]
  <2>1. db \in Snapshot
    BY <1>6, SnapshotFacts DEF RefreshLoad, MayQuery, TypeOK, MarkerExists,
                               Connected
  <2>2. j \in Job /\ j.snap = db
    BY <2>1 DEF IdleJob, Job, Marker
  <2>3. SetJob(i, p, j) /\ UNCHANGED <<history, first, cache>>
    BY <1>6 DEF RefreshLoad
  <2> HIDE DEF j
  <2>4. HeldIsCommitted'
    BY <2>2, <2>3, <1>2, CurrentCommitted
  <2> QED BY <2>4, <1>1, SameHistory
<1>7. CASE RefreshStore(i, p)
  <2>1. /\ job'[i][p] = Refreshed(p)
        /\ \A i2 \in Instance, p2 \in Refresher :
             i2 # i \/ p2 # p => job'[i2][p2] = job[i2][p2]
    BY <1>3, <1>7, SetJobType DEF RefreshStore
  <2>2. \A i2 \in Instance :
          cache'[i2] = IF i2 = i THEN job[i][p].snap ELSE cache[i2]
    BY <1>7 DEF RefreshStore, TypeOK
  <2>3. HeldIsCommitted'
    BY <1>1, <1>3, <2>1, <2>2 DEF HeldIsCommitted, Committed
  <2> QED BY <2>3, <1>1, SameHistory
<1>8. CASE RefreshFail(i, p)
  BY <1>8, <1>1, <1>2, <1>3, SameHistory DEF RefreshFail
<1>9. CASE ListAnswer(i, p)
  BY <1>9, <1>1, <1>2, <1>3, SameHistory DEF ListAnswer
<1> QED
  BY <1>4, <1>5, <1>6, <1>7, <1>8, <1>9 DEF Refresh

(* The effect of a commit, in the terms of the history. *)
LEMMA CommitWriteHistory ==
  ASSUME TypeInv, HistoryInv, NEW s \in Session, CommitWrite(s)
  PROVE  /\ db' \in Database /\ db'.stamp = tx[s].stamp /\ db'.stamp \in Stamp
         /\ LastIsCurrent' /\ StampsDistinct'
         /\ Len(history') = Len(history) + 1
         /\ history'[Len(history')] = db'
         /\ \A n \in 1..Len(history) : history'[n] = history[n]
<1> DEFINE new == [rows |-> [db.rows EXCEPT ![tx[s].key] = tx[s].row],
                   stamp |-> tx[s].stamp]
<1>1. new \in Database /\ new.stamp = tx[s].stamp
  BY DEF TypeInv, TypeOK, Database, Rows, Tx
<1>2. CommitTable(new) /\ tx[s].pc = "changed"
  BY DEF CommitWrite
<1>3. /\ tx[s].stamp \in Stamp
      /\ \A n \in 1..Len(history) : history[n].stamp # tx[s].stamp
  BY <1>2 DEF HistoryInv, PendingStampsFresh
<1> HIDE DEF new
<1>4. /\ LastIsCurrent' /\ StampsDistinct'
      /\ Len(history') = Len(history) + 1
      /\ history'[Len(history')] = new
      /\ \A n \in 1..Len(history) : history'[n] = history[n]
  BY <1>1, <1>2, <1>3, CommitHistory DEF TypeInv, HistoryInv
<1>5. db' = new
  BY <1>2 DEF CommitTable
<1> QED BY <1>1, <1>3, <1>4, <1>5

LEMMA WriteHistoryInv ==
  ASSUME TypeInv, HistoryInv, NEW s \in Session, Write(s)
  PROVE  HistoryInv'
<1> USE DEF TypeInv, HistoryInv
<1>1. ASSUME UNCHANGED <<db, history, first, cache, job>>, PendingStampsFresh'
      PROVE  HistoryInv'
  BY <1>1 DEF LastIsCurrent, StampsDistinct, MarkerComesFirst,
              HeldIsCommitted, Committed
<1>2. ASSUME UNCHANGED <<db, history, first, cache, job>>,
             \A r \in Session : tx'[r].pc = "changed" => tx'[r] = tx[r]
      PROVE  HistoryInv'
  <2>1. PendingStampsFresh'
    BY <1>2 DEF PendingStampsFresh
  <2> QED BY <1>1, <1>2, <2>1
<1>3. ASSUME NEW i \in Instance, NEW k \in Key, NEW row \in SetRow,
             SetHandlerCheck(s, i, k, row)
      PROVE  HistoryInv'
  BY <1>2, <1>3 DEF SetHandlerCheck, IdleTx, TypeOK
<1>4. ASSUME NEW i \in Instance, NEW k \in Key, DeleteHandlerCheck(s, i, k)
      PROVE  HistoryInv'
  BY <1>2, <1>4 DEF DeleteHandlerCheck, IdleTx, TypeOK
<1>5. ASSUME NEW t \in Stamp, ChangeRow(s, t) PROVE HistoryInv'
  <2> USE <1>5 DEF ChangeRow
  <2>1. tx'[s].stamp = t /\ \A r \in Session \ {s} : tx'[r] = tx[r]
    BY DEF TypeOK, Tx
  <2>2. PendingStampsFresh'
    <3>1. /\ \A n \in 1..Len(history) : history[n].stamp # t
          /\ \A r \in Session : tx[r].pc = "changed" => tx[r].stamp # t
      BY DEF FreshStamp
    <3>2. history' = history
      OBVIOUS
    <3> HIDE <1>5 DEF ChangeRow
    <3> QED BY <2>1, <3>1, <3>2 DEF PendingStampsFresh
  <2> QED BY <1>1, <2>2
<1>6. CASE CommitWrite(s)
  <2> USE <1>6
  <2>1. \A r \in Session : tx'[r].pc = "changed" => tx'[r] = tx[r] /\ r # s
    BY DEF CommitWrite, IdleTx, TypeOK
  <2>2. Len(history) \in Nat
    BY DEF TypeOK
  <2>3. MarkerComesFirst'
    BY CommitWriteHistory DEF MarkerComesFirst, Marker
  <2>4. PendingStampsFresh'
    <3> SUFFICES ASSUME NEW r \in Session, tx'[r].pc = "changed"
                 PROVE  /\ tx'[r].stamp \in Stamp
                        /\ \A n \in 1..Len(history') :
                             history'[n].stamp # tx'[r].stamp
                        /\ \A q \in Session \ {r} :
                             tx'[q].pc = "changed" => tx'[q].stamp # tx'[r].stamp
      BY DEF PendingStampsFresh
    <3>1. tx'[r] = tx[r] /\ r # s /\ tx[s].pc = "changed"
      BY <2>1 DEF CommitWrite
    <3>2. tx[r].stamp # tx[s].stamp
      BY <3>1 DEF PendingStampsFresh
    <3>3. ASSUME NEW n \in 1..Len(history')
          PROVE  history'[n].stamp # tx'[r].stamp
      <4>1. CASE n = Len(history')
        BY <4>1, <3>1, <3>2, CommitWriteHistory
      <4>2. CASE n # Len(history')
        <5>1. n \in 1..Len(history) /\ history'[n] = history[n]
          BY <4>2, <2>2, CommitWriteHistory
        <5> QED BY <5>1, <3>1 DEF PendingStampsFresh
      <4> QED BY <4>1, <4>2
    <3> QED BY <3>1, <3>3, <2>1 DEF PendingStampsFresh
  <2>5. \A t : Committed(t) => Committed(t)'
    BY <2>2, CommitWriteHistory DEF Committed
  <2>6. HeldIsCommitted'
    BY <2>5 DEF HeldIsCommitted, CommitWrite
  <2> QED BY <2>3, <2>4, <2>6, CommitWriteHistory
<1>7. CASE Rollback(s)
  BY <1>2, <1>7 DEF Rollback, IdleTx, TypeOK
<1> QED
  BY <1>3, <1>4, <1>5, <1>6, <1>7 DEF Write

LEMMA NextHistoryInv == TypeInv /\ HistoryInv /\ [Next]_vars => HistoryInv'
<1> SUFFICES ASSUME TypeInv, HistoryInv, [Next]_vars PROVE HistoryInv'
  OBVIOUS
<1>1. CASE Next
  BY <1>1, LifecycleHistoryInv, RefreshHistoryInv, WriteHistoryInv DEF Next
<1>2. CASE UNCHANGED vars
  BY <1>2 DEF vars, HistoryInv, LastIsCurrent, StampsDistinct,
              MarkerComesFirst, PendingStampsFresh, HeldIsCommitted, Committed
<1> QED BY <1>1, <1>2

LEMMA StoreInvariant == Spec => [](TypeInv /\ HistoryInv)
<1>1. Spec => []TypeInv
  BY InitTypeInv, NextTypeInv, PTL DEF Spec
<1>2. Spec => [](TypeInv /\ HistoryInv)
  BY <1>1, InitHistoryInv, NextHistoryInv, PTL DEF Spec
<1> QED BY <1>2

(* Refresh may skip the reload when the cached marker equals the marker of *)
(* the table (dbkv.go:148): the rows are then equal too.  It rests on the  *)
(* stamps of transactions being distinct and on nothing else, not on their *)
(* order.                                                                  *)
THEOREM EqualMarkersEqualRows == Spec => []MarkerIdentifiesTable
<1>1. TypeInv /\ HistoryInv => MarkerIdentifiesTable
  <2> SUFFICES ASSUME TypeInv, HistoryInv, NEW i \in Instance,
                      cache[i] # NoSnapshot, cache[i].stamp = db.stamp
               PROVE  cache[i].rows = db.rows
    BY DEF MarkerIdentifiesTable
  <2>1. Committed(cache[i]) /\ Committed(db)
    BY CurrentCommitted DEF TypeInv, HistoryInv, HeldIsCommitted
  <2>2. PICK m \in 1..Len(history), n \in 1..Len(history) :
          history[m] = cache[i] /\ history[n] = db
    BY <2>1 DEF Committed
  <2>3. m = n
    BY <2>2 DEF HistoryInv, StampsDistinct
  <2> QED BY <2>2, <2>3
<1> QED BY <1>1, StoreInvariant, PTL

-----------------------------------------------------------------------------
(* The row lock: no two transactions have changed one row. *)
LocksExclusive ==
    \A r, s \in Session :
        tx[r].pc = "changed" /\ tx[s].pc = "changed" /\ tx[r].key = tx[s].key
            => r = s

LockInv == LocksExclusive /\ CheckHoldsUntilCommit

LEMMA NextLockInv == TypeInv /\ LockInv /\ [Next]_vars => LockInv'
<1> SUFFICES ASSUME TypeInv, LockInv, [Next]_vars PROVE LockInv'
  OBVIOUS
<1> USE DEF LockInv, TypeInv
<1>1. ASSUME db'.rows = db.rows,
             \A s \in Session : tx'[s].pc = "changed" => tx'[s] = tx[s]
      PROVE  LockInv'
  BY <1>1 DEF LocksExclusive, CheckHoldsUntilCommit, ChangeAllowed
<1>2. ASSUME NEW i \in Instance, Lifecycle(i) PROVE LockInv'
  <2>1. db'.rows = db.rows
    BY <1>2 DEF Lifecycle, InitEnsureMarker, CommitTable, InitLoadSnapshot,
                InitPublish, InitLoadFail, InitWorkerFail, CloseStopWorker,
                CloseFinish, Crash, TypeOK, Database
  <2>2. \A s \in Session : tx'[s].pc = "changed" => tx'[s] = tx[s]
    BY <1>2 DEF Lifecycle, InitEnsureMarker, InitLoadSnapshot,
                InitPublish, InitLoadFail, InitWorkerFail, CloseStopWorker,
                CloseFinish, Crash, TypeOK, IdleTx
  <2> QED BY <2>1, <2>2, <1>1
<1>3. ASSUME NEW i \in Instance, NEW p \in Refresher, Refresh(i, p)
      PROVE  LockInv'
  BY <1>1, <1>3 DEF Refresh, RefreshReadMarker, RefreshCompare, RefreshLoad,
                    RefreshStore, RefreshFail, ListAnswer
<1>4. ASSUME NEW s \in Session, Write(s) PROVE LockInv'
  <2>1. CASE \E i \in Instance, k \in Key :
                \/ \E row \in SetRow : SetHandlerCheck(s, i, k, row)
                \/ DeleteHandlerCheck(s, i, k)
    <3>1. db'.rows = db.rows
      BY <2>1 DEF SetHandlerCheck, DeleteHandlerCheck
    <3>2. /\ \A r \in Session \ {s} : tx'[r] = tx[r]
          /\ tx'[s].pc = "checked"
      <4>1. \A i, k, row : SetHandlerCheck(s, i, k, row) =>
               \E checked : checked.pc = "checked" /\ tx' = [tx EXCEPT ![s] = checked]
        BY DEF SetHandlerCheck, IdleTx
      <4>2. \A i, k : DeleteHandlerCheck(s, i, k) =>
               \E checked : checked.pc = "checked" /\ tx' = [tx EXCEPT ![s] = checked]
        BY DEF DeleteHandlerCheck, IdleTx
      <4>3. PICK checked : checked.pc = "checked" /\ tx' = [tx EXCEPT ![s] = checked]
        BY <2>1, <4>1, <4>2
      <4> QED BY <4>3 DEF TypeOK
    <3> QED BY <1>1, <3>1, <3>2
  <2>2. ASSUME NEW t \in Stamp, ChangeRow(s, t) PROVE LockInv'
    <3>1. /\ \A r \in Session \ {s} : tx'[r] = tx[r]
          /\ tx'[s].key = tx[s].key /\ tx'[s].row = tx[s].row
          /\ db' = db
      BY <2>2 DEF ChangeRow, TypeOK, Tx
    <3>2. RowFree(tx[s].key) /\ ChangeAllowed(s)
      BY <2>2 DEF ChangeRow
    <3> QED
      BY <3>1, <3>2 DEF LocksExclusive, CheckHoldsUntilCommit, RowFree,
                        ChangeAllowed
  <2>3. CASE CommitWrite(s)
    <3>1. \A r \in Session : tx'[r].pc = "changed" => tx'[r] = tx[r] /\ r # s
      BY <2>3 DEF CommitWrite, IdleTx, TypeOK
    <3>2. \A k \in Key : k # tx[s].key => db'.rows[k] = db.rows[k]
      BY <2>3 DEF CommitWrite, CommitTable, TypeOK, Database, Rows
    <3>3. \A r \in Session :
            tx'[r].pc = "changed" => tx[r].key # tx[s].key /\ tx[r].key \in Key
      BY <2>3, <3>1 DEF CommitWrite, LocksExclusive, TypeOK, Tx
    <3> QED
      BY <3>1, <3>2, <3>3 DEF LocksExclusive, CheckHoldsUntilCommit,
                              ChangeAllowed
  <2>4. CASE Rollback(s)
    BY <1>1, <2>4 DEF Rollback, IdleTx, TypeOK
  <2> QED BY <1>4, <2>1, <2>2, <2>3, <2>4 DEF Write
<1>5. CASE UNCHANGED vars
  BY <1>1, <1>5 DEF vars
<1> QED BY <1>2, <1>3, <1>4, <1>5 DEF Next

LEMMA LockInvariant == Spec => [](TypeInv /\ LockInv)
<1>1. Init => LockInv
  BY DEF Init, LockInv, LocksExclusive, CheckHoldsUntilCommit, IdleTx
<1>2. Spec => []TypeInv
  BY InitTypeInv, NextTypeInv, PTL DEF Spec
<1>3. Spec => [](TypeInv /\ LockInv)
  BY <1>1, <1>2, NextLockInv, PTL DEF Spec
<1> QED BY <1>3

(* What upsertEntry and Delete have checked under the row's lock is still  *)
(* true when their transaction commits.                                    *)
THEOREM ChecksHoldAtCommit == Spec => []CheckHoldsUntilCommit
<1>1. TypeInv /\ LockInv => CheckHoldsUntilCommit
  BY DEF LockInv
<1> QED BY <1>1, LockInvariant, PTL

(* Rows change by a commit only. *)
LEMMA RowsChangeByCommit ==
  ASSUME TypeOK, Next, ~ \E s \in Session : CommitWrite(s)
  PROVE  db'.rows = db.rows
BY DEF Next, Lifecycle, InitEnsureMarker, CommitTable, InitLoadSnapshot,
       InitPublish, InitLoadFail, InitWorkerFail, CloseStopWorker, CloseFinish,
       Crash, Refresh, RefreshReadMarker, RefreshCompare, RefreshLoad,
       RefreshStore, RefreshFail, ListAnswer, Write, SetHandlerCheck,
       DeleteHandlerCheck, ChangeRow, Rollback, TypeOK, Database

LEMMA CommittedRows ==
  ASSUME TypeOK, NEW s \in Session, CommitWrite(s)
  PROVE  /\ tx[s].key \in Key
         /\ \A k \in Key : db'.rows[k] =
              IF k = tx[s].key THEN tx[s].row ELSE db.rows[k]
BY DEF CommitWrite, CommitTable, TypeOK, Database, Rows, Tx

(* No step changes the format of a row that stays in the table. *)
THEOREM FormatNeverChanges == Spec => FormatKept
<1> DEFINE Kept == \A k \in Key :
                     db.rows[k] # NoRow /\ db'.rows[k] # NoRow =>
                       db'.rows[k].format = db.rows[k].format
<1>1. TypeInv /\ LockInv /\ [Next]_vars => [Kept]_vars
  <2> SUFFICES ASSUME TypeInv, LockInv, Next PROVE Kept
    BY DEF vars
  <2>1. CASE \E s \in Session : CommitWrite(s)
    <3>1. PICK s \in Session : CommitWrite(s)
      BY <2>1
    <3>2. ChangeAllowed(s)
      BY <3>1 DEF CommitWrite, LockInv, CheckHoldsUntilCommit
    <3> QED BY <3>1, <3>2, CommittedRows DEF ChangeAllowed, TypeInv
  <2>2. CASE ~ \E s \in Session : CommitWrite(s)
    BY <2>2, RowsChangeByCommit DEF TypeInv
  <2> QED BY <2>1, <2>2
<1> QED BY <1>1, LockInvariant, PTL DEF Spec, FormatKept

-----------------------------------------------------------------------------
(* A write in progress leaves a visible row behind or none, and the row it *)
(* addresses has not become hidden since the handler looked at it: rows    *)
(* are hidden by an operator only, before the store is used.               *)
VisibleInv ==
    \A s \in Session : tx[s].pc # "idle" =>
        /\ tx[s].row # NoRow => tx[s].row.visible
        /\ db.rows[tx[s].key] # NoRow => db.rows[tx[s].key].visible

LEMMA NextVisibleInv == TypeInv /\ VisibleInv /\ [Next]_vars => VisibleInv'
<1> SUFFICES ASSUME TypeInv, VisibleInv, [Next]_vars PROVE VisibleInv'
  OBVIOUS
<1> USE DEF TypeInv
<1>1. CASE \E s \in Session : CommitWrite(s)
  <2>1. PICK s \in Session : CommitWrite(s)
    BY <1>1
  <2>2. \A r \in Session : tx'[r].pc # "idle" => r # s /\ tx'[r] = tx[r]
    BY <2>1 DEF CommitWrite, IdleTx, TypeOK
  <2>3. tx[s].pc # "idle" /\ \A r \in Session : tx[r].key \in Key
    BY <2>1 DEF CommitWrite, TypeOK, Tx
  <2>4. \A k \in Key : db'.rows[k] =
          IF k = tx[s].key THEN tx[s].row ELSE db.rows[k]
    BY <2>1, CommittedRows
  <2> QED BY <2>2, <2>3, <2>4 DEF VisibleInv
<1>2. CASE Next /\ ~ \E s \in Session : CommitWrite(s)
  <2>1. db'.rows = db.rows
    BY <1>2, RowsChangeByCommit
  <2>2. ASSUME \A r \in Session : tx'[r].pc # "idle" =>
                  /\ tx[r].pc # "idle"
                  /\ tx'[r].key = tx[r].key /\ tx'[r].row = tx[r].row
        PROVE  VisibleInv'
    BY <2>1, <2>2 DEF VisibleInv
  <2>3. ASSUME NEW i \in Instance, Lifecycle(i) PROVE VisibleInv'
    BY <2>2, <2>3 DEF Lifecycle, InitEnsureMarker, InitLoadSnapshot,
             InitPublish, InitLoadFail, InitWorkerFail, CloseStopWorker,
             CloseFinish, Crash, TypeOK, IdleTx
  <2>4. ASSUME NEW i \in Instance, NEW p \in Refresher, Refresh(i, p)
        PROVE  VisibleInv'
    BY <2>2, <2>4 DEF Refresh, RefreshReadMarker, RefreshCompare, RefreshLoad,
                      RefreshStore, RefreshFail, ListAnswer
  <2>5. ASSUME NEW s \in Session, Write(s) PROVE VisibleInv'
    <3>1. ASSUME NEW i \in Instance, NEW k \in Key, NEW row \in SetRow,
                 SetHandlerCheck(s, i, k, row)
          PROVE  VisibleInv'
      <4>1. /\ tx'[s].key = k /\ tx'[s].row = row
            /\ \A r \in Session \ {s} : tx'[r] = tx[r]
        BY <3>1 DEF SetHandlerCheck, IdleTx, TypeOK
      <4>2. row.visible /\ (db.rows[k] # NoRow => db.rows[k].visible)
        BY <3>1 DEF SetHandlerCheck, SetRow
      <4> QED BY <2>1, <4>1, <4>2 DEF VisibleInv
    <3>2. ASSUME NEW i \in Instance, NEW k \in Key, DeleteHandlerCheck(s, i, k)
          PROVE  VisibleInv'
      <4>1. /\ tx'[s].key = k /\ tx'[s].row = NoRow
            /\ \A r \in Session \ {s} : tx'[r] = tx[r]
        BY <3>2 DEF DeleteHandlerCheck, IdleTx, TypeOK
      <4>2. db.rows[k].visible
        BY <3>2 DEF DeleteHandlerCheck
      <4> QED BY <2>1, <4>1, <4>2 DEF VisibleInv
    <3>3. ASSUME NEW t \in Stamp, ChangeRow(s, t) PROVE VisibleInv'
      BY <2>2, <3>3 DEF ChangeRow, TypeOK, Tx
    <3>4. CASE Rollback(s)
      BY <2>2, <3>4 DEF Rollback, TypeOK, IdleTx
    <3> QED BY <1>2, <2>5, <3>1, <3>2, <3>3, <3>4 DEF Write
  <2> QED BY <1>2, <2>3, <2>4, <2>5 DEF Next
<1>3. CASE UNCHANGED vars
  BY <1>3 DEF vars, VisibleInv
<1> QED BY <1>1, <1>2, <1>3

(* No handler changes or deletes a row that an operator has hidden, though *)
(* it looks at the row before its transaction (admin/dbkv/dbkv.go:97).     *)
THEOREM HiddenRowsStay == Spec => HiddenUntouched
<1> DEFINE Untouched == \A k \in Key :
                          db.rows[k] # NoRow /\ ~ db.rows[k].visible =>
                            db'.rows[k] = db.rows[k]
<1>1. Init => VisibleInv
  BY DEF Init, VisibleInv, IdleTx
<1>2. TypeInv /\ VisibleInv /\ [Next]_vars => [Untouched]_vars
  <2> SUFFICES ASSUME TypeInv, VisibleInv, Next PROVE Untouched
    BY DEF vars
  <2>1. CASE \E s \in Session : CommitWrite(s)
    <3>1. PICK s \in Session : CommitWrite(s)
      BY <2>1
    <3>2. db.rows[tx[s].key] # NoRow => db.rows[tx[s].key].visible
      BY <3>1 DEF CommitWrite, VisibleInv
    <3> QED BY <3>1, <3>2, CommittedRows DEF TypeInv
  <2>2. CASE ~ \E s \in Session : CommitWrite(s)
    BY <2>2, RowsChangeByCommit DEF TypeInv
  <2> QED BY <2>1, <2>2
<1>3. Spec => []TypeInv
  BY InitTypeInv, NextTypeInv, PTL DEF Spec
<1> QED BY <1>1, <1>2, <1>3, NextVisibleInv, PTL DEF Spec, HiddenUntouched

-----------------------------------------------------------------------------
(* The store implements the abstract store. *)
Past == {history[n] : n \in 1..Len(history)}

LEMMA PastIsCommitted == \A t : t \in Past <=> Committed(t)
  BY DEF Past, Committed

(* Appending a table with a new stamp to the history is an abstract commit.*)
LEMMA AppendIsCommit ==
  ASSUME TypeOK, db' \in Database,
         Len(history') = Len(history) + 1,
         history'[Len(history')] = db',
         \A n \in 1..Len(history) : history'[n] = history[n],
         \A n \in 1..Len(history) : history[n].stamp # db'.stamp,
         cache' = cache
  PROVE  Store!Commit
<1>1. Len(history) \in Nat
  BY DEF TypeOK
<1>2. db' \notin Past
  BY DEF Past
<1>3. Past' = Past \cup {db'}
  BY <1>1 DEF Past
<1> QED BY <1>2, <1>3 DEF Store!Commit, Past

LEMMA StepImplementsStore ==
  TypeInv /\ HistoryInv /\ [Next]_vars => [Store!StoreNext]_(Store!storeVars)
<1> SUFFICES ASSUME TypeInv, HistoryInv, [Next]_vars
             PROVE  Store!StoreNext \/ UNCHANGED <<db, history, cache>>
  BY DEF Store!storeVars
<1> USE DEF TypeInv, HistoryInv
<1>1. ASSUME NEW i \in Instance, InitEnsureMarker(i)
      PROVE  Store!StoreNext \/ UNCHANGED <<db, history, cache>>
  <2>1. CASE db.stamp # NoMarker
    BY <1>1, <2>1 DEF InitEnsureMarker
  <2>2. CASE db.stamp = NoMarker
    <3> DEFINE new == [db EXCEPT !.stamp = 0]
    <3>1. new \in Database /\ new.stamp = 0 /\ CommitTable(new)
      BY <1>1, <2>2 DEF InitEnsureMarker, TypeOK, Database, Marker
    <3>2. Len(history) = 1 /\ history[1].stamp = NoMarker /\ 0 # NoMarker
      BY <2>2 DEF MarkerComesFirst, LastIsCurrent, Marker
    <3> HIDE DEF new
    <3>3. /\ Len(history') = Len(history) + 1
          /\ history'[Len(history')] = new
          /\ \A n \in 1..Len(history) : history'[n] = history[n]
      BY <3>1, <3>2, CommitHistory
    <3>4. db' = new /\ cache' = cache
      BY <1>1, <3>1 DEF CommitTable, InitEnsureMarker
    <3>5. \A n \in 1..Len(history) : history[n].stamp # db'.stamp
      BY <3>1, <3>2, <3>4
    <3>6. Store!Commit
      BY <3>1, <3>3, <3>4, <3>5, AppendIsCommit
    <3> QED BY <3>6 DEF Store!StoreNext
  <2> QED BY <2>1, <2>2
<1>2. ASSUME NEW s \in Session, CommitWrite(s)
      PROVE  Store!StoreNext
  <2>1. \A n \in 1..Len(history) : history[n].stamp # tx[s].stamp
    BY <1>2 DEF CommitWrite, PendingStampsFresh
  <2>2. cache' = cache
    BY <1>2 DEF CommitWrite
  <2>3. Store!Commit
    BY <1>2, <2>1, <2>2, CommitWriteHistory, AppendIsCommit
  <2> QED BY <2>3 DEF Store!StoreNext
<1>3. ASSUME NEW i \in Instance, NEW t, Committed(t), UNCHANGED <<db, history>>,
             cache' = [cache EXCEPT ![i] = t]
      PROVE  Store!StoreNext
  <2>1. t \in Past
    BY <1>3, PastIsCommitted
  <2>2. Store!Show(i)
    BY <1>3, <2>1 DEF Store!Show, Past
  <2> QED BY <2>2 DEF Store!StoreNext
<1>4. ASSUME NEW i \in Instance, UNCHANGED <<db, history>>,
             cache' = [cache EXCEPT ![i] = NoSnapshot]
      PROVE  Store!StoreNext
  <2>1. Store!Hide(i)
    BY <1>4 DEF Store!Hide
  <2> QED BY <2>1 DEF Store!StoreNext
<1>5. ASSUME NEW i \in Instance, InitPublish(i) PROVE Store!StoreNext
  <2>1. Committed(first[i])
    BY <1>5 DEF InitPublish, PendingSnapshots, HeldIsCommitted
  <2> QED BY <1>3, <1>5, <2>1 DEF InitPublish
<1>6. ASSUME NEW i \in Instance, NEW p \in Refresher, RefreshStore(i, p)
      PROVE  Store!StoreNext
  <2>1. Committed(job[i][p].snap)
    BY <1>6 DEF RefreshStore, PendingSnapshots, HeldIsCommitted
  <2> QED BY <1>3, <1>6, <2>1 DEF RefreshStore
<1>7. ASSUME NEW i \in Instance, InitWorkerFail(i) \/ CloseFinish(i) \/ Crash(i)
      PROVE  Store!StoreNext
  BY <1>4, <1>7 DEF InitWorkerFail, CloseFinish, Crash
<1>8. ASSUME NEW i \in Instance, Lifecycle(i)
      PROVE  Store!StoreNext \/ UNCHANGED <<db, history, cache>>
  BY <1>1, <1>5, <1>7, <1>8 DEF Lifecycle, InitLoadSnapshot, InitLoadFail,
                                CloseStopWorker
<1>9. ASSUME NEW i \in Instance, NEW p \in Refresher, Refresh(i, p)
      PROVE  Store!StoreNext \/ UNCHANGED <<db, history, cache>>
  BY <1>6, <1>9 DEF Refresh, RefreshReadMarker, RefreshCompare, RefreshLoad,
                    RefreshFail, ListAnswer
<1>10. ASSUME NEW s \in Session, Write(s)
       PROVE  Store!StoreNext \/ UNCHANGED <<db, history, cache>>
  BY <1>2, <1>10 DEF Write, SetHandlerCheck, DeleteHandlerCheck, ChangeRow,
                     Rollback
<1> QED BY <1>8, <1>9, <1>10 DEF Next, vars

(* A reader of any instance sees either nothing or one table exactly as a  *)
(* transaction committed it: Dbkv implements DbkvStore.                    *)
THEOREM DbkvImplementsStore == Spec => ImplementsStore
<1>1. Init => Store!StoreInit
  <2> SUFFICES ASSUME Init PROVE Store!StoreInit
    OBVIOUS
  <2>1. db \in Database
    BY InitTypeInv DEF TypeInv, TypeOK
  <2>2. {history[n] : n \in 1..Len(history)} = {db}
    BY DEF Init
  <2> QED BY <2>1, <2>2 DEF Init, Store!StoreInit
<1> QED
  BY <1>1, StoreInvariant, StepImplementsStore, PTL
     DEF Spec, ImplementsStore, Store!StoreSpec

-----------------------------------------------------------------------------
(***************************************************************************)
(* With the worker as the only refresher an instance never shows an older  *)
(* table than it has shown.  A load yields the newest table there is, and  *)
(* nothing else touches the cache of an instance until it is stored: the   *)
(* worker runs from the end of Init, when the first snapshot is published, *)
(* to the start of Close, which waits for it.                              *)
(***************************************************************************)
NotAfter(s, t) == \A m, n \in 1..Len(history) : history[m] = s /\ history[n] = t => m <= n

WorkerInv ==
    Caller = {} =>
        \A i \in Instance :
            /\ ~ Connected(i) => cache[i] = NoSnapshot /\ job[i][Worker].pc = "idle"
            /\ job[i][Worker].pc = "store" /\ cache[i] # NoSnapshot =>
                  NotAfter(cache[i], job[i][Worker].snap)

LEMMA InitWorkerInv == Init => WorkerInv
<1> SUFFICES ASSUME Init, NEW i \in Instance
             PROVE  /\ ~ Connected(i) => cache[i] = NoSnapshot /\ job[i][Worker].pc = "idle"
                    /\ job[i][Worker].pc = "store" /\ cache[i] # NoSnapshot =>
                          NotAfter(cache[i], job[i][Worker].snap)
  BY DEF WorkerInv
<1>1. job[i] = [p \in Refresher |-> IdleJob] /\ cache[i] = NoSnapshot
  BY DEF Init
<1>2. job[i][Worker] = IdleJob
  BY <1>1, WorkerIsRefresher
<1> QED BY <1>1, <1>2 DEF IdleJob

(* What is committed keeps its place. *)
LEMMA HistoryGrows ==
    ASSUME TypeOK, [Next]_vars
    PROVE  /\ Len(history) \in Nat /\ Len(history') \in Nat
           /\ \A n \in 1..Len(history) : n \in 1..Len(history') /\ history'[n] = history[n]
<1>1. history \in Seq(Database) /\ Len(history) \in Nat
  BY DEF TypeOK
<1>2. history' = history \/ \E table : history' = Append(history, table)
  BY DEF Next, Lifecycle, Refresh, Write, CommitTable, vars, InitEnsureMarker,
         InitLoadSnapshot, InitPublish, InitLoadFail, InitWorkerFail, CloseStopWorker,
         CloseFinish, Crash, RefreshReadMarker, RefreshCompare, RefreshLoad,
         RefreshStore, RefreshFail, ListAnswer, SetHandlerCheck, DeleteHandlerCheck,
         ChangeRow, CommitWrite, Rollback
<1>3. ASSUME NEW table, history' = Append(history, table)
      PROVE  /\ Len(history') = Len(history) + 1
             /\ \A n \in 1..Len(history) : history'[n] = history[n]
  BY <1>1, <1>3
<1> QED BY <1>1, <1>2, <1>3

(* The places of the worker and of the cache of an instance in a step.     *)
LEMMA WorkerStep ==
    ASSUME TypeInv, WorkerInv, [Next]_vars, Caller = {}, NEW i \in Instance
    PROVE  /\ ~ Connected(i)' => cache'[i] = NoSnapshot /\ job'[i][Worker].pc = "idle"
           /\ \/ cache'[i] = cache[i]
              \/ cache'[i] = NoSnapshot
              \/ cache[i] = NoSnapshot /\ job'[i][Worker].pc = "idle"
              \/ /\ job[i][Worker].pc = "store" /\ cache'[i] = job[i][Worker].snap
                 /\ job'[i][Worker].pc = "idle"
           /\ \/ job'[i][Worker].pc # "store"
              \/ job'[i][Worker] = job[i][Worker]
              \/ job'[i][Worker].snap = db /\ history' = history
<1> DEFINE Goal ==
            /\ ~ Connected(i)' => cache'[i] = NoSnapshot /\ job'[i][Worker].pc = "idle"
            /\ \/ cache'[i] = cache[i]
               \/ cache'[i] = NoSnapshot
               \/ cache[i] = NoSnapshot /\ job'[i][Worker].pc = "idle"
               \/ /\ job[i][Worker].pc = "store" /\ cache'[i] = job[i][Worker].snap
                  /\ job'[i][Worker].pc = "idle"
            /\ \/ job'[i][Worker].pc # "store"
               \/ job'[i][Worker] = job[i][Worker]
               \/ job'[i][Worker].snap = db /\ history' = history
<1>1. /\ ~ Connected(i) => cache[i] = NoSnapshot /\ job[i][Worker].pc = "idle"
      /\ DOMAIN life = Instance /\ DOMAIN cache = Instance /\ DOMAIN job = Instance
      /\ \A j \in Instance : DOMAIN job[j] = Refresher
      /\ Worker \in Refresher /\ \A p \in Refresher : p = Worker
  BY DEF WorkerInv, TypeInv, TypeOK, Refresher
<1>2. ASSUME UNCHANGED <<life, cache, job>> PROVE Goal
  BY <1>1, <1>2 DEF Connected
<1>3. ASSUME NEW j \in Instance, Lifecycle(j), j # i PROVE Goal
  <2>1. life'[i] = life[i] /\ cache'[i] = cache[i] /\ job'[i] = job[i]
    BY <1>1, <1>3 DEF Lifecycle, InitEnsureMarker, InitLoadSnapshot, InitPublish,
         InitLoadFail, InitWorkerFail, CloseStopWorker, CloseFinish, Crash
  <2> QED BY <1>1, <2>1 DEF Connected
<1>4. ASSUME Lifecycle(i) PROVE Goal
  <2>1. CASE InitEnsureMarker(i) \/ InitLoadSnapshot(i) \/ InitLoadFail(i)
    BY <1>1, <2>1 DEF InitEnsureMarker, InitLoadSnapshot, InitLoadFail, Connected
  <2>2. CASE InitPublish(i)
    <3>1. /\ life[i] = "loaded" /\ life'[i] = "open" /\ job' = job
      BY <1>1, <2>2 DEF InitPublish
    <3> QED BY <1>1, <3>1 DEF Connected
  <2>3. CASE InitWorkerFail(i)
    <3>1. /\ life[i] = "loaded" /\ cache'[i] = NoSnapshot /\ job' = job
      BY <1>1, <2>3 DEF InitWorkerFail
    <3> QED BY <1>1, <3>1 DEF Connected
  <2>4. CASE CloseStopWorker(i)
    <3>1. life'[i] = "closing" /\ cache' = cache /\ job' = job
      BY <1>1, <2>4 DEF CloseStopWorker
    <3> QED BY <1>1, <3>1 DEF Connected
  <2>5. CASE CloseFinish(i)
    <3>1. cache'[i] = NoSnapshot /\ job' = job /\ job[i][Worker].pc = "idle"
      BY <1>1, <2>5 DEF CloseFinish
    <3> QED BY <3>1
  <2>6. CASE Crash(i)
    <3>1. cache'[i] = NoSnapshot /\ job'[i][Worker].pc = "idle"
      BY <1>1, <2>6 DEF Crash, IdleJob
    <3> QED BY <3>1
  <2> QED BY <1>4, <2>1, <2>2, <2>3, <2>4, <2>5, <2>6 DEF Lifecycle
<1>5. ASSUME NEW j \in Instance, NEW p \in Refresher, Refresh(j, p), j # i PROVE Goal
  <2>1. life'[i] = life[i] /\ cache'[i] = cache[i] /\ job'[i] = job[i]
    BY <1>1, <1>5 DEF Refresh, RefreshReadMarker, RefreshCompare, RefreshLoad,
         RefreshStore, RefreshFail, ListAnswer, SetJob
  <2> QED BY <1>1, <2>1 DEF Connected
<1>6. ASSUME Refresh(i, Worker) PROVE Goal
  <2>1. IdleJob.pc = "idle" /\ Refreshed(Worker) = IdleJob
    BY DEF IdleJob, Refreshed
  <2>2. CASE RefreshReadMarker(i, Worker)
    <3>1. life' = life /\ cache' = cache /\ Connected(i)
      BY <2>2 DEF RefreshReadMarker, MayQuery, Connected
    <3>2. job'[i][Worker] = [IdleJob EXCEPT !.pc = "compare", !.marker = db.stamp]
      BY <1>1, <2>2 DEF RefreshReadMarker, SetJob
    <3>3. job'[i][Worker].pc = "compare"
      BY <3>2 DEF IdleJob
    <3> QED BY <3>1, <3>3 DEF Connected
  <2>3. CASE RefreshCompare(i, Worker)
    <3>1. life' = life /\ cache' = cache /\ Connected(i)
      BY <1>1, <2>3 DEF RefreshCompare
    <3>2. \/ job'[i][Worker] = IdleJob
          \/ job'[i][Worker] = [job[i][Worker] EXCEPT !.pc = "load"]
      BY <1>1, <2>1, <2>3 DEF RefreshCompare, SetJob
    <3>3. job[i][Worker] \in Job
      BY <1>1 DEF TypeInv, TypeOK
    <3>4. job'[i][Worker].pc \in {"idle", "load"}
      BY <2>1, <3>2, <3>3 DEF Job
    <3> QED BY <3>1, <3>4 DEF Connected
  <2>4. CASE RefreshLoad(i, Worker)
    <3>1. life' = life /\ cache' = cache /\ history' = history /\ Connected(i)
      BY <1>1, <2>4 DEF RefreshLoad
    <3>2. job'[i][Worker] = [IdleJob EXCEPT !.pc = "store", !.snap = db]
      BY <1>1, <2>4 DEF RefreshLoad, SetJob
    <3>3. job'[i][Worker].snap = db
      BY <3>2 DEF IdleJob
    <3> QED BY <3>1, <3>3 DEF Connected
  <2>5. CASE RefreshStore(i, Worker)
    <3>1. life' = life /\ cache'[i] = job[i][Worker].snap /\ Connected(i)
          /\ job[i][Worker].pc = "store"
      BY <1>1, <2>5 DEF RefreshStore
    <3>2. job'[i][Worker] = IdleJob
      BY <1>1, <2>1, <2>5 DEF RefreshStore, SetJob
    <3> QED BY <2>1, <3>1, <3>2 DEF Connected
  <2>6. CASE RefreshFail(i, Worker) \/ ListAnswer(i, Worker)
    <3>1. life' = life /\ cache' = cache /\ job'[i][Worker] = IdleJob
      BY <1>1, <2>6 DEF RefreshFail, ListAnswer, SetJob
    <3> QED BY <1>1, <2>1, <3>1 DEF Connected
  <2> QED BY <1>6, <2>2, <2>3, <2>4, <2>5, <2>6 DEF Refresh
<1>7. ASSUME NEW s \in Session, Write(s) PROVE UNCHANGED <<life, cache, job>>
  BY <1>7 DEF Write, SetHandlerCheck, DeleteHandlerCheck, ChangeRow, CommitWrite, Rollback
<1>8. ASSUME UNCHANGED vars PROVE UNCHANGED <<life, cache, job>>
  BY <1>8 DEF vars
<1> HIDE DEF Goal
<1>9. Goal
  BY <1>1, <1>2, <1>3, <1>4, <1>5, <1>6, <1>7, <1>8 DEF Next
<1> QED BY <1>9 DEF Goal

LEMMA NextWorkerInv ==
    TypeInv /\ HistoryInv /\ HistoryInv' /\ WorkerInv /\ [Next]_vars => WorkerInv'
<1> SUFFICES ASSUME TypeInv, HistoryInv, HistoryInv', WorkerInv, [Next]_vars,
                    Caller = {}, NEW i \in Instance
             PROVE  /\ ~ Connected(i)' => cache'[i] = NoSnapshot /\ job'[i][Worker].pc = "idle"
                    /\ job'[i][Worker].pc = "store" /\ cache'[i] # NoSnapshot =>
                          NotAfter(cache[i], job[i][Worker].snap)'
  BY DEF WorkerInv
<1>1. ~ Connected(i)' => cache'[i] = NoSnapshot /\ job'[i][Worker].pc = "idle"
  BY WorkerStep
<1>2. ASSUME job'[i][Worker].pc = "store", cache'[i] # NoSnapshot
      PROVE  \A m, n \in 1..Len(history') :
                history'[m] = cache'[i] /\ history'[n] = job'[i][Worker].snap => m <= n
  <2>1. \A m, n \in 1..Len(history') : history'[m].stamp = history'[n].stamp => m = n
    BY DEF HistoryInv, StampsDistinct
  <2>2. cache'[i] = cache[i]
    BY <1>2, WorkerStep
  <2>3. PICK a \in 1..Len(history) : history[a] = cache[i]
    BY <1>2, <2>2 DEF HistoryInv, HeldIsCommitted, Committed
  <2>4. CASE job'[i][Worker] = job[i][Worker]
    <3>1. job[i][Worker].pc = "store" /\ cache[i] # NoSnapshot
          /\ job[i][Worker].snap # NoSnapshot
      BY <1>2, <2>2, <2>4, WorkerIsRefresher DEF TypeInv, PendingSnapshots
    <3>2. PICK b \in 1..Len(history) : history[b] = job[i][Worker].snap
      BY <3>1, WorkerIsRefresher DEF HistoryInv, HeldIsCommitted, Committed
    <3>3. a <= b
      BY <2>3, <3>1, <3>2 DEF WorkerInv, NotAfter
    <3>4. /\ a \in 1..Len(history') /\ history'[a] = cache'[i]
          /\ b \in 1..Len(history') /\ history'[b] = job'[i][Worker].snap
      BY <2>2, <2>3, <2>4, <3>2, HistoryGrows DEF TypeInv
    <3> QED BY <2>1, <3>3, <3>4
  <2>5. CASE job'[i][Worker].snap = db /\ history' = history
    <3>1. Len(history) \in 1..Len(history) /\ history[Len(history)] = db
      BY HistoryGrows DEF TypeInv, HistoryInv, LastIsCurrent
    <3>2. \A n \in 1..Len(history') : history'[n] = db => n = Len(history)
      BY <2>1, <2>5, <3>1
    <3> QED BY <2>5, <3>1, <3>2, HistoryGrows DEF TypeInv
  <2> QED BY <1>2, <2>4, <2>5, WorkerStep
<1> QED BY <1>1, <1>2 DEF NotAfter

LEMMA WorkerInvariant == Spec => [](TypeInv /\ HistoryInv /\ WorkerInv)
BY StoreInvariant, InitWorkerInv, NextWorkerInv, PTL DEF Spec

(* A committed table has one place in the history. *)
LEMMA VersionIs ==
    ASSUME NEW h, NEW n \in 1..Len(h),
           \A l, m \in 1..Len(h) : h[l].stamp = h[m].stamp => l = m
    PROVE  Version(h, h[n]) = n
BY DEF Version

(* What an instance shows never goes back in time while its worker is the  *)
(* only one that refreshes it, not even when the stamps of the tables do.  *)
THEOREM ShownTablesAdvance == Spec => CacheNeverRegresses
<1> DEFINE Advances ==
       Caller = {} =>
          \A i \in Instance :
              cache[i] # NoSnapshot /\ cache'[i] # NoSnapshot =>
                  Version(history, cache[i]) <= Version(history', cache'[i])
<1>1. TypeInv /\ HistoryInv /\ HistoryInv' /\ WorkerInv /\ [Next]_vars => Advances
  <2> SUFFICES ASSUME TypeInv, HistoryInv, HistoryInv', WorkerInv, [Next]_vars,
                      Caller = {}, NEW i \in Instance,
                      cache[i] # NoSnapshot, cache'[i] # NoSnapshot
               PROVE  Version(history, cache[i]) <= Version(history', cache'[i])
    OBVIOUS
  <2>1. PICK a \in 1..Len(history) : history[a] = cache[i]
    BY DEF HistoryInv, HeldIsCommitted, Committed
  <2>2. /\ Version(history, cache[i]) = a
        /\ \A n \in 1..Len(history') : Version(history', history'[n]) = n
    BY <2>1, VersionIs DEF HistoryInv, StampsDistinct
  <2>3. CASE cache'[i] = cache[i]
    <3>1. a \in 1..Len(history') /\ history'[a] = cache'[i] /\ a <= a
      BY <2>1, <2>3, HistoryGrows DEF TypeInv
    <3> QED BY <2>2, <3>1
  <2>4. CASE job[i][Worker].pc = "store" /\ cache'[i] = job[i][Worker].snap
    <3>1. PICK b \in 1..Len(history) : history[b] = cache'[i]
      BY <2>4, WorkerIsRefresher DEF HistoryInv, HeldIsCommitted, Committed
    <3>2. a <= b
      BY <2>1, <2>4, <3>1 DEF WorkerInv, NotAfter
    <3>3. b \in 1..Len(history') /\ history'[b] = cache'[i]
      BY <3>1, HistoryGrows DEF TypeInv
    <3> QED BY <2>2, <3>2, <3>3
  <2> QED BY <2>3, <2>4, WorkerStep
<1>2. TypeInv /\ HistoryInv /\ HistoryInv' /\ WorkerInv /\ [Next]_vars =>
        [Caller = {} =>
           \A i \in Instance :
               cache[i] # NoSnapshot /\ cache'[i] # NoSnapshot =>
                   Version(history, cache[i]) <= Version(history', cache'[i])]_vars
  BY <1>1
<1> QED BY <1>2, WorkerInvariant, PTL DEF Spec, CacheNeverRegresses
=============================================================================
