-------------------------------- MODULE Dbkv --------------------------------
(***************************************************************************)
(* The database-backed key-value store of app/dbkv/dbkv.go and the admin   *)
(* handlers that write and list it.                                        *)
(*                                                                         *)
(* Every instance of the service keeps a copy of the whole table in memory *)
(* and answers reads from it.  A write changes one row of the table and    *)
(* the row of the update marker in one transaction; a worker on every      *)
(* instance compares the marker it has cached with the one in the table    *)
(* and reloads the table when they differ.                                 *)
(*                                                                         *)
(* A time stamp is an element of Stamp: only equality of stamps matters to *)
(* the code, and a later transaction may commit an earlier reading because *)
(* the clock is read before the marker's row is locked.                    *)
(***************************************************************************)
EXTENDS Naturals, Sequences

CONSTANTS Instance,   \* processes of the service
          Caller,     \* list requests an instance may serve at once
          Worker,     \* the refresh worker of an instance
          Session,    \* write requests in progress, on any instance
          Key,        \* normalised names, the marker's excluded
          Format, Value,
          Stamp,      \* clock readings; their number bounds the commits
          Hidden,     \* keys of the rows an operator inserted as not visible
          NoRow, NoMarker, NoSnapshot, NoInstance

Row == [format : Format, value : Value, visible : BOOLEAN]
Rows == [Key -> Row \cup {NoRow}]
Marker == Stamp \cup {0}
Snapshot == [rows : Rows, stamp : Marker]
Database == [rows : Rows, stamp : Marker \cup {NoMarker}]
Refresher == Caller \cup {Worker}

ASSUME StampAssumption == Stamp \subseteq Nat \ {0} /\ NoMarker \notin Marker
ASSUME NullAssumption == NoRow \notin Row /\ NoSnapshot \notin Database
ASSUME WorkerAssumption == Worker \notin Caller
ASSUME KeyAssumption == Key # {} /\ Hidden \subseteq Key
ASSUME InstanceAssumption == NoInstance \notin Instance

VARIABLES db,       \* the committed table: every row and the marker
          history,  \* every committed table, oldest first (history variable)
          life,     \* the life cycle of the store on an instance
          first,    \* the snapshot Init has loaded and not yet published
          cache,    \* the snapshot an instance answers from
          job,      \* the refreshes in progress
          tx        \* the writes in progress

vars == <<db, history, life, first, cache, job, tx>>

LifeState == {"closed", "ensured", "loaded", "open", "closing"}
IdleJob == [pc |-> "idle", marker |-> 0, snap |-> NoSnapshot]
Job == [pc : {"idle", "compare", "load", "store", "list"},
        marker : Marker,
        snap : Snapshot \cup {NoSnapshot}]

(* A write: the instance it runs on, the row it addresses, the row it      *)
(* leaves behind (NoRow for a deletion) and the stamp it has read.         *)
NoKey == CHOOSE k \in Key : TRUE
IdleTx == [pc |-> "idle", inst |-> NoInstance, key |-> NoKey,
           row |-> NoRow, stamp |-> 0]
Tx == [pc : {"idle", "checked", "changed"},
       inst : Instance \cup {NoInstance},
       key : Key,
       row : Row \cup {NoRow},
       stamp : Marker]

TypeOK ==
    /\ db \in Database
    /\ history \in Seq(Database)
    /\ life \in [Instance -> LifeState]
    /\ first \in [Instance -> Snapshot \cup {NoSnapshot}]
    /\ cache \in [Instance -> Snapshot \cup {NoSnapshot}]
    /\ job \in [Instance -> [Refresher -> Job]]
    /\ tx \in [Session -> Tx]

-----------------------------------------------------------------------------
(* The table at the first start: only what an operator has put there.      *)
Init ==
    /\ \E row \in {r \in Row : ~ r.visible} :
         db = [rows |-> [k \in Key |-> IF k \in Hidden THEN row ELSE NoRow],
               stamp |-> NoMarker]
    /\ history = <<db>>
    /\ life = [i \in Instance |-> "closed"]
    /\ first = [i \in Instance |-> NoSnapshot]
    /\ cache = [i \in Instance |-> NoSnapshot]
    /\ job = [i \in Instance |-> [p \in Refresher |-> IdleJob]]
    /\ tx = [s \in Session |-> IdleTx]

(* database.Load() # nil *)
Connected(i) == life[i] \in {"open", "closing"}

CommitTable(table) == db' = table /\ history' = Append(history, table)

SetJob(i, p, j) == job' = [job EXCEPT ![i][p] = j]

-----------------------------------------------------------------------------
(* Init: the table and its marker, then the first snapshot, then the       *)
(* pointers and the worker.  A failure of any step leaves the store closed.*)

InitEnsureMarker(i) ==
    /\ life[i] = "closed"
    /\ life' = [life EXCEPT ![i] = "ensured"]
    /\ IF db.stamp = NoMarker
       THEN CommitTable([db EXCEPT !.stamp = 0])
       ELSE UNCHANGED <<db, history>>
    /\ UNCHANGED <<first, cache, job, tx>>

InitLoadSnapshot(i) ==
    /\ life[i] = "ensured"
    /\ db.stamp # NoMarker
    /\ life' = [life EXCEPT ![i] = "loaded"]
    /\ first' = [first EXCEPT ![i] = db]
    /\ UNCHANGED <<db, history, cache, job, tx>>

InitPublish(i) ==
    /\ life[i] = "loaded"
    /\ life' = [life EXCEPT ![i] = "open"]
    /\ cache' = [cache EXCEPT ![i] = first[i]]
    /\ first' = [first EXCEPT ![i] = NoSnapshot]
    /\ UNCHANGED <<db, history, job, tx>>

InitLoadFail(i) ==
    /\ life[i] = "ensured"
    /\ life' = [life EXCEPT ![i] = "closed"]
    /\ UNCHANGED <<db, history, first, cache, job, tx>>

InitWorkerFail(i) ==
    /\ life[i] = "loaded"
    /\ life' = [life EXCEPT ![i] = "closed"]
    /\ cache' = [cache EXCEPT ![i] = NoSnapshot]
    /\ first' = [first EXCEPT ![i] = NoSnapshot]
    /\ UNCHANGED <<db, history, job, tx>>

(* Close: stop the worker, wait for it, then drop both pointers. *)

CloseStopWorker(i) ==
    /\ life[i] = "open"
    /\ life' = [life EXCEPT ![i] = "closing"]
    /\ UNCHANGED <<db, history, first, cache, job, tx>>

CloseFinish(i) ==
    /\ life[i] = "closing"
    /\ job[i][Worker].pc = "idle"
    /\ life' = [life EXCEPT ![i] = "closed"]
    /\ cache' = [cache EXCEPT ![i] = NoSnapshot]
    /\ UNCHANGED <<db, history, first, job, tx>>

(* The process ends: the database rolls its transactions back. *)
Crash(i) ==
    /\ life' = [life EXCEPT ![i] = "closed"]
    /\ first' = [first EXCEPT ![i] = NoSnapshot]
    /\ cache' = [cache EXCEPT ![i] = NoSnapshot]
    /\ job' = [job EXCEPT ![i] = [p \in Refresher |-> IdleJob]]
    /\ tx' = [s \in Session |-> IF tx[s].inst = i THEN IdleTx ELSE tx[s]]
    /\ UNCHANGED <<db, history>>

-----------------------------------------------------------------------------
(* Refresh, run by the worker on a tick and by ListHandler on a request.   *)
(* Stopping the worker cancels the context of its database calls.          *)

(* Mutant: the worker is started before the first snapshot is published. *)
MayQueryEarly(i, p) ==
    IF p = Worker THEN life[i] \in {"loaded", "open"} ELSE Connected(i)

MayQuery(i, p) == IF p = Worker THEN life[i] = "open" ELSE Connected(i)

RefreshReadMarker(i, p) ==
    /\ job[i][p].pc = "idle"
    /\ MayQuery(i, p)
    /\ SetJob(i, p, [IdleJob EXCEPT !.pc = "compare", !.marker = db.stamp])
    /\ UNCHANGED <<db, history, life, first, cache, tx>>

(* What follows a Refresh that returned no error. *)
Refreshed(p) ==
    IF p = Worker THEN IdleJob ELSE [IdleJob EXCEPT !.pc = "list"]

(* Mutant: reload only when the marker of the table is the later one. *)
RefreshIfLater(i, p) ==
    /\ job[i][p].pc = "compare"
    /\ IF cache[i] # NoSnapshot /\ cache[i].stamp >= job[i][p].marker
       THEN SetJob(i, p, Refreshed(p))
       ELSE SetJob(i, p, [job[i][p] EXCEPT !.pc = "load"])
    /\ UNCHANGED <<db, history, life, first, cache, tx>>

RefreshCompare(i, p) ==
    /\ job[i][p].pc = "compare"
    /\ IF cache[i] # NoSnapshot /\ cache[i].stamp = job[i][p].marker
       THEN SetJob(i, p, Refreshed(p))
       ELSE SetJob(i, p, [job[i][p] EXCEPT !.pc = "load"])
    /\ UNCHANGED <<db, history, life, first, cache, tx>>

(* Mutant: the rows are reloaded and the marker read earlier is kept. *)
RefreshLoadRowsOnly(i, p) ==
    /\ job[i][p].pc = "load"
    /\ MayQuery(i, p)
    /\ SetJob(i, p, [job[i][p] EXCEPT !.pc = "store",
                        !.snap = [rows |-> db.rows, stamp |-> job[i][p].marker]])
    /\ UNCHANGED <<db, history, life, first, cache, tx>>

RefreshLoad(i, p) ==
    /\ job[i][p].pc = "load"
    /\ MayQuery(i, p)
    /\ SetJob(i, p, [IdleJob EXCEPT !.pc = "store", !.snap = db])
    /\ UNCHANGED <<db, history, life, first, cache, tx>>

RefreshStore(i, p) ==
    /\ job[i][p].pc = "store"
    /\ cache' = [cache EXCEPT ![i] = job[i][p].snap]
    /\ SetJob(i, p, Refreshed(p))
    /\ UNCHANGED <<db, history, life, first, tx>>

(* The load fails, or its context is cancelled, or the store is closed. *)
RefreshFail(i, p) ==
    /\ job[i][p].pc = "load"
    /\ SetJob(i, p, IdleJob)
    /\ UNCHANGED <<db, history, life, first, cache, tx>>

(* The second half of ListHandler: List answers from the cache. *)
ListAnswer(i, p) ==
    /\ job[i][p].pc = "list"
    /\ SetJob(i, p, IdleJob)
    /\ UNCHANGED <<db, history, life, first, cache, tx>>

-----------------------------------------------------------------------------
(* Writes.  SetHandler and DeleteHandler first read the row outside of any *)
(* transaction; the transaction then takes the row's lock, changes it,     *)
(* reads the clock, takes the marker's lock, writes it and commits.  Both  *)
(* locks are held to the end of the transaction.                           *)

(* newEntry: what a set leaves behind is always visible. *)
SetRow == {r \in Row : r.visible}

(* Mutant: SetHandler does not look whether the row is visible. *)
SetHandlerUnchecked(s, i, k, row) ==
    /\ tx[s].pc = "idle"
    /\ Connected(i)
    /\ tx' = [tx EXCEPT ![s] = [IdleTx EXCEPT !.pc = "checked", !.inst = i,
                                              !.key = k, !.row = row]]
    /\ UNCHANGED <<db, history, life, first, cache, job>>

SetHandlerCheck(s, i, k, row) ==
    /\ tx[s].pc = "idle"
    /\ Connected(i)
    /\ db.rows[k] # NoRow => db.rows[k].visible
    /\ tx' = [tx EXCEPT ![s] = [IdleTx EXCEPT !.pc = "checked", !.inst = i,
                                              !.key = k, !.row = row]]
    /\ UNCHANGED <<db, history, life, first, cache, job>>

DeleteHandlerCheck(s, i, k) ==
    /\ tx[s].pc = "idle"
    /\ Connected(i)
    /\ db.rows[k] # NoRow
    /\ db.rows[k].visible
    /\ tx' = [tx EXCEPT ![s] = [IdleTx EXCEPT !.pc = "checked", !.inst = i,
                                              !.key = k]]
    /\ UNCHANGED <<db, history, life, first, cache, job>>

(* Mutant: the row is read without FOR UPDATE. *)
RowNeverLocked(k) == TRUE

(* No transaction in progress has written the row of k: the insertion, the *)
(* SELECT .. FOR UPDATE and the deletion take the row's lock and keep it.  *)
RowFree(k) == \A s \in Session : ~ (tx[s].pc = "changed" /\ tx[s].key = k)

(* The change is allowed by the row as the lock's holder sees it: a row    *)
(* keeps its format, and a deletion finds the row it deletes.              *)
ChangeAllowed(s) ==
    LET old == db.rows[tx[s].key]
        new == tx[s].row
    IN  IF new = NoRow THEN old # NoRow
        ELSE old # NoRow => old.format = new.format

(* time.Now().UnixNano(): nanosecond readings of two commits differ. *)
FreshStamp(t) ==
    /\ \A n \in 1..Len(history) : history[n].stamp # t
    /\ \A s \in Session : tx[s].pc = "changed" => tx[s].stamp # t

ChangeRow(s, t) ==
    /\ tx[s].pc = "checked"
    /\ Connected(tx[s].inst)
    /\ RowFree(tx[s].key)
    /\ ChangeAllowed(s)
    /\ FreshStamp(t)
    /\ tx' = [tx EXCEPT ![s].pc = "changed", ![s].stamp = t]
    /\ UNCHANGED <<db, history, life, first, cache, job>>

(* Mutants: withUpdateMarker leaves the marker as it was; a write removes  *)
(* the marker's row.                                                       *)
CommitWithoutMarker(s) ==
    /\ tx[s].pc = "changed"
    /\ CommitTable([db EXCEPT !.rows[tx[s].key] = tx[s].row])
    /\ tx' = [tx EXCEPT ![s] = IdleTx]
    /\ UNCHANGED <<life, first, cache, job>>

CommitDropsMarker(s) ==
    /\ tx[s].pc = "changed"
    /\ CommitTable([rows |-> [db.rows EXCEPT ![tx[s].key] = tx[s].row],
                    stamp |-> NoMarker])
    /\ tx' = [tx EXCEPT ![s] = IdleTx]
    /\ UNCHANGED <<life, first, cache, job>>

CommitWrite(s) ==
    /\ tx[s].pc = "changed"
    /\ CommitTable([rows |-> [db.rows EXCEPT ![tx[s].key] = tx[s].row],
                    stamp |-> tx[s].stamp])
    /\ tx' = [tx EXCEPT ![s] = IdleTx]
    /\ UNCHANGED <<life, first, cache, job>>

(* The row forbids the change, or the database or the client gives up. *)
Rollback(s) ==
    /\ tx[s].pc # "idle"
    /\ tx' = [tx EXCEPT ![s] = IdleTx]
    /\ UNCHANGED <<db, history, life, first, cache, job>>

-----------------------------------------------------------------------------
Lifecycle(i) ==
    \/ InitEnsureMarker(i)
    \/ InitLoadSnapshot(i)
    \/ InitPublish(i)
    \/ InitLoadFail(i)
    \/ InitWorkerFail(i)
    \/ CloseStopWorker(i)
    \/ CloseFinish(i)
    \/ Crash(i)

Refresh(i, p) ==
    \/ RefreshReadMarker(i, p)
    \/ RefreshCompare(i, p)
    \/ RefreshLoad(i, p)
    \/ RefreshStore(i, p)
    \/ RefreshFail(i, p)
    \/ ListAnswer(i, p)

Write(s) ==
    \/ \E i \in Instance, k \in Key :
         \/ \E row \in SetRow : SetHandlerCheck(s, i, k, row)
         \/ DeleteHandlerCheck(s, i, k)
    \/ \E t \in Stamp : ChangeRow(s, t)
    \/ CommitWrite(s)
    \/ Rollback(s)

Next ==
    \/ \E i \in Instance : Lifecycle(i)
    \/ \E i \in Instance, p \in Refresher : Refresh(i, p)
    \/ \E s \in Session : Write(s)

Spec == Init /\ [][Next]_vars

(* The worker is scheduled, and a database that is asked again and again   *)
(* answers again and again: a load may fail, but not for ever.             *)
Fairness ==
    \A i \in Instance :
        /\ WF_vars(RefreshReadMarker(i, Worker))
        /\ WF_vars(RefreshCompare(i, Worker))
        /\ SF_vars(RefreshLoad(i, Worker))
        /\ WF_vars(RefreshStore(i, Worker))

FairSpec == Spec /\ Fairness

-----------------------------------------------------------------------------
(* The abstract store: its table is db, a table once committed stays in    *)
(* the history, and what an instance shows is its cache.                   *)
Store == INSTANCE DbkvStore WITH
             Table <- Database,
             Nothing <- NoSnapshot,
             table <- db,
             past <- {history[n] : n \in 1..Len(history)},
             view <- cache

(* Every behaviour of the store is one of the abstract store: a reader of  *)
(* any instance sees one committed table and never a mixture of two,       *)
(* although Refresh reads the marker and the rows at different times.      *)
ImplementsStore == Store!StoreSpec

(* Skipping the reload when the markers agree (dbkv.go:148) is right: no   *)
(* instance holds rows that differ from the table under the marker of the  *)
(* table, whatever the order in which stamps are read and committed.       *)
MarkerIdentifiesTable ==
    \A i \in Instance :
        cache[i] # NoSnapshot /\ cache[i].stamp = db.stamp =>
            cache[i].rows = db.rows

(* The check upsertEntry or Delete made under the row's lock still holds   *)
(* when the transaction commits: a key keeps its format and two deletions  *)
(* never both succeed on one row, however the handlers interleave.         *)
CheckHoldsUntilCommit ==
    \A s \in Session : tx[s].pc = "changed" => ChangeAllowed(s)

(* While the store is open every read finds a snapshot: GetRecord and List *)
(* do not answer ErrNotInitialized between Init and Close.                 *)
ServesWhileOpen ==
    \A i \in Instance : Connected(i) => cache[i] # NoSnapshot

(* No step changes the format of a row that stays in the table: "Set a     *)
(* DBKV record without changing its format" (admin/dbkv/dbkv.go).          *)
FormatKept ==
    [][\A k \in Key :
          db.rows[k] # NoRow /\ db'.rows[k] # NoRow =>
              db'.rows[k].format = db.rows[k].format]_vars

(* A row the operator hid is neither overwritten nor deleted by a handler, *)
(* although SetHandler and DeleteHandler look before their transaction.    *)
HiddenUntouched ==
    [][\A k \in Key :
          db.rows[k] # NoRow /\ ~ db.rows[k].visible =>
              db'.rows[k] = db.rows[k]]_vars

(* The position of a snapshot among the committed tables. *)
Version(h, snap) == CHOOSE n \in 1..Len(h) : h[n] = snap

(* With the worker as its only refresher, what an instance shows never     *)
(* goes back in time, not even when stamps do.                             *)
CacheNeverRegresses ==
    [][Caller = {} =>
          \A i \in Instance :
              cache[i] # NoSnapshot /\ cache'[i] # NoSnapshot =>
                  Version(history, cache[i]) <= Version(history', cache'[i])]_vars

(* Once the writes have stopped every open instance comes to show the      *)
(* table and shows it from then on, also after an older snapshot of a      *)
(* concurrent refresh has replaced a newer one (dbkv.go:155).              *)
EventuallyCurrent ==
    <>[](\A i \in Instance : life[i] = "open" => cache[i] = db)
=============================================================================
