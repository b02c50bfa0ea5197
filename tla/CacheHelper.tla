---------------------------- MODULE CacheHelper ----------------------------
(***************************************************************************)
(* The two-level record cache of common/cache_helper/cache.go for one key, *)
(* with the writers of app/users/user.go that change the record and then   *)
(* force a refresh of it.                                                  *)
(*                                                                         *)
(* Every instance has a local cache; all share Redis and the database.  A  *)
(* record is known by the version of its row.  Time passes in ticks and a  *)
(* cached entry carries the ticks it still has to live.                    *)
(***************************************************************************)
EXTENDS Naturals

CONSTANTS Instance,
          Reader,      \* calls without forceUpdate
          Writer,      \* updates that force a refresh when they have committed
          At,          \* the instance a reader or writer runs on
          MaxVersion,  \* bounds the writes
          Absent,      \* versions at which the row does not exist
          TouchTTL,    \* local, at the start of a forced refresh (5 s)
          LocalTTL,    \* local, found or not (15 s)
          ExpireTTL,   \* Redis, at the start of a forced refresh (60 s)
          MissingTTL,  \* Redis, for a record that does not exist (60 s)
          RedisTTL,    \* Redis, for a record (1800 s)
          NoEntry

Version == 0..MaxVersion
TTL == {TouchTTL, LocalTTL, ExpireTTL, MissingTTL, RedisTTL}
Lifetime == UNION {1..t : t \in TTL}
Entry == [ver : Version, ttl : Lifetime]

ASSUME PlacementAssumption == At \in [Reader \cup Writer -> Instance]
ASSUME VersionAssumption == MaxVersion \in Nat /\ Absent \subseteq Version
ASSUME TTLAssumption ==
    /\ TTL \subseteq Nat \ {0}
    /\ TouchTTL <= LocalTTL
ASSUME EntryAssumption == NoEntry \notin Entry

VARIABLES row,     \* the version of the database row
          local,   \* the local cache entry of every instance
          remote,  \* the Redis entry
          flight,  \* the shared load of every instance (singleflight)
          waiting, \* the callers that wait for the shared load
          writer,  \* the updates and their forced refreshes
          clean,   \* history: no value older than row is on its way to a cache
          remoteGrace,  \* history: ticks that Redis may still be stale
          localGrace    \* history: ticks that a local cache may still be stale

vars == <<row, local, remote, flight, waiting, writer,
          clean, remoteGrace, localGrace>>
history == <<clean, remoteGrace, localGrace>>

Flight == [pc : {"none", "start", "redis", "hit", "load", "loaded", "cached"},
           ver : Version]
Refresh == [pc : {"idle", "touch", "expire", "load", "loaded", "cached"},
            ver : Version]
NoFlight == [pc |-> "none", ver |-> 0]
IdleWriter == [pc |-> "idle", ver |-> 0]

TypeOK ==
    /\ row \in Version
    /\ local \in [Instance -> Entry \cup {NoEntry}]
    /\ remote \in Entry \cup {NoEntry}
    /\ flight \in [Instance -> Flight]
    /\ waiting \subseteq Reader
    /\ writer \in [Writer -> Refresh]
    /\ clean \in BOOLEAN
    /\ remoteGrace \in 0..ExpireTTL
    /\ localGrace \in 0..(ExpireTTL + LocalTTL)

Init ==
    /\ row = 0
    /\ local = [i \in Instance |-> NoEntry]
    /\ remote = NoEntry
    /\ flight = [i \in Instance |-> NoFlight]
    /\ waiting = {}
    /\ writer = [w \in Writer |-> IdleWriter]
    /\ clean = TRUE
    /\ remoteGrace = 0
    /\ localGrace = 0

-----------------------------------------------------------------------------
Stale(entry) == entry # NoEntry /\ entry.ver # row

LocalEntry(v) == [ver |-> v, ttl |-> LocalTTL]
RemoteEntry(v) == [ver |-> v,
                   ttl |-> IF v \in Absent THEN MissingTTL ELSE RedisTTL]

LeastOf(a, b) == IF a < b THEN a ELSE b
GreatestOf(a, b) == IF a < b THEN b ELSE a

(* A Redis SET either stores the loaded value or fails, which is ignored.  *)
(* What the history variables make of it: once Redis is fresh only local   *)
(* entries filled before can be stale.                                     *)
SetRemote(v) ==
    \/ /\ remote' = RemoteEntry(v)
       /\ remoteGrace' = IF v = row THEN 0 ELSE remoteGrace
       /\ localGrace' = IF v = row THEN LeastOf(localGrace, LocalTTL)
                        ELSE localGrace
       /\ UNCHANGED clean
    \/ UNCHANGED <<remote, clean, remoteGrace, localGrace>>

SetFlight(i, pc, v) == flight' = [flight EXCEPT ![i] = [pc |-> pc, ver |-> v]]
SetWriter(w, pc, v) == writer' = [writer EXCEPT ![w] = [pc |-> pc, ver |-> v]]
SetLocal(i, entry) == local' = [local EXCEPT ![i] = entry]

Callers(i) == {r \in Reader : At[r] = i}

(* The shared load ends and its result goes to every caller that waits. *)
Answer(i) ==
    /\ flight' = [flight EXCEPT ![i] = NoFlight]
    /\ waiting' = waiting \ Callers(i)

-----------------------------------------------------------------------------
(* A caller without forceUpdate.  A local hit answers at once and changes  *)
(* nothing; a miss joins the shared load or starts it.                     *)

ReadMiss(r) ==
    /\ r \notin waiting
    /\ local[At[r]] = NoEntry
    /\ waiting' = waiting \cup {r}
    /\ IF flight[At[r]].pc = "none" THEN SetFlight(At[r], "start", 0)
       ELSE UNCHANGED flight
    /\ UNCHANGED <<row, local, remote, writer, history>>

(* Mutant: the shared load runs with the context of a caller. *)
ReadCancelStopsFlight(r) ==
    /\ r \in waiting
    /\ waiting' = waiting \ {r}
    /\ flight' = [flight EXCEPT ![At[r]] = NoFlight]
    /\ UNCHANGED <<row, local, remote, writer, history>>

(* The client goes away: its own context ends, the shared load goes on.    *)
ReadCancel(r) ==
    /\ r \in waiting
    /\ waiting' = waiting \ {r}
    /\ UNCHANGED <<row, local, remote, flight, writer, history>>

FlightRecheck(i) ==
    /\ flight[i].pc = "start"
    /\ IF local[i] # NoEntry THEN Answer(i)
       ELSE SetFlight(i, "redis", 0) /\ UNCHANGED waiting
    /\ UNCHANGED <<row, local, remote, writer, history>>

(* Redis answers; an error and a miss both lead to the database. *)
FlightGetRemote(i) ==
    /\ flight[i].pc = "redis"
    /\ \/ remote # NoEntry /\ SetFlight(i, "hit", remote.ver)
       \/ SetFlight(i, "load", 0)
    /\ UNCHANGED <<row, local, remote, waiting, writer, history>>

(* Mutant: a hit prolongs the Redis entry. *)
FlightProlongsRemote(i) ==
    /\ flight[i].pc = "hit"
    /\ SetLocal(i, LocalEntry(flight[i].ver))
    /\ remote' = RemoteEntry(flight[i].ver)
    /\ Answer(i)
    /\ UNCHANGED <<row, writer, history>>

FlightSetFromRemote(i) ==
    /\ flight[i].pc = "hit"
    /\ SetLocal(i, LocalEntry(flight[i].ver))
    /\ Answer(i)
    /\ UNCHANGED <<row, remote, writer, history>>

FlightLoad(i) ==
    /\ flight[i].pc = "load"
    /\ SetFlight(i, "loaded", row)
    /\ UNCHANGED <<row, local, remote, waiting, writer, history>>

(* Mutant: the zero record of a load that failed is cached. *)
FlightLoadIgnoresError(i) ==
    /\ flight[i].pc = "load"
    /\ SetFlight(i, "loaded", flight[i].ver)
    /\ UNCHANGED <<row, local, remote, waiting, writer, history>>

FlightLoadFail(i) ==
    /\ flight[i].pc = "load"
    /\ Answer(i)
    /\ UNCHANGED <<row, local, remote, writer, history>>

FlightSetLocal(i) ==
    /\ flight[i].pc = "loaded"
    /\ SetLocal(i, LocalEntry(flight[i].ver))
    /\ SetFlight(i, "cached", flight[i].ver)
    /\ UNCHANGED <<row, remote, waiting, writer, history>>

FlightSetRemote(i) ==
    /\ flight[i].pc = "cached"
    /\ SetRemote(flight[i].ver)
    /\ Answer(i)
    /\ UNCHANGED <<row, local, writer>>

-----------------------------------------------------------------------------
(* An update of the record: the transaction commits, then the forced       *)
(* refresh runs with the context of the request.                           *)

WriterCommit(w) ==
    /\ writer[w].pc = "idle"
    /\ row < MaxVersion
    /\ row' = row + 1
    /\ SetWriter(w, "touch", 0)
    /\ clean' = FALSE
    /\ UNCHANGED <<local, remote, flight, waiting, remoteGrace, localGrace>>

(* The local entry has TouchTTL to live from now on, be it less or more. *)
WriterTouch(w) ==
    /\ writer[w].pc = "touch"
    /\ IF local[At[w]] = NoEntry THEN UNCHANGED <<local, localGrace>>
       ELSE /\ SetLocal(At[w], [local[At[w]] EXCEPT !.ttl = TouchTTL])
            /\ localGrace' = IF Stale(local[At[w]])
                             THEN GreatestOf(localGrace, TouchTTL) ELSE localGrace
    /\ SetWriter(w, "expire", 0)
    /\ UNCHANGED <<row, remote, flight, waiting, clean, remoteGrace>>

(* Values that were read before and may still reach a cache. *)
OnTheWay ==
    {flight[i].ver : i \in {j \in Instance : flight[j].pc \in {"hit", "loaded", "cached"}}}
    \cup {writer[w].ver : w \in {x \in Writer : writer[x].pc \in {"loaded", "cached"}}}

StaleOnTheWay == OnTheWay \ {row} # {}

(* Mutant: the forced refresh does not shorten the life of the Redis entry. *)
WriterSkipsExpire(w) ==
    /\ writer[w].pc = "expire"
    /\ SetWriter(w, "load", 0)
    /\ clean' = (clean \/ ~ StaleOnTheWay)
    /\ IF clean' THEN remoteGrace' = ExpireTTL /\ localGrace' = ExpireTTL + LocalTTL
       ELSE UNCHANGED <<remoteGrace, localGrace>>
    /\ UNCHANGED <<row, local, remote, flight, waiting>>

(* From here on stale entries have a bounded life, unless a value older    *)
(* than the row is still on its way.                                       *)
WriterExpire(w) ==
    /\ writer[w].pc = "expire"
    /\ remote' = IF remote = NoEntry THEN remote
                 ELSE [remote EXCEPT !.ttl = ExpireTTL]
    /\ SetWriter(w, "load", 0)
    /\ clean' = (clean \/ ~ StaleOnTheWay)
    /\ IF clean' THEN remoteGrace' = ExpireTTL /\ localGrace' = ExpireTTL + LocalTTL
       ELSE UNCHANGED <<remoteGrace, localGrace>>
    /\ UNCHANGED <<row, local, flight, waiting>>

WriterLoad(w) ==
    /\ writer[w].pc = "load"
    /\ SetWriter(w, "loaded", row)
    /\ UNCHANGED <<row, local, remote, flight, waiting, history>>

WriterSetLocal(w) ==
    /\ writer[w].pc = "loaded"
    /\ SetLocal(At[w], LocalEntry(writer[w].ver))
    /\ SetWriter(w, "cached", writer[w].ver)
    /\ UNCHANGED <<row, remote, flight, waiting, history>>

WriterSetRemote(w) ==
    /\ writer[w].pc = "cached"
    /\ SetRemote(writer[w].ver)
    /\ SetWriter(w, "idle", 0)
    /\ UNCHANGED <<row, local, flight, waiting>>

(* EXPIRE or the load fails, or the client has gone: the caller ignores    *)
(* the error and the refresh ends where it is.                             *)
WriterAbandon(w) ==
    /\ writer[w].pc \in {"touch", "expire", "load"}
    /\ SetWriter(w, "idle", 0)
    /\ UNCHANGED <<row, local, remote, flight, waiting, history>>

-----------------------------------------------------------------------------
(* The process of an instance ends and is started again. *)
Restart(i) ==
    /\ SetLocal(i, NoEntry)
    /\ flight' = [flight EXCEPT ![i] = NoFlight]
    /\ waiting' = waiting \ Callers(i)
    /\ writer' = [w \in Writer |-> IF At[w] = i THEN IdleWriter ELSE writer[w]]
    /\ UNCHANGED <<row, remote, history>>

Aged(entry) == IF entry = NoEntry \/ entry.ttl = 1 THEN NoEntry
               ELSE [entry EXCEPT !.ttl = entry.ttl - 1]

Less(n) == IF n = 0 THEN 0 ELSE n - 1

(* A second passes.  A hit of Redis is assumed to reach the local cache    *)
(* within the second; every other reply may take any time.                 *)
Tick ==
    /\ \A i \in Instance : flight[i].pc # "hit"
    /\ local' = [i \in Instance |-> Aged(local[i])]
    /\ remote' = Aged(remote)
    /\ remoteGrace' = Less(remoteGrace)
    /\ localGrace' = Less(localGrace)
    /\ UNCHANGED <<row, flight, waiting, writer, clean>>

FlightStep(i) ==
    \/ FlightRecheck(i)
    \/ FlightGetRemote(i)
    \/ FlightSetFromRemote(i)
    \/ FlightLoad(i)
    \/ FlightLoadFail(i)
    \/ FlightSetLocal(i)
    \/ FlightSetRemote(i)

WriterStep(w) ==
    \/ WriterTouch(w)
    \/ WriterExpire(w)
    \/ WriterLoad(w)
    \/ WriterSetLocal(w)
    \/ WriterSetRemote(w)
    \/ WriterAbandon(w)

Next ==
    \/ \E r \in Reader : ReadMiss(r) \/ ReadCancel(r)
    \/ \E i \in Instance : FlightStep(i) \/ Restart(i)
    \/ \E w \in Writer : WriterCommit(w) \/ WriterStep(w)
    \/ Tick

Spec == Init /\ [][Next]_vars

(* Time passes, and a shared load that has been started is run to its end. *)
FairSpec ==
    /\ Spec
    /\ SF_vars(Tick)
    /\ \A i \in Instance : WF_vars(FlightStep(i))

-----------------------------------------------------------------------------
(* The values other than the row that a cache or a load holds. *)
Lingering ==
    (OnTheWay \cup {entry.ver : entry \in ({remote} \cup {local[i] : i \in Instance})
                                          \ {NoEntry}})
    \ {row}

(* To the handlers all of this is UserCache: a value that has left every   *)
(* cache and every load never comes back, whatever loads, refreshes,       *)
(* failures, copies from Redis and restarts overlap.                       *)
Promise == INSTANCE UserCache WITH Value <- Version, lingering <- Lingering
ImplementsCache == Promise!Spec

(* README.md:179-183, made precise.  When a forced refresh has reached its *)
(* Redis expiry, and no older value was on its way to a cache then, Redis  *)
(* is fresh after ExpireTTL at the latest (at once when the refresh        *)
(* succeeds), even if the refresh fails afterwards; and every local cache, *)
(* on any instance, is fresh LocalTTL later: a stale Redis entry may still *)
(* be copied just before it expires.  Another refresh that touches a stale *)
(* local entry gives it TouchTTL once more, and it may be the last to go.  *)
FreshAfterGrace ==
    clean =>
        /\ remoteGrace = 0 => ~ Stale(remote)
        /\ localGrace = 0 => \A i \in Instance : ~ Stale(local[i])

(* An older value that a slow load puts back over a newer one              *)
(* (cache.go:134-138) does not survive: when the writes have stopped, the  *)
(* caches come to hold the row and nothing else.                           *)
StaleDiesOut ==
    <>[](~ Stale(remote) /\ \A i \in Instance : ~ Stale(local[i]))

(* A caller is answered or gives up, whatever the others do: "one          *)
(* disconnected request does not cancel other callers' shared work"        *)
(* (README.md:175).                                                        *)
WaitersAnswered ==
    \A r \in Reader : r \in waiting ~> r \notin waiting
=============================================================================
