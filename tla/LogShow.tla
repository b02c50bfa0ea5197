------------------------------- MODULE LogShow -------------------------------
(***************************************************************************)
(* The command showlog, by Show and readRecords of                         *)
(* components/easylog/reader.go: the newest records of several log files,  *)
(* while the service writes, begins new files and removes old ones.        *)
(*                                                                         *)
(* Each level has its own files.  A record is known by the time it was     *)
(* written; what one file yields is the business of LogFile.               *)
(***************************************************************************)
EXTENDS Naturals, FiniteSets, Sequences, SequencesExt

CONSTANTS Level,
          Selected,    \* the levels that are asked for
          TailSize,    \* how many records are asked for
          MaxRecords,  \* bounds the records written
          MaxFiles     \* bounds the files of a level

ASSUME ShowAssumption ==
    /\ IsFiniteSet(Level) /\ Selected \subseteq Level
    /\ TailSize \in Nat \ {0} /\ MaxRecords \in Nat /\ MaxFiles \in Nat \ {0}

VARIABLES files,     \* the files of every level, oldest first
          removed,   \* the files that are gone
          clock,     \* the records written so far
          progress,  \* the command
          listed,    \* the files it still has to read
          collected, \* the records it has read
          counts,    \* how many of every level
          shown,     \* what it writes, oldest first
          known      \* history: the records that were there when it started

store == <<files, removed, clock>>
command == <<progress, listed, collected, counts, shown, known>>
show == <<store, command>>

Time == 1..MaxRecords
File == [level : Level, sequence : 1..MaxFiles]
Record == [level : Level, time : Time]

ShowTypeOK ==
    /\ files \in [Level -> Seq(Seq(Time))]
    /\ \A l \in Level : Len(files[l]) \in 1..MaxFiles
    /\ removed \subseteq File
    /\ clock \in 0..MaxRecords
    /\ progress \in {"idle", "read", "done", "failed"}
    /\ listed \in Seq(File)
    /\ collected \in Seq(Record)
    /\ counts \in [Level -> 0..TailSize]
    /\ shown \in Seq(Time) /\ Len(shown) <= TailSize
    /\ known \subseteq Time

ShowInit ==
    /\ files = [l \in Level |-> <<<<>>>>]
    /\ removed = {}
    /\ clock = 0
    /\ progress = "idle"
    /\ listed = <<>>
    /\ collected = <<>>
    /\ counts = [l \in Level |-> 0]
    /\ shown = <<>>
    /\ known = {}

-----------------------------------------------------------------------------
(* The service. *)

Log(l) ==
    /\ clock < MaxRecords
    /\ clock' = clock + 1
    /\ files' = [files EXCEPT ![l][Len(files[l])] = Append(@, clock + 1)]
    /\ UNCHANGED <<removed, command>>

BeginFile(l) ==
    /\ Len(files[l]) < MaxFiles
    /\ files' = [files EXCEPT ![l] = Append(@, <<>>)]
    /\ UNCHANGED <<removed, clock, command>>

Present == {f \in File : f.sequence <= Len(files[f.level]) /\ f \notin removed}

RemoveOldest(f) ==
    /\ f \in Present
    /\ f.sequence < Len(files[f.level])
    /\ \A g \in Present : g.level = f.level => g.sequence >= f.sequence
    /\ removed' = removed \cup {f}
    /\ UNCHANGED <<files, clock, command>>

-----------------------------------------------------------------------------
In(fs) == UNION {ToSet(files[f.level][f.sequence]) : f \in fs}

Wanted(fs) == {f \in fs : f.level \in Selected}

(* Date and sequence, newest first; files of different levels that agree   *)
(* in both come in some order of their own.                                *)
NewestFirst(order) ==
    \A i, j \in 1..Len(order) : i < j => order[i].sequence >= order[j].sequence

List ==
    /\ progress = "idle"
    /\ listed' \in {order \in SetToSeqs(Wanted(Present)) : NewestFirst(order)}
    /\ known' = In(Wanted(Present))
    /\ progress' = "read"
    /\ UNCHANGED <<store, collected, counts, shown>>

(* The last n elements, if there are as many. *)
Newer(s, n) == SubSeq(s, IF Len(s) > n THEN Len(s) - n + 1 ELSE 1, Len(s))

(* Mutant: one count for all levels. *)
RemainingOfAll(l) ==
    IF Len(collected) > TailSize THEN 0 ELSE TailSize - Len(collected)

(* How many records of its level a file may still give. *)
Remaining(l) == TailSize - counts[l]

(* A file that is gone by now gives nothing. *)
ReadFile ==
    LET f == Head(listed)
        found == IF f \in removed THEN <<>>
                 ELSE Newer(files[f.level][f.sequence], Remaining(f.level))
    IN  /\ progress = "read"
        /\ listed # <<>>
        /\ collected' = collected \o [i \in 1..Len(found) |->
                                        [level |-> f.level, time |-> found[i]]]
        /\ counts' = [counts EXCEPT ![f.level] = @ + Len(found)]
        /\ listed' = Tail(listed)
        /\ UNCHANGED <<store, progress, shown, known>>

(* A file that cannot be read, or the directory, ends the command. *)
ReadFails ==
    /\ \/ progress = "idle"
       \/ /\ progress = "read" /\ listed # <<>>
          /\ Head(listed) \notin removed /\ Remaining(Head(listed).level) > 0
    /\ progress' = "failed"
    /\ UNCHANGED <<store, listed, collected, counts, shown, known>>

(* The records newest first, by their places in what was collected. *)
ByTime ==
    {order \in SetToSeqs(1..Len(collected)) :
       \A i, j \in 1..Len(order) :
          i < j => collected[order[i]].time >= collected[order[j]].time}

(* The newest ones, written oldest first. *)
Finish ==
    LET size == IF Len(collected) > TailSize THEN TailSize ELSE Len(collected)
    IN  /\ progress = "read"
        /\ listed = <<>>
        /\ \E order \in ByTime :
              shown' = [i \in 1..size |-> collected[order[size - i + 1]].time]
        /\ progress' = "done"
        /\ UNCHANGED <<store, listed, collected, counts, known>>

ShowNext ==
    \/ \E l \in Level : Log(l) \/ BeginFile(l)
    \/ \E f \in File : RemoveOldest(f)
    \/ List
    \/ ReadFile
    \/ ReadFails
    \/ Finish

ShowSpec == ShowInit /\ [][ShowNext]_show

-----------------------------------------------------------------------------
(* "Display recent logs" leaves no gap: a record that was there when the   *)
(* command started, and whose file still is when it ends, is shown, or     *)
(* gives its place to newer ones; however the levels are mixed and         *)
(* whatever is written, begun or removed in between.  Nothing is shown     *)
(* twice or out of order, and nothing of a level that was not asked for.   *)
NothingRecentMissing ==
    \A t \in known \cap In(Wanted(Present)) :
       \/ t \in ToSet(shown')
       \/ Cardinality({u \in ToSet(shown') : u > t}) = TailSize

InOrder ==
    /\ \A i, j \in 1..Len(shown') : i < j => shown'[i] < shown'[j]
    /\ \A t \in ToSet(shown') : \E l \in Selected :
          \E n \in 1..Len(files[l]) : t \in ToSet(files[l][n])

ShowsNewest ==
    [][progress = "read" /\ progress' = "done" => NothingRecentMissing /\ InOrder]_show
=============================================================================
