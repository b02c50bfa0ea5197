------------------------------ MODULE LogProofs ------------------------------
(***************************************************************************)
(* What showlog shows, for any levels, files and records; and what the     *)
(* reader of one file shows, when it fails and how much it holds, for any  *)
(* lengths, chunks and limits, and however the file grows.                 *)
(***************************************************************************)
EXTENDS LogFile, LogShow, SequenceTheorems, FiniteSetTheorems, WellFoundedInduction, TLAPS

-----------------------------------------------------------------------------
(* The command showlog.  The files of a level are read from the newest to  *)
(* the oldest, so that what a level has given is newer than all that its   *)
(* other files hold; once that is enough, nothing is missed by not reading *)
(* them.                                                                   *)
FileNumbers(l) == 1..Len(files[l])

(* Every file grows at its end; what is logged later is in a later place,  *)
(* and in one file only.                                                   *)
FilesInv ==
    /\ \A l \in Level : \A n \in FileNumbers(l) :
          /\ \A t \in ToSet(files[l][n]) : t <= clock
          /\ \A i, j \in 1..Len(files[l][n]) : i < j => files[l][n][i] < files[l][n][j]
    /\ \A l \in Level : \A n, m \in FileNumbers(l) : n < m =>
          \A t \in ToSet(files[l][n]), u \in ToSet(files[l][m]) : t < u
    /\ \A l, k \in Level : l # k =>
          \A n \in FileNumbers(l), m \in FileNumbers(k) :
             ToSet(files[l][n]) \cap ToSet(files[k][m]) = {}
    /\ \A t \in known : t <= clock

ListedInv ==
    /\ NewestFirst(listed)
    /\ \A i \in 1..Len(listed) :
          /\ listed[i].level \in Selected
          /\ listed[i].sequence \in FileNumbers(listed[i].level)
          /\ \A j \in 1..Len(listed) : i # j => listed[i] # listed[j]

(* The places of the records of a level among those collected. *)
Placed(l) == {i \in 1..Len(collected) : collected[i].level = l}

(* No record is collected twice, and of every level the files that are     *)
(* still to be read are older than those it has been collected from.       *)
CollectedInv ==
    /\ \A l \in Level : Cardinality(Placed(l)) = counts[l]
    /\ \A i, j \in 1..Len(collected) : i # j => collected[i].time # collected[j].time
    /\ \A i \in 1..Len(collected) :
       LET l == collected[i].level
       IN  /\ l \in Selected
           /\ \E n \in FileNumbers(l) :
                 /\ collected[i].time \in ToSet(files[l][n])
                 /\ \A f \in ToSet(listed) : f.level = l => f.sequence < n

(* A record is collected, or its level has given enough newer ones. *)
Covered(t, l) ==
    \/ \E i \in Placed(l) : collected[i].time = t
    \/ counts[l] = TailSize /\ \A i \in Placed(l) : collected[i].time > t

CoveredInv ==
    \A l \in Selected, n \in 1..MaxFiles :
       LET f == [level |-> l, sequence |-> n]
       IN  n \in FileNumbers(l) /\ f \notin removed /\ f \notin ToSet(listed) =>
              \A t \in known \cap ToSet(files[l][n]) : Covered(t, l)

ShowInv ==
    /\ ShowTypeOK /\ FilesInv
    /\ progress = "idle" => collected = <<>> /\ counts = [l \in Level |-> 0]
    /\ progress = "read" => ListedInv /\ CollectedInv /\ CoveredInv

-----------------------------------------------------------------------------
LEMMA Members ==
    ASSUME NEW S, NEW s \in Seq(S)
    PROVE  /\ Len(s) \in Nat /\ ToSet(s) \subseteq S
           /\ \A i \in 1..Len(s) : s[i] \in S /\ s[i] \in ToSet(s)
           /\ \A t \in ToSet(s) : \E i \in 1..Len(s) : s[i] = t
<1>1. Len(s) \in Nat /\ s \in [1..Len(s) -> S] /\ DOMAIN s = 1..Len(s)
  BY LenProperties
<1> QED BY <1>1 DEF ToSet

LEMMA FirstNumbers == \A k \in Nat : IsFiniteSet(1..k) /\ Cardinality(1..k) = k
<1> SUFFICES ASSUME NEW k \in Nat PROVE IsFiniteSet(1..k) /\ Cardinality(1..k) = k
  OBVIOUS
<1>1. PICK a, b \in Int : a = 1 /\ b = k
  OBVIOUS
<1>2. IsFiniteSet(a..b) /\ Cardinality(a..b) = IF a > b THEN 0 ELSE b - a + 1
  BY FS_Interval
<1> QED BY <1>1, <1>2

LEMMA FileFacts ==
    ASSUME ShowTypeOK, NEW l \in Level
    PROVE  /\ Len(files[l]) \in Nat /\ Len(files[l]) >= 1 /\ files[l] \in Seq(Seq(Time))
           /\ FileNumbers(l) \subseteq 1..MaxFiles
           /\ \A n \in FileNumbers(l) :
                 files[l][n] \in Seq(Time) /\ Len(files[l][n]) \in Nat
<1>1. files[l] \in Seq(Seq(Time)) /\ Len(files[l]) \in 1..MaxFiles /\ MaxFiles \in Nat
  BY ShowAssumption DEF ShowTypeOK
<1>2. \A n \in FileNumbers(l) : files[l][n] \in Seq(Time)
  BY <1>1, ElementOfSeq DEF FileNumbers
<1> QED BY <1>1, <1>2, LenProperties DEF FileNumbers

LEMMA SameFiles ==
    ASSUME FilesInv, UNCHANGED <<files, clock, known>> PROVE FilesInv'
<1>1. \A l : FileNumbers(l)' = FileNumbers(l)
  BY DEF FileNumbers
<1> QED BY <1>1 DEF FilesInv

(* What is logged while the command reads disturbs nothing of what was     *)
(* there when it started.                                                  *)
StoreGrows ==
    /\ \A k \in Level : FileNumbers(k) \subseteq FileNumbers(k)'
    /\ \A k \in Level : \A n \in FileNumbers(k) :
          ToSet(files[k][n]) \subseteq ToSet(files'[k][n])
    /\ \A k \in Level : \A n \in FileNumbers(k)' : \A t \in known \cap ToSet(files'[k][n]) :
          n \in FileNumbers(k) /\ t \in ToSet(files[k][n])

LEMMA LogGrows ==
    ASSUME ShowTypeOK, FilesInv, NEW l \in Level, Log(l)
    PROVE  ShowTypeOK' /\ FilesInv' /\ StoreGrows
<1> DEFINE last == Len(files[l])
           grown == Append(files[l][last], clock + 1)
<1>1. /\ last \in Nat /\ last \in FileNumbers(l) /\ files[l][last] \in Seq(Time)
      /\ files[l] \in Seq(Seq(Time)) /\ clock + 1 \in Time
      /\ clock \in Nat /\ clock' = clock + 1 /\ clock' \in 0..MaxRecords
  BY FileFacts, ShowAssumption DEF Log, FileNumbers, ShowTypeOK, Time
<1>2. /\ grown \in Seq(Time) /\ Len(grown) = Len(files[l][last]) + 1
      /\ \A i \in 1..Len(files[l][last]) : grown[i] = files[l][last][i]
      /\ grown[Len(files[l][last]) + 1] = clock + 1
  BY <1>1, AppendProperties
<1>3. files' = [files EXCEPT ![l][last] = grown]
  BY DEF Log
<1> HIDE DEF grown
<1>4. /\ files'[l] \in Seq(Seq(Time)) /\ Len(files'[l]) = last
      /\ \A n \in 1..last : files'[l][n] = IF n = last THEN grown ELSE files[l][n]
  <2>1. files'[l] = [files[l] EXCEPT ![last] = grown]
    BY <1>3 DEF ShowTypeOK
  <2> HIDE DEF last
  <2>2. last \in 1..Len(files[l])
    BY <1>1 DEF FileNumbers, last
  <2> QED BY <1>1, <1>2, <2>1, <2>2, ExceptSeq DEF last
<1>5. \A k \in Level : k # l => files'[k] = files[k]
  BY <1>3 DEF ShowTypeOK
<1>6. \A k \in Level : FileNumbers(k)' = FileNumbers(k)
  BY <1>4, <1>5 DEF FileNumbers
<1>7. ShowTypeOK'
  <2>1. files' \in [Level -> Seq(Seq(Time))] /\ \A k \in Level : Len(files'[k]) \in 1..MaxFiles
    BY <1>3, <1>4, <1>5 DEF ShowTypeOK
  <2> QED BY <1>1, <2>1 DEF ShowTypeOK, Log, command
<1>8. \A k \in Level : \A n \in FileNumbers(k) :
         ToSet(files'[k][n]) = IF k = l /\ n = last THEN ToSet(files[k][n]) \cup {clock + 1}
                               ELSE ToSet(files[k][n])
  <2>1. ASSUME NEW k \in Level, NEW n \in FileNumbers(k), k = l /\ n = last
        PROVE  ToSet(files'[k][n]) = ToSet(files[k][n]) \cup {clock + 1}
    <3>1. files'[k][n] = grown /\ files[k][n] = files[l][last] /\ Len(files[l][last]) \in Nat
      BY <1>1, <1>4, <2>1, FileFacts DEF FileNumbers
    <3>2. ToSet(grown) = ToSet(files[l][last]) \cup {clock + 1}
      <4> HIDE DEF last
      <4>1. ASSUME NEW t \in ToSet(grown) PROVE t \in ToSet(files[l][last]) \cup {clock + 1}
        <5>1. PICK i \in 1..Len(grown) : grown[i] = t
          BY <1>2, Members
        <5>2. CASE i \in 1..Len(files[l][last])
          BY <1>1, <1>2, <5>1, <5>2, Members
        <5>3. CASE i = Len(files[l][last]) + 1
          BY <1>2, <5>1, <5>3
        <5> QED BY <1>2, <3>1, <5>2, <5>3
      <4>2. ASSUME NEW t \in ToSet(files[l][last]) PROVE t \in ToSet(grown)
        <5>1. PICK i \in 1..Len(files[l][last]) : files[l][last][i] = t
          BY <1>1, Members
        <5>2. i \in 1..Len(grown) /\ grown[i] = t
          BY <1>2, <3>1, <5>1
        <5> QED BY <1>2, <5>2, Members
      <4>3. clock + 1 \in ToSet(grown)
        <5>1. Len(grown) \in 1..Len(grown) /\ grown[Len(grown)] = clock + 1
          BY <1>2, <3>1
        <5> QED BY <1>2, <5>1, Members
      <4> QED BY <4>1, <4>2, <4>3
    <3> QED BY <3>1, <3>2
  <2>2. ASSUME NEW k \in Level, NEW n \in FileNumbers(k), ~ (k = l /\ n = last)
        PROVE  files'[k][n] = files[k][n]
    BY <1>4, <1>5, <2>2 DEF FileNumbers
  <2> QED BY <2>1, <2>2
<1>9. \A k \in Level : \A n \in FileNumbers(k) : \A t \in ToSet(files[k][n]) :
         t \in Nat /\ t <= clock /\ t < clock + 1
  <2> SUFFICES ASSUME NEW k \in Level, NEW n \in FileNumbers(k), NEW t \in ToSet(files[k][n])
               PROVE  t \in Nat /\ t <= clock /\ t < clock + 1
    OBVIOUS
  <2>1. files[k][n] \in Seq(Time)
    BY FileFacts
  <2>2. t \in Time /\ t <= clock
    BY <2>1, Members DEF FilesInv
  <2> QED BY <1>1, <2>2 DEF Time
<1>10. \A t \in known : t <= clock /\ t # clock + 1 /\ t \in Nat
  BY <1>1 DEF FilesInv, ShowTypeOK, Time
<1>11. StoreGrows
  BY <1>6, <1>8, <1>10 DEF StoreGrows
<1>12. FilesInv'
  <2>1. ASSUME NEW k \in Level, NEW n \in FileNumbers(k)
        PROVE  /\ \A t \in ToSet(files'[k][n]) : t <= clock'
               /\ \A i, j \in 1..Len(files'[k][n]) : i < j => files'[k][n][i] < files'[k][n][j]
    <3>1. CASE k = l /\ n = last
      <4>1. files'[k][n] = grown /\ files[k][n] = files[l][last] /\ Len(files[l][last]) \in Nat
        BY <1>1, <1>4, <3>1, FileFacts DEF FileNumbers
      <4>2. \A i, j \in 1..Len(files[l][last]) : i < j => grown[i] < grown[j]
        BY <1>1, <1>2 DEF FilesInv
      <4>3. \A i \in 1..Len(files[l][last]) : grown[i] < clock + 1
        <5>1. \A i \in 1..Len(files[l][last]) : files[l][last][i] \in ToSet(files[l][last])
          BY <1>1, Members
        <5> QED BY <1>1, <1>2, <1>9, <5>1
      <4>4. \A i, j \in 1..Len(grown) : i < j => grown[i] < grown[j]
        <5> HIDE DEF last
        <5> SUFFICES ASSUME NEW i \in 1..Len(grown), NEW j \in 1..Len(grown), i < j
                     PROVE  grown[i] < grown[j]
          OBVIOUS
        <5>1. i \in 1..Len(files[l][last])
          BY <1>2, <4>1
        <5>2. j \in 1..Len(files[l][last]) \/ j = Len(files[l][last]) + 1
          BY <1>2, <4>1
        <5> QED BY <1>2, <4>2, <4>3, <5>1, <5>2
      <4>5. \A t \in ToSet(files'[k][n]) : t <= clock'
        <5>1. \A t \in ToSet(files'[k][n]) : t \in ToSet(files[k][n]) \/ t = clock + 1
          BY <1>8
        <5>2. \A t \in ToSet(files[k][n]) : t <= clock'
          <6> SUFFICES ASSUME NEW t \in ToSet(files[k][n]) PROVE t <= clock'
            OBVIOUS
          <6>1. t \in Nat /\ t <= clock
            BY <1>9
          <6>2. clock \in Nat /\ clock' = clock + 1
            BY <1>1
          <6> QED BY <6>1, <6>2
        <5>3. clock + 1 <= clock'
          BY <1>1
        <5> QED BY <5>1, <5>2, <5>3
      <4> QED BY <4>1, <4>4, <4>5
    <3>2. CASE ~ (k = l /\ n = last)
      <4>1. files'[k][n] = files[k][n]
        BY <1>4, <1>5, <3>2 DEF FileNumbers
      <4>2. \A i, j \in 1..Len(files[k][n]) : i < j => files[k][n][i] < files[k][n][j]
        BY DEF FilesInv
      <4>3. ASSUME NEW t \in ToSet(files[k][n]) PROVE t <= clock'
        <5>1. t \in Nat /\ t <= clock
          BY <1>9
        <5>2. clock \in Nat /\ clock' = clock + 1
          BY <1>1
        <5> QED BY <5>1, <5>2
      <4> QED BY <4>1, <4>2, <4>3
    <3> QED BY <3>1, <3>2
  <2>2. ASSUME NEW k \in Level, NEW n \in FileNumbers(k), NEW m \in FileNumbers(k), n < m,
               NEW t \in ToSet(files'[k][n]), NEW u \in ToSet(files'[k][m])
        PROVE  t < u
    <3>1. n \in Nat /\ m \in Nat /\ m <= Len(files[k]) /\ Len(files[k]) \in Nat
      BY FileFacts DEF FileNumbers
    <3>2. ~ (k = l /\ n = last)
      BY <2>2, <3>1
    <3>3. t \in ToSet(files[k][n]) /\ t < clock + 1
      BY <1>8, <1>9, <3>2
    <3>4. u \in ToSet(files[k][m]) \/ u = clock + 1
      BY <1>8
    <3> QED BY <2>2, <3>3, <3>4 DEF FilesInv
  <2>3. ASSUME NEW k \in Level, NEW h \in Level, h # k,
               NEW n \in FileNumbers(k), NEW m \in FileNumbers(h),
               NEW t \in ToSet(files'[k][n]), t \in ToSet(files'[h][m])
        PROVE  FALSE
    <3>1. t \in ToSet(files[k][n]) \/ (k = l /\ t = clock + 1)
      BY <1>8
    <3>2. t \in ToSet(files[h][m]) \/ (h = l /\ t = clock + 1)
      BY <1>8, <2>3
    <3>3. ~ (t \in ToSet(files[k][n]) /\ t \in ToSet(files[h][m]))
      BY <2>3 DEF FilesInv
    <3>4. (t \in ToSet(files[k][n]) \/ t \in ToSet(files[h][m])) => t < clock + 1
      BY <1>9
    <3> QED BY <1>1, <2>3, <3>1, <3>2, <3>3, <3>4
  <2>4. known' = known
    BY DEF Log, command
  <2>5. \A t \in known' : t <= clock'
    BY <1>1, <1>10, <2>4
  <2> QED BY <1>6, <2>1, <2>2, <2>3, <2>5 DEF FilesInv
<1> QED BY <1>7, <1>11, <1>12

LEMMA FileBegun ==
    ASSUME ShowTypeOK, FilesInv, NEW l \in Level, BeginFile(l)
    PROVE  ShowTypeOK' /\ FilesInv' /\ StoreGrows
<1>1. /\ Len(files[l]) \in Nat /\ files[l] \in Seq(Seq(Time)) /\ <<>> \in Seq(Time)
      /\ Len(files[l]) + 1 \in 1..MaxFiles /\ <<>> \in Seq(Seq(Time))
  BY FileFacts, EmptySeq, ShowAssumption DEF BeginFile
<1>2. /\ files'[l] \in Seq(Seq(Time)) /\ Len(files'[l]) = Len(files[l]) + 1
      /\ \A n \in 1..Len(files[l]) : files'[l][n] = files[l][n]
      /\ files'[l][Len(files[l]) + 1] = <<>>
  <2>1. files'[l] = Append(files[l], <<>>)
    BY DEF BeginFile, ShowTypeOK
  <2> QED BY <1>1, <2>1, AppendProperties
<1>3. \A k \in Level : k # l => files'[k] = files[k]
  BY DEF BeginFile, ShowTypeOK
<1>4. ShowTypeOK'
  <2>1. files' \in [Level -> Seq(Seq(Time))] /\ \A k \in Level : Len(files'[k]) \in 1..MaxFiles
    BY <1>1, <1>2, <1>3 DEF ShowTypeOK, BeginFile
  <2> QED BY <2>1 DEF ShowTypeOK, BeginFile, command
<1>5. \A k \in Level : k # l => FileNumbers(k)' = FileNumbers(k)
  BY <1>3 DEF FileNumbers
<1>6. FileNumbers(l)' = FileNumbers(l) \cup {Len(files[l]) + 1}
  BY <1>1, <1>2 DEF FileNumbers
<1>7. \A k \in Level : \A n \in FileNumbers(k) : files'[k][n] = files[k][n]
  BY <1>2, <1>3 DEF FileNumbers
<1>8. Len(<<>>) = 0 /\ ToSet(<<>>) = {}
  BY EmptySeq DEF ToSet
<1>9. \A k \in Level : \A n \in FileNumbers(k)' : n \in FileNumbers(k) \/ files'[k][n] = <<>>
  BY <1>2, <1>5, <1>6
<1>10. StoreGrows
  BY <1>5, <1>6, <1>7, <1>8, <1>9 DEF StoreGrows
<1>11. clock' = clock /\ known' = known
  BY DEF BeginFile, command
<1>12. FilesInv'
  <2>1. \A k \in Level : \A n \in FileNumbers(k)' :
          /\ \A t \in ToSet(files'[k][n]) : t <= clock'
          /\ \A i, j \in 1..Len(files'[k][n]) : i < j => files'[k][n][i] < files'[k][n][j]
    <3> SUFFICES ASSUME NEW k \in Level, NEW n \in FileNumbers(k)'
                 PROVE  /\ \A t \in ToSet(files'[k][n]) : t <= clock'
                        /\ \A i, j \in 1..Len(files'[k][n]) :
                              i < j => files'[k][n][i] < files'[k][n][j]
      OBVIOUS
    <3>1. CASE n \in FileNumbers(k)
      BY <1>7, <1>11, <3>1 DEF FilesInv
    <3>2. CASE files'[k][n] = <<>>
      BY <1>8, <3>2
    <3> QED BY <1>9, <3>1, <3>2
  <2>2. ASSUME NEW k \in Level, NEW n \in FileNumbers(k)', NEW t \in ToSet(files'[k][n])
        PROVE  n \in FileNumbers(k) /\ t \in ToSet(files[k][n])
    BY <1>7, <1>8, <1>9
  <2>3. \A k \in Level : \A n, m \in FileNumbers(k)' : n < m =>
          \A t \in ToSet(files'[k][n]), u \in ToSet(files'[k][m]) : t < u
    BY <2>2 DEF FilesInv
  <2>4. \A h, k \in Level : h # k =>
          \A n \in FileNumbers(h)', m \in FileNumbers(k)' :
             ToSet(files'[h][n]) \cap ToSet(files'[k][m]) = {}
    BY <2>2 DEF FilesInv
  <2> QED BY <1>11, <2>1, <2>3, <2>4 DEF FilesInv
<1> QED BY <1>4, <1>10, <1>12

LEMMA OldestRemoved ==
    ASSUME ShowTypeOK, FilesInv, NEW f \in File, RemoveOldest(f)
    PROVE  ShowTypeOK' /\ FilesInv' /\ StoreGrows
<1>1. ShowTypeOK'
  BY DEF RemoveOldest, ShowTypeOK, command
<1>2. UNCHANGED <<files, clock, known>>
  BY DEF RemoveOldest, command
<1>3. StoreGrows
  BY <1>2 DEF StoreGrows, FileNumbers
<1> QED BY <1>1, <1>2, <1>3, SameFiles

LEMMA ServiceKeepsShowInv ==
    ASSUME ShowInv, ShowTypeOK', FilesInv', StoreGrows, UNCHANGED command, removed \subseteq removed'
    PROVE  ShowInv'
<1>1. /\ progress' = progress /\ listed' = listed /\ collected' = collected
      /\ counts' = counts /\ known' = known
  BY DEF command
<1>2. Selected \subseteq Level
  BY ShowAssumption
<1>3. \A l : Placed(l)' = Placed(l)
  BY <1>1 DEF Placed
<1>4. \A t, l : Covered(t, l)' <=> Covered(t, l)
  BY <1>1, <1>3 DEF Covered
<1>5. ASSUME ListedInv PROVE ListedInv'
  BY <1>1, <1>2, <1>5 DEF ListedInv, NewestFirst, StoreGrows
<1>6. ASSUME CollectedInv PROVE CollectedInv'
  <2>1. ASSUME NEW i \in 1..Len(collected)
        PROVE  /\ collected[i].level \in Selected
               /\ \E n \in FileNumbers(collected[i].level)' :
                     /\ collected[i].time \in ToSet(files'[collected[i].level][n])
                     /\ \A f \in ToSet(listed) :
                           f.level = collected[i].level => f.sequence < n
    <3>1. PICK n \in FileNumbers(collected[i].level) :
             /\ collected[i].time \in ToSet(files[collected[i].level][n])
             /\ \A f \in ToSet(listed) : f.level = collected[i].level => f.sequence < n
      BY <1>6 DEF CollectedInv
    <3>2. collected[i].level \in Selected /\ collected[i].level \in Level
      BY <1>2, <1>6 DEF CollectedInv
    <3>3. n \in FileNumbers(collected[i].level)'
          /\ collected[i].time \in ToSet(files'[collected[i].level][n])
      BY <1>1, <3>1, <3>2 DEF StoreGrows
    <3> QED BY <3>1, <3>2, <3>3
  <2> QED BY <1>1, <1>3, <1>6, <2>1 DEF CollectedInv
<1>7. ASSUME CoveredInv PROVE CoveredInv'
  <2>1. ASSUME NEW l \in Selected, NEW n \in 1..MaxFiles, n \in FileNumbers(l)',
               [level |-> l, sequence |-> n] \notin removed',
               [level |-> l, sequence |-> n] \notin ToSet(listed),
               NEW t \in known \cap ToSet(files'[l][n])
        PROVE  Covered(t, l)
    <3>1. n \in FileNumbers(l) /\ t \in ToSet(files[l][n])
      BY <1>2, <2>1 DEF StoreGrows
    <3>2. [level |-> l, sequence |-> n] \notin removed
      BY <2>1
    <3> QED BY <1>7, <2>1, <3>1, <3>2 DEF CoveredInv
  <2> QED BY <1>1, <1>4, <2>1 DEF CoveredInv
<1> QED BY <1>1, <1>5, <1>6, <1>7 DEF ShowInv

LEMMA ShowInitInv == ShowInit => ShowInv
<1> SUFFICES ASSUME ShowInit PROVE ShowInv
  OBVIOUS
<1>1. /\ <<>> \in Seq(Time) /\ <<>> \in Seq(File) /\ <<>> \in Seq(Record) /\ Len(<<>>) = 0
      /\ <<<<>>>> \in Seq(Seq(Time)) /\ Len(<<<<>>>>) = 1
      /\ 0 \in 0..MaxRecords /\ 1 \in 1..MaxFiles /\ 0 \in 0..TailSize
  BY EmptySeq, ShowAssumption
<1>2. ShowTypeOK
  BY <1>1, ShowAssumption DEF ShowInit, ShowTypeOK
<1>3. \A l \in Level : FileNumbers(l) = {1} /\ files[l][1] = <<>>
  BY <1>1 DEF ShowInit, FileNumbers
<1>4. ToSet(<<>>) = {}
  BY <1>1 DEF ToSet
<1>5. FilesInv
  BY <1>1, <1>3, <1>4 DEF FilesInv, ShowInit
<1> QED BY <1>2, <1>5 DEF ShowInv, ShowInit

-----------------------------------------------------------------------------
LEMMA OrderFacts ==
    ASSUME NEW S, IsFiniteSet(S), NEW order \in SetToSeqs(S)
    PROVE  /\ order \in Seq(S) /\ Len(order) = Cardinality(S) /\ Len(order) \in Nat
           /\ \A i, j \in 1..Len(order) : i # j => order[i] # order[j]
           /\ \A x \in S : \E i \in 1..Len(order) : order[i] = x
<1> DEFINE n == Cardinality(S)
<1>1. n \in Nat
  BY FS_CardinalityType
<1>2. order \in [1..n -> S] /\ \A i, j \in 1..n : i # j => order[i] # order[j]
  BY DEF SetToSeqs
<1>3. order \in Seq(S) /\ Len(order) = n
  BY <1>1, <1>2
<1>4. IsFiniteSet(1..n) /\ Cardinality(1..n) = n
  BY <1>1, FS_Interval
<1>5. order \in Injection(1..n, S)
  BY <1>2 DEF Injection, IsInjective
<1>6. order \in Surjection(1..n, S)
  BY <1>4, <1>5, FS_Injection
<1> HIDE DEF n
<1>7. \A x \in S : \E i \in 1..n : order[i] = x
  BY <1>6 DEF Surjection
<1> QED BY <1>1, <1>2, <1>3, <1>7 DEF n

LEMMA FileIsFinite == IsFiniteSet(File)
<1> DEFINE Places == Level \X (1..MaxFiles)
           fileAt == [p \in Places |-> [level |-> p[1], sequence |-> p[2]]]
<1>1. IsFiniteSet(Places)
  <2>1. 1 \in Int /\ MaxFiles \in Int /\ IsFiniteSet(Level)
    BY ShowAssumption
  <2>2. IsFiniteSet(1..MaxFiles)
    BY <2>1, FS_Interval
  <2> QED BY <2>1, <2>2, FS_Product
<1>2. fileAt \in Surjection(Places, File)
  <2>1. fileAt \in [Places -> File]
    BY DEF File
  <2>2. ASSUME NEW f \in File PROVE \E p \in Places : fileAt[p] = f
    <3>1. <<f.level, f.sequence>> \in Places /\ f = [level |-> f.level, sequence |-> f.sequence]
      BY DEF File
    <3> QED BY <3>1
  <2> QED BY <2>1, <2>2 DEF Surjection
<1> QED BY <1>1, <1>2, FS_Surjection

LEMMA NewerFacts ==
    ASSUME NEW S, NEW s \in Seq(S), NEW n \in Nat
    PROVE  /\ Newer(s, n) \in Seq(S)
           /\ Len(Newer(s, n)) = IF Len(s) > n THEN n ELSE Len(s)
           /\ \A i \in 1..Len(Newer(s, n)) :
                 Newer(s, n)[i] = s[i + (Len(s) - Len(Newer(s, n)))]
<1>1. Len(s) \in Nat /\ \A i \in 1..Len(s) : s[i] \in S
  BY LenProperties, ElementOfSeq
<1>2. ASSUME NEW m \in Nat \ {0}, m <= Len(s) + 1
      PROVE  /\ SubSeq(s, m, Len(s)) \in Seq(S)
             /\ Len(SubSeq(s, m, Len(s))) = Len(s) - m + 1
             /\ \A i \in 1..Len(s) - m + 1 : SubSeq(s, m, Len(s))[i] = s[m + i - 1]
  <2>1. /\ m \in Int /\ Len(s) \in Int /\ \A i \in m..Len(s) : s[i] \in S
        /\ (IF m <= Len(s) THEN Len(s) - m + 1 ELSE 0) = Len(s) - m + 1
    BY <1>1, <1>2
  <2>2. /\ SubSeq(s, m, Len(s)) \in Seq(S)
        /\ Len(SubSeq(s, m, Len(s))) = IF m <= Len(s) THEN Len(s) - m + 1 ELSE 0
        /\ \A i \in 1..Len(s) - m + 1 : SubSeq(s, m, Len(s))[i] = s[m + i - 1]
    BY <2>1, SubSeqProperties
  <2> QED BY <2>1, <2>2
<1>3. CASE Len(s) > n
  <2>1. /\ Len(s) - n + 1 \in Nat \ {0} /\ Len(s) - n + 1 <= Len(s) + 1
        /\ Len(s) - (Len(s) - n + 1) + 1 = n
        /\ \A i \in 1..n : Len(s) - n + 1 + i - 1 = i + (Len(s) - n)
    BY <1>1, <1>3
  <2>2. Newer(s, n) = SubSeq(s, Len(s) - n + 1, Len(s))
    BY <1>3 DEF Newer
  <2> QED BY <1>2, <1>3, <2>1, <2>2
<1>4. CASE ~ (Len(s) > n)
  <2>1. /\ 1 \in Nat \ {0} /\ 1 <= Len(s) + 1 /\ Len(s) - 1 + 1 = Len(s)
        /\ \A i \in 1..Len(s) : 1 + i - 1 = i + (Len(s) - Len(s))
    BY <1>1
  <2>2. Newer(s, n) = SubSeq(s, 1, Len(s))
    BY <1>4 DEF Newer
  <2> QED BY <1>2, <1>4, <2>1, <2>2
<1> QED BY <1>3, <1>4

LEMMA ListKeepsShowInv ==
    ASSUME ShowInv, List PROVE ShowInv'
<1>1. /\ files' = files /\ removed' = removed /\ clock' = clock /\ progress' = "read"
      /\ collected' = collected /\ counts' = counts /\ shown' = shown
      /\ collected = <<>> /\ counts = [l \in Level |-> 0] /\ ShowTypeOK
  BY DEF List, ShowInv, store
<1>2. IsFiniteSet(Wanted(Present)) /\ Wanted(Present) \subseteq File
  <2>1. Wanted(Present) \in SUBSET File
    BY DEF Wanted, Present
  <2> QED BY <2>1, FileIsFinite, FS_Subset
<1>3. /\ listed' \in Seq(Wanted(Present)) /\ Len(listed') \in Nat /\ NewestFirst(listed')
      /\ \A i, j \in 1..Len(listed') : i # j => listed'[i] # listed'[j]
      /\ \A f \in Wanted(Present) : \E i \in 1..Len(listed') : listed'[i] = f
  BY <1>2, OrderFacts DEF List
<1>4. \A i \in 1..Len(listed') : listed'[i] \in Wanted(Present) /\ listed'[i] \in File
  BY <1>2, <1>3, ElementOfSeq
<1>5. ToSet(listed') = Wanted(Present)
  <2>1. ASSUME NEW f \in Wanted(Present) PROVE f \in ToSet(listed')
    <3>1. PICK i \in 1..Len(listed') : listed'[i] = f
      BY <1>3
    <3> QED BY <1>3, <3>1, Members
  <2>2. ToSet(listed') \subseteq Wanted(Present)
    BY <1>3, Members
  <2> QED BY <2>1, <2>2
<1>6. Selected \subseteq Level
  BY ShowAssumption
<1>7. known' \subseteq Time /\ \A t \in known' : t <= clock
  <2> SUFFICES ASSUME NEW f \in Wanted(Present), NEW t \in ToSet(files[f.level][f.sequence])
               PROVE  t \in Time /\ t <= clock
    BY DEF List, In
  <2>1. f.level \in Level /\ f.sequence \in FileNumbers(f.level)
    BY <1>1, <1>2, FileFacts DEF Wanted, Present, FileNumbers, File
  <2>2. files[f.level][f.sequence] \in Seq(Time)
    BY <1>1, <2>1, FileFacts
  <2> QED BY <2>1, <2>2, Members DEF ShowInv, FilesInv
<1>8. ShowTypeOK'
  <2>1. listed' \in Seq(File)
    BY <1>3, <1>4, IsASeq
  <2> QED BY <1>1, <1>7, <2>1 DEF ShowTypeOK
<1>9. FilesInv'
  BY <1>1, <1>7 DEF ShowInv, FilesInv, FileNumbers
<1>10. ListedInv'
  <2>1. ASSUME NEW f \in Wanted(Present)
        PROVE  f.level \in Selected /\ f.sequence \in FileNumbers(f.level)
    BY <1>1, <1>2, FileFacts DEF Wanted, Present, FileNumbers, File
  <2>2. NewestFirst(listed)'
    BY <1>3 DEF NewestFirst
  <2> QED BY <1>1, <1>3, <1>4, <2>1, <2>2 DEF ListedInv, FileNumbers
<1>11. CollectedInv'
  <2>1. Len(<<>>) = 0 /\ \A l : Placed(l)' = {}
    BY <1>1, EmptySeq DEF Placed
  <2>2. \A l \in Level : Cardinality(Placed(l)') = counts'[l]
    BY <1>1, <2>1, FS_EmptySet
  <2> QED BY <1>1, <2>1, <2>2 DEF CollectedInv
<1>12. CoveredInv'
  <2>1. ASSUME NEW l \in Selected, NEW n \in 1..MaxFiles, n \in FileNumbers(l),
               [level |-> l, sequence |-> n] \notin removed
        PROVE  [level |-> l, sequence |-> n] \in Wanted(Present)
    BY <1>6, <2>1 DEF Wanted, Present, File, FileNumbers
  <2> QED BY <1>1, <1>5, <2>1 DEF CoveredInv, FileNumbers
<1> QED BY <1>1, <1>8, <1>9, <1>10, <1>11, <1>12 DEF ShowInv

-----------------------------------------------------------------------------
(* What one file gives: at most what its level still needs, the newest.    *)
Taken ==
    LET f == Head(listed)
    IN  IF f \in removed THEN <<>>
        ELSE Newer(files[f.level][f.sequence], Remaining(f.level))

LEMMA TakenFacts ==
    ASSUME ShowInv, ListedInv, listed # <<>>,
           NEW l, l = Head(listed).level, NEW n, n = Head(listed).sequence
    PROVE  /\ Head(listed) \in File /\ Head(listed) = [level |-> l, sequence |-> n]
           /\ l \in Selected /\ l \in Level /\ n \in FileNumbers(l)
           /\ Taken \in Seq(Time) /\ Len(Taken) \in Nat
           /\ Remaining(l) \in Nat /\ Len(Taken) <= Remaining(l)
           /\ counts[l] \in Nat /\ counts[l] + Remaining(l) = TailSize
           /\ \A i \in 1..Len(Taken) : Taken[i] \in ToSet(files[l][n])
           /\ \A i, j \in 1..Len(Taken) : i < j => Taken[i] < Taken[j]
           /\ Head(listed) \notin removed => \A t \in ToSet(files[l][n]) :
                 \/ \E i \in 1..Len(Taken) : Taken[i] = t
                 \/ Len(Taken) = Remaining(l) /\ \A i \in 1..Len(Taken) : Taken[i] > t
<1> DEFINE s == files[l][n]
<1>1. /\ ShowTypeOK /\ listed \in Seq(File) /\ Len(listed) \in Nat \ {0}
      /\ 1 \in 1..Len(listed) /\ Head(listed) = listed[1]
  <2>1. ShowTypeOK /\ listed \in Seq(File)
    BY DEF ShowInv, ShowTypeOK
  <2>2. Len(listed) \in Nat \ {0}
    BY <2>1, EmptySeq
  <2> QED BY <2>1, <2>2
<1>2. /\ Head(listed) \in File /\ Head(listed) = [level |-> l, sequence |-> n]
      /\ l \in Selected /\ l \in Level /\ n \in FileNumbers(l)
  <2>1. Head(listed) \in File
    BY <1>1, ElementOfSeq
  <2>2. l \in Selected /\ n \in FileNumbers(l)
    BY <1>1 DEF ListedInv
  <2> QED BY <2>1, <2>2, ShowAssumption DEF File
<1>3. s \in Seq(Time) /\ Len(s) \in Nat
  BY <1>1, <1>2, FileFacts
<1>4. counts[l] \in Nat /\ Remaining(l) \in Nat /\ counts[l] + Remaining(l) = TailSize
  <2>1. counts[l] \in 0..TailSize /\ TailSize \in Nat
    BY <1>1, <1>2, ShowAssumption DEF ShowTypeOK
  <2> QED BY <2>1 DEF Remaining
<1>5. CASE Head(listed) \in removed
  <2>1. Taken = <<>>
    BY <1>5 DEF Taken
  <2> QED BY <1>2, <1>4, <1>5, <2>1, EmptySeq
<1>6. CASE Head(listed) \notin removed
  <2>1. Taken = Newer(s, Remaining(l))
    BY <1>6 DEF Taken
  <2> DEFINE gap == Len(s) - Len(Taken)
  <2>2. /\ Taken \in Seq(Time)
        /\ Len(Taken) = IF Len(s) > Remaining(l) THEN Remaining(l) ELSE Len(s)
        /\ \A i \in 1..Len(Taken) : Taken[i] = s[i + (Len(s) - Len(Taken))]
    <3> HIDE DEF s
    <3> QED BY <1>3, <1>4, <2>1, NewerFacts
  <2> HIDE DEF s
  <2>3. /\ Len(Taken) \in Nat /\ Len(Taken) <= Remaining(l) /\ gap \in Nat
        /\ gap > 0 => Len(Taken) = Remaining(l)
        /\ Len(Taken) = Len(s) - gap
        /\ \A i \in 1..Len(Taken) : i + gap \in 1..Len(s) /\ Taken[i] = s[i + gap]
    BY <1>3, <1>4, <2>2
  <2> HIDE DEF gap
  <2>4. \A i, j \in 1..Len(s) : i < j => s[i] < s[j]
    BY <1>2 DEF s, ShowInv, FilesInv
  <2>5. \A i \in 1..Len(Taken) : Taken[i] \in ToSet(s)
    BY <1>3, <2>3, Members
  <2>6. \A i, j \in 1..Len(Taken) : i < j => Taken[i] < Taken[j]
    <3> SUFFICES ASSUME NEW i \in 1..Len(Taken), NEW j \in 1..Len(Taken), i < j
                 PROVE  Taken[i] < Taken[j]
      OBVIOUS
    <3>1. i + gap < j + gap
      BY <2>3
    <3> QED BY <2>3, <2>4, <3>1
  <2>7. ASSUME NEW t \in ToSet(s)
        PROVE  \/ \E i \in 1..Len(Taken) : Taken[i] = t
               \/ Len(Taken) = Remaining(l) /\ \A i \in 1..Len(Taken) : Taken[i] > t
    <3>1. PICK j \in 1..Len(s) : s[j] = t
      BY <1>3, Members
    <3>2. t \in Nat
      <4>1. t \in Time
        BY <1>3, <3>1, Members
      <4> QED BY <4>1 DEF Time
    <3>3. CASE j > gap
      <4>1. j - gap \in 1..Len(Taken) /\ (j - gap) + gap = j
        BY <1>3, <2>3, <3>3
      <4> QED BY <2>3, <3>1, <4>1
    <3>4. CASE ~ (j > gap)
      <4>1. gap > 0 /\ \A i \in 1..Len(Taken) : j < i + gap
        BY <1>3, <2>3, <3>4
      <4>2. \A i \in 1..Len(Taken) : t < Taken[i] /\ Taken[i] \in Nat
        <5> SUFFICES ASSUME NEW i \in 1..Len(Taken) PROVE t < Taken[i] /\ Taken[i] \in Nat
          OBVIOUS
        <5>1. t < Taken[i]
          BY <2>3, <2>4, <3>1, <4>1
        <5>2. Taken[i] \in Time
          BY <2>2, ElementOfSeq
        <5> QED BY <5>1, <5>2 DEF Time
      <4> QED BY <2>3, <3>2, <4>1, <4>2
    <3> QED BY <3>3, <3>4
  <2> QED BY <1>2, <1>4, <2>2, <2>3, <2>5, <2>6, <2>7 DEF s
<1> QED BY <1>5, <1>6

(* What is collected once the file has been read. *)
LEMMA CollectedGrows ==
    ASSUME ShowInv, ListedInv, ReadFile, NEW l, l = Head(listed).level
    PROVE  /\ collected' \in Seq(Record) /\ Len(collected) \in Nat
           /\ Len(collected') = Len(collected) + Len(Taken)
           /\ \A i \in 1..Len(collected) : collected'[i] = collected[i]
           /\ \A i \in 1..Len(Taken) : /\ collected'[Len(collected) + i].level = l
                                         /\ collected'[Len(collected) + i].time = Taken[i]
           /\ \A k : Placed(k)' = IF k = l
                 THEN Placed(k) \cup (Len(collected) + 1)..(Len(collected) + Len(Taken))
                 ELSE Placed(k)
<1> DEFINE new == [i \in 1..Len(Taken) |-> [level |-> l, time |-> Taken[i]]]
           size == Len(collected)
<1>1. /\ l \in Level /\ Taken \in Seq(Time) /\ Len(Taken) \in Nat
      /\ collected \in Seq(Record) /\ size \in Nat
  <2>1. listed # <<>>
    BY DEF ReadFile
  <2>2. l \in Level /\ Taken \in Seq(Time) /\ Len(Taken) \in Nat
    BY <2>1, TakenFacts
  <2>3. collected \in Seq(Record)
    BY DEF ShowInv, ShowTypeOK
  <2> QED BY <2>2, <2>3, LenProperties
<1>2. new \in Seq(Record) /\ Len(new) = Len(Taken)
  <2>1. \A i \in 1..Len(Taken) : [level |-> l, time |-> Taken[i]] \in Record
    BY <1>1, ElementOfSeq DEF Record
  <2> QED BY <1>1, <2>1
<1>3. collected' = collected \o new
  BY DEF ReadFile, Taken
<1>4. /\ collected' \in Seq(Record) /\ Len(collected') = size + Len(Taken)
      /\ \A i \in 1..size + Len(Taken) :
            collected'[i] = IF i <= size THEN collected[i] ELSE new[i - size]
  <2> HIDE DEF new, size
  <2>1. /\ collected \o new \in Seq(Record)
        /\ Len(collected \o new) = Len(collected) + Len(new)
        /\ \A i \in 1..Len(collected) + Len(new) :
              (collected \o new)[i] =
                 IF i <= Len(collected) THEN collected[i] ELSE new[i - Len(collected)]
    BY <1>1, <1>2, ConcatProperties
  <2> QED BY <1>2, <1>3, <2>1 DEF size
<1> HIDE DEF size
<1>5. \A i \in 1..size : collected'[i] = collected[i]
  <2> SUFFICES ASSUME NEW i \in 1..size PROVE collected'[i] = collected[i]
    OBVIOUS
  <2>1. i \in 1..size + Len(Taken) /\ i <= size
    BY <1>1
  <2> QED BY <1>4, <2>1
<1>6. \A i \in 1..Len(Taken) :
         collected'[size + i].level = l /\ collected'[size + i].time = Taken[i]
  <2> SUFFICES ASSUME NEW i \in 1..Len(Taken)
               PROVE  collected'[size + i].level = l /\ collected'[size + i].time = Taken[i]
    OBVIOUS
  <2>1. size + i \in 1..size + Len(Taken) /\ ~ (size + i <= size) /\ (size + i) - size = i
    BY <1>1
  <2>2. collected'[size + i] = [level |-> l, time |-> Taken[i]]
    BY <1>4, <2>1
  <2> QED BY <2>2
<1>7. \A i \in (size + 1)..(size + Len(Taken)) : collected'[i].level = l
  <2> SUFFICES ASSUME NEW i \in (size + 1)..(size + Len(Taken)) PROVE collected'[i].level = l
    OBVIOUS
  <2>1. i - size \in 1..Len(Taken) /\ size + (i - size) = i
    BY <1>1
  <2>2. collected'[size + (i - size)].level = l
    BY <1>6, <2>1
  <2> QED BY <2>1, <2>2
<1>8. 1..size + Len(Taken) = (1..size) \cup ((size + 1)..(size + Len(Taken)))
  BY <1>1
<1>9. ASSUME NEW k
      PROVE  Placed(k)' = IF k = l THEN Placed(k) \cup (size + 1)..(size + Len(Taken))
                          ELSE Placed(k)
  <2>1. Placed(k)' = {i \in 1..size + Len(Taken) : collected'[i].level = k}
    BY <1>4 DEF Placed
  <2>2. Placed(k) = {i \in 1..size : collected[i].level = k}
    BY DEF Placed, size
  <2> QED BY <1>5, <1>7, <1>8, <2>1, <2>2
<1> QED BY <1>1, <1>4, <1>5, <1>6, <1>9 DEF size

LEMMA RestOfListed ==
    ASSUME ShowInv, ListedInv, ReadFile
    PROVE  /\ listed' \in Seq(File) /\ ListedInv'
           /\ ToSet(listed) = ToSet(listed') \cup {Head(listed)}
           /\ \A f \in ToSet(listed') : f.level = Head(listed).level =>
                 f.sequence < Head(listed).sequence
<1>1. /\ listed \in Seq(File) /\ listed # <<>> /\ listed' = Tail(listed)
      /\ files' = files /\ ShowTypeOK
  BY DEF ReadFile, ShowInv, ShowTypeOK, store
<1>2. /\ listed' \in Seq(File) /\ Len(listed) \in Nat \ {0} /\ Len(listed') = Len(listed) - 1
      /\ \A i \in 1..Len(listed') : listed'[i] = listed[i + 1]
      /\ Head(listed) = listed[1] /\ 1 \in 1..Len(listed)
  <2>1. Len(listed) \in Nat \ {0}
    BY <1>1, EmptySeq
  <2> QED BY <1>1, <2>1, HeadTailProperties
<1>3. \A i \in 1..Len(listed') : i + 1 \in 1..Len(listed) /\ i + 1 # 1 /\ 1 < i + 1
  BY <1>2
<1>4. ListedInv'
  <2>1. NewestFirst(listed)'
    <3> SUFFICES ASSUME NEW i \in 1..Len(listed'), NEW j \in 1..Len(listed'), i < j
                 PROVE  listed'[i].sequence >= listed'[j].sequence
      BY DEF NewestFirst
    <3>1. i + 1 < j + 1
      BY <1>2
    <3> QED BY <1>2, <1>3, <3>1 DEF ListedInv, NewestFirst
  <2>2. ASSUME NEW i \in 1..Len(listed'), NEW j \in 1..Len(listed'), i # j
        PROVE  listed'[i] # listed'[j]
    <3>1. i + 1 # j + 1
      BY <1>2, <2>2
    <3> QED BY <1>2, <1>3, <3>1 DEF ListedInv
  <2>3. ASSUME NEW i \in 1..Len(listed')
        PROVE  /\ listed'[i].level \in Selected
               /\ listed'[i].sequence \in FileNumbers(listed'[i].level)
    BY <1>2, <1>3 DEF ListedInv
  <2> QED BY <1>1, <2>1, <2>2, <2>3 DEF ListedInv, FileNumbers
<1>5. ToSet(listed) = ToSet(listed') \cup {Head(listed)}
  <2>1. ASSUME NEW f \in ToSet(listed) PROVE f \in ToSet(listed') \/ f = Head(listed)
    <3>1. PICK i \in 1..Len(listed) : listed[i] = f
      BY <1>1, Members
    <3>2. CASE i = 1
      BY <1>2, <3>1, <3>2
    <3>3. CASE i # 1
      <4>1. i - 1 \in 1..Len(listed') /\ (i - 1) + 1 = i
        BY <1>2, <3>3
      <4>2. listed'[i - 1] = f
        BY <1>2, <3>1, <4>1
      <4> QED BY <1>2, <4>1, <4>2, Members
    <3> QED BY <3>2, <3>3
  <2>2. ASSUME NEW f \in ToSet(listed') PROVE f \in ToSet(listed)
    <3>1. PICK i \in 1..Len(listed') : listed'[i] = f
      BY <1>2, Members
    <3> QED BY <1>1, <1>2, <1>3, <3>1, Members
  <2>3. Head(listed) \in ToSet(listed)
    BY <1>1, <1>2, Members
  <2> QED BY <2>1, <2>2, <2>3
<1>6. ASSUME NEW f \in ToSet(listed'), f.level = Head(listed).level
      PROVE  f.sequence < Head(listed).sequence
  <2>1. PICK i \in 1..Len(listed') : listed'[i] = f
    BY <1>2, Members
  <2>2. /\ f = listed[i + 1] /\ f # listed[1] /\ listed[1].sequence >= f.sequence
    BY <1>2, <1>3, <2>1 DEF ListedInv, NewestFirst
  <2>3. f \in File /\ listed[1] \in File
    BY <1>1, <1>2, <1>3, <2>2, ElementOfSeq
  <2>4. f.sequence \in Nat /\ listed[1].sequence \in Nat
    BY <2>3, ShowAssumption DEF File
  <2>5. /\ f = [level |-> f.level, sequence |-> f.sequence]
        /\ listed[1] = [level |-> listed[1].level, sequence |-> listed[1].sequence]
    BY <2>3 DEF File
  <2>6. f.sequence # listed[1].sequence
    BY <1>2, <1>6, <2>2, <2>5
  <2> QED BY <1>2, <2>2, <2>4, <2>6
<1> QED BY <1>2, <1>4, <1>5, <1>6

LEMMA PlacedIsFinite ==
    ASSUME ShowTypeOK, NEW l
    PROVE  IsFiniteSet(Placed(l)) /\ Placed(l) \subseteq 1..Len(collected)
<1>1. Len(collected) \in Nat /\ Placed(l) \in SUBSET (1..Len(collected))
  BY LenProperties DEF ShowTypeOK, Placed
<1>2. IsFiniteSet(1..Len(collected))
  BY <1>1, FS_Interval
<1> QED BY <1>1, <1>2, FS_Subset

LEMMA CountsAgree ==
    ASSUME ShowInv, ListedInv, CollectedInv, ReadFile
    PROVE  /\ counts' \in [Level -> 0..TailSize]
           /\ \A k \in Level : Cardinality(Placed(k)') = counts'[k]
<1>1. PICK l : l = Head(listed).level
  OBVIOUS
<1> DEFINE size == Len(collected)
<1>2. /\ ShowTypeOK /\ counts \in [Level -> 0..TailSize] /\ TailSize \in Nat /\ l \in Level
      /\ Len(Taken) \in Nat /\ counts[l] \in Nat /\ counts[l] + Len(Taken) <= TailSize
      /\ size \in Nat
      /\ counts' = [counts EXCEPT ![l] = counts[l] + Len(Taken)]
  <2>1. listed # <<>> /\ counts' = [counts EXCEPT ![l] = counts[l] + Len(Taken)]
    BY <1>1 DEF ReadFile, Taken
  <2>2. ShowTypeOK /\ counts \in [Level -> 0..TailSize] /\ TailSize \in Nat
    BY ShowAssumption DEF ShowInv, ShowTypeOK
  <2>3. /\ l \in Level /\ Len(Taken) \in Nat /\ Remaining(l) \in Nat /\ Len(Taken) <= Remaining(l)
        /\ counts[l] \in Nat /\ counts[l] + Remaining(l) = TailSize
    BY <1>1, <2>1, TakenFacts
  <2>4. size \in Nat
    BY <2>2, LenProperties DEF ShowTypeOK
  <2> QED BY <2>1, <2>2, <2>3, <2>4
<1>3. \A k : Placed(k)' = IF k = l THEN Placed(k) \cup (size + 1)..(size + Len(Taken))
                         ELSE Placed(k)
  BY <1>1, CollectedGrows
<1> HIDE DEF size
<1>4. counts' \in [Level -> 0..TailSize]
  BY <1>2
<1>5. Cardinality(Placed(l)') = counts[l] + Len(Taken)
  <2> DEFINE new == (size + 1)..(size + Len(Taken))
  <2>1. IsFiniteSet(new) /\ Cardinality(new) = Len(Taken)
    <3>1. PICK a, b \in Int : a = size + 1 /\ b = size + Len(Taken)
      BY <1>2
    <3>2. IsFiniteSet(a..b) /\ Cardinality(a..b) = IF a > b THEN 0 ELSE b - a + 1
      BY FS_Interval
    <3>3. (IF a > b THEN 0 ELSE b - a + 1) = Len(Taken)
      BY <1>2, <3>1
    <3> QED BY <3>1, <3>2, <3>3
  <2>2. IsFiniteSet(Placed(l)) /\ Cardinality(Placed(l)) = counts[l]
    BY <1>2, PlacedIsFinite DEF CollectedInv
  <2>3. Placed(l) \cap new = {}
    <3>1. Placed(l) \subseteq 1..size
      BY <1>2, PlacedIsFinite DEF size
    <3> QED BY <1>2, <3>1
  <2> HIDE DEF new
  <2>4. Cardinality(Placed(l) \cup new) =
           Cardinality(Placed(l)) + Cardinality(new) - Cardinality(Placed(l) \cap new)
    BY <2>1, <2>2, FS_Union
  <2>5. Cardinality(Placed(l) \cap new) = 0
    BY <2>3, FS_EmptySet
  <2>6. Placed(l)' = Placed(l) \cup new
    BY <1>3 DEF new
  <2> QED BY <1>2, <2>1, <2>2, <2>4, <2>5, <2>6
<1>6. ASSUME NEW k \in Level PROVE Cardinality(Placed(k)') = counts'[k]
  <2>1. CASE k = l
    BY <1>2, <1>5, <2>1
  <2>2. CASE k # l
    <3>1. Placed(k)' = Placed(k) /\ counts'[k] = counts[k]
      BY <1>2, <1>3, <2>2
    <3> QED BY <3>1 DEF CollectedInv
  <2> QED BY <2>1, <2>2
<1> QED BY <1>4, <1>6

LEMMA ReadKeepsCollected ==
    ASSUME ShowInv, ListedInv, CollectedInv, ReadFile PROVE CollectedInv'
<1>1. PICK l : l = Head(listed).level
  OBVIOUS
<1>2. PICK n : n = Head(listed).sequence
  OBVIOUS
<1>3. PICK size : size = Len(collected)
  OBVIOUS
<1>4. listed # <<>> /\ files' = files /\ Selected \subseteq Level /\ ShowTypeOK
  BY ShowAssumption DEF ReadFile, store, ShowInv
<1>5. /\ l \in Selected /\ l \in Level /\ n \in FileNumbers(l)
      /\ Taken \in Seq(Time) /\ Len(Taken) \in Nat
      /\ \A i \in 1..Len(Taken) : Taken[i] \in ToSet(files[l][n])
      /\ \A i, j \in 1..Len(Taken) : i < j => Taken[i] < Taken[j]
  BY <1>1, <1>2, <1>4, TakenFacts
<1>6. /\ size \in Nat /\ Len(collected') = size + Len(Taken)
      /\ \A i \in 1..size : collected'[i] = collected[i]
      /\ \A i \in 1..Len(Taken) :
            collected'[size + i].level = l /\ collected'[size + i].time = Taken[i]
  BY <1>1, <1>3, CollectedGrows
<1>7. /\ ToSet(listed) = ToSet(listed') \cup {Head(listed)}
      /\ \A f \in ToSet(listed') : f.level = l => f.sequence < n
  BY <1>1, <1>2, RestOfListed
<1>8. ASSUME NEW i \in 1..Len(collected'), ~ (i \in 1..size)
      PROVE  \E j \in 1..Len(Taken) : i = size + j
  <2>1. i - size \in 1..Len(Taken) /\ i = size + (i - size)
    BY <1>5, <1>6, <1>8
  <2> QED BY <2>1
<1>9. ASSUME NEW i \in 1..size, NEW j \in 1..Len(Taken)
      PROVE  collected'[i].time # collected'[size + j].time
  <2>1. PICK k : k = collected[i].level
    OBVIOUS
  <2>2. PICK m \in FileNumbers(k) :
           /\ collected[i].time \in ToSet(files[k][m])
           /\ \A f \in ToSet(listed) : f.level = k => f.sequence < m
    BY <1>3, <2>1 DEF CollectedInv
  <2>3. k \in Level
    BY <1>3, <1>4, <2>1 DEF CollectedInv
  <2>4. Taken[j] \in ToSet(files[l][n])
    BY <1>5
  <2>5. CASE k = l
    <3>1. n < m
      BY <1>1, <1>2, <1>7, <2>2, <2>5
    <3>2. Taken[j] < collected[i].time
      BY <1>5, <2>2, <2>4, <2>5, <3>1 DEF ShowInv, FilesInv
    <3>3. Taken[j] \in Nat
      <4>1. Taken[j] \in Time
        BY <1>5, ElementOfSeq
      <4> QED BY <4>1 DEF Time
    <3> QED BY <1>6, <3>2, <3>3
  <2>6. CASE k # l
    <3>1. Taken[j] # collected[i].time
      BY <1>5, <2>2, <2>3, <2>4, <2>6 DEF ShowInv, FilesInv
    <3> QED BY <1>6, <3>1
  <2> QED BY <2>5, <2>6
<1>10. ASSUME NEW i \in 1..Len(collected'), NEW j \in 1..Len(collected'), i # j
       PROVE  collected'[i].time # collected'[j].time
  <2>1. CASE i \in 1..size /\ j \in 1..size
    BY <1>3, <1>6, <1>10, <2>1 DEF CollectedInv
  <2>2. CASE i \in 1..size /\ j \notin 1..size
    BY <1>8, <1>9, <2>2
  <2>3. CASE i \notin 1..size /\ j \in 1..size
    BY <1>8, <1>9, <2>3
  <2>4. CASE i \notin 1..size /\ j \notin 1..size
    <3>1. PICK a \in 1..Len(Taken), b \in 1..Len(Taken) : i = size + a /\ j = size + b
      BY <1>8, <2>4
    <3>2. /\ collected'[i].time = Taken[a] /\ collected'[j].time = Taken[b]
          /\ a \in Nat /\ b \in Nat /\ a # b
      BY <1>5, <1>6, <1>10, <3>1
    <3>3. Taken[a] \in Nat /\ Taken[b] \in Nat
      <4>1. Taken[a] \in Time /\ Taken[b] \in Time
        BY <1>5, ElementOfSeq
      <4> QED BY <4>1 DEF Time
    <3>4. a < b \/ b < a
      BY <3>2
    <3>5. Taken[a] < Taken[b] \/ Taken[b] < Taken[a]
      BY <1>5, <3>4
    <3> QED BY <3>2, <3>3, <3>5
  <2> QED BY <2>1, <2>2, <2>3, <2>4
<1>11. ASSUME NEW i \in 1..Len(collected'), NEW k, k = collected'[i].level
       PROVE  /\ k \in Selected
              /\ \E m \in FileNumbers(k) :
                    /\ collected'[i].time \in ToSet(files[k][m])
                    /\ \A f \in ToSet(listed') : f.level = k => f.sequence < m
  <2>1. CASE i \in 1..size
    <3>1. /\ collected[i].level \in Selected
          /\ \E m \in FileNumbers(collected[i].level) :
                /\ collected[i].time \in ToSet(files[collected[i].level][m])
                /\ \A f \in ToSet(listed) : f.level = collected[i].level => f.sequence < m
      BY <1>3, <2>1 DEF CollectedInv
    <3>2. collected'[i] = collected[i]
      BY <1>6, <2>1
    <3> QED BY <1>7, <1>11, <3>1, <3>2
  <2>2. CASE i \notin 1..size
    <3>1. PICK j \in 1..Len(Taken) : i = size + j
      BY <1>8, <2>2
    <3>2. k = l /\ collected'[i].time = Taken[j]
      BY <1>6, <1>11, <3>1
    <3> QED BY <1>5, <1>7, <3>2
  <2> QED BY <2>1, <2>2
<1>12. \A k \in Level : Cardinality(Placed(k)') = counts'[k]
  BY CountsAgree
<1> QED BY <1>4, <1>10, <1>11, <1>12 DEF CollectedInv, FileNumbers

LEMMA ReadKeepsCovered ==
    ASSUME ShowInv, ListedInv, CollectedInv, CoveredInv, ReadFile PROVE CoveredInv'
<1>1. PICK l : l = Head(listed).level
  OBVIOUS
<1>2. PICK n : n = Head(listed).sequence
  OBVIOUS
<1>3. PICK size : size = Len(collected)
  OBVIOUS
<1>4. /\ listed # <<>> /\ files' = files /\ removed' = removed /\ known' = known
      /\ Selected \subseteq Level /\ ShowTypeOK
      /\ counts' = [counts EXCEPT ![l] = counts[l] + Len(Taken)]
  BY <1>1, ShowAssumption DEF ReadFile, store, ShowInv, Taken
<1>5. /\ Head(listed) = [level |-> l, sequence |-> n]
      /\ l \in Selected /\ l \in Level /\ n \in FileNumbers(l)
      /\ Taken \in Seq(Time) /\ Len(Taken) \in Nat
      /\ Remaining(l) \in Nat /\ Len(Taken) <= Remaining(l)
      /\ counts[l] \in Nat /\ counts[l] + Remaining(l) = TailSize
      /\ Head(listed) \notin removed => \A t \in ToSet(files[l][n]) :
            \/ \E i \in 1..Len(Taken) : Taken[i] = t
            \/ Len(Taken) = Remaining(l) /\ \A i \in 1..Len(Taken) : Taken[i] > t
  BY <1>1, <1>2, <1>4, TakenFacts
<1>6. /\ size \in Nat /\ Len(collected') = size + Len(Taken)
      /\ \A i \in 1..size : collected'[i] = collected[i]
      /\ \A i \in 1..Len(Taken) :
            collected'[size + i].level = l /\ collected'[size + i].time = Taken[i]
      /\ \A k : Placed(k)' = IF k = l THEN Placed(k) \cup (size + 1)..(size + Len(Taken))
                             ELSE Placed(k)
  BY <1>1, <1>3, CollectedGrows
<1>7. ToSet(listed) = ToSet(listed') \cup {Head(listed)}
  BY RestOfListed
<1>8. \A k : \A i \in Placed(k) :
         i \in Placed(k)' /\ i \in 1..size /\ collected'[i] = collected[i]
  BY <1>3, <1>4, <1>6, PlacedIsFinite
<1>9. ASSUME NEW i \in Placed(l)', i \notin Placed(l)
      PROVE  \E j \in 1..Len(Taken) : collected'[i].time = Taken[j]
  <2>1. i \in (size + 1)..(size + Len(Taken))
    BY <1>6, <1>9
  <2>2. i - size \in 1..Len(Taken) /\ i = size + (i - size)
    BY <1>5, <1>6, <2>1
  <2>3. collected'[size + (i - size)].time = Taken[i - size]
    BY <1>6, <2>2
  <2>4. collected'[i].time = Taken[i - size]
    BY <2>2, <2>3
  <2> QED BY <2>2, <2>4
<1>10. ASSUME NEW k \in Selected, NEW t, Covered(t, k) PROVE Covered(t, k)'
  <2>1. CASE \E i \in Placed(k) : collected[i].time = t
    BY <1>8, <2>1 DEF Covered
  <2>2. CASE counts[k] = TailSize /\ \A i \in Placed(k) : collected[i].time > t
    <3>1. Len(Taken) = 0 \/ k # l
      BY <1>5, <2>2
    <3>2. Placed(k)' = Placed(k) /\ counts'[k] = counts[k]
      <4>1. CASE k # l
        BY <1>4, <1>6, <4>1 DEF ShowTypeOK
      <4>2. CASE Len(Taken) = 0
        <5>1. (size + 1)..(size + Len(Taken)) = {} /\ counts[l] + Len(Taken) = counts[l]
          BY <1>5, <1>6, <4>2
        <5> QED BY <1>4, <1>6, <5>1 DEF ShowTypeOK
      <4> QED BY <3>1, <4>1, <4>2
    <3> QED BY <1>8, <2>2, <3>2 DEF Covered
  <2> QED BY <1>10, <2>1, <2>2 DEF Covered
<1>11. ASSUME Head(listed) \notin removed, NEW t \in ToSet(files[l][n]) PROVE Covered(t, l)'
  <2>1. CASE \E i \in 1..Len(Taken) : Taken[i] = t
    <3>1. PICK i \in 1..Len(Taken) : Taken[i] = t
      BY <2>1
    <3>2. size + i \in (size + 1)..(size + Len(Taken))
      BY <1>5, <1>6
    <3>3. size + i \in Placed(l)' /\ collected'[size + i].time = t
      BY <1>6, <3>1, <3>2
    <3> QED BY <3>3 DEF Covered
  <2>2. CASE Len(Taken) = Remaining(l) /\ \A i \in 1..Len(Taken) : Taken[i] > t
    <3>1. counts'[l] = TailSize
      BY <1>4, <1>5, <2>2 DEF ShowTypeOK
    <3>2. ASSUME NEW i \in Placed(l) PROVE collected[i].time > t
      <4>1. i \in 1..Len(collected) /\ collected[i].level = l
        BY DEF Placed
      <4>2. PICK m \in FileNumbers(l) :
               /\ collected[i].time \in ToSet(files[l][m])
               /\ \A f \in ToSet(listed) : f.level = l => f.sequence < m
        BY <4>1 DEF CollectedInv
      <4>3. n < m
        BY <1>1, <1>2, <1>7, <4>2
      <4>4. t < collected[i].time
        BY <1>5, <1>11, <4>2, <4>3 DEF ShowInv, FilesInv
      <4>5. t \in Nat /\ collected[i].time \in Nat
        <5>1. t \in Time /\ collected[i].time \in Time
          BY <1>4, <1>5, <1>11, <4>2, FileFacts, Members
        <5> QED BY <5>1 DEF Time
      <4> QED BY <4>4, <4>5
    <3>3. \A i \in Placed(l)' : collected'[i].time > t
      BY <1>8, <1>9, <2>2, <3>2
    <3> QED BY <3>1, <3>3 DEF Covered
  <2> QED BY <1>5, <1>11, <2>1, <2>2
<1>12. ASSUME NEW k \in Selected, NEW m \in 1..MaxFiles, m \in FileNumbers(k),
              [level |-> k, sequence |-> m] \notin removed,
              [level |-> k, sequence |-> m] \notin ToSet(listed'),
              NEW t \in known \cap ToSet(files[k][m])
       PROVE  Covered(t, k)'
  <2>1. CASE [level |-> k, sequence |-> m] \in ToSet(listed)
    <3>1. [level |-> k, sequence |-> m] = Head(listed)
      BY <1>7, <1>12, <2>1
    <3>2. k = l /\ m = n
      BY <1>1, <1>2, <3>1
    <3> QED BY <1>11, <1>12, <3>1, <3>2
  <2>2. CASE [level |-> k, sequence |-> m] \notin ToSet(listed)
    <3>1. Covered(t, k)
      BY <1>12, <2>2 DEF CoveredInv
    <3> QED BY <1>10, <3>1
  <2> QED BY <2>1, <2>2
<1> QED BY <1>4, <1>12 DEF CoveredInv, FileNumbers

LEMMA ReadKeepsShowInv ==
    ASSUME ShowInv, ReadFile PROVE ShowInv'
<1>1. progress = "read" /\ progress' = "read" /\ ListedInv /\ CollectedInv /\ CoveredInv
  BY DEF ReadFile, ShowInv
<1>2. /\ counts' \in [Level -> 0..TailSize] /\ listed' \in Seq(File)
      /\ collected' \in Seq(Record) /\ ListedInv'
  BY <1>1, CountsAgree, RestOfListed, CollectedGrows
<1>3. ShowTypeOK' /\ FilesInv'
  BY <1>2, SameFiles DEF ReadFile, ShowInv, ShowTypeOK, store
<1> QED BY <1>1, <1>2, <1>3, ReadKeepsCollected, ReadKeepsCovered DEF ShowInv

LEMMA PlacesInOrder ==
    ASSUME Len(collected) \in Nat, NEW order \in ByTime
    PROVE  /\ order \in Seq(1..Len(collected)) /\ Len(order) = Len(collected)
           /\ \A i, j \in 1..Len(order) : i # j => order[i] # order[j]
           /\ \A p \in 1..Len(collected) : \E i \in 1..Len(order) : order[i] = p
           /\ \A i, j \in 1..Len(order) :
                 i < j => collected[order[i]].time >= collected[order[j]].time
<1> DEFINE S == 1..Len(collected)
<1>1. IsFiniteSet(S) /\ Cardinality(S) = Len(collected)
  BY FirstNumbers
<1>2. /\ order \in SetToSeqs(S)
      /\ \A i, j \in 1..Len(order) :
            i < j => collected[order[i]].time >= collected[order[j]].time
  BY DEF ByTime
<1> HIDE DEF S
<1>3. /\ order \in Seq(S) /\ Len(order) = Cardinality(S)
      /\ \A i, j \in 1..Len(order) : i # j => order[i] # order[j]
      /\ \A x \in S : \E i \in 1..Len(order) : order[i] = x
  BY <1>1, <1>2, OrderFacts
<1> QED BY <1>1, <1>2, <1>3 DEF S

LEMMA FinishKeepsShowInv ==
    ASSUME ShowInv, Finish PROVE ShowInv'
<1>1. PICK size : size = IF Len(collected) > TailSize THEN TailSize ELSE Len(collected)
  OBVIOUS
<1>2. PICK order \in ByTime :
         shown' = [i \in 1..size |-> collected[order[size - i + 1]].time]
  BY <1>1 DEF Finish
<1>3. /\ ShowTypeOK /\ collected \in Seq(Record) /\ Len(collected) \in Nat
      /\ size \in 0..TailSize /\ size <= Len(collected) /\ TailSize \in Nat /\ size \in Nat
  <2>1. ShowTypeOK /\ collected \in Seq(Record) /\ TailSize \in Nat
    BY ShowAssumption DEF ShowInv, ShowTypeOK
  <2>2. Len(collected) \in Nat
    BY <2>1, LenProperties
  <2> QED BY <1>1, <2>1, <2>2
<1>4. Len(order) = Len(collected) /\ order \in Seq(1..Len(collected))
  BY <1>3, PlacesInOrder
<1>5. \A i \in 1..size : collected[order[size - i + 1]].time \in Time
  <2> SUFFICES ASSUME NEW i \in 1..size PROVE collected[order[size - i + 1]].time \in Time
    OBVIOUS
  <2>1. size - i + 1 \in 1..Len(order)
    BY <1>3, <1>4
  <2>2. order[size - i + 1] \in 1..Len(collected)
    BY <1>4, <2>1, ElementOfSeq
  <2>3. collected[order[size - i + 1]] \in Record
    BY <1>3, <2>2, ElementOfSeq
  <2> QED BY <2>3 DEF Record
<1>6. shown' \in Seq(Time) /\ Len(shown') <= TailSize
  BY <1>2, <1>3, <1>5
<1>7. ShowTypeOK'
  BY <1>3, <1>6 DEF Finish, ShowTypeOK, store
<1>8. FilesInv'
  BY SameFiles DEF Finish, ShowInv, store
<1> QED BY <1>7, <1>8 DEF ShowInv, Finish

LEMMA ShowInvAlways == ShowSpec => []ShowInv
<1>1. ASSUME ShowInv, ShowNext PROVE ShowInv'
  <2>1. ASSUME NEW l \in Level, Log(l) PROVE ShowInv'
    BY <1>1, <2>1, LogGrows, ServiceKeepsShowInv DEF ShowInv, Log
  <2>2. ASSUME NEW l \in Level, BeginFile(l) PROVE ShowInv'
    BY <1>1, <2>2, FileBegun, ServiceKeepsShowInv DEF ShowInv, BeginFile
  <2>3. ASSUME NEW f \in File, RemoveOldest(f) PROVE ShowInv'
    BY <1>1, <2>3, OldestRemoved, ServiceKeepsShowInv DEF ShowInv, RemoveOldest
  <2>4. CASE List
    BY <1>1, <2>4, ListKeepsShowInv
  <2>5. CASE ReadFile
    BY <1>1, <2>5, ReadKeepsShowInv
  <2>6. CASE ReadFails
    <3>1. ShowTypeOK' /\ FilesInv'
      BY <1>1, <2>6, SameFiles DEF ReadFails, ShowInv, ShowTypeOK, store
    <3> QED BY <2>6, <3>1 DEF ReadFails, ShowInv
  <2>7. CASE Finish
    BY <1>1, <2>7, FinishKeepsShowInv
  <2> QED BY <1>1, <2>1, <2>2, <2>3, <2>4, <2>5, <2>6, <2>7 DEF ShowNext
<1>2. ASSUME ShowInv, UNCHANGED show PROVE ShowInv'
  <2>1. UNCHANGED <<files, clock, known>> /\ UNCHANGED command /\ removed \subseteq removed'
    BY <1>2 DEF show, store, command
  <2>2. ShowTypeOK'
    BY <1>2 DEF ShowInv, ShowTypeOK, show, store, command
  <2>3. StoreGrows
    BY <2>1 DEF StoreGrows, FileNumbers
  <2>4. FilesInv'
    BY <1>2, <2>1, SameFiles DEF ShowInv
  <2> QED BY <1>2, <2>1, <2>2, <2>3, <2>4, ServiceKeepsShowInv
<1> QED BY <1>1, <1>2, ShowInitInv, PTL DEF ShowSpec

-----------------------------------------------------------------------------
(* What is shown at the end. *)
LEMMA ShownFacts ==
    ASSUME ShowInv, Finish
    PROVE  \E order \in Seq(1..Len(collected)), size \in Nat :
              /\ size = IF Len(collected) > TailSize THEN TailSize ELSE Len(collected)
              /\ Len(order) = Len(collected)
              /\ \A p \in 1..Len(collected) : \E i \in 1..Len(order) : order[i] = p
              /\ \A i \in 1..Len(order) :
                    order[i] \in 1..Len(collected) /\ collected[order[i]].time \in Nat
              /\ \A i, j \in 1..Len(order) :
                    i < j => collected[order[j]].time < collected[order[i]].time
              /\ shown' \in Seq(Nat) /\ Len(shown') = size
              /\ \A i \in 1..size : shown'[i] = collected[order[size - i + 1]].time
<1>1. PICK size : size = IF Len(collected) > TailSize THEN TailSize ELSE Len(collected)
  OBVIOUS
<1>2. PICK order \in ByTime :
         shown' = [i \in 1..size |-> collected[order[size - i + 1]].time]
  BY <1>1 DEF Finish
<1>3. /\ collected \in Seq(Record) /\ Len(collected) \in Nat /\ size \in Nat
      /\ size <= Len(collected) /\ CollectedInv
  <2>1. collected \in Seq(Record) /\ TailSize \in Nat /\ CollectedInv
    BY ShowAssumption DEF ShowInv, ShowTypeOK, Finish
  <2>2. Len(collected) \in Nat
    BY <2>1, LenProperties
  <2> QED BY <1>1, <2>1, <2>2
<1>4. /\ order \in Seq(1..Len(collected)) /\ Len(order) = Len(collected)
      /\ \A i, j \in 1..Len(order) : i # j => order[i] # order[j]
      /\ \A p \in 1..Len(collected) : \E i \in 1..Len(order) : order[i] = p
      /\ \A i, j \in 1..Len(order) :
            i < j => collected[order[i]].time >= collected[order[j]].time
  BY <1>3, PlacesInOrder
<1>5. \A i \in 1..Len(order) :
         order[i] \in 1..Len(collected) /\ collected[order[i]].time \in Nat
  <2> SUFFICES ASSUME NEW i \in 1..Len(order)
               PROVE  order[i] \in 1..Len(collected) /\ collected[order[i]].time \in Nat
    OBVIOUS
  <2>1. order[i] \in 1..Len(collected)
    BY <1>4, ElementOfSeq
  <2>2. collected[order[i]] \in Record
    BY <1>3, <2>1, ElementOfSeq
  <2> QED BY <2>1, <2>2 DEF Record, Time
<1>6. \A i, j \in 1..Len(order) :
         i < j => collected[order[j]].time < collected[order[i]].time
  <2> SUFFICES ASSUME NEW i \in 1..Len(order), NEW j \in 1..Len(order), i < j
               PROVE  collected[order[j]].time < collected[order[i]].time
    OBVIOUS
  <2>1. i # j
    BY <1>3, <1>4
  <2>2. order[i] # order[j] /\ order[i] \in 1..Len(collected) /\ order[j] \in 1..Len(collected)
    BY <1>4, <1>5, <2>1
  <2>3. collected[order[i]].time # collected[order[j]].time
    BY <1>3, <2>2 DEF CollectedInv
  <2>4. collected[order[i]].time >= collected[order[j]].time
    BY <1>4
  <2>5. collected[order[i]].time \in Nat /\ collected[order[j]].time \in Nat
    BY <1>5
  <2> QED BY <2>3, <2>4, <2>5
<1>7. shown' \in Seq(Nat) /\ Len(shown') = size
      /\ \A i \in 1..size : shown'[i] = collected[order[size - i + 1]].time
  <2>1. \A i \in 1..size : size - i + 1 \in 1..Len(order)
    BY <1>3, <1>4
  <2>2. \A i \in 1..size : collected[order[size - i + 1]].time \in Nat
    BY <1>5, <2>1
  <2> QED BY <1>2, <1>3, <2>2
<1> QED BY <1>1, <1>3, <1>4, <1>5, <1>6, <1>7

LEMMA DistinctMembers ==
    ASSUME NEW S, NEW s \in Seq(S), \A i, j \in 1..Len(s) : i # j => s[i] # s[j]
    PROVE  IsFiniteSet(ToSet(s)) /\ Cardinality(ToSet(s)) = Len(s)
<1>1. /\ Len(s) \in Nat /\ s \in [1..Len(s) -> S]
      /\ \A i \in 1..Len(s) : s[i] \in ToSet(s)
      /\ \A t \in ToSet(s) : \E i \in 1..Len(s) : s[i] = t
  BY LenProperties, Members
<1>2. s \in Bijection(1..Len(s), ToSet(s))
  <2>1. s \in [1..Len(s) -> ToSet(s)]
    BY <1>1
  <2> QED BY <1>1, <2>1 DEF Bijection, Injection, Surjection, IsInjective
<1>3. IsFiniteSet(1..Len(s)) /\ Cardinality(1..Len(s)) = Len(s)
  BY <1>1, FirstNumbers
<1> QED BY <1>2, <1>3, FS_Bijection DEF ExistsBijection

LEMMA ShownInOrder ==
    ASSUME ShowInv, Finish
    PROVE  InOrder
<1>1. PICK order \in Seq(1..Len(collected)), size \in Nat :
         /\ size = IF Len(collected) > TailSize THEN TailSize ELSE Len(collected)
         /\ Len(order) = Len(collected)
         /\ \A i \in 1..Len(order) :
               order[i] \in 1..Len(collected) /\ collected[order[i]].time \in Nat
         /\ \A i, j \in 1..Len(order) :
               i < j => collected[order[j]].time < collected[order[i]].time
         /\ shown' \in Seq(Nat) /\ Len(shown') = size
         /\ \A i \in 1..size : shown'[i] = collected[order[size - i + 1]].time
  BY ShownFacts
<1>2. /\ Len(collected) \in Nat /\ size <= Len(collected) /\ CollectedInv
  <2>1. collected \in Seq(Record) /\ TailSize \in Nat /\ CollectedInv
    BY ShowAssumption DEF ShowInv, ShowTypeOK, Finish
  <2>2. Len(collected) \in Nat
    BY <2>1, LenProperties
  <2> QED BY <1>1, <2>1, <2>2
<1>3. \A i \in 1..size : size - i + 1 \in 1..Len(order)
  BY <1>1, <1>2
<1>4. ASSUME NEW i \in 1..Len(shown'), NEW j \in 1..Len(shown'), i < j
      PROVE  shown'[i] < shown'[j]
  <2>1. i \in 1..size /\ j \in 1..size /\ size - j + 1 < size - i + 1
    BY <1>1, <1>4
  <2>2. collected[order[size - i + 1]].time < collected[order[size - j + 1]].time
    BY <1>1, <1>3, <2>1
  <2> QED BY <1>1, <2>1, <2>2
<1>5. ASSUME NEW t \in ToSet(shown')
      PROVE  \E l \in Selected : \E n \in 1..Len(files[l]) : t \in ToSet(files[l][n])
  <2>1. PICK i \in 1..size : shown'[i] = t
    BY <1>1, <1>5, Members
  <2>2. PICK p \in 1..Len(collected) : collected[p].time = t
    BY <1>1, <1>3, <2>1
  <2> QED BY <1>2, <2>2 DEF CollectedInv, FileNumbers
<1> QED BY <1>4, <1>5 DEF InOrder

LEMMA NoGap ==
    ASSUME ShowInv, Finish
    PROVE  NothingRecentMissing
<1>1. PICK order \in Seq(1..Len(collected)), size \in Nat :
         /\ size = IF Len(collected) > TailSize THEN TailSize ELSE Len(collected)
         /\ Len(order) = Len(collected)
         /\ \A p \in 1..Len(collected) : \E i \in 1..Len(order) : order[i] = p
         /\ \A i \in 1..Len(order) :
               order[i] \in 1..Len(collected) /\ collected[order[i]].time \in Nat
         /\ \A i, j \in 1..Len(order) :
               i < j => collected[order[j]].time < collected[order[i]].time
         /\ shown' \in Seq(Nat) /\ Len(shown') = size
         /\ \A i \in 1..size : shown'[i] = collected[order[size - i + 1]].time
  BY ShownFacts
<1>2. /\ Len(collected) \in Nat /\ size <= Len(collected) /\ TailSize \in Nat
      /\ CollectedInv /\ CoveredInv /\ listed = <<>> /\ ShowTypeOK
      /\ Len(order) \in Nat /\ size <= Len(order)
      /\ size < Len(order) => size = TailSize
  <2>1. /\ collected \in Seq(Record) /\ TailSize \in Nat
        /\ CollectedInv /\ CoveredInv /\ listed = <<>> /\ ShowTypeOK
    BY ShowAssumption DEF ShowInv, ShowTypeOK, Finish
  <2>2. Len(collected) \in Nat
    BY <2>1, LenProperties
  <2> QED BY <1>1, <2>1, <2>2
<1>3. Cardinality(ToSet(shown')) = size
  <2>1. \A i, j \in 1..Len(shown') : i < j => shown'[i] < shown'[j]
    BY ShownInOrder DEF InOrder
  <2>2. ASSUME NEW i \in 1..Len(shown'), NEW j \in 1..Len(shown'), i # j
        PROVE  shown'[i] # shown'[j]
    <3>1. shown'[i] \in Nat /\ shown'[j] \in Nat
      BY <1>1, ElementOfSeq
    <3>2. i < j \/ j < i
      BY <2>2
    <3> QED BY <2>1, <3>1, <3>2
  <2> QED BY <1>1, <2>2, DistinctMembers
<1>4. ASSUME NEW t \in Nat, size = TailSize,
             \A k \in 1..size : collected[order[k]].time > t
      PROVE  Cardinality({u \in ToSet(shown') : u > t}) = TailSize
  <2>1. ASSUME NEW u \in ToSet(shown') PROVE u > t
    <3>1. PICK i \in 1..size : shown'[i] = u
      BY <1>1, Members
    <3>2. size - i + 1 \in 1..size
      BY <1>1
    <3> QED BY <1>1, <1>4, <3>1, <3>2
  <2>2. {u \in ToSet(shown') : u > t} = ToSet(shown')
    BY <2>1
  <2> QED BY <1>3, <1>4, <2>2
<1>5. ASSUME NEW t \in known, NEW f \in Wanted(Present),
             t \in ToSet(files[f.level][f.sequence])
      PROVE  \/ t \in ToSet(shown')
             \/ Cardinality({u \in ToSet(shown') : u > t}) = TailSize
  <2>1. PICK l : l = f.level
    OBVIOUS
  <2>2. /\ f = [level |-> l, sequence |-> f.sequence] /\ f \notin removed
        /\ l \in Selected /\ l \in Level
        /\ f.sequence \in 1..MaxFiles /\ f.sequence \in FileNumbers(l)
    BY <1>2, <2>1, FileFacts DEF Wanted, Present, File, FileNumbers
  <2>3. ToSet(<<>>) = {}
    BY EmptySeq DEF ToSet
  <2>4. Covered(t, l)
    BY <1>2, <1>5, <2>1, <2>2, <2>3 DEF CoveredInv
  <2>5. t \in Nat
    BY <1>2 DEF ShowTypeOK, Time
  <2>6. CASE \E i \in Placed(l) : collected[i].time = t
    <3>1. PICK j \in 1..Len(order) : collected[order[j]].time = t
      BY <1>1, <2>6 DEF Placed
    <3>2. CASE j <= size
      <4>1. size - j + 1 \in 1..size /\ size - (size - j + 1) + 1 = j
        BY <1>1, <1>2, <3>2
      <4>2. shown'[size - j + 1] = t
        BY <1>1, <3>1, <4>1
      <4> QED BY <1>1, <4>1, <4>2, Members
    <3>3. CASE ~ (j <= size)
      <4>1. size = TailSize /\ \A k \in 1..size : k \in 1..Len(order) /\ k < j
        BY <1>2, <3>3
      <4>2. \A k \in 1..size : collected[order[k]].time > t
        BY <1>1, <2>5, <3>1, <4>1
      <4> QED BY <1>4, <2>5, <4>1, <4>2
    <3> QED BY <3>2, <3>3
  <2>7. CASE counts[l] = TailSize /\ \A i \in Placed(l) : collected[i].time > t
    <3>1. Cardinality(Placed(l)) = TailSize /\ Placed(l) \subseteq 1..Len(collected)
      BY <1>2, <2>2, <2>7, PlacedIsFinite DEF CollectedInv
    <3>2. size = TailSize
      <4>1. IsFiniteSet(1..Len(collected)) /\ Cardinality(1..Len(collected)) = Len(collected)
        BY <1>2, FirstNumbers
      <4>2. Cardinality(Placed(l)) <= Len(collected)
        BY <3>1, <4>1, FS_Subset
      <4> QED BY <1>1, <1>2, <3>1, <4>2
    <3>3. ASSUME NEW k \in 1..size, ~ (collected[order[k]].time > t) PROVE FALSE
      <4> DEFINE front == 1..k - 1
                 T == {order[j] : j \in front}
                 place == [j \in front |-> order[j]]
      <4>1. IsFiniteSet(front) /\ Cardinality(front) = k - 1
        <5>1. k - 1 \in Nat
          OBVIOUS
        <5> QED BY <5>1, FirstNumbers
      <4>2. place \in Surjection(front, T)
        BY DEF Surjection
      <4>3. IsFiniteSet(T) /\ Cardinality(T) <= k - 1
        <5> HIDE DEF front, T, place
        <5> QED BY <4>1, <4>2, FS_Surjection
      <4>4. ASSUME NEW i \in Placed(l) PROVE i \in T
        <5>1. PICK j \in 1..Len(order) : order[j] = i
          BY <1>1, <3>1
        <5>2. k \in 1..Len(order)
          BY <1>2
        <5>3. collected[order[k]].time \in Nat /\ collected[order[j]].time \in Nat
          BY <1>1, <5>2
        <5>4. collected[order[j]].time > t
          BY <2>7, <5>1
        <5>5. collected[order[k]].time < collected[order[j]].time
          BY <2>5, <3>3, <5>3, <5>4
        <5>6. ~ (k < j)
          <6> SUFFICES ASSUME k < j PROVE FALSE
            OBVIOUS
          <6>1. collected[order[j]].time < collected[order[k]].time
            BY <1>1, <5>2
          <6> QED BY <5>3, <5>5, <6>1
        <5>7. j # k
          BY <5>3, <5>5
        <5>8. j \in front
          BY <1>2, <5>2, <5>6, <5>7
        <5> QED BY <5>1, <5>8
      <4>5. Cardinality(Placed(l)) <= Cardinality(T)
        <5> HIDE DEF T
        <5> QED BY <4>3, <4>4, FS_Subset
      <4>6. Cardinality(T) \in Nat
        <5> HIDE DEF T
        <5> QED BY <4>3, FS_CardinalityType
      <4> HIDE DEF T
      <4> QED BY <3>1, <3>2, <4>3, <4>5, <4>6
    <3> QED BY <1>4, <2>5, <3>2, <3>3
  <2> QED BY <2>4, <2>6, <2>7 DEF Covered
<1> QED BY <1>5 DEF NothingRecentMissing, In

(* Show: what the command shows are the newest records, without a gap,     *)
(* each once and in order, however the levels are mixed and whatever is    *)
(* written, begun or removed while it reads.                               *)
THEOREM ShowLeavesNoGap == ShowSpec => ShowsNewest
<1>1. ASSUME ShowInv, [ShowNext]_show, progress = "read", progress' = "done"
      PROVE  NothingRecentMissing /\ InOrder
  <2>1. Finish
    BY <1>1 DEF ShowNext, show, command, Log, BeginFile, RemoveOldest, List, ReadFile, ReadFails
  <2> QED BY <1>1, <2>1, ShownInOrder, NoGap
<1> QED BY <1>1, ShowInvAlways, PTL DEF ShowSpec, ShowsNewest

-----------------------------------------------------------------------------
(* The reader of one file.  The line it is at is a piece of the file       *)
(* without a newline that ends where the file did, or before a newline.    *)
(* Once it also begins behind a newline, it is a record, or the beginning  *)
(* of the last one.                                                        *)
Start(r) == stop[r] - width[r]
Within(p, r) == Start(r) < p /\ p <= stop[r]

(* Where the records are, and that everything else is a newline. *)
Layout ==
    /\ \A r \in 1..Len(width) : 0 <= Start(r) /\ Start(r) < Len(file)
    /\ \A r, q \in 1..Len(width) : r < q => stop[r] < Start(q)
    /\ file # <<>> => width # <<>> /\ Len(file) <= stop[Len(width)] + 2
    /\ \A p \in 1..Len(file), r \in 1..Len(width) :
          Within(p, r) => file[p] = <<r, p - Start(r)>>
    /\ \A p \in 1..Len(file) :
          file[p] # Newline => \E r \in 1..Len(width) : Within(p, r)

(* What has been read from the end: the newest of the complete records,    *)
(* all that end behind the place t.                                        *)
ReadBehind(t) ==
    \E newest \in 0..Len(width) :
       /\ Complete = 1..newest
       /\ Len(records) <= newest
       /\ \A i \in 1..Len(records) : records[i] = newest - i + 1
       /\ \A r \in 1..Len(width) : stop[r] <= t <=> r <= newest - Len(records)

(* The line holds the bytes behind place b, up to place t. *)
LineBehind(b) ==
    \E t \in 0..seen :
       /\ t = b + Len(line)
       /\ \A i \in 1..Len(line) : line[i] = file[b + i] /\ line[i] # Newline
       /\ t \in {0, seen} \/ file[t + 1] = Newline
       /\ first <=> t = seen
       /\ ReadBehind(t)

Place == offset + Len(buffer)

Reading ==
    /\ Place <= seen
    /\ \A i \in 1..Len(buffer) : buffer[i] = file[offset + i]
    /\ Len(records) < Limit
    /\ Len(buffer) <= Chunk /\ Len(line) <= MaxRecord + 1

Collecting == LineBehind(Place) /\ (pc = "chunk" => buffer = <<>>)

(* A line is finished at a newline or at the beginning of the file. *)
Finished ==
    \/ Place = 0 /\ line # <<>> /\ LineBehind(0)
    \/ Place < seen /\ file[Place + 1] = Newline /\ LineBehind(Place + 1)

LogInv ==
    /\ TypeOK /\ Layout
    /\ pc = "closed" => seen = 0 /\ records = <<>> /\ line = <<>> /\ buffer = <<>> /\ first
    /\ pc \in {"chunk", "part", "decode"} => Reading
    /\ pc \in {"chunk", "part"} => Collecting
    /\ pc = "decode" => Finished
    /\ LineBounded /\ NewestRecords /\ FailsOnlyOnLongRecords

USE SizeAssumption, NewlineAssumption

-----------------------------------------------------------------------------
(* Numbers and bytes. *)
LEMMA Sizes ==
    ASSUME TypeOK
    PROVE  /\ Len(file) \in Nat /\ Len(width) \in Nat /\ Len(buffer) \in Nat
           /\ Len(line) \in Nat /\ Len(records) \in Nat
           /\ seen \in Nat /\ seen <= Len(file) /\ offset \in Nat /\ offset <= seen
           /\ Place \in Nat /\ Place = offset + Len(buffer)
<1>1. /\ Len(file) \in Nat /\ Len(width) \in Nat /\ Len(buffer) \in Nat
      /\ Len(line) \in Nat /\ Len(records) \in Nat
  BY LenProperties DEF TypeOK
<1>2. /\ seen \in Nat /\ seen <= Len(file) /\ offset \in Nat /\ offset <= seen
  BY <1>1 DEF TypeOK
<1> QED BY <1>1, <1>2 DEF Place

LEMMA RecordSizes ==
    ASSUME TypeOK, NEW r \in 1..Len(width)
    PROVE  /\ r \in Nat /\ r >= 1 /\ r <= Len(width)
           /\ width[r] \in Widths /\ width[r] \in Nat /\ width[r] >= 1
           /\ stop[r] \in Nat /\ Start(r) \in Int /\ Start(r) < stop[r]
           /\ stop[r] = Start(r) + width[r]
<1>1. width[r] \in Widths /\ stop[r] \in Nat
  BY ElementOfSeq DEF TypeOK
<1>2. \A w \in Widths : w \in Nat /\ w >= 1
  OBVIOUS
<1>3. r \in Nat /\ r >= 1 /\ r <= Len(width)
  BY Sizes
<1>4. width[r] \in Nat /\ width[r] >= 1
  BY <1>1, <1>2
<1> QED BY <1>1, <1>3, <1>4 DEF Start

LEMMA Pairs == \A r, i \in Nat : <<r, i>> # Newline
OBVIOUS

(* A bounded set of numbers has a largest member. *)
LEMMA LeastOf ==
    ASSUME NEW T \in SUBSET Nat, T # {}
    PROVE  \E t \in T : \A u \in T : t <= u
<1> DEFINE Less == OpToRel(<, Nat)
<1>1. IsWellFoundedOn(Less, Nat)
  BY Zenon, NatLessThanWellFounded
<1>2. \A a, b \in Nat : a < b => <<a, b>> \in Less
  BY Zenon DEF OpToRel
<1> HIDE DEF Less
<1>3. PICK t \in T : \A u \in T : ~ (<<u, t>> \in Less)
  BY <1>1, WFMin
<1>4. \A u \in T : t \in Nat /\ u \in Nat /\ ~ (u < t)
  BY <1>2, <1>3
<1> QED BY <1>4

LEMMA MaxOf ==
    ASSUME NEW n \in Nat, NEW S \in SUBSET (1..n), S # {}
    PROVE  Max(S) \in S /\ \A y \in S : y <= Max(S)
<1>1. \A y \in S : y \in Nat /\ n - y \in Nat
  OBVIOUS
<1>2. PICK m \in S : \A y \in S : n - m <= n - y
  <2> DEFINE T == {n - y : y \in S}
  <2>1. T \subseteq Nat /\ T # {}
    BY <1>1
  <2>2. PICK t \in T : \A u \in T : t <= u
    BY <2>1, LeastOf
  <2> QED BY <2>2
<1>3. \A y \in S : m >= y
  BY <1>1, <1>2
<1>4. Max(S) \in S /\ \A y \in S : Max(S) >= y
  BY <1>3 DEF Max
<1> QED BY <1>1, <1>4

(* The first elements of a sequence. *)
LEMMA FirstOf ==
    ASSUME NEW S, NEW s, NEW k \in Nat, \A i \in 1..k : s[i] \in S
    PROVE  /\ SubSeq(s, 1, k) \in Seq(S) /\ Len(SubSeq(s, 1, k)) = k
           /\ \A i \in 1..k : SubSeq(s, 1, k)[i] = s[i]
<1>1. /\ k \in Int /\ 1 \in Int /\ k - 1 + 1 = k /\ (IF 1 <= k THEN k - 1 + 1 ELSE 0) = k
      /\ \A i \in 1..k : 1 + i - 1 = i
  OBVIOUS
<1>2. /\ SubSeq(s, 1, k) \in Seq(S)
      /\ Len(SubSeq(s, 1, k)) = IF 1 <= k THEN k - 1 + 1 ELSE 0
      /\ \A i \in 1..k - 1 + 1 : SubSeq(s, 1, k)[i] = s[1 + i - 1]
  BY <1>1, SubSeqProperties
<1> QED BY <1>1, <1>2

(* The last newline of the buffer, if it has one. *)
LEMMA NewlineFacts ==
    ASSUME TypeOK
    PROVE  /\ LastNewline \in 0..Len(buffer)
           /\ LastNewline > 0 => buffer[LastNewline] = Newline
           /\ \A i \in LastNewline + 1..Len(buffer) : buffer[i] # Newline
<1> DEFINE Newlines == {i \in 1..Len(buffer) : buffer[i] = Newline}
<1>1. Len(buffer) \in Nat /\ DOMAIN buffer = 1..Len(buffer)
  BY LenProperties DEF TypeOK
<1>2. CASE Newlines = {}
  <2>1. LastNewline = 0
    BY <1>1, <1>2 DEF LastNewline, ToSet
  <2> QED BY <1>1, <1>2, <2>1
<1>3. CASE Newlines # {}
  <2>1. LastNewline = Max(Newlines)
    BY <1>1, <1>3 DEF LastNewline, ToSet
  <2>2. Max(Newlines) \in Newlines /\ \A i \in Newlines : i <= Max(Newlines)
    <3> HIDE DEF Newlines
    <3>1. Newlines \in SUBSET (1..Len(buffer))
      BY DEF Newlines
    <3> QED BY <1>1, <1>3, <3>1, MaxOf
  <2>3. LastNewline \in Nat /\ LastNewline \in 1..Len(buffer) /\ buffer[LastNewline] = Newline
    BY <1>1, <2>1, <2>2
  <2>4. ASSUME NEW i \in LastNewline + 1..Len(buffer) PROVE buffer[i] # Newline
    <3>1. i \in 1..Len(buffer) /\ ~ (i <= LastNewline)
      BY <1>1, <2>3
    <3> QED BY <2>1, <2>2, <3>1
  <2> QED BY <1>1, <2>3, <2>4
<1> QED BY <1>2, <1>3

(* How the records read are compared with those that were complete. *)
LEMMA NewestFacts ==
    ASSUME NEW newest \in Nat, NEW count \in Nat, count <= newest,
           count = Limit \/ (count = newest /\ count < Limit)
    PROVE  /\ count = Min({Limit, Cardinality(1..newest)})
           /\ count > 0 => Max(1..newest) = newest
<1>1. Cardinality(1..newest) = newest
  BY FS_Interval
<1>2. count \in {Limit, newest} /\ \A k \in {Limit, newest} : count <= k
  OBVIOUS
<1>3. Min({Limit, newest}) \in {Limit, newest} /\ \A k \in {Limit, newest} : Min({Limit, newest}) <= k
  BY <1>2 DEF Min
<1>4. count = Min({Limit, newest})
  BY <1>2, <1>3
<1>5. ASSUME count > 0 PROVE Max(1..newest) = newest
  <2>1. newest \in 1..newest
    BY <1>5
  <2>2. Max(1..newest) \in 1..newest /\ \A k \in 1..newest : k <= Max(1..newest)
    BY <2>1, MaxOf
  <2> QED BY <2>1, <2>2
<1> QED BY <1>1, <1>4, <1>5

(* Where there is a newline there is no record. *)
LEMMA NoRecordThere ==
    ASSUME TypeOK, Layout, NEW p \in 1..Len(file), file[p] = Newline,
           NEW r \in 1..Len(width)
    PROVE  ~ Within(p, r)
<1> SUFFICES ASSUME Within(p, r) PROVE FALSE
  OBVIOUS
<1>1. file[p] = <<r, p - Start(r)>>
  BY DEF Layout
<1>2. r \in Nat /\ p - Start(r) \in Nat
  BY Sizes, RecordSizes DEF Within
<1> QED BY <1>1, <1>2, Pairs

(* A piece of the file without a newline is a piece of one record. *)
LEMMA OneRecord ==
    ASSUME TypeOK, Layout, NEW b \in Nat, NEW t \in Nat, b < t, t <= Len(file),
           \A p \in b + 1..t : file[p] # Newline
    PROVE  \E r \in 1..Len(width) : Start(r) <= b /\ t <= stop[r]
<1>0. b + 1 \in b + 1..t /\ b + 1 \in 1..Len(file)
  BY Sizes
<1>1. PICK r \in 1..Len(width) : Within(b + 1, r)
  BY <1>0 DEF Layout
<1>2. Start(r) \in Int /\ stop[r] \in Nat /\ Start(r) <= b
  BY <1>1, Sizes, RecordSizes DEF Within
<1>3. ASSUME stop[r] < t PROVE FALSE
  <2>1. stop[r] + 1 \in b + 1..t /\ stop[r] + 1 \in 1..Len(file)
    <3>1. b + 1 <= stop[r] /\ Len(file) \in Nat
      BY <1>1, Sizes DEF Within
    <3> QED BY <1>2, <1>3, <3>1
  <2>2. PICK q \in 1..Len(width) : Within(stop[r] + 1, q)
    BY <2>1 DEF Layout
  <2>3. Start(q) \in Int /\ stop[q] \in Nat /\ Start(q) < stop[r] + 1 /\ stop[r] + 1 <= stop[q]
    BY <2>2, Sizes, RecordSizes DEF Within
  <2>4. CASE r < q
    <3>1. stop[r] < Start(q)
      BY <2>4 DEF Layout
    <3> QED BY <1>2, <2>3, <3>1
  <2>5. CASE q < r
    <3>1. stop[q] < Start(r)
      BY <2>5 DEF Layout
    <3> QED BY <1>1, <1>2, <2>3, <3>1 DEF Within
  <2> QED BY <1>2, <2>3, <2>4, <2>5, Sizes, RecordSizes
<1> QED BY <1>2, <1>3

(* What is written next to a line end is behind all records. *)
LEMMA AllEnded ==
    ASSUME TypeOK, Layout, file # <<>> => Last(file) = Newline,
           NEW r \in 1..Len(width)
    PROVE  stop[r] < Len(file)
<1>1. 0 <= Start(r) /\ Start(r) < Len(file)
  BY DEF Layout
<1>2. file # <<>> /\ Len(file) \in 1..Len(file)
  BY <1>1, Sizes, RecordSizes
<1>3. file[Len(file)] = Newline
  BY <1>2 DEF Last
<1>4. ~ Within(Len(file), r)
  BY <1>2, <1>3, NoRecordThere
<1> QED BY <1>1, <1>4, Sizes, RecordSizes DEF Within

-----------------------------------------------------------------------------
(* The file grows, and what is in it stays. *)
Grown ==
    /\ Len(file') = Len(file) + 1 /\ \A p \in 1..Len(file) : file'[p] = file[p]
    /\ Len(width') \in Nat /\ Len(width) <= Len(width')
    /\ \A r \in 1..Len(width) : width'[r] = width[r] /\ stop'[r] = stop[r]
    /\ \A r \in 1..Len(width') : r > Len(width) => stop'[r] > Len(file)
    /\ UNCHANGED reader

LEMMA BeginGrows ==
    ASSUME TypeOK, Layout, NEW w \in Widths, BeginRecord(w), UNCHANGED reader
    PROVE  TypeOK' /\ Grown /\ Layout'
<1>0. PICK n \in Nat, r \in Nat : n = Len(file) /\ r = Len(width) + 1 /\ r >= 1
  BY Sizes
<1>1. r \in 1..Records /\ w \in Nat /\ w >= 1
  BY <1>0 DEF BeginRecord
<1>2. <<r, 1>> \in Byte
  BY <1>1 DEF Byte
<1>3. /\ file' \in Seq(Byte) /\ Len(file') = n + 1
      /\ \A p \in 1..n : file'[p] = file[p]
      /\ file'[n + 1] = <<r, 1>>
  <2>1. file' = Append(file, <<r, 1>>) /\ file \in Seq(Byte)
    BY <1>0 DEF BeginRecord, TypeOK
  <2> QED BY <1>0, <1>2, <2>1, AppendProperties
<1>4. /\ width' \in Seq(Widths) /\ Len(width') = r
      /\ \A q \in 1..Len(width) : width'[q] = width[q]
      /\ width'[r] = w
  <2>1. width' = Append(width, w) /\ width \in Seq(Widths)
    BY DEF BeginRecord, TypeOK
  <2> QED BY <1>0, <2>1, AppendProperties
<1>5. /\ stop' \in Seq(Nat) /\ Len(stop') = r
      /\ \A q \in 1..Len(width) : stop'[q] = stop[q]
      /\ stop'[r] = n + w
  <2>1. n + w \in Nat /\ stop \in Seq(Nat) /\ Len(stop) = Len(width)
    BY <1>0, <1>1 DEF TypeOK
  <2> QED BY <1>0, <2>1, AppendProperties DEF BeginRecord
<1>6. TypeOK'
  BY <1>0, <1>1, <1>3, <1>4, <1>5, Sizes DEF TypeOK, reader
<1>7. /\ \A q \in 1..r : q \in 1..Len(width) \/ q = r
      /\ \A q \in 1..Len(width) : q \in 1..r /\ q < r
      /\ r \in 1..r
  BY <1>0, Sizes
<1>8. Grown
  <2>1. Len(file') = Len(file) + 1 /\ \A p \in 1..Len(file) : file'[p] = file[p]
    BY <1>0, <1>3
  <2>2. Len(width') \in Nat /\ Len(width) <= Len(width')
    BY <1>0, <1>4
  <2>3. \A q \in 1..Len(width') : q > Len(width) => stop'[q] > Len(file)
    <3>1. \A q \in 1..Len(width') : q > Len(width) => q = r
      BY <1>0, <1>4
    <3> QED BY <1>0, <1>1, <1>5, <3>1
  <2> QED BY <1>4, <1>5, <2>1, <2>2, <2>3 DEF Grown
<1>9. \A q \in 1..Len(width) :
         /\ Start(q)' = Start(q) /\ Start(q) \in Nat /\ Start(q) < n
         /\ stop'[q] = stop[q] /\ stop[q] \in Nat /\ stop[q] < n
  <2> SUFFICES ASSUME NEW q \in 1..Len(width)
               PROVE  /\ Start(q)' = Start(q) /\ Start(q) \in Nat /\ Start(q) < n
                      /\ stop'[q] = stop[q] /\ stop[q] \in Nat /\ stop[q] < n
    OBVIOUS
  <2>1. Start(q)' = Start(q) /\ stop'[q] = stop[q]
    BY <1>4, <1>5 DEF Start
  <2>2. Start(q) \in Int /\ stop[q] \in Nat
    BY RecordSizes
  <2>3. 0 <= Start(q) /\ Start(q) < Len(file)
    BY DEF Layout
  <2>4. stop[q] < Len(file)
    BY AllEnded DEF BeginRecord
  <2> QED BY <1>0, <2>1, <2>2, <2>3, <2>4
<1>10. Start(r)' = n /\ stop'[r] = n + w
  BY <1>0, <1>1, <1>4, <1>5 DEF Start
<1>11. /\ \A p, q : q \in 1..Len(width) => (Within(p, q)' <=> Within(p, q))
       /\ \A p : Within(p, r)' <=> n < p /\ p <= n + w
  BY <1>9, <1>10 DEF Within
<1>12. Layout'
  <2>1. \A q \in 1..Len(width') : 0 <= Start(q)' /\ Start(q)' < Len(file')
    BY <1>3, <1>4, <1>7, <1>9, <1>10
  <2>2. \A q, s \in 1..Len(width') : q < s => stop'[q] < Start(s)'
    <3> SUFFICES ASSUME NEW q \in 1..r, NEW s \in 1..r, q < s
                 PROVE  stop'[q] < Start(s)'
      BY <1>4
    <3>1. q \in 1..Len(width)
      BY <1>7
    <3>2. CASE s = r
      BY <1>9, <1>10, <3>1, <3>2
    <3>3. CASE s \in 1..Len(width)
      <4>1. stop[q] < Start(s)
        BY <3>1, <3>3 DEF Layout
      <4> QED BY <1>9, <3>1, <3>3, <4>1
    <3> QED BY <1>7, <3>2, <3>3
  <2>3. width' # <<>> /\ Len(file') <= stop'[Len(width')] + 2
    BY <1>0, <1>1, <1>3, <1>4, <1>5
  <2>4. ASSUME NEW p \in 1..Len(file'), NEW q \in 1..Len(width'), Within(p, q)'
        PROVE  file'[p] = <<q, p - Start(q)'>>
    <3>1. CASE q = r
      <4>1. p = n + 1
        BY <1>3, <1>11, <2>4, <3>1
      <4> QED BY <1>3, <1>10, <3>1, <4>1
    <3>2. CASE q \in 1..Len(width)
      <4>1. Within(p, q) /\ p \in 1..n
        BY <1>3, <1>9, <1>11, <2>4, <3>2 DEF Within
      <4> QED BY <1>0, <1>3, <1>9, <3>2, <4>1 DEF Layout
    <3> QED BY <1>4, <1>7, <3>1, <3>2
  <2>5. ASSUME NEW p \in 1..Len(file'), file'[p] # Newline
        PROVE  \E q \in 1..Len(width') : Within(p, q)'
    <3>1. CASE p = n + 1
      <4>1. Within(p, r)'
        BY <1>1, <1>11, <3>1
      <4> QED BY <1>4, <1>7, <4>1
    <3>2. CASE p # n + 1
      <4>1. p \in 1..Len(file) /\ file[p] # Newline
        BY <1>0, <1>3, <2>5, <3>2
      <4>2. PICK q \in 1..Len(width) : Within(p, q)
        BY <4>1 DEF Layout
      <4> QED BY <1>4, <1>7, <1>11, <4>2
    <3> QED BY <3>1, <3>2
  <2> QED BY <2>1, <2>2, <2>3, <2>4, <2>5 DEF Layout
<1> QED BY <1>6, <1>8, <1>12

(* A byte is added to the last record, or a newline behind it. *)
LEMMA ByteGrows ==
    ASSUME TypeOK, Layout, WriteRecord \/ EndLine, UNCHANGED reader
    PROVE  TypeOK' /\ Grown /\ Layout'
<1>0. PICK n \in Nat, r \in Nat : n = Len(file) /\ r = Len(width)
  BY Sizes
<1>1. r \in 1..Len(width) /\ UNCHANGED <<width, stop>>
  BY <1>0 DEF WriteRecord, EndLine
<1>2. /\ Start(r) \in Nat /\ Start(r) < n /\ stop[r] \in Nat
      /\ n <= stop[r] + 1
  <2>1. Start(r) \in Int /\ stop[r] \in Nat
    BY <1>1, RecordSizes
  <2>2. 0 <= Start(r) /\ Start(r) < n
    BY <1>0, <1>1 DEF Layout
  <2>3. n <= stop[r] + 1
    BY <1>0, <2>1 DEF WriteRecord, EndLine
  <2> QED BY <2>1, <2>2, <2>3
<1>3. PICK x \in Byte : /\ file' = Append(file, x)
                        /\ IF x = Newline THEN stop[r] < n + 1
                           ELSE n + 1 <= stop[r] /\ x = <<r, n + 1 - Start(r)>>
  <2>1. CASE WriteRecord
    <3>1. n < stop[r] /\ file' = Append(file, <<r, n + 1 - Start(r)>>)
      BY <1>0, <2>1 DEF WriteRecord, Start
    <3>2. n + 1 - Start(r) \in Nat \ {0} /\ n + 1 <= stop[r]
      BY <1>2, <3>1
    <3>3. r \in 1..Records
      BY <1>0, <1>1 DEF TypeOK
    <3>4. <<r, n + 1 - Start(r)>> \in Byte /\ <<r, n + 1 - Start(r)>> # Newline
      BY <3>2, <3>3, Pairs DEF Byte
    <3> QED BY <3>1, <3>2, <3>4
  <2>2. CASE EndLine
    BY <1>0, <1>2, <2>2 DEF EndLine, Byte
  <2> QED BY <2>1, <2>2
<1>4. /\ file' \in Seq(Byte) /\ Len(file') = n + 1
      /\ \A p \in 1..n : file'[p] = file[p]
      /\ file'[n + 1] = x
  BY <1>0, <1>3, AppendProperties DEF TypeOK
<1>5. TypeOK'
  BY <1>0, <1>1, <1>4, Sizes DEF TypeOK, reader
<1>6. Grown
  BY <1>0, <1>1, <1>4, Sizes DEF Grown
<1>7. \A q : Start(q)' = Start(q) /\ \A p : Within(p, q)' <=> Within(p, q)
  BY <1>1 DEF Start, Within
<1>8. \A q \in 1..Len(width) :
         /\ Start(q) \in Nat /\ stop[q] \in Nat /\ Start(q) < n
         /\ q # r => stop[q] < n
  <2> SUFFICES ASSUME NEW q \in 1..Len(width)
               PROVE  /\ Start(q) \in Nat /\ stop[q] \in Nat /\ Start(q) < n
                      /\ q # r => stop[q] < n
    OBVIOUS
  <2>1. Start(q) \in Nat /\ stop[q] \in Nat /\ Start(q) < n
    BY <1>0, RecordSizes DEF Layout
  <2>2. q # r => stop[q] < Start(r)
    <3>1. q # r => q < r
      BY <1>0
    <3> QED BY <1>1, <3>1 DEF Layout
  <2> QED BY <1>2, <2>1, <2>2
<1>9. Layout'
  <2>1. \A q \in 1..Len(width') : 0 <= Start(q)' /\ Start(q)' < Len(file')
    BY <1>1, <1>4, <1>7, <1>8
  <2>2. \A q, s \in 1..Len(width') : q < s => stop'[q] < Start(s)'
    BY <1>1, <1>7 DEF Layout
  <2>3. width' # <<>> /\ Len(file') <= stop'[Len(width')] + 2
    BY <1>0, <1>1, <1>2, <1>4
  <2>4. ASSUME NEW p \in 1..Len(file'), NEW q \in 1..Len(width'), Within(p, q)'
        PROVE  file'[p] = <<q, p - Start(q)'>>
    <3>0. q \in 1..Len(width) /\ Within(p, q)
      BY <1>1, <1>7, <2>4
    <3>1. CASE p = n + 1
      <4>1. q = r /\ n + 1 <= stop[r]
        BY <1>8, <3>0, <3>1 DEF Within
      <4>2. x = <<r, n + 1 - Start(r)>>
        BY <1>2, <1>3, <4>1
      <4>3. file'[p] = x
        BY <1>4, <3>1
      <4>4. n + 1 - Start(r) = p - Start(q)
        BY <1>2, <1>8, <3>0, <3>1, <4>1 DEF Start
      <4>5. x = <<q, p - Start(q)>>
        BY <4>1, <4>2, <4>4
      <4> QED BY <1>7, <4>3, <4>5
    <3>2. CASE p # n + 1
      <4>1. p \in 1..n /\ p \in 1..Len(file)
        BY <1>0, <1>4, <3>2
      <4>2. file[p] = <<q, p - Start(q)>>
        BY <3>0, <4>1 DEF Layout
      <4> QED BY <1>4, <1>7, <4>1, <4>2
    <3> QED BY <3>1, <3>2
  <2>5. ASSUME NEW p \in 1..Len(file'), file'[p] # Newline
        PROVE  \E q \in 1..Len(width') : Within(p, q)'
    <3>1. CASE p = n + 1
      <4>1. Within(p, r)
        BY <1>2, <1>3, <1>4, <2>5, <3>1 DEF Within
      <4> QED BY <1>1, <1>7, <4>1
    <3>2. CASE p # n + 1
      <4>1. p \in 1..Len(file) /\ file[p] # Newline
        BY <1>0, <1>4, <2>5, <3>2
      <4>2. PICK q \in 1..Len(width) : Within(p, q)
        BY <4>1 DEF Layout
      <4> QED BY <1>1, <1>7, <4>2
    <3> QED BY <3>1, <3>2
  <2> QED BY <2>1, <2>2, <2>3, <2>4, <2>5 DEF Layout
<1> QED BY <1>5, <1>6, <1>9

(* The reader does not notice: what was complete, and what was read, stays *)
(* as it was.                                                              *)
LEMMA GrownKeepsLogInv ==
    ASSUME LogInv, TypeOK', Grown, Layout'
    PROVE  LogInv'
<1> USE DEF LogInv
<1>1. /\ UNCHANGED <<pc, seen, offset, buffer, line, first, records>>
      /\ Place' = Place
  BY DEF Grown, reader, Place
<1>2. /\ \A p \in 1..seen : file'[p] = file[p]
      /\ \A r \in 1..Len(width) : r \in 1..Len(width') /\ stop'[r] = stop[r]
      /\ \A r \in 1..Len(width') :
            r \in 1..Len(width) \/ (r > Len(width) /\ stop'[r] > seen /\ stop'[r] \in Nat)
  <2>1. \A p \in 1..seen : p \in 1..Len(file)
    BY Sizes
  <2>2. \A r \in 1..Len(width) : r \in 1..Len(width')
    BY Sizes DEF Grown
  <2>3. ASSUME NEW r \in 1..Len(width'), r \notin 1..Len(width)
        PROVE  r > Len(width) /\ stop'[r] > seen /\ stop'[r] \in Nat
    <3>1. r > Len(width)
      BY <2>3, Sizes
    <3>2. stop'[r] > Len(file)
      BY <3>1 DEF Grown
    <3>3. stop'[r] \in Nat
      BY ElementOfSeq DEF TypeOK
    <3> QED BY <3>1, <3>2, <3>3, Sizes
  <2> QED BY <2>1, <2>2, <2>3 DEF Grown
<1>3. Complete' = Complete
  <2>1. \A r : r \in Complete' <=> r \in Complete
    BY <1>1, <1>2, Sizes DEF Complete
  <2> QED BY <2>1
<1>4. ASSUME NEW t \in 0..seen, ReadBehind(t) PROVE ReadBehind(t)'
  <2>1. PICK newest \in 0..Len(width) :
           /\ Complete = 1..newest
           /\ Len(records) <= newest
           /\ \A i \in 1..Len(records) : records[i] = newest - i + 1
           /\ \A r \in 1..Len(width) : stop[r] <= t <=> r <= newest - Len(records)
    BY <1>4 DEF ReadBehind
  <2>2. newest \in 0..Len(width')
    BY Sizes DEF Grown
  <2>3. ASSUME NEW r \in 1..Len(width')
        PROVE  stop'[r] <= t <=> r <= newest - Len(records)
    <3>1. CASE r \in 1..Len(width)
      BY <1>2, <2>1, <3>1
    <3>2. CASE r > Len(width) /\ stop'[r] > seen /\ stop'[r] \in Nat
      <4>1. ~ (stop'[r] <= t)
        BY <3>2, Sizes
      <4>2. /\ newest \in Nat /\ newest <= Len(width) /\ Len(width) \in Nat
            /\ Len(records) \in Nat /\ r \in Int
        BY Sizes DEF Grown
      <4>3. ~ (r <= newest - Len(records))
        BY <3>2, <4>2
      <4> QED BY <4>1, <4>3
    <3> QED BY <1>2, <3>1, <3>2
  <2> QED BY <1>1, <1>3, <2>1, <2>2, <2>3 DEF ReadBehind
<1>5. ASSUME NEW b \in Nat, LineBehind(b) PROVE LineBehind(b)'
  <2>1. PICK t \in 0..seen :
           /\ t = b + Len(line)
           /\ \A i \in 1..Len(line) : line[i] = file[b + i] /\ line[i] # Newline
           /\ t \in {0, seen} \/ file[t + 1] = Newline
           /\ first <=> t = seen
           /\ ReadBehind(t)
    BY <1>5 DEF LineBehind
  <2>2. \A i \in 1..Len(line) : b + i \in 1..seen
    BY <2>1, Sizes
  <2>3. t # seen => t + 1 \in 1..seen
    BY <2>1, Sizes
  <2>4. ReadBehind(t)'
    BY <1>4, <2>1
  <2> QED BY <1>1, <1>2, <2>1, <2>2, <2>3, <2>4 DEF LineBehind
<1>6. Reading => Reading'
  <2> SUFFICES ASSUME Reading PROVE Reading'
    OBVIOUS
  <2>1. \A i \in 1..Len(buffer) : offset + i \in 1..seen
    BY Sizes DEF Reading
  <2> QED BY <1>1, <1>2, <2>1 DEF Reading
<1>7. Collecting => Collecting'
  BY <1>1, <1>5, Sizes DEF Collecting
<1>8. Finished => Finished'
  <2>1. Place < seen => Place + 1 \in 1..seen /\ Place + 1 \in Nat
    BY Sizes
  <2> QED BY <1>1, <1>2, <1>5, <2>1 DEF Finished
<1>9. LineBounded' /\ NewestRecords'
  BY <1>1, <1>3 DEF LineBounded, NewestRecords
<1>10. FailsOnlyOnLongRecords'
  BY <1>1, <1>2 DEF Grown, FailsOnlyOnLongRecords
<1> QED BY <1>1, <1>6, <1>7, <1>8, <1>9, <1>10

-----------------------------------------------------------------------------
LEMMA InitLogInv == Init => LogInv
<1> SUFFICES ASSUME Init PROVE LogInv
  OBVIOUS
<1>1. /\ file = <<>> /\ width = <<>> /\ stop = <<>> /\ pc = "closed" /\ seen = 0
      /\ offset = 0 /\ buffer = <<>> /\ line = <<>> /\ first = TRUE /\ records = <<>>
  BY DEF Init
<1>2. TypeOK
  BY <1>1 DEF TypeOK
<1>3. Layout
  BY <1>1 DEF Layout
<1> QED BY <1>1, <1>2, <1>3 DEF LogInv, LineBounded, NewestRecords, FailsOnlyOnLongRecords

(* Which records are complete when the file has been opened. *)
LEMMA CompleteAtOpen ==
    ASSUME TypeOK, Layout
    PROVE  \E newest \in 0..Len(width) :
              \A r \in 1..Len(width) : stop[r] <= Len(file) <=> r <= newest
<1>1. Len(width) \in Nat /\ Len(file) \in Nat
  BY Sizes
<1>2. CASE width = <<>>
  BY <1>2
<1>3. CASE width # <<>>
  <2> DEFINE last == Len(width)
  <2>1. last \in 1..Len(width) /\ Start(last) < Len(file) /\ stop[last] \in Nat
    <3>1. last \in 1..Len(width)
      BY <1>1, <1>3 DEF TypeOK
    <3> QED BY <3>1, RecordSizes DEF Layout
  <2>2. ASSUME NEW r \in 1..Len(width), r < last PROVE stop[r] <= Len(file)
    <3>1. stop[r] < Start(last)
      BY <2>1, <2>2 DEF Layout
    <3> QED BY <1>1, <2>1, <3>1, RecordSizes
  <2>3. CASE stop[last] <= Len(file)
    <3>1. \A r \in 1..Len(width) : stop[r] <= Len(file) <=> r <= last
      BY <1>1, <2>2, <2>3
    <3>2. last \in 0..Len(width)
      BY <1>1
    <3> QED BY <3>1, <3>2
  <2>4. CASE ~ (stop[last] <= Len(file))
    <3>1. \A r \in 1..Len(width) : stop[r] <= Len(file) <=> r <= last - 1
      BY <1>1, <2>2, <2>4
    <3>2. last - 1 \in 0..Len(width)
      BY <1>1, <2>1
    <3> QED BY <3>1, <3>2
  <2> QED BY <2>3, <2>4
<1> QED BY <1>2, <1>3

LEMMA OpenKeepsLogInv == ASSUME LogInv, Open PROVE LogInv'
<1> USE DEF LogInv
<1>1. /\ seen' = Len(file) /\ offset' = Len(file) /\ pc' = "chunk"
      /\ buffer' = <<>> /\ line' = <<>> /\ first' = TRUE /\ records' = <<>>
      /\ UNCHANGED <<file, width, stop>>
  BY DEF Open, content
<1>2. Len(file) \in Nat /\ Len(width) \in Nat
  BY Sizes
<1>3. TypeOK'
  BY <1>1, <1>2 DEF TypeOK
<1>4. Layout'
  BY <1>1 DEF Layout, Start, Within
<1>5. Place' = Len(file)
  BY <1>1, <1>2 DEF Place
<1>6. Reading'
  BY <1>1, <1>2, <1>5 DEF Reading
<1>7. ReadBehind(Len(file))'
  <2>1. PICK newest \in 0..Len(width) :
           \A r \in 1..Len(width) : stop[r] <= Len(file) <=> r <= newest
    BY CompleteAtOpen
  <2>2. Complete' = 1..newest
    BY <1>1, <1>2, <2>1 DEF Complete
  <2> QED BY <1>1, <1>2, <2>1, <2>2 DEF ReadBehind
<1>8. LineBehind(Len(file))'
  BY <1>1, <1>2, <1>7 DEF LineBehind
<1>9. Collecting'
  BY <1>1, <1>5, <1>8 DEF Collecting
<1> QED BY <1>1, <1>3, <1>4, <1>6, <1>9 DEF LineBounded, NewestRecords, FailsOnlyOnLongRecords

(* Nothing is behind the beginning of the file: what was complete is read. *)
LEMMA AllRead ==
    ASSUME TypeOK, Layout, ReadBehind(0)
    PROVE  /\ Complete = 1..Len(records)
           /\ \A i \in 1..Len(records) : records[i] = Len(records) - i + 1
<1>1. PICK newest \in 0..Len(width) :
         /\ Complete = 1..newest
         /\ Len(records) <= newest
         /\ \A i \in 1..Len(records) : records[i] = newest - i + 1
         /\ \A r \in 1..Len(width) : stop[r] <= 0 <=> r <= newest - Len(records)
  BY DEF ReadBehind
<1>2. Len(width) \in Nat /\ Len(records) \in Nat
  BY Sizes
<1>3. ASSUME newest # Len(records) PROVE FALSE
  <2>1. newest - Len(records) \in 1..Len(width)
    BY <1>1, <1>2, <1>3
  <2>2. stop[newest - Len(records)] <= 0
    BY <1>1, <2>1
  <2>3. 0 <= Start(newest - Len(records))
    BY <2>1 DEF Layout
  <2> QED BY <2>1, <2>2, <2>3, RecordSizes
<1> QED BY <1>1, <1>3

LEMMA NextChunkKeepsLogInv == ASSUME LogInv, NextChunk PROVE LogInv'
<1> USE DEF LogInv
<1>0. /\ pc = "chunk" /\ Reading /\ Collecting
      /\ UNCHANGED <<file, width, stop, seen, line, first, records>>
  BY DEF NextChunk, content
<1>1. buffer = <<>> /\ Place = offset
  BY <1>0, Sizes DEF Collecting, Place
<1>2. Layout' /\ Complete' = Complete /\ \A t : ReadBehind(t)' <=> ReadBehind(t)
  BY <1>0 DEF Layout, Start, Within, Complete, ReadBehind
<1>3. \A b : LineBehind(b)' <=> LineBehind(b)
  BY <1>0, <1>2 DEF LineBehind
<1>4. CASE offset = 0
  <2>1. UNCHANGED <<offset, buffer>> /\ pc' = IF line = <<>> THEN "done" ELSE "decode"
    BY <1>4 DEF NextChunk
  <2>2. TypeOK' /\ LineBounded' /\ FailsOnlyOnLongRecords'
    BY <1>0, <2>1 DEF TypeOK, LineBounded, FailsOnlyOnLongRecords
  <2>3. Reading' /\ Place' = 0
    BY <1>0, <1>1, <1>4, <2>1 DEF Reading, Place
  <2>4. LineBehind(0)
    BY <1>0, <1>1, <1>4 DEF Collecting
  <2>5. CASE line = <<>>
    <3>1. ReadBehind(0)
      BY <2>4, <2>5 DEF LineBehind
    <3>2. PICK n \in Nat : n = Len(records) /\ n < Limit
      BY <1>0, Sizes DEF Reading
    <3>3. Complete = 1..n /\ \A i \in 1..n : records[i] = n - i + 1
      BY <3>1, <3>2, AllRead
    <3>4. n = Min({Limit, Cardinality(1..n)}) /\ (n > 0 => Max(1..n) = n)
      BY <3>2, NewestFacts
    <3>5. NewestRecords'
      <4>1. n = Min({Limit, Cardinality(Complete)}) /\ (n > 0 => Max(Complete) = n)
        BY <3>3, <3>4
      <4>2. \A i \in 1..n : n > 0
        OBVIOUS
      <4> QED BY <1>0, <1>2, <3>2, <3>3, <4>1, <4>2 DEF NewestRecords
    <3> QED BY <1>2, <2>1, <2>2, <2>5, <3>5
  <2>6. CASE line # <<>>
    <3>1. Finished'
      BY <1>0, <1>3, <2>3, <2>4, <2>6 DEF Finished
    <3> QED BY <1>2, <2>1, <2>2, <2>3, <2>6, <3>1 DEF NewestRecords
  <2> QED BY <2>5, <2>6
<1>5. CASE offset # 0
  <2> DEFINE size == IF Chunk < offset THEN Chunk ELSE offset
  <2>1. /\ offset' = offset - size /\ pc' = "part"
        /\ buffer' = SubSeq(file, offset - size + 1, offset)
    BY <1>5 DEF NextChunk
  <2>2. size \in 1..offset /\ size <= Chunk /\ offset \in Nat
    BY <1>5, Sizes
  <2> HIDE DEF size
  <2>3. \A i \in offset - size + 1..offset : i \in 1..Len(file) /\ file[i] \in Byte
    <3> SUFFICES ASSUME NEW i \in offset - size + 1..offset
                 PROVE  i \in 1..Len(file) /\ file[i] \in Byte
      OBVIOUS
    <3>1. i \in 1..Len(file)
      BY <2>2, Sizes
    <3> QED BY <3>1, ElementOfSeq DEF TypeOK
  <2>4. /\ buffer' \in Seq(Byte) /\ Len(buffer') = size
        /\ \A i \in 1..size : buffer'[i] = file[offset - size + i]
    <3>1. PICK m \in Int, n \in Int :
             /\ m = offset - size + 1 /\ n = offset /\ m <= n /\ n - m + 1 = size
             /\ \A i \in 1..size : m + i - 1 = offset - size + i
      BY <2>2
    <3>2. \A i \in m..n : file[i] \in Byte
      BY <2>3, <3>1
    <3>3. /\ SubSeq(file, m, n) \in Seq(Byte)
          /\ Len(SubSeq(file, m, n)) = IF m <= n THEN n - m + 1 ELSE 0
          /\ \A i \in 1..n - m + 1 : SubSeq(file, m, n)[i] = file[m + i - 1]
      BY <3>2, SubSeqProperties
    <3> QED BY <2>1, <3>1, <3>3
  <2>5. Place' = offset /\ offset' \in 0..seen
    BY <1>0, <2>1, <2>2, <2>4, Sizes DEF Place
  <2>6. TypeOK'
    BY <1>0, <2>1, <2>4, <2>5 DEF TypeOK
  <2>7. Reading'
    BY <1>0, <1>1, <2>1, <2>2, <2>4, <2>5 DEF Reading
  <2>8. Collecting'
    BY <1>0, <1>1, <1>3, <2>1, <2>5 DEF Collecting
  <2>9. LineBounded'
    BY <1>0, <2>1, <2>2, <2>4 DEF LineBounded
  <2> QED BY <1>2, <2>1, <2>6, <2>7, <2>8, <2>9 DEF NewestRecords, FailsOnlyOnLongRecords
<1> QED BY <1>4, <1>5

(* The chunk's bytes behind its last newline come before the line.         *)
LEMMA JoinedText ==
    ASSUME TypeOK, Reading, Collecting, NEW n \in 0..Len(buffer),
           \A i \in n + 1..Len(buffer) : buffer[i] # Newline
    PROVE  \A text : text = Join(SubSeq(buffer, n + 1, Len(buffer)), line) =>
              /\ text \in Seq(Byte) /\ Len(text) = Len(buffer) - n + Len(line)
              /\ \A i \in 1..Len(text) : text[i] = file[offset + n + i] /\ text[i] # Newline
<1> SUFFICES ASSUME NEW text, text = Join(SubSeq(buffer, n + 1, Len(buffer)), line)
    PROVE  /\ text \in Seq(Byte) /\ Len(text) = Len(buffer) - n + Len(line)
           /\ \A i \in 1..Len(text) : text[i] = file[offset + n + i] /\ text[i] # Newline
  OBVIOUS
<1> DEFINE head == SubSeq(buffer, n + 1, Len(buffer))
<1>1. Len(buffer) \in Nat /\ Len(line) \in Nat /\ offset \in Nat
  BY Sizes
<1>2. PICK h \in Nat : h = Len(buffer) - n
  BY <1>1
<1>3. \A i \in n + 1..Len(buffer) : i \in 1..Len(buffer) /\ buffer[i] \in Byte
  <2> SUFFICES ASSUME NEW i \in n + 1..Len(buffer)
               PROVE  i \in 1..Len(buffer) /\ buffer[i] \in Byte
    OBVIOUS
  <2>1. i \in 1..Len(buffer)
    BY <1>1
  <2> QED BY <2>1, ElementOfSeq DEF TypeOK
<1>4. /\ head \in Seq(Byte) /\ Len(head) = h
      /\ \A i \in 1..h : head[i] = buffer[n + i]
  <2>1. n + 1 \in Int /\ Len(buffer) \in Int /\ Len(buffer) - (n + 1) + 1 = h
    BY <1>1, <1>2
  <2>2. /\ head \in Seq(Byte) /\ Len(head) = h
        /\ \A i \in 1..h : head[i] = buffer[(n + 1) + i - 1]
    BY <1>1, <1>2, <1>3, <2>1, SubSeqProperties
  <2>3. \A i \in 1..h : (n + 1) + i - 1 = n + i
    OBVIOUS
  <2> QED BY <2>2, <2>3
<1>5. \A i \in 1..h : n + i \in n + 1..Len(buffer)
  BY <1>1, <1>2
<1>6. \A i \in 1..h : head[i] = file[offset + n + i] /\ head[i] # Newline
  <2>1. \A i \in 1..h : buffer[n + i] = file[offset + (n + i)] /\ buffer[n + i] # Newline
    BY <1>3, <1>5 DEF Reading
  <2>2. \A i \in 1..h : offset + (n + i) = offset + n + i
    BY <1>1
  <2> QED BY <1>4, <2>1, <2>2
<1>7. \A i \in 1..Len(line) : line[i] = file[offset + n + (h + i)] /\ line[i] # Newline
  <2>1. \A i \in 1..Len(line) : line[i] = file[Place + i] /\ line[i] # Newline
    BY DEF Collecting, LineBehind
  <2>2. \A i \in 1..Len(line) : Place + i = offset + n + (h + i)
    BY <1>1, <1>2 DEF Place
  <2> QED BY <2>1, <2>2
<1> HIDE DEF head
<1>8. /\ text \in Seq(Byte) /\ Len(text) = h + Len(line)
      /\ \A i \in 1..h + Len(line) : text[i] = IF i <= h THEN head[i] ELSE line[i - h]
  <2>1. text = head \o line /\ line \in Seq(Byte)
    BY DEF Join, head, TypeOK
  <2>2. /\ head \o line \in Seq(Byte) /\ Len(head \o line) = Len(head) + Len(line)
        /\ \A i \in 1..Len(head) + Len(line) :
              (head \o line)[i] = IF i <= Len(head) THEN head[i] ELSE line[i - Len(head)]
    <3>1. \A u, v \in Seq(Byte) :
             /\ u \o v \in Seq(Byte) /\ Len(u \o v) = Len(u) + Len(v)
             /\ \A i \in 1..Len(u) + Len(v) :
                   (u \o v)[i] = IF i <= Len(u) THEN u[i] ELSE v[i - Len(u)]
      BY ConcatProperties
    <3>2. head \in Seq(Byte)
      BY <1>4
    <3> QED BY <2>1, <3>1, <3>2
  <2> QED BY <1>4, <2>1, <2>2
<1>9. ASSUME NEW i \in 1..h + Len(line)
      PROVE  text[i] = file[offset + n + i] /\ text[i] # Newline
  <2>1. CASE i <= h
    <3>1. i \in 1..h
      BY <1>1, <2>1
    <3> QED BY <1>6, <1>8, <2>1, <3>1
  <2>2. CASE ~ (i <= h)
    <3>1. i - h \in 1..Len(line) /\ h + (i - h) = i
      BY <1>1, <2>2
    <3> QED BY <1>7, <1>8, <2>2, <3>1
  <2> QED BY <2>1, <2>2
<1> QED BY <1>2, <1>8, <1>9

(* A piece of the file without a newline is no longer than its record.     *)
LEMMA RecordIsLonger ==
    ASSUME TypeOK, Layout, NEW b \in Nat, NEW k \in Nat, k > 0, b + k <= Len(file),
           \A i \in 1..k : file[b + i] # Newline
    PROVE  \E r \in 1..Len(width) : width[r] >= k
<1>1. \A p \in b + 1..b + k : file[p] # Newline
  <2> TAKE p \in b + 1..b + k
  <2>1. p - b \in 1..k /\ b + (p - b) = p
    OBVIOUS
  <2> QED BY <2>1
<1>2. b + k \in Nat /\ b < b + k
  OBVIOUS
<1>3. PICK r \in 1..Len(width) : Start(r) <= b /\ b + k <= stop[r]
  BY <1>1, <1>2, OneRecord
<1> QED BY <1>3, RecordSizes

LEMMA PartKeepsLogInv == ASSUME LogInv, Part PROVE LogInv'
<1>0. /\ pc = "part" /\ Reading /\ Collecting
      /\ UNCHANGED <<file, width, stop, seen, offset, first, records>>
  BY DEF Part, content, LogInv
<1>a. TypeOK /\ Layout
  BY DEF LogInv
<1> USE <1>a
<1>1. PICK n \in 0..Len(buffer) :
         /\ n = LastNewline
         /\ n > 0 => buffer[n] = Newline
         /\ \A i \in n + 1..Len(buffer) : buffer[i] # Newline
  BY NewlineFacts
<1>2. PICK text :
         /\ text = Join(SubSeq(buffer, n + 1, Len(buffer)), line)
         /\ line' = text
         /\ IF TooLong(text) THEN pc' = "failed" /\ UNCHANGED buffer
            ELSE IF n > 0 THEN pc' = "decode" /\ buffer' = Before(n)
            ELSE pc' = "chunk" /\ buffer' = <<>>
  BY <1>1 DEF Part
<1>3. /\ text \in Seq(Byte) /\ Len(text) = Len(buffer) - n + Len(line)
      /\ \A i \in 1..Len(text) : text[i] = file[offset + n + i] /\ text[i] # Newline
  <2>1. Reading /\ Collecting /\ text = Join(SubSeq(buffer, n + 1, Len(buffer)), line)
    BY <1>0, <1>2
  <2>2. \A i \in n + 1..Len(buffer) : buffer[i] # Newline
    BY <1>1
  <2>3. \A joined : joined = Join(SubSeq(buffer, n + 1, Len(buffer)), line) =>
           /\ joined \in Seq(Byte) /\ Len(joined) = Len(buffer) - n + Len(line)
           /\ \A i \in 1..Len(joined) :
                 joined[i] = file[offset + n + i] /\ joined[i] # Newline
    BY <2>1, <2>2, JoinedText
  <2> QED BY <2>1, <2>3
<1>4. PICK b \in Nat, k \in Nat :
         /\ b = offset + n /\ k = Len(text)
         /\ Len(buffer) \in Nat /\ Len(line) \in Nat
         /\ n \in Nat /\ seen \in Nat /\ seen <= Len(file)
         /\ offset \in Nat /\ n <= Len(buffer) /\ Place = offset + Len(buffer)
  <2>1. Len(text) \in Nat
    BY <1>3, LenProperties
  <2>2. n \in Nat /\ offset + n \in Nat /\ n <= Len(buffer)
    BY Sizes
  <2> QED BY <2>1, <2>2, Sizes
<1>5. Layout' /\ Complete' = Complete /\ \A t : ReadBehind(t)' <=> ReadBehind(t)
  BY <1>0 DEF Layout, Start, Within, Complete, ReadBehind
<1>6. PICK t \in 0..seen :
         /\ t = Place + Len(line)
         /\ t \in {0, seen} \/ file[t + 1] = Newline
         /\ first <=> t = seen
         /\ ReadBehind(t)
  BY <1>0 DEF Collecting, LineBehind
<1>7. t = b + k
  BY <1>3, <1>4, <1>6
<1>8. LineBehind(b)'
  BY <1>0, <1>2, <1>3, <1>4, <1>5, <1>6, <1>7 DEF LineBehind
<1>9. Len(line) <= MaxRecord + 1 /\ Len(buffer) <= Chunk /\ Len(records) < Limit /\ Place <= seen
  BY <1>0 DEF Reading
<1>10. CASE TooLong(text)
  <2>1. pc' = "failed" /\ UNCHANGED buffer
    BY <1>2, <1>10
  <2>2. TypeOK'
    BY <1>0, <1>2, <1>3, <2>1 DEF TypeOK
  <2>3. LineBounded'
    <3>1. Len(line') = k
      BY <1>2, <1>4
    <3>2. k <= MaxRecord + 1 + Chunk
      BY <1>3, <1>4, <1>9
    <3> QED BY <1>9, <2>1, <3>1, <3>2 DEF LineBounded
  <2>4. FailsOnlyOnLongRecords'
    <3>1. k > MaxRecord + 1 /\ k > 0 /\ b + k <= Len(file)
      BY <1>4, <1>6, <1>7, <1>10 DEF TooLong
    <3>2. \A i \in 1..k : file[b + i] # Newline
      BY <1>3, <1>4
    <3>3. PICK r \in 1..Len(width) : width[r] >= k
      BY <1>4, <3>1, <3>2, RecordIsLonger
    <3>4. width[r] > MaxRecord
      <4>1. width[r] \in Nat
        BY RecordSizes
      <4> QED BY <3>1, <3>3, <4>1
    <3> QED BY <1>0, <3>4 DEF FailsOnlyOnLongRecords
  <2> QED BY <1>5, <2>1, <2>2, <2>3, <2>4 DEF NewestRecords, LogInv
<1>11. CASE ~ TooLong(text) /\ n > 0
  <2>1. pc' = "decode" /\ buffer' = SubSeq(buffer, 1, n - 1)
    BY <1>2, <1>11 DEF Before
  <2>2. /\ buffer' \in Seq(Byte) /\ Len(buffer') = n - 1
        /\ \A i \in 1..n - 1 : buffer'[i] = buffer[i]
    <3>1. \A i \in 1..n - 1 : i \in 1..Len(buffer) /\ buffer[i] \in Byte
      <4> SUFFICES ASSUME NEW i \in 1..n - 1 PROVE i \in 1..Len(buffer) /\ buffer[i] \in Byte
        OBVIOUS
      <4>1. i \in 1..Len(buffer)
        BY <1>4
      <4> QED BY <4>1, ElementOfSeq DEF TypeOK
    <3>2. n - 1 \in Nat
      BY <1>4, <1>11
    <3> QED BY <2>1, <3>1, <3>2, FirstOf
  <2>3. Place' + 1 = b /\ Place' = b - 1
    BY <1>0, <1>4, <1>11, <2>2 DEF Place
  <2>4. b <= seen
    BY <1>4, <1>9
  <2>5. TypeOK'
    BY <1>0, <1>2, <1>3, <2>1, <2>2 DEF TypeOK
  <2>6. k <= MaxRecord + 1
    BY <1>4, <1>11 DEF TooLong
  <2>7. Reading'
    <3>1. \A i \in 1..n - 1 : i \in 1..Len(buffer)
      BY <1>4
    <3>2. \A i \in 1..Len(buffer') : buffer'[i] = file'[offset' + i]
      BY <1>0, <2>2, <3>1 DEF Reading
    <3>3. Place' <= seen' /\ Len(records') < Limit
      BY <1>0, <1>4, <1>9, <2>3, <2>4
    <3>4. Len(buffer') <= Chunk /\ Len(line') <= MaxRecord + 1
      BY <1>2, <1>4, <1>9, <2>2, <2>6
    <3> QED BY <3>2, <3>3, <3>4 DEF Reading
  <2>8. file[b] = Newline
    BY <1>0, <1>1, <1>4, <1>11 DEF Reading
  <2>9. Finished'
    <3>1. Place' < seen' /\ file'[Place' + 1] = Newline
      BY <1>0, <1>4, <2>3, <2>4, <2>8
    <3>2. LineBehind(Place + 1)'
      BY <1>8, <2>3 DEF LineBehind
    <3> QED BY <3>1, <3>2 DEF Finished
  <2>10. LineBounded'
    BY <2>1, <2>7 DEF LineBounded, Reading
  <2> QED BY <1>5, <2>1, <2>5, <2>7, <2>9, <2>10 DEF NewestRecords, FailsOnlyOnLongRecords, LogInv
<1>12. CASE ~ TooLong(text) /\ ~ (n > 0)
  <2>1. pc' = "chunk" /\ buffer' = <<>> /\ n = 0
    BY <1>2, <1>4, <1>12
  <2>2. Place' = b
    BY <1>0, <1>4, <2>1 DEF Place
  <2>3. TypeOK'
    BY <1>0, <1>2, <1>3, <2>1 DEF TypeOK
  <2>4. k <= MaxRecord + 1
    BY <1>4, <1>12 DEF TooLong
  <2>5. Reading'
    BY <1>0, <1>2, <1>4, <1>9, <2>1, <2>2, <2>4, Sizes DEF Reading
  <2>6. Collecting'
    <3>1. LineBehind(Place)'
      BY <1>8, <2>2 DEF LineBehind
    <3> QED BY <2>1, <3>1 DEF Collecting
  <2>7. LineBounded'
    BY <2>1, <2>5 DEF LineBounded, Reading
  <2> QED BY <1>5, <2>1, <2>3, <2>5, <2>6, <2>7 DEF NewestRecords, FailsOnlyOnLongRecords, LogInv
<1> QED BY <1>10, <1>11, <1>12

-----------------------------------------------------------------------------
(* The text of a record. *)
LEMMA BytesOfRecord ==
    ASSUME TypeOK, NEW r \in 1..Len(width)
    PROVE  /\ RecordBytes(r) \in Seq(Byte) /\ Len(RecordBytes(r)) = width[r]
           /\ \A i \in 1..width[r] : RecordBytes(r)[i] = <<r, i>>
<1>1. PICK w \in Nat : w = width[r]
  BY RecordSizes
<1>2. RecordBytes(r) = [i \in 1..w |-> <<r, i>>]
  BY <1>1 DEF RecordBytes
<1>3. \A i \in 1..w : <<r, i>> \in Byte
  <2>1. r \in 1..Records /\ \A i \in 1..w : i \in Nat \ {0}
    BY Sizes, RecordSizes DEF TypeOK
  <2> QED BY <2>1 DEF Byte
<1>4. RecordBytes(r) \in [1..w -> Byte]
  BY <1>2, <1>3
<1>5. RecordBytes(r) \in Seq(Byte) /\ Len(RecordBytes(r)) = w
  BY <1>4, SeqDef, LenProperties
<1> QED BY <1>1, <1>2, <1>5

LEMMA WholeLine ==
    ASSUME TypeOK, NEW r \in 1..Len(width), Len(line) = width[r],
           \A i \in 1..Len(line) : line[i] = <<r, i>>
    PROVE  line = RecordBytes(r)
<1>1. line \in Seq(Byte)
  BY DEF TypeOK
<1>2. DOMAIN line = 1..width[r] /\ line = [i \in DOMAIN line |-> line[i]]
  BY <1>1, LenProperties
<1> QED BY <1>2 DEF RecordBytes

LEMMA BeginningOfLine ==
    ASSUME TypeOK, NEW r \in 1..Len(width), Len(line) < width[r],
           \A i \in 1..Len(line) : line[i] = <<r, i>>
    PROVE  IsFragment(line)
<1>1. PICK k \in Nat, w \in Nat : k = Len(line) /\ w = width[r] /\ k < w
  BY Sizes, RecordSizes
<1>2. PICK whole \in Seq(Byte) :
         /\ whole = RecordBytes(r) /\ Len(whole) = w
         /\ \A i \in 1..w : whole[i] = <<r, i>>
  BY <1>1, BytesOfRecord
<1>3. ASSUME NEW i \in 1..k PROVE whole[i] = line[i] /\ whole[i] \in Byte
  <2>1. i \in 1..w /\ i \in 1..Len(line) /\ i \in 1..Len(whole)
    BY <1>1, <1>2
  <2>2. whole[i] \in Byte
    BY <2>1, ElementOfSeq
  <2> QED BY <1>2, <2>1, <2>2
<1>4. PICK cut \in Seq(Byte) :
         cut = SubSeq(whole, 1, k) /\ Len(cut) = k /\ \A i \in 1..k : cut[i] = whole[i]
  <2>1. \A i \in 1..k : whole[i] \in Byte
    BY <1>3
  <2>2. /\ SubSeq(whole, 1, k) \in Seq(Byte) /\ Len(SubSeq(whole, 1, k)) = k
        /\ \A i \in 1..k : SubSeq(whole, 1, k)[i] = whole[i]
    BY <2>1, FirstOf
  <2> QED BY <2>2
<1>5. PICK same \in Seq(Byte) :
         same = SubSeq(line, 1, k) /\ Len(same) = k /\ \A i \in 1..k : same[i] = line[i]
  <2>1. \A i \in 1..k : line[i] \in Byte
    BY <1>3
  <2>2. /\ SubSeq(line, 1, k) \in Seq(Byte) /\ Len(SubSeq(line, 1, k)) = k
        /\ \A i \in 1..k : SubSeq(line, 1, k)[i] = line[i]
    BY <2>1, FirstOf
  <2> QED BY <2>2
<1>6. same = cut
  <2>1. \A i \in 1..Len(same) : same[i] = cut[i]
    BY <1>3, <1>4, <1>5
  <2> QED BY <1>4, <1>5, <2>1, SeqEqual
<1>7. IsPrefix(line, whole)
  BY <1>1, <1>2, <1>4, <1>5, <1>6 DEF IsPrefix
<1>8. line # whole
  BY <1>1, <1>2
<1> QED BY <1>2, <1>7, <1>8 DEF IsFragment, IsStrictPrefix

(* A finished line that is not blank is a record from its beginning on, up *)
(* to its end unless the file ended before that.                           *)
LEMMA LineOfRecord ==
    ASSUME TypeOK, Layout, NEW b \in Nat, NEW t \in 0..seen,
           t = b + Len(line), line # <<>>,
           \A i \in 1..Len(line) : line[i] = file[b + i] /\ line[i] # Newline,
           b = 0 \/ (b > 0 /\ file[b] = Newline),
           t \in {0, seen} \/ file[t + 1] = Newline
    PROVE  \E r \in 1..Len(width) :
              /\ Start(r) = b /\ t <= stop[r] /\ (t < stop[r] => t = seen)
              /\ \A i \in 1..Len(line) : line[i] = <<r, i>>
<1>1. PICK k \in Nat : /\ k = Len(line) /\ k > 0 /\ b < t
                     /\ t \in Nat /\ t <= Len(file) /\ t <= seen
  <2>1. Len(line) \in Nat /\ Len(line) > 0
    BY Sizes, EmptySeq DEF TypeOK
  <2>2. t \in Nat /\ t <= Len(file) /\ t <= seen
    BY Sizes
  <2> QED BY <2>1, <2>2
<1>2. \A p \in b + 1..t : file[p] # Newline
  <2> TAKE p \in b + 1..t
  <2>1. p - b \in 1..Len(line) /\ b + (p - b) = p
    BY <1>1
  <2> QED BY <2>1
<1>3. PICK r \in 1..Len(width) : Start(r) <= b /\ t <= stop[r]
  BY <1>1, <1>2, OneRecord
<1>4. Start(r) \in Int /\ stop[r] \in Nat /\ r \in Nat /\ 0 <= Start(r)
  BY RecordSizes DEF Layout
<1>5. Start(r) = b
  <2>1. ASSUME Start(r) < b PROVE FALSE
    <3>1. b \in 1..Len(file) /\ file[b] = Newline
      BY <1>1, <1>4, <2>1
    <3>2. Within(b, r)
      BY <1>1, <1>3, <1>4, <2>1 DEF Within
    <3> QED BY <3>1, <3>2, NoRecordThere
  <2> QED BY <1>3, <1>4, <2>1
<1>6. ASSUME t < stop[r], t # seen PROVE FALSE
  <2>1. t + 1 \in 1..Len(file) /\ file[t + 1] = Newline
    BY <1>1, <1>6, Sizes
  <2>2. Within(t + 1, r)
    BY <1>1, <1>4, <1>5, <1>6 DEF Within
  <2> QED BY <2>1, <2>2, NoRecordThere
<1>7. ASSUME NEW i \in 1..Len(line) PROVE line[i] = <<r, i>>
  <2>1. PICK p \in 1..Len(file) : p = b + i /\ p - Start(r) = i
    BY <1>1, <1>4, <1>5
  <2>2. Within(p, r)
    BY <1>1, <1>3, <1>4, <1>5, <2>1 DEF Within
  <2>3. file[p] = <<r, p - Start(r)>>
    BY <2>2 DEF Layout
  <2> QED BY <2>1, <2>3
<1> QED BY <1>3, <1>5, <1>6, <1>7

(* No record ends where the line is passed over. *)
LEMMA LineSkipped ==
    ASSUME TypeOK, Layout, NEW p \in Nat, NEW t \in Nat, p <= t, ReadBehind(t),
           \A r \in 1..Len(width) : stop[r] <= t => stop[r] <= p
    PROVE  ReadBehind(p)
<1>1. \A r \in 1..Len(width) : stop[r] <= t <=> stop[r] <= p
  BY RecordSizes
<1> QED BY <1>1 DEF ReadBehind

(* The record that ends with the line is the next one. *)
LEMMA RecordTaken ==
    ASSUME TypeOK, Layout, NEW p \in Nat, NEW t \in Nat, ReadBehind(t),
           NEW r \in 1..Len(width), stop[r] = t, p <= Start(r), Start(r) <= p + 1,
           records' = Append(records, r), UNCHANGED <<width, stop, seen>>
    PROVE  ReadBehind(p)' /\ Len(records') = Len(records) + 1
<1>1. PICK newest \in 0..Len(width) :
         /\ Complete = 1..newest
         /\ Len(records) <= newest
         /\ \A i \in 1..Len(records) : records[i] = newest - i + 1
         /\ \A q \in 1..Len(width) : stop[q] <= t <=> q <= newest - Len(records)
  BY DEF ReadBehind
<1>2. PICK n \in Nat, k \in Nat, w \in Nat :
         n = newest /\ k = Len(records) /\ w = Len(width) /\ k <= n /\ n <= w
  <2>1. Len(records) \in Nat /\ Len(width) \in Nat
    BY Sizes
  <2>2. newest \in Nat /\ newest <= Len(width)
    BY <2>1
  <2> QED BY <1>1, <2>1, <2>2
<1>3. r \in Nat /\ r >= 1 /\ r <= w
  BY <1>2
<1>4. r = n - k
  <2>1. r <= n - k
    BY <1>1, <1>2
  <2>2. ASSUME r < n - k PROVE FALSE
    <3>1. PICK q \in 1..Len(width) : q = n - k /\ r < q
      BY <1>2, <1>3, <2>2
    <3>2. stop[q] <= t
      BY <1>1, <1>2, <3>1
    <3>3. stop[r] < Start(q)
      BY <3>1 DEF Layout
    <3>4. stop[q] \in Nat /\ Start(q) \in Int /\ Start(q) < stop[q]
      BY RecordSizes
    <3> QED BY <3>2, <3>3, <3>4
  <2> QED BY <1>2, <1>3, <2>1, <2>2
<1>5. /\ Len(records') = k + 1
      /\ \A i \in 1..k : records'[i] = records[i]
      /\ records'[k + 1] = r
  <2>1. records \in Seq(Nat) /\ r \in Nat
    BY <1>3, SeqMonotonic DEF TypeOK
  <2> QED BY <1>2, <2>1, AppendProperties
<1>6. \A i \in 1..k + 1 : records'[i] = n - i + 1
  <2> TAKE i \in 1..k + 1
  <2>1. CASE i \in 1..k
    BY <1>1, <1>2, <1>5, <2>1
  <2>2. CASE i = k + 1
    BY <1>2, <1>3, <1>4, <1>5, <2>2
  <2> QED BY <1>2, <2>1, <2>2
<1>7. ASSUME NEW q \in 1..Len(width) PROVE stop[q] <= p <=> q <= n - (k + 1)
  <2>1. /\ stop[q] \in Nat /\ Start(r) \in Int /\ stop[r] \in Nat
        /\ Start(q) \in Int /\ Start(q) < stop[q] /\ Start(r) < stop[r]
    <3>1. stop[q] \in Nat /\ Start(q) \in Int /\ Start(q) < stop[q]
      BY RecordSizes
    <3>2. stop[r] \in Nat /\ Start(r) \in Int /\ Start(r) < stop[r]
      BY RecordSizes
    <3> QED BY <3>1, <3>2
  <2>2. CASE q < r
    <3>1. stop[q] < Start(r)
      BY <2>2 DEF Layout
    <3> QED BY <1>2, <1>3, <1>4, <2>1, <2>2, <3>1
  <2>3. CASE q = r
    BY <1>2, <1>3, <1>4, <2>1, <2>3
  <2>4. CASE r < q
    <3>1. stop[r] < Start(q)
      BY <2>4 DEF Layout
    <3> QED BY <1>2, <1>3, <1>4, <2>1, <2>4, <3>1
  <2> QED BY <1>2, <1>3, <2>2, <2>3, <2>4
<1>8. Complete' = 1..n
  BY <1>1, <1>2 DEF Complete
<1>9. k + 1 <= n /\ n \in 0..Len(width')
  BY <1>2, <1>3, <1>4
<1> QED BY <1>2, <1>5, <1>6, <1>7, <1>8, <1>9 DEF ReadBehind

(* The reader goes on before the line, or has what it wants. *)
LEMMA GoesOn ==
    ASSUME LogInv, NEW p \in Nat, p = Place, Reading, TypeOK', ReadBehind(p)',
           UNCHANGED <<file, width, stop, seen, offset, buffer>>,
           line' = <<>>, first' = FALSE,
           p < seen, p = 0 \/ file[p + 1] = Newline,
           pc' = IF Enough(records') THEN "done"
                 ELSE IF buffer = <<>> THEN "chunk" ELSE "part"
    PROVE  LogInv'
<1> USE DEF LogInv
<1>1. Layout'
  BY DEF Layout, Start, Within
<1>2. Place' = p
  BY DEF Place
<1>3. LineBehind(p)'
  <2>1. p \in 0..seen' /\ Len(line') = 0 /\ p = p + 0
    BY Sizes
  <2> QED BY <2>1 DEF LineBehind
<1>4. LineBehind(Place)'
  BY <1>2, <1>3 DEF LineBehind
<1>5. PICK newest \in 0..Len(width) :
         /\ Complete' = 1..newest
         /\ Len(records') <= newest
         /\ \A i \in 1..Len(records') : records'[i] = newest - i + 1
  BY DEF ReadBehind
<1>6. PICK n \in Nat, k \in Nat : n = newest /\ k = Len(records') /\ k <= n /\ k <= Limit
  <2>1. newest \in Nat
    BY Sizes
  <2>2. Len(records') \in Nat /\ Len(records') <= Limit
    BY LenProperties DEF TypeOK
  <2> QED BY <1>5, <2>1, <2>2
<1>7. CASE Enough(records')
  <2>1. k = Limit /\ k > 0 /\ pc' = "done"
    BY <1>6, <1>7 DEF Enough
  <2>2. k = Min({Limit, Cardinality(1..n)}) /\ Max(1..n) = n
    BY <1>6, <2>1, NewestFacts
  <2>3. NewestRecords'
    BY <1>5, <1>6, <2>2 DEF NewestRecords
  <2>4. LineBounded'
    BY <2>1 DEF LineBounded, Reading
  <2> QED BY <1>1, <2>1, <2>3, <2>4 DEF FailsOnlyOnLongRecords
<1>8. CASE ~ Enough(records')
  <2>1. k < Limit /\ pc' = IF buffer = <<>> THEN "chunk" ELSE "part"
    BY <1>6, <1>8 DEF Enough
  <2>2. Reading'
    BY <1>2, <1>6, <2>1 DEF Reading
  <2>3. Collecting'
    BY <1>4, <2>1 DEF Collecting
  <2>4. LineBounded'
    BY <2>1, <2>2 DEF LineBounded, Reading
  <2> QED BY <1>1, <2>1, <2>2, <2>3, <2>4 DEF NewestRecords, FailsOnlyOnLongRecords
<1> QED BY <1>7, <1>8

LEMMA DecodeKeepsTypes ==
    ASSUME TypeOK, UNCHANGED <<file, width, stop, seen, offset, buffer>>,
           line' = <<>>, first' = FALSE,
           pc' \in {"chunk", "part", "done", "failed"},
           records' \in Seq(1..Records), Len(records') <= Limit
    PROVE  TypeOK'
<1>1. line' \in Seq(Byte) /\ first' \in BOOLEAN
  BY EmptySeq
<1> QED BY <1>1 DEF TypeOK

LEMMA DecodeKeepsLogInv == ASSUME LogInv, Decode PROVE LogInv'
<1> USE DEF LogInv
<1>0. /\ pc = "decode" /\ Reading /\ Finished
      /\ UNCHANGED <<file, width, stop, seen, offset, buffer>>
      /\ line' = <<>> /\ first' = FALSE
  BY DEF Decode, content
<1>1. PICK p \in Nat : p = Place /\ p <= seen /\ seen \in Nat
  <2>1. Place \in Nat /\ seen \in Nat
    BY Sizes
  <2> QED BY <1>0, <2>1 DEF Reading
<1>2. PICK b \in Nat :
         /\ \/ p = 0 /\ line # <<>> /\ b = 0
            \/ p < seen /\ file[p + 1] = Newline /\ b = p + 1
         /\ LineBehind(b)
  <2>1. CASE Place = 0 /\ line # <<>> /\ LineBehind(0)
    BY <1>1, <2>1
  <2>2. CASE Place < seen /\ file[Place + 1] = Newline /\ LineBehind(Place + 1)
    <3>1. LineBehind(p + 1)
      BY <1>1, <2>2 DEF LineBehind
    <3> QED BY <1>1, <2>2, <3>1
  <2> QED BY <1>0, <2>1, <2>2 DEF Finished
<1>3. PICK t \in 0..seen :
         /\ t = b + Len(line)
         /\ \A i \in 1..Len(line) : line[i] = file[b + i] /\ line[i] # Newline
         /\ t \in {0, seen} \/ file[t + 1] = Newline
         /\ first <=> t = seen
         /\ ReadBehind(t)
  BY <1>2 DEF LineBehind
<1>4. t \in Nat /\ t <= seen /\ p <= t /\ p <= b /\ b <= p + 1
  BY <1>1, <1>2, <1>3, Sizes
<1>5. p < seen /\ (p = 0 \/ file[p + 1] = Newline)
  <2>1. line # <<>> => Len(line) > 0
    BY Sizes
  <2> QED BY <1>1, <1>2, <1>3, <1>4, <2>1
<1>6. ASSUME UNCHANGED records, ReadBehind(p),
             pc' = IF Enough(records') THEN "done"
                   ELSE IF buffer = <<>> THEN "chunk" ELSE "part"
      PROVE  LogInv'
  <2>1. TypeOK'
    <3>1. records' \in Seq(1..Records) /\ Len(records') <= Limit
      BY <1>6 DEF TypeOK
    <3>2. pc' \in {"chunk", "part", "done", "failed"}
      BY <1>6
    <3> QED BY <1>0, <3>1, <3>2, DecodeKeepsTypes
  <2>2. ReadBehind(p)'
    BY <1>0, <1>6 DEF ReadBehind, Complete
  <2> QED BY <1>0, <1>1, <1>5, <1>6, <2>1, <2>2, GoesOn
<1>7. CASE line = <<>>
  <2>1. t = b /\ b = p + 1 /\ p + 1 \in 1..Len(file)
    BY <1>1, <1>2, <1>3, <1>4, <1>7, Sizes
  <2>2. ASSUME NEW r \in 1..Len(width), stop[r] <= t PROVE stop[r] <= p
    <3>1. ~ Within(p + 1, r)
      BY <1>2, <1>7, <2>1, NoRecordThere
    <3> QED BY <2>1, <2>2, <3>1, RecordSizes DEF Within
  <2>3. ReadBehind(p)
    BY <1>3, <1>4, <2>2, LineSkipped
  <2>4. /\ UNCHANGED records
        /\ pc' = IF Enough(records') THEN "done"
                 ELSE IF buffer = <<>> THEN "chunk" ELSE "part"
    BY <1>7 DEF Decode
  <2> QED BY <1>6, <2>3, <2>4
<1>8. CASE line # <<>>
  <2>1. PICK r \in 1..Len(width) :
           /\ Start(r) = b /\ t <= stop[r] /\ (t < stop[r] => t = seen)
           /\ \A i \in 1..Len(line) : line[i] = <<r, i>>
    <3>1. b = 0 \/ (b > 0 /\ file[b] = Newline)
      BY <1>2
    <3> QED BY <1>3, <1>8, <3>1, LineOfRecord
  <2>2. PICK k \in Nat, w \in Nat :
           /\ k = Len(line) /\ k > 0 /\ w = width[r] /\ k <= w
           /\ stop[r] \in Nat /\ stop[r] = b + w
    <3>1. width[r] \in Nat /\ stop[r] \in Nat /\ stop[r] = b + width[r]
      BY <2>1, RecordSizes
    <3>2. Len(line) \in Nat /\ Len(line) > 0
      BY <1>8, Sizes
    <3>3. Len(line) <= width[r]
      BY <1>3, <1>4, <2>1, <3>1, <3>2
    <3> QED BY <3>1, <3>2, <3>3
  <2>3. CASE k > MaxRecord
    <3>1. pc' = "failed" /\ UNCHANGED records
      BY <2>2, <2>3 DEF Decode
    <3>2. TypeOK' /\ Layout'
      <4>1. records' \in Seq(1..Records) /\ Len(records') <= Limit
        BY <3>1 DEF TypeOK
      <4>2. TypeOK'
        BY <1>0, <3>1, <4>1, DecodeKeepsTypes
      <4>3. Layout'
        BY <1>0 DEF Layout, Start, Within
      <4> QED BY <4>2, <4>3
    <3>3. FailsOnlyOnLongRecords'
      <4>1. width[r] > MaxRecord
        BY <2>2, <2>3
      <4> QED BY <1>0, <4>1 DEF FailsOnlyOnLongRecords
    <3>4. LineBounded'
      BY <1>0, <3>1 DEF LineBounded, Reading
    <3> QED BY <3>1, <3>2, <3>3, <3>4 DEF NewestRecords
  <2>4. CASE k <= MaxRecord /\ k = w
    <3>1. line = RecordBytes(r) /\ line[1] = <<r, 1>>
      BY <2>1, <2>2, <2>4, WholeLine
    <3>2. IsRecord(line) /\ line[1][1] = r
      BY <3>1 DEF IsRecord
    <3>3. /\ records' = Append(records, r)
          /\ pc' = IF Enough(records') THEN "done"
                   ELSE IF buffer = <<>> THEN "chunk" ELSE "part"
      BY <1>8, <2>2, <2>4, <3>2 DEF Decode
    <3>4. stop[r] = t /\ p <= Start(r) /\ Start(r) <= p + 1
      BY <1>3, <1>4, <2>1, <2>2, <2>4
    <3>5. ReadBehind(p)' /\ Len(records') = Len(records) + 1
      BY <1>0, <1>3, <1>4, <3>3, <3>4, RecordTaken
    <3>6. TypeOK'
      <4>1. r \in 1..Records /\ Len(records) < Limit
        BY <1>0, Sizes, RecordSizes DEF TypeOK, Reading
      <4>2. records' \in Seq(1..Records)
        BY <3>3, <4>1, AppendProperties DEF TypeOK
      <4>3. Len(records') <= Limit
        BY <3>5, <4>1, Sizes
      <4>4. pc' \in {"chunk", "part", "done", "failed"}
        BY <3>3
      <4> QED BY <1>0, <4>2, <4>3, <4>4, DecodeKeepsTypes
    <3> QED BY <1>0, <1>1, <1>5, <3>3, <3>5, <3>6, GoesOn
  <2>5. CASE k <= MaxRecord /\ k # w
    <3>1. t < stop[r] /\ t = seen /\ first
      BY <1>3, <1>4, <2>1, <2>2, <2>5
    <3>2. FragmentAllowed(line)
      BY <2>1, <2>2, <2>5, <3>1, BeginningOfLine DEF FragmentAllowed
    <3>3. ~ IsRecord(line)
      <4> SUFFICES ASSUME NEW q \in 1..Len(width), line = RecordBytes(q) PROVE FALSE
        BY DEF IsRecord
      <4>1. Len(line) = width[q] /\ \A i \in 1..width[q] : line[i] = <<q, i>>
        BY BytesOfRecord
      <4>2. <<r, 1>> = <<q, 1>>
        BY <2>1, <2>2, <4>1
      <4> QED BY <2>2, <2>5, <4>1, <4>2
    <3>4. /\ UNCHANGED records
          /\ pc' = IF Enough(records') THEN "done"
                   ELSE IF buffer = <<>> THEN "chunk" ELSE "part"
      BY <2>2, <2>5, <3>2, <3>3 DEF Decode
    <3>5. ASSUME NEW q \in 1..Len(width), stop[q] <= t PROVE stop[q] <= p
      <4>1. stop[q] \in Nat /\ Start(q) \in Int /\ Start(q) < stop[q] /\ q \in Nat /\ r \in Nat
        BY RecordSizes
      <4>2. CASE q < r
        <5>1. stop[q] < Start(r)
          BY <4>2 DEF Layout
        <5> QED BY <1>4, <2>1, <4>1, <5>1
      <4>3. CASE q = r
        BY <1>4, <2>2, <3>1, <3>5, <4>3
      <4>4. CASE r < q
        <5>1. stop[r] < Start(q)
          BY <4>4 DEF Layout
        <5> QED BY <1>4, <2>2, <3>1, <3>5, <4>1, <5>1
      <4> QED BY <4>1, <4>2, <4>3, <4>4
    <3>6. ReadBehind(p)
      BY <1>3, <1>4, <3>5, LineSkipped
    <3> QED BY <1>6, <3>4, <3>6
  <2> QED BY <2>2, <2>3, <2>4, <2>5
<1> QED BY <1>7, <1>8

-----------------------------------------------------------------------------
LEMMA NextLogInv == LogInv /\ [Next]_vars => LogInv'
<1> SUFFICES ASSUME LogInv, [Next]_vars PROVE LogInv'
  OBVIOUS
<1>1. CASE Write
  <2>1. TypeOK' /\ Grown /\ Layout'
    <3>1. ASSUME NEW w \in Widths, BeginRecord(w), UNCHANGED reader
          PROVE  TypeOK' /\ Grown /\ Layout'
      BY <3>1, BeginGrows DEF LogInv
    <3>2. CASE (WriteRecord \/ EndLine) /\ UNCHANGED reader
      BY <3>2, ByteGrows DEF LogInv
    <3> QED BY <1>1, <3>1, <3>2 DEF Write
  <2> QED BY <2>1, GrownKeepsLogInv
<1>2. CASE Open
  BY <1>2, OpenKeepsLogInv
<1>3. CASE NextChunk
  BY <1>3, NextChunkKeepsLogInv
<1>4. CASE Part
  BY <1>4, PartKeepsLogInv
<1>5. CASE Decode
  BY <1>5, DecodeKeepsLogInv
<1>6. CASE UNCHANGED vars
  <2>1. TypeOK' /\ Layout' /\ Complete' = Complete /\ Place' = Place
    BY <1>6 DEF vars, LogInv, TypeOK, Layout, Start, Within, Complete, Place
  <2>2. \A t : ReadBehind(t)' <=> ReadBehind(t)
    BY <1>6, <2>1 DEF vars, ReadBehind
  <2>3. \A b : LineBehind(b)' <=> LineBehind(b)
    BY <1>6, <2>2 DEF vars, LineBehind
  <2>4. (Reading => Reading') /\ (Collecting => Collecting') /\ (Finished => Finished')
    BY <1>6, <2>1, <2>3 DEF vars, Reading, Collecting, Finished
  <2> QED BY <1>6, <2>1, <2>4
          DEF vars, LogInv, LineBounded, NewestRecords, FailsOnlyOnLongRecords
<1> QED BY <1>1, <1>2, <1>3, <1>4, <1>5, <1>6 DEF Next

LEMMA LogInvAlways == Spec => []LogInv
BY InitLogInv, NextLogInv, PTL DEF Spec

(* The reader never holds more than a chunk and a line that is not too     *)
(* long: a long record is given up before it is collected.                 *)
THEOREM MemoryIsBounded == Spec => []LineBounded
<1>1. LogInv => LineBounded
  BY DEF LogInv
<1> QED BY <1>1, LogInvAlways, PTL

(* readLogFile: the newest records that were complete when the file was    *)
(* opened, each once and the newest first, wherever the chunks cut them    *)
(* and whatever is written meanwhile.                                      *)
THEOREM ReadsTheNewestRecords == Spec => []NewestRecords
<1>1. LogInv => NewestRecords
  BY DEF LogInv
<1> QED BY <1>1, LogInvAlways, PTL

(* A half-written record at the end of the file is not taken for damage,   *)
(* and no chunk boundary makes damage of a record.                         *)
THEOREM OnlyLongRecordsFail == Spec => []FailsOnlyOnLongRecords
<1>1. LogInv => FailsOnlyOnLongRecords
  BY DEF LogInv
<1> QED BY <1>1, LogInvAlways, PTL
=============================================================================
