------------------------------- MODULE LogFile -------------------------------
(***************************************************************************)
(* Reading the end of one log file backwards, as readLogFile and           *)
(* reverseLogReader of components/easylog/reader.go do, while the service  *)
(* goes on writing to it.                                                  *)
(*                                                                         *)
(* The file is a sequence of bytes.  A byte of a record is known by its    *)
(* record and its place in it, so that text that is cut or joined in the   *)
(* wrong way is not a record.  A record is written as one line, but a      *)
(* reader may see any part of it.                                          *)
(*                                                                         *)
(* Nothing here is a fold over the file: where a record ends is noted when *)
(* it is begun.                                                            *)
(***************************************************************************)
EXTENDS Naturals, FiniteSets, Sequences, SequencesExt, FiniteSetsExt

CONSTANTS Records,   \* how many records are written
          Widths,    \* the lengths a record may have
          Chunk,     \* logReadChunkBytes
          MaxRecord, \* maxLogRecordBytes
          Limit,     \* how many records are wanted
          Newline

ASSUME SizeAssumption ==
    /\ Records \in Nat /\ Limit \in Nat \ {0}
    /\ Chunk \in Nat \ {0} /\ MaxRecord \in Nat
    /\ Widths \subseteq Nat \ {0}
ASSUME NewlineAssumption == Newline \notin Nat \X Nat

VARIABLES file,    \* the bytes of the file
          width,   \* the length of every record that was begun
          stop,    \* the place of its last byte in the file
          pc,      \* the reader
          seen,    \* the size of the file when it was opened
          offset,  \* reverseLogReader: where the buffer starts
          buffer,  \* and what is left of the chunk
          line,    \* the parts of the line so far, joined
          first,   \* whether the line is the last one of the file
          records  \* the records read, newest first

vars == <<file, width, stop, pc, seen, offset, buffer, line, first, records>>
reader == <<pc, seen, offset, buffer, line, first, records>>
content == <<file, width, stop>>

Byte == ((1..Records) \X (Nat \ {0})) \cup {Newline}

TypeOK ==
    /\ file \in Seq(Byte)
    /\ width \in Seq(Widths) /\ Len(width) <= Records
    /\ stop \in Seq(Nat) /\ Len(stop) = Len(width)
    /\ pc \in {"closed", "chunk", "part", "decode", "done", "failed"}
    /\ seen \in 0..Len(file)
    /\ offset \in 0..seen
    /\ buffer \in Seq(Byte)
    /\ line \in Seq(Byte)
    /\ first \in BOOLEAN
    /\ records \in Seq(1..Records) /\ Len(records) <= Limit

Init ==
    /\ file = <<>> /\ width = <<>> /\ stop = <<>>
    /\ pc = "closed"
    /\ seen = 0
    /\ offset = 0
    /\ buffer = <<>>
    /\ line = <<>>
    /\ first = TRUE
    /\ records = <<>>

-----------------------------------------------------------------------------
(* The service begins a record at the beginning of a line, writes it byte  *)
(* by byte, ends the line and may leave a blank one; a reader may open the *)
(* file after any byte.                                                    *)
BeginRecord(w) ==
    /\ Len(width) < Records
    /\ file # <<>> => Last(file) = Newline
    /\ width' = Append(width, w)
    /\ stop' = Append(stop, Len(file) + w)
    /\ file' = Append(file, <<Len(width) + 1, 1>>)

WriteRecord ==
    LET r == Len(width)
    IN  /\ r > 0 /\ Len(file) < stop[r]
        /\ file' = Append(file, <<r, Len(file) + 1 - (stop[r] - width[r])>>)
        /\ UNCHANGED <<width, stop>>

EndLine ==
    LET r == Len(width)
    IN  /\ r > 0 /\ Len(file) \in {stop[r], stop[r] + 1}
        /\ file' = Append(file, Newline)
        /\ UNCHANGED <<width, stop>>

Write == ((\E w \in Widths : BeginRecord(w)) \/ WriteRecord \/ EndLine) /\ UNCHANGED reader

Open ==
    /\ pc = "closed"
    /\ seen' = Len(file)
    /\ offset' = Len(file)
    /\ pc' = "chunk"
    /\ UNCHANGED <<content, buffer, line, first, records>>

(* The buffer is used up: the next chunk is read, or the file has begun.   *)
NextChunk ==
    /\ pc = "chunk"
    /\ IF offset = 0
       THEN /\ pc' = IF line = <<>> THEN "done" ELSE "decode"
            /\ UNCHANGED <<offset, buffer>>
       ELSE LET size == IF Chunk < offset THEN Chunk ELSE offset
            IN  /\ offset' = offset - size
                /\ buffer' = SubSeq(file, offset - size + 1, offset)
                /\ pc' = "part"
    /\ UNCHANGED <<content, seen, line, first, records>>

Join(part, rest) == part \o rest

LastNewline ==
    IF Newline \in ToSet(buffer)
    THEN Max({i \in 1..Len(buffer) : buffer[i] = Newline})
    ELSE 0

(* Mutant: only the finished line is checked for its length. *)
TooLongAtEnd(text) == Len(text) > MaxRecord /\ LastNewline > 0

TooLong(text) == Len(text) > MaxRecord + 1

(* Mutant: the newline stays in the buffer. *)
BeforeWithNewline(newline) == SubSeq(buffer, 1, newline)

(* Mutant: a byte before the newline is lost. *)
BeforeTooShort(newline) == SubSeq(buffer, 1, newline - 2)

Before(newline) == SubSeq(buffer, 1, newline - 1)

Part ==
    LET newline == LastNewline
        text == Join(SubSeq(buffer, newline + 1, Len(buffer)), line)
    IN  /\ pc = "part"
        /\ line' = text
        /\ IF TooLong(text) THEN pc' = "failed" /\ UNCHANGED buffer
           ELSE IF newline > 0 THEN pc' = "decode" /\ buffer' = Before(newline)
           ELSE pc' = "chunk" /\ buffer' = <<>>
        /\ UNCHANGED <<content, seen, offset, first, records>>

RecordBytes(r) == [i \in 1..width[r] |-> <<r, i>>]

IsRecord(text) == \E r \in 1..Len(width) : text = RecordBytes(r)
IsFragment(text) ==
    \E r \in 1..Len(width) : IsStrictPrefix(text, RecordBytes(r))

(* Mutant: a fragment is not expected anywhere. *)
FragmentNowhere(text) == FALSE

FragmentAllowed(text) == first /\ IsFragment(text)

Enough(read) == Len(read) = Limit

(* readLogFile with a finished line: a blank line is skipped, so is a      *)
(* fragment at the end of the file; anything else that is no record ends   *)
(* the reading with an error.                                              *)
Decode ==
    LET more == pc' = (IF Enough(records') THEN "done"
                       ELSE IF buffer = <<>> THEN "chunk" ELSE "part")
    IN  /\ pc = "decode"
        /\ first' = FALSE
        /\ line' = <<>>
        /\ IF Len(line) > MaxRecord
           THEN pc' = "failed" /\ UNCHANGED records
           ELSE IF line = <<>> \/ (~ IsRecord(line) /\ FragmentAllowed(line))
           THEN UNCHANGED records /\ more
           ELSE IF IsRecord(line)
           THEN records' = Append(records, line[1][1]) /\ more
           ELSE pc' = "failed" /\ UNCHANGED records
        /\ UNCHANGED <<content, seen, offset, buffer>>

Next == Write \/ Open \/ NextChunk \/ Part \/ Decode

Spec == Init /\ [][Next]_vars

(* The reader is never kept waiting; the service writes when it likes.     *)
FairSpec == Spec /\ WF_vars(Open \/ NextChunk \/ Part \/ Decode)

-----------------------------------------------------------------------------
(* The records that were written as a whole when the file was opened; the  *)
(* newline after the last one may be missing.                              *)
Complete == {r \in 1..Len(width) : stop[r] <= seen}

(* The reader shows the last records that were complete, each once and the *)
(* newest first, wherever the chunks cut the lines.                        *)
NewestRecords ==
    pc = "done" =>
        /\ Len(records) = Min({Limit, Cardinality(Complete)})
        /\ \A i \in 1..Len(records) : records[i] = Max(Complete) - i + 1

(* A file that is being written is never taken for a damaged one: only a   *)
(* line that is too long ends the reading with an error.                   *)
FailsOnlyOnLongRecords ==
    pc = "failed" => \E r \in 1..Len(width) : width[r] > MaxRecord

(* A line that is too long is refused before it is collected: beside the   *)
(* buffer the reader never holds more than a record with its carriage      *)
(* return and, when it gives up, the part that was too much.               *)
LineBounded ==
    /\ Len(buffer) <= Chunk
    /\ Len(line) <= MaxRecord + 1 + (IF pc = "failed" THEN Chunk ELSE 0)

(* The reader comes to an end while the file grows. *)
ReaderEnds == <>(pc \in {"done", "failed"})
=============================================================================
