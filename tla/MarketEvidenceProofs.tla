------------------------- MODULE MarketEvidenceProofs -------------------------
(***************************************************************************)
(* The journal keeps the latest of what was written, an accepted capture   *)
(* misses nothing and has the frames of one connection in their order, and *)
(* a connection borrows nothing but late frames: for every limit, every    *)
(* size of the lines and any number of connections, frames, faults and     *)
(* sessions.                                                               *)
(***************************************************************************)
EXTENDS MarketEvidence, TLAPS

(* A record carries the time of the frame it is of.                         *)
Contents == {c \in [kind : Kinds, connection : Nat, frame : Nat, stamp : Nat] :
                c.stamp = c.frame}

(* Every record carries the number of its attempt.                          *)
Lines == {l \in [session : Nat, sequence : Nat, of : Contents, nth : Nat] : l.nth = l.sequence}

Pieces == [record : Lines, end : {"line", "unended", "torn"}, nth : Nat]
Files == [lines : Seq(Pieces), size : Nat]

JournalTypes ==
    /\ active \in Files /\ backup \in Files
    /\ sink \in [session : Nat, sequence : Nat, outbox : Seq(Lines)]
    /\ reader \in [at : {"idle", "file", "backup", "active"},
                   sees : SUBSET {"backup", "active"}, lines : Seq(Lines)]
    /\ written \in Nat /\ attempts = sink.sequence

(* The files hold the last pieces that were written, and a file that has    *)
(* lines has a size.                                                        *)
Consecutive ==
    /\ \A i \in DOMAIN active.lines : active.lines[i].nth = written - Len(active.lines) + i
    /\ \A i \in DOMAIN backup.lines :
          backup.lines[i].nth = written - Len(active.lines) - Len(backup.lines) + i
    /\ written > 0 => active.lines # <<>> \/ backup.lines # <<>>

Bounded(file) ==
    /\ file.size = 0 <=> file.lines = <<>>
    /\ file.size <= MaxBytes \/ Len(file.lines) = 1

JournalInv == JournalTypes /\ Consecutive /\ Bounded(active) /\ Bounded(backup)

Summaries == [frame : Nat, connection : Nat, late : BOOLEAN]
States == {"connecting", "running", "backoff", "stopped"}
Decodings == [kind : Messages, frame : Nat, connection : Nat, current : BOOLEAN]

MarketTypes ==
    /\ recorder \in [up : BOOLEAN, desired : BOOLEAN, state : States, connection : Nat,
                     trade : Summaries, mark : Summaries, timer : BOOLEAN]
    /\ socket \in {"none", "opening", "open"}
    /\ decoding \in Seq(Decodings)
    /\ received \in Nat

Own(summary) ==
    summary = None \/ summary.late \/ summary.connection = recorder.connection

RecorderInv ==
    /\ MarketTypes
    /\ socket # "none" => recorder.state \in {"connecting", "running"}
    /\ \A i \in DOMAIN decoding :
          decoding[i].current => decoding[i].connection = recorder.connection
    /\ recorder.state \in {"connecting", "running"} =>
          Own(recorder.trade) /\ Own(recorder.mark)

(* What is on the disk, about to be, or in the hands of the reader.         *)
Recorded ==
    {piece.record : piece \in Range(backup.lines) \cup Range(active.lines)}
        \cup Range(sink.outbox) \cup Range(reader.lines)

Opens(l) == l.of.kind \in {"connecting", "running"}

(* The number k of the session went to a "backoff", kept or lost.           *)
GivenUp(session, k) ==
    \A l \in Recorded : l.session = session /\ l.sequence = k => l.of.kind = "backoff"

(* Between the lines of two connections of a session, and between the lines *)
(* of one and the end when it is given up, a number went to a "backoff".    *)
Numbered ==
    \A l \in Recorded :
        /\ l.session <= sink.session
        /\ l.session = sink.session => l.sequence <= sink.sequence

Left ==
    \A a \in Recorded :
        /\ Opens(a) /\ a.session = sink.session
        /\ recorder.timer \/ a.of.connection # recorder.connection
        => \E k \in Nat : a.sequence < k /\ k <= sink.sequence /\ GivenUp(sink.session, k)

Separated ==
    \A a, b \in Recorded :
        /\ Opens(a) /\ Opens(b) /\ a.session = b.session
        /\ a.sequence < b.sequence /\ a.of.connection # b.of.connection
        => \E k \in Nat : a.sequence < k /\ k < b.sequence /\ GivenUp(a.session, k)

ConnectionsInv ==
    /\ recorder.timer => socket = "none"
    /\ Numbered /\ Left /\ Separated

MarketInv == JournalInv /\ RecorderInv /\ ConnectionsInv

(* What the recorder records is of a kind the journal knows.                *)
LEMMA KindsAre == Messages \subseteq Kinds /\ Transitions \subseteq Kinds /\ "error" \in Kinds
BY MarketAssumption

-----------------------------------------------------------------------------
(* The sink.                                                                *)

(* The outbox is filled with lines that carry their numbers.                *)
LEMMA RecordTyped ==
    ASSUME NEW session \in Nat, NEW sequence \in Nat, NEW contents \in Seq(Contents),
           contents # <<>>, NEW thrown \in BOOLEAN,
           RecordAs(session, sequence, sequence, contents, thrown)
    PROVE  /\ sink' \in [session : Nat, sequence : Nat, outbox : Seq(Lines)]
           /\ attempts' = sink'.sequence
<1> DEFINE lines == [k \in DOMAIN contents |->
                        [session |-> session, sequence |-> sequence + k,
                         of |-> contents[k], nth |-> sequence + k]]
<1>1. lines \in Seq(Lines) /\ lines # <<>>
  <2>1. \A k \in 1 .. Len(contents) : lines[k] \in Lines
    BY DEF Lines
  <2>2. Len(contents) \in Nat /\ Len(contents) # 0 /\ DOMAIN contents = 1 .. Len(contents)
    OBVIOUS
  <2>3. lines \in [1 .. Len(contents) -> Lines]
    BY <2>1, <2>2
  <2> HIDE DEF lines
  <2>4. lines \in Seq(Lines) /\ Len(lines) = Len(contents)
    BY <2>2, <2>3
  <2> QED BY <2>2, <2>4
<1>2. Tail(lines) \in Seq(Lines)
  BY <1>1
<1>3. sink' = [session |-> session, sequence |-> sequence + Len(contents),
               outbox |-> IF thrown THEN Tail(lines) ELSE lines]
  BY DEF RecordAs
<1>4. attempts' = sequence + Len(contents)
  BY DEF RecordAs
<1> HIDE DEF lines
<1> QED BY <1>1, <1>2, <1>3, <1>4

(* A handler records: the files stay, the outbox is filled.                 *)
LEMMA RecordKeeps ==
    ASSUME JournalInv, KeepFiles,
           NEW contents \in Seq(Contents), contents # <<>>, NEW thrown \in BOOLEAN,
           Record(contents, thrown)
    PROVE  JournalInv'
<1>1. RecordAs(sink.session, sink.sequence, sink.sequence, contents, thrown)
  BY DEF Record, JournalInv, JournalTypes
<1>2. sink.session \in Nat /\ sink.sequence \in Nat
  BY DEF JournalInv, JournalTypes
<1>3. /\ sink' \in [session : Nat, sequence : Nat, outbox : Seq(Lines)]
      /\ attempts' = sink'.sequence
  BY <1>1, <1>2, RecordTyped
<1> QED BY <1>3 DEF JournalInv, JournalTypes, Consecutive, Bounded, KeepFiles

(* So it does in a new session.                                             *)
LEMMA SessionKeeps ==
    ASSUME JournalInv, KeepFiles, NEW contents \in Seq(Contents), contents # <<>>,
           OpenSession(contents)
    PROVE  JournalInv'
<1>1. RecordAs(sink.session + 1, 0, 0, contents, FALSE)
  BY DEF OpenSession
<1>3. sink.session + 1 \in Nat
  BY DEF JournalInv, JournalTypes
<1>2. /\ sink' \in [session : Nat, sequence : Nat, outbox : Seq(Lines)]
      /\ attempts' = sink'.sequence
  BY <1>1, <1>3, RecordTyped
<1> QED BY <1>2 DEF JournalInv, JournalTypes, Consecutive, Bounded, KeepFiles

(* What is appended, whole or in part, comes next.                          *)
LEMMA PutsKeeps ==
    ASSUME JournalInv, NEW line \in Lines, NEW end \in {"line", "unended", "torn"},
           ~NeedsRotation(line), Puts(line, end), UNCHANGED backup
    PROVE  /\ active' \in Files /\ written' \in Nat
           /\ Consecutive' /\ Bounded(active)'
<1> DEFINE piece == [record |-> line, end |-> end, nth |-> written + 1]
           bytes == IF end = "torn" THEN 1 ELSE LineBytes[line.of.kind]
<1>1. active.lines \in Seq(Pieces) /\ active.size \in Nat /\ written \in Nat
      /\ backup.lines \in Seq(Pieces)
  BY DEF JournalInv, JournalTypes, Files
<1>2. piece \in Pieces
  BY <1>1 DEF Pieces
<1>3. LineBytes[line.of.kind] \in Nat \ {0}
  BY JournalAssumption DEF Lines, Contents
<1>4. bytes \in Nat \ {0} /\ bytes <= LineBytes[line.of.kind]
  BY <1>3
<1>5. /\ active' = [lines |-> Append(active.lines, piece), size |-> active.size + bytes]
      /\ written' = written + 1 /\ backup' = backup
  BY DEF Puts
<1>6. /\ active'.lines = Append(active.lines, piece) /\ active'.size = active.size + bytes
      /\ active'.lines \in Seq(Pieces) /\ Len(active'.lines) = Len(active.lines) + 1
  BY <1>1, <1>2, <1>5
<1>a. /\ Len(active.lines) \in Nat /\ Len(backup.lines) \in Nat /\ written \in Nat
      /\ written' = written + 1 /\ Len(active'.lines) = Len(active.lines) + 1
  BY <1>1, <1>5, <1>6
<1>s. /\ written' - Len(active'.lines) + Len(active'.lines) = written + 1
      /\ \A k \in Nat : written' - Len(active'.lines) + k = written - Len(active.lines) + k
      /\ \A k \in Nat : written' - Len(active'.lines) - Len(backup.lines) + k
                          = written - Len(active.lines) - Len(backup.lines) + k
  <2> DEFINE a == Len(active.lines)
             b == Len(backup.lines)
             c == Len(active'.lines)
  <2>1. a \in Nat /\ b \in Nat /\ written \in Nat /\ written' = written + 1 /\ c = a + 1
    BY <1>a
  <2> HIDE DEF a, b, c
  <2>2. /\ written' - c + c = written + 1
        /\ \A k \in Nat : written' - c + k = written - a + k
        /\ \A k \in Nat : written' - c - b + k = written - a - b + k
    BY ONLY <2>1
  <2> QED BY <2>2 DEF a, b, c
<1>b. piece.nth = written + 1
  OBVIOUS
<1> HIDE DEF piece, bytes
<1>c. active'.lines # <<>>
  BY <1>1, <1>2, <1>6
<1>7. active' \in Files /\ written' \in Nat
  BY <1>1, <1>2, <1>4, <1>5 DEF Files
<1>8. Consecutive'
  <2>1. ASSUME NEW i \in DOMAIN active'.lines
        PROVE  active'.lines[i].nth = written' - Len(active'.lines) + i
    <3>1. i \in 1 .. Len(active.lines) + 1
      BY <1>1, <1>6
    <3>2. CASE i = Len(active.lines) + 1
      <4>1. active'.lines[i].nth = written + 1
        BY <3>2, <1>1, <1>2, <1>b, <1>6
      <4>3. written' - Len(active'.lines) + i = written + 1
        BY ONLY <1>s, <3>2, <1>a
      <4> QED BY ONLY <4>1, <4>3
    <3>3. CASE i \in 1 .. Len(active.lines)
      <4>1. i \in DOMAIN active.lines /\ active'.lines[i] = active.lines[i]
        BY <3>3, <1>1, <1>2, <1>6
      <4>2. active.lines[i].nth = written - Len(active.lines) + i
        BY <4>1 DEF JournalInv, Consecutive
      <4>3. i \in Nat
        BY <3>3, <1>a
      <4>5. written' - Len(active'.lines) + i = written - Len(active.lines) + i
        BY ONLY <4>3, <1>s, Zenon
      <4> QED BY ONLY <4>1, <4>2, <4>5
    <3> QED BY <3>1, <3>2, <3>3, <1>1
  <2>2. ASSUME NEW i \in DOMAIN backup'.lines
        PROVE  backup'.lines[i].nth
                 = written' - Len(active'.lines) - Len(backup'.lines) + i
    <3>1. backup.lines[i].nth = written - Len(active.lines) - Len(backup.lines) + i
      BY <1>5 DEF JournalInv, Consecutive
    <3>2. i \in Nat /\ backup'.lines = backup.lines
      BY <1>1, <1>5
    <3>4. written' - Len(active'.lines) - Len(backup'.lines) + i
            = written - Len(active.lines) - Len(backup.lines) + i
      BY ONLY <3>2, <1>s, Zenon
    <3> QED BY ONLY <3>1, <3>2, <3>4
  <2>3. active'.lines # <<>>
    BY <1>c
  <2> QED BY <2>1, <2>2, <2>3 DEF Consecutive
<1>9. Bounded(active)'
  <2>1. active'.size # 0 /\ active'.lines # <<>>
    <3>1. Len(active.lines) \in Nat
      BY <1>1
    <3>2. active'.size # 0
      BY <1>1, <1>4, <1>6
    <3> QED BY <3>1, <3>2, <1>6
  <2>2. CASE active.size = 0
    <3>1. active.lines = <<>>
      BY <2>2 DEF JournalInv, Bounded
    <3> QED BY <2>1, <1>6, <3>1 DEF Bounded
  <2>3. CASE active.size + LineBytes[line.of.kind] <= MaxBytes
    BY <2>1, <2>3, <1>1, <1>3, <1>4, <1>6, JournalAssumption DEF Bounded
  <2> QED BY <2>2, <2>3, <1>1, <1>3, JournalAssumption DEF NeedsRotation
<1> QED BY <1>7, <1>8, <1>9

(* While something waits, the next to be written is a line.                 *)
LEMMA HeadIsLine ==
    ASSUME JournalInv, ~Written
    PROVE  Head(sink.outbox) \in Lines /\ Tail(sink.outbox) \in Seq(Lines)
BY DEF JournalInv, JournalTypes, Written

(* The three calls to the file system.                                      *)
LEMMA WriteKeeps == JournalInv /\ Write => JournalInv'
<1> SUFFICES ASSUME JournalInv, Write PROVE JournalInv'
  OBVIOUS
<1>t. active.lines \in Seq(Pieces) /\ active.size \in Nat /\ written \in Nat
      /\ backup.lines \in Seq(Pieces)
  BY DEF JournalInv, JournalTypes, Files
<1>n. NoFile \in Files /\ NoFile.lines = <<>> /\ NoFile.size = 0
  BY DEF NoFile, Files
<1>1. CASE RemoveBackup
  <2>1. active.lines # <<>>
    BY <1>1, <1>t DEF RemoveBackup, NeedsRotation, JournalInv, Bounded
  <2>2. backup' = NoFile /\ UNCHANGED <<active, sink, reader, written, attempts>>
    BY <1>1 DEF RemoveBackup
  <2>3. Consecutive'
    BY <2>1, <2>2, <1>n DEF Consecutive, JournalInv
  <2>4. Bounded(backup)' /\ Bounded(active)'
    BY <2>2, <1>n, JournalAssumption DEF Bounded, JournalInv
  <2> QED BY <2>2, <2>3, <2>4, <1>n DEF JournalInv, JournalTypes
<1>2. CASE Rename
  <2>1. active.lines # <<>>
    BY <1>2, <1>t DEF Rename, NeedsRotation, JournalInv, Bounded
  <2>2. backup' = active /\ active' = NoFile /\ UNCHANGED <<sink, reader, written, attempts>>
    BY <1>2 DEF Rename, BecomesBackup
  <2>3. Consecutive'
    BY <2>1, <2>2, <1>n, <1>t DEF Consecutive, JournalInv
  <2>4. Bounded(backup)' /\ Bounded(active)'
    BY <2>2, <1>n, JournalAssumption DEF Bounded, JournalInv
  <2> QED BY <2>2, <2>3, <2>4, <1>n DEF JournalInv, JournalTypes
<1>3. CASE AppendLine
  <2>1. /\ ~Written /\ ~NeedsRotation(Head(sink.outbox)) /\ Puts(Head(sink.outbox), "line")
        /\ sink' = [sink EXCEPT !.outbox = Tail(@)]
        /\ UNCHANGED <<backup, reader, attempts>>
    BY <1>3 DEF AppendLine
  <2>2. /\ active' \in Files /\ written' \in Nat
        /\ Consecutive' /\ Bounded(active)'
    BY <2>1, HeadIsLine, PutsKeeps
  <2>3. /\ sink' \in [session : Nat, sequence : Nat, outbox : Seq(Lines)]
        /\ sink'.sequence = sink.sequence
    BY <2>1, HeadIsLine DEF JournalInv, JournalTypes
  <2> QED BY <2>1, <2>2, <2>3 DEF JournalInv, JournalTypes, Bounded
<1> QED BY <1>1, <1>2, <1>3 DEF Write

(* The process ends, in the middle of an append perhaps.                    *)
LEMMA EndKeeps == JournalInv /\ SinkEnds => JournalInv'
<1> SUFFICES ASSUME JournalInv, SinkEnds PROVE JournalInv'
  OBVIOUS
<1>0. sink' = [sink EXCEPT !.outbox = <<>>] /\ <<>> \in Seq(Lines)
  BY DEF SinkEnds
<1>1. /\ sink' \in [session : Nat, sequence : Nat, outbox : Seq(Lines)]
      /\ sink'.sequence = sink.sequence
  BY <1>0 DEF JournalInv, JournalTypes
<1>2. UNCHANGED <<backup, reader, attempts>>
  BY DEF SinkEnds
<1>3. CASE UNCHANGED <<active, written>>
  BY <1>1, <1>2, <1>3 DEF JournalInv, JournalTypes, Consecutive, Bounded
<1>4. ASSUME ~Written, ~NeedsRotation(Head(sink.outbox)),
             NEW end \in {"unended", "torn"}, Puts(Head(sink.outbox), end)
      PROVE  JournalInv'
  <2>1. /\ active' \in Files /\ written' \in Nat
        /\ Consecutive' /\ Bounded(active)'
    BY <1>2, <1>4, HeadIsLine, PutsKeeps
  <2> QED BY <1>1, <1>2, <2>1 DEF JournalInv, JournalTypes, Bounded
<1> QED BY <1>3, <1>4 DEF SinkEnds

-----------------------------------------------------------------------------
(* The reader.                                                              *)

(* What a reader takes from a file is what was recorded in it.              *)
LEMMA RecordsAreLines ==
    ASSUME NEW file \in Files, NEW name
    PROVE  Of(name, file) \in Seq(Lines)
<1>0. file.lines \in Seq(Pieces)
  BY DEF Files
<1>1. ASSUME NEW i \in 1 .. Len(file.lines) PROVE file.lines[i].record \in Lines
  <2>1. file.lines[i] \in Pieces
    BY <1>0
  <2> QED BY <2>1 DEF Pieces
<1>2. Records(file) = [i \in 1 .. Len(file.lines) |-> file.lines[i].record]
  BY DEF Records, Files
<1>3. Records(file) \in Seq(Lines)
  BY <1>1, <1>2 DEF Files
<1> QED BY <1>3 DEF Of

(* A reader changes nothing but what it has read.                           *)
LEMMA ReadKeeps == JournalInv /\ Read => JournalInv'
<1> SUFFICES ASSUME JournalInv, Read PROVE JournalInv'
  OBVIOUS
<1>1. ASSUME NEW at \in {"idle", "file", "backup", "active"},
             NEW sees \in SUBSET {"backup", "active"}, NEW lines \in Seq(Lines),
             Reads(at, sees, lines)
      PROVE  JournalInv'
  BY <1>1 DEF Reads, JournalInv, JournalTypes, Consecutive, Bounded
<1>2. <<>> \in Seq(Lines) /\ {} \in SUBSET {"backup", "active"} /\ {"backup"} \in SUBSET {"backup", "active"}
  OBVIOUS
<1>3. reader.sees \in SUBSET {"backup", "active"} /\ backup \in Files
  BY DEF JournalInv, JournalTypes
<1>4. CASE LookForBackup
  <2> DEFINE sees == IF backup # NoFile THEN {"backup"} ELSE {}
  <2>1. Reads("file", sees, <<>>) /\ sees \in SUBSET {"backup", "active"}
    BY <1>4 DEF LookForBackup
  <2> HIDE DEF sees
  <2> QED BY <1>1, <1>2, <2>1
<1>5. CASE LookForFile
  <2> DEFINE sees == reader.sees \cup IF active # NoFile THEN {"active"} ELSE {}
  <2>1. Reads("backup", sees, <<>>) /\ sees \in SUBSET {"backup", "active"}
    BY <1>5, <1>3 DEF LookForFile
  <2> HIDE DEF sees
  <2> QED BY <1>1, <1>2, <2>1
<1>6. CASE ReadBackup
  <2>1. Reads("idle", {}, <<>>) \/ Reads("active", reader.sees, Of("backup", backup))
    BY <1>6 DEF ReadBackup
  <2>2. Of("backup", backup) \in Seq(Lines)
    BY <1>3, RecordsAreLines
  <2> QED BY <1>1, <1>2, <1>3, <2>1, <2>2
<1>7. CASE ReadFile
  BY <1>1, <1>2, <1>7 DEF ReadFile
<1> QED BY <1>4, <1>5, <1>6, <1>7 DEF Read

-----------------------------------------------------------------------------
(* The recorder.                                                            *)

(* The lines its handlers make are contents of records.                     *)
LEMMA LineTyped ==
    ASSUME NEW kind \in Kinds, NEW connection \in Nat
    PROVE  Line(kind, connection) \in Contents
BY DEF Line, Contents

(* When the epoch moves, no message is of the current one.                  *)
LEMMA DisarmedTyped ==
    ASSUME NEW q \in Seq(Decodings)
    PROVE  /\ Disarmed(q) \in Seq(Decodings)
           /\ \A i \in DOMAIN Disarmed(q) : ~Disarmed(q)[i].current
<1>1. ASSUME NEW i \in 1 .. Len(q)
      PROVE  [q[i] EXCEPT !.current = FALSE] \in {d \in Decodings : ~d.current}
  <2>1. q[i] \in Decodings
    OBVIOUS
  <2> QED BY <2>1 DEF Decodings
<1>2. Disarmed(q) = [i \in 1 .. Len(q) |-> [q[i] EXCEPT !.current = FALSE]]
  BY DEF Disarmed
<1>3. Disarmed(q) \in Seq({d \in Decodings : ~d.current})
  BY <1>1, <1>2
<1> QED BY <1>3

(* A connection is made, by a process that starts or by the restart timer.  *)
LEMMA ConnectKeeps ==
    ASSUME RecorderInv, NEW r, r \in {recorder, [recorder EXCEPT !.up = TRUE]},
           ConnectFrom(r), decoding' \in {<<>>, Disarmed(decoding)}, received' = received
    PROVE  RecorderInv'
<1>1. recorder \in [up : BOOLEAN, desired : BOOLEAN, state : States, connection : Nat,
                    trade : Summaries, mark : Summaries, timer : BOOLEAN]
  BY DEF RecorderInv, MarketTypes
<1>2. r \in [up : BOOLEAN, desired : BOOLEAN, state : States, connection : Nat,
             trade : Summaries, mark : Summaries, timer : BOOLEAN]
  BY <1>1
<1>3. None \in Summaries
  BY DEF None, Summaries
<1>4. /\ recorder' \in [up : BOOLEAN, desired : BOOLEAN, state : States, connection : Nat,
                        trade : Summaries, mark : Summaries, timer : BOOLEAN]
      /\ recorder'.state = "connecting" /\ recorder'.trade = None /\ recorder'.mark = None
  <2> DEFINE s == SummariesReset(r)
  <2>1. /\ s \in [up : BOOLEAN, desired : BOOLEAN, state : States, connection : Nat,
                  trade : Summaries, mark : Summaries, timer : BOOLEAN]
        /\ s.trade = None /\ s.mark = None
    BY <1>2, <1>3 DEF SummariesReset
  <2>2. recorder' = [s EXCEPT !.desired = TRUE, !.state = "connecting",
                              !.connection = @ + 1, !.timer = FALSE]
    BY DEF ConnectFrom
  <2>3. "connecting" \in States
    BY DEF States
  <2> HIDE DEF s
  <2>4. s.connection + 1 \in Nat
    BY <2>1
  <2>5. recorder' \in [up : BOOLEAN, desired : BOOLEAN, state : States, connection : Nat,
                      trade : Summaries, mark : Summaries, timer : BOOLEAN]
    BY ONLY <2>1, <2>2, <2>3, <2>4
  <2>6. recorder'.state = "connecting" /\ recorder'.trade = s.trade /\ recorder'.mark = s.mark
    BY ONLY <2>1, <2>2
  <2> QED BY <2>1, <2>5, <2>6
<1>5. socket' = "opening"
  BY DEF ConnectFrom
<1>6. /\ decoding' \in Seq(Decodings)
      /\ \A i \in DOMAIN decoding' : ~decoding'[i].current
  <2>1. CASE decoding' = <<>>
    BY <2>1
  <2>2. CASE decoding' = Disarmed(decoding)
    BY <2>2, DisarmedTyped DEF RecorderInv, MarketTypes
  <2> QED BY <2>1, <2>2
<1> QED BY <1>4, <1>5, <1>6 DEF RecorderInv, MarketTypes, Own

(* The end of a connection leaves nothing that is of the current one.       *)
LEMMA RestartKeeps ==
    ASSUME RecorderInv, NEW q \in Seq(Decodings), received' = received,
           NEW lines, NEW thrown, ScheduleRestart(lines, thrown, q)
    PROVE  RecorderInv'
<1>1. /\ recorder' = [recorder EXCEPT !.state = "backoff", !.timer = TRUE]
      /\ socket' = "none" /\ decoding' = Disarmed(q)
  BY DEF ScheduleRestart
<1>2. /\ decoding' \in Seq(Decodings)
      /\ \A i \in DOMAIN decoding' : ~decoding'[i].current
  BY <1>1, DisarmedTyped
<1> QED BY <1>1, <1>2 DEF RecorderInv, MarketTypes, States

(* A message is decoded: its frame becomes the latest of its kind, or the   *)
(* connection is given up, or nothing of the recorder changes.              *)
LEMMA DecodedKeeps ==
    ASSUME RecorderInv, NEW i \in DOMAIN decoding, NEW thrown \in BOOLEAN,
           Decoded(i, thrown)
    PROVE  RecorderInv'
<1> DEFINE d == decoding[i]
           q == RemoveAt(decoding, i)
<1>1. decoding \in Seq(Decodings) /\ i \in 1 .. Len(decoding) /\ d \in Decodings
      /\ received \in Nat
  BY DEF RecorderInv, MarketTypes
<1>2. /\ q \in Seq(Decodings)
      /\ \A k \in DOMAIN q : q[k].current => q[k].connection = recorder.connection
  <2> DEFINE D == {e \in Decodings : e.current => e.connection = recorder.connection}
             u == SubSeq(decoding, 1, i - 1)
             v == SubSeq(decoding, i + 1, Len(decoding))
  <2>1. \A k \in 1 .. Len(decoding) : decoding[k] \in D
    BY <1>1 DEF RecorderInv
  <2>2. decoding \in Seq(D)
    BY <1>1, <2>1
  <2> HIDE DEF D
  <2>3. u \in Seq(D) /\ v \in Seq(D)
    BY <1>1, <2>2
  <2>4. q = u \o v
    BY DEF RemoveAt
  <2> HIDE DEF u, v, q
  <2>5. q \in Seq(D)
    BY <2>3, <2>4
  <2> QED BY <2>5 DEF D
<1>3. received' = received
  BY DEF Decoded
<1>4. CASE \E lines : ScheduleRestart(lines, thrown, q)
  BY <1>2, <1>3, <1>4, RestartKeeps
<1>5. CASE decoding' = q /\ recorder' = recorder /\ UNCHANGED socket
  BY <1>2, <1>3, <1>5 DEF RecorderInv, MarketTypes, Own
<1>6. CASE decoding' = q /\ recorder' = Summarised(d) /\ UNCHANGED socket
  <2> DEFINE summary == [frame |-> d.frame, connection |-> d.connection, late |-> ~d.current]
  <2>1. summary \in Summaries
    BY <1>1 DEF Summaries, Decodings
  <2>2. d.current => summary.connection = recorder.connection
    BY DEF RecorderInv
  <2>3. summary.late \/ summary.connection = recorder.connection
    BY <1>1, <2>2 DEF Decodings
  <2>4. \/ recorder' = [recorder EXCEPT !.trade = summary]
        \/ recorder' = [recorder EXCEPT !.mark = summary]
    BY <1>6 DEF Summarised
  <2> HIDE DEF summary, d, q
  <2>5. MarketTypes'
    BY <1>2, <1>3, <1>6, <2>1, <2>4 DEF RecorderInv, MarketTypes
  <2>6. /\ recorder'.state = recorder.state /\ recorder'.connection = recorder.connection
        /\ recorder'.trade \in {recorder.trade, summary}
        /\ recorder'.mark \in {recorder.mark, summary}
    BY <2>4 DEF RecorderInv, MarketTypes
  <2>7. recorder.state \in {"connecting", "running"} => Own(recorder.trade)' /\ Own(recorder.mark)'
    BY <2>3, <2>6 DEF RecorderInv, Own
  <2>8. /\ socket' = socket
        /\ \A k \in DOMAIN decoding' :
              decoding'[k].current => decoding'[k].connection = recorder.connection
    BY <1>2, <1>6
  <2> QED BY <2>5, <2>6, <2>7, <2>8 DEF RecorderInv, Own
<1> QED BY <1>4, <1>5, <1>6 DEF Decoded

(* Every step of the recorder keeps what it knows of its connection.        *)
LEMMA RecorderKeeps == RecorderInv /\ [MarketNext]_marketVars => RecorderInv'
<1> SUFFICES ASSUME RecorderInv, [MarketNext]_marketVars PROVE RecorderInv'
  OBVIOUS
<1>0. CASE UNCHANGED <<recorderVars, received>>
  BY <1>0 DEF recorderVars, RecorderInv, MarketTypes, Own
<1>1. CASE Begin
  BY <1>1, ConnectKeeps DEF Begin
<1>2. CASE Reconnect
  BY <1>2, ConnectKeeps DEF Reconnect
<1>3. CASE Opened
  <2>1. "running" \in States
    BY DEF States
  <2>2. /\ recorder' = [recorder EXCEPT !.state = "running"] /\ socket = "opening"
        /\ socket' = "open" /\ decoding' = decoding /\ received' = received
    BY <1>3 DEF Opened
  <2> QED BY <2>1, <2>2 DEF RecorderInv, MarketTypes, Own
<1>4. CASE Lost
  <2>1. decoding \in Seq(Decodings)
    BY DEF RecorderInv, MarketTypes
  <2> QED BY <1>4, <2>1, RestartKeeps DEF Lost
<1>5. CASE StopRecorder
  <2>1. /\ Disarmed(decoding) \in Seq(Decodings)
        /\ \A i \in DOMAIN Disarmed(decoding) : ~Disarmed(decoding)[i].current
    BY DisarmedTyped DEF RecorderInv, MarketTypes
  <2>2. /\ recorder' = [recorder EXCEPT !.desired = FALSE, !.state = "stopped", !.timer = FALSE]
        /\ socket' = "none" /\ decoding' = Disarmed(decoding) /\ received' = received
    BY <1>5 DEF StopRecorder
  <2> QED BY <2>1, <2>2 DEF RecorderInv, MarketTypes, States
<1>6. CASE Ends
  <2>1. /\ recorder' = [recorder EXCEPT !.up = FALSE, !.desired = FALSE, !.state = "stopped",
                                        !.timer = FALSE, !.trade = None, !.mark = None]
        /\ socket' = "none" /\ decoding' = <<>> /\ received' = received
    BY <1>6 DEF Ends
  <2>2. None \in Summaries
    BY DEF None, Summaries
  <2>3. /\ recorder'.state = "stopped" /\ "stopped" \in States
        /\ recorder'.trade = None /\ recorder'.mark = None
    BY <2>1 DEF RecorderInv, MarketTypes, States
  <2>4. recorder' \in [up : BOOLEAN, desired : BOOLEAN, state : States, connection : Nat,
                      trade : Summaries, mark : Summaries, timer : BOOLEAN]
    <3>1. recorder \in [up : BOOLEAN, desired : BOOLEAN, state : States, connection : Nat,
                        trade : Summaries, mark : Summaries, timer : BOOLEAN]
      BY DEF RecorderInv, MarketTypes
    <3> QED BY ONLY <2>1, <2>2, <2>3, <3>1
  <2>5. MarketTypes'
    BY <2>1, <2>4 DEF RecorderInv, MarketTypes
  <2> QED BY <2>1, <2>3, <2>5 DEF RecorderInv, Own
<1>7. ASSUME NEW kind \in Messages, Receive(kind) PROVE RecorderInv'
  <2> DEFINE e == [kind |-> kind, frame |-> received + 1,
                   connection |-> recorder.connection, current |-> TRUE]
  <2>1. e \in Decodings /\ e.connection = recorder.connection
    BY DEF Decodings, RecorderInv, MarketTypes
  <2>2. /\ decoding' = Append(decoding, e) /\ received' = received + 1
        /\ UNCHANGED <<recorder, socket>>
    BY <1>7 DEF Receive
  <2> HIDE DEF e
  <2>3. decoding \in Seq(Decodings) /\ received \in Nat
    BY DEF RecorderInv, MarketTypes
  <2>4. \A i \in DOMAIN decoding' :
           decoding'[i] = e \/ (i \in DOMAIN decoding /\ decoding'[i] = decoding[i])
    BY <2>1, <2>2, <2>3
  <2>5. MarketTypes'
    BY <2>1, <2>2, <2>3 DEF RecorderInv, MarketTypes
  <2> QED BY <2>1, <2>2, <2>4, <2>5 DEF RecorderInv, Own
<1>8. ASSUME NEW i \in DOMAIN decoding, NEW thrown \in BOOLEAN, Decoded(i, thrown)
      PROVE  RecorderInv'
  BY <1>8, DecodedKeeps
<1> QED BY <1>0, <1>1, <1>2, <1>3, <1>4, <1>5, <1>6, <1>7, <1>8 DEF MarketNext, marketVars, recorderVars

(* Every step keeps the journal: a handler that records, a call to the file *)
(* system, the end of the process, a step of the reader.                    *)
LEMMA JournalKeeps == JournalInv /\ RecorderInv /\ [MarketNext]_marketVars => JournalInv'
<1> SUFFICES ASSUME JournalInv, RecorderInv, [MarketNext]_marketVars PROVE JournalInv'
  OBVIOUS
<1>k. /\ recorder.connection \in Nat /\ recorder.connection + 1 \in Nat /\ 0 \in Nat
      /\ Messages \subseteq Kinds /\ "error" \in Kinds
      /\ {"connecting", "running", "closed", "backoff", "stopped"} \subseteq Kinds
  BY KindsAre DEF RecorderInv, MarketTypes, Transitions
<1>l. \A kind \in Kinds, connection \in Nat : Line(kind, connection) \in Contents
  BY LineTyped
<1>r. ASSUME NEW c \in Contents, NEW thrown \in BOOLEAN, KeepFiles, Record(<<c>>, thrown)
      PROVE  JournalInv'
  <2>1. <<c>> \in Seq(Contents) /\ <<c>> # <<>>
    OBVIOUS
  <2> QED BY <1>r, <2>1, RecordKeeps
<1>s. ASSUME NEW c \in Contents, NEW thrown \in BOOLEAN, NEW q, KeepFiles,
             NEW lines, lines \in {<<c>>, <<c, Line("error", 0)>>}, ScheduleRestart(lines, thrown, q)
      PROVE  JournalInv'
  <2> DEFINE all == Append(lines, Line("backoff", 0))
  <2>1. Line("backoff", 0) \in Contents /\ Line("error", 0) \in Contents
    BY <1>k, <1>l
  <2>2. lines \in Seq(Contents)
    BY <1>s, <2>1
  <2>3. all \in Seq(Contents) /\ all # <<>>
    BY <2>1, <2>2
  <2>4. Record(all, thrown)
    BY <1>s DEF ScheduleRestart
  <2> QED BY ONLY JournalInv, <1>s, <2>3, <2>4, RecordKeeps
<1>0. CASE UNCHANGED journalVars
  BY <1>0 DEF journalVars, JournalInv, JournalTypes, Consecutive, Bounded
<1>1. CASE Begin
  <2> DEFINE c == Line("connecting", recorder.connection + 1)
  <2>1. c \in Contents
    BY <1>k, <1>l
  <2>2. <<c>> \in Seq(Contents) /\ <<c>> # <<>>
    BY <2>1
  <2> QED BY <1>1, <2>2, SessionKeeps DEF Begin, KeepFiles
<1>2. CASE Reconnect
  BY <1>2, <1>k, <1>l, <1>r DEF Reconnect
<1>3. CASE Opened
  BY <1>3, <1>k, <1>l, <1>r DEF Opened, Here
<1>4. CASE Lost
  BY <1>4, <1>k, <1>l, <1>s DEF Lost
<1>5. CASE StopRecorder
  BY <1>5, <1>k, <1>l, <1>r DEF StopRecorder
<1>6. CASE Ends
  BY <1>6, EndKeeps DEF Ends
<1>7. ASSUME NEW i \in DOMAIN decoding, NEW thrown \in BOOLEAN, Decoded(i, thrown)
      PROVE  JournalInv'
  <2> DEFINE d == decoding[i]
             c == [kind |-> d.kind, connection |-> d.connection, frame |-> d.frame,
                   stamp |-> Stamp(d)]
  <2>1. d \in Decodings
    BY DEF RecorderInv, MarketTypes
  <2>2. c \in Contents
    BY <1>k, <2>1 DEF Contents, Decodings, Stamp
  <2>3. KeepFiles
    BY <1>7 DEF Decoded
  <2>4. \/ ScheduleRestart(<<c, Line("error", 0)>>, thrown, RemoveAt(decoding, i))
        \/ Record(<<c>>, thrown)
    BY <1>7 DEF Decoded
  <2> HIDE DEF c
  <2> QED BY <2>2, <2>3, <2>4, <1>r, <1>s
<1>8. CASE Write
  BY <1>8, WriteKeeps
<1>9. CASE Read
  BY <1>9, ReadKeeps
<1>10. ASSUME NEW kind \in Messages, Receive(kind) PROVE JournalInv'
  BY <1>0, <1>10 DEF Receive
<1> QED BY <1>0, <1>1, <1>2, <1>3, <1>4, <1>5, <1>6, <1>7, <1>8, <1>9, <1>10
        DEF MarketNext, marketVars

-----------------------------------------------------------------------------
(* The connections of a capture.                                            *)

(* What is recorded anywhere is a line.                                     *)
LEMMA RecordedAreLines == JournalInv => Recorded \subseteq Lines
<1> SUFFICES ASSUME JournalInv, NEW l \in Recorded PROVE l \in Lines
  OBVIOUS
<1>1. /\ active.lines \in Seq(Pieces) /\ backup.lines \in Seq(Pieces)
      /\ sink.outbox \in Seq(Lines) /\ reader.lines \in Seq(Lines)
  BY DEF JournalInv, JournalTypes, Files
<1>2. /\ Range(active.lines) \subseteq Pieces /\ Range(backup.lines) \subseteq Pieces
      /\ Range(sink.outbox) \subseteq Lines /\ Range(reader.lines) \subseteq Lines
  BY <1>1 DEF Range
<1>3. \A piece \in Pieces : piece.record \in Lines
  BY DEF Pieces
<1> QED BY <1>2, <1>3 DEF Recorded

(* A call to the file system, the end of the process and a step of the      *)
(* reader add nothing to what is recorded.                                  *)
LEMMA MovesAddNothing ==
    ASSUME JournalInv, Write \/ SinkEnds \/ Read
    PROVE  /\ Recorded' \subseteq Recorded
           /\ sink'.session = sink.session /\ sink'.sequence = sink.sequence
<1>1. /\ active.lines \in Seq(Pieces) /\ backup.lines \in Seq(Pieces)
      /\ sink.outbox \in Seq(Lines) /\ reader.lines \in Seq(Lines)
      /\ sink \in [session : Nat, sequence : Nat, outbox : Seq(Lines)]
  BY DEF JournalInv, JournalTypes, Files
<1>n. NoFile.lines = <<>> /\ Range(<<>>) = {}
  BY DEF NoFile, Range
<1>p. ASSUME NEW end, ~Written, Puts(Head(sink.outbox), end), UNCHANGED <<backup, reader>>,
             sink'.outbox \in {Tail(sink.outbox), <<>>}
      PROVE  Recorded' \subseteq Recorded
  <2> DEFINE piece == [record |-> Head(sink.outbox), end |-> end, nth |-> written + 1]
  <2>1. active'.lines = Append(active.lines, piece)
    BY <1>p DEF Puts
  <2>2. piece.record = Head(sink.outbox)
    OBVIOUS
  <2> HIDE DEF piece
  <2>3. Range(active'.lines) \subseteq Range(active.lines) \cup {piece}
    BY <1>1, <2>1 DEF Range
  <2>4. sink.outbox # <<>>
    BY <1>p DEF Written
  <2>5. Head(sink.outbox) \in Range(sink.outbox)
    BY <1>1, <2>4 DEF Range
  <2>6. Range(Tail(sink.outbox)) \subseteq Range(sink.outbox)
    BY <1>1, <2>4 DEF Range
  <2>7. Range(sink'.outbox) \subseteq Range(sink.outbox)
    BY <1>p, <1>n, <2>6
  <2> QED BY <1>p, <2>2, <2>3, <2>5, <2>7 DEF Recorded
<1>2. CASE RemoveBackup
  BY <1>2, <1>n DEF RemoveBackup, Recorded
<1>3. CASE Rename
  BY <1>3, <1>n DEF Rename, BecomesBackup, Recorded
<1>4. CASE AppendLine
  <2>1. sink' = [sink EXCEPT !.outbox = Tail(@)]
    BY <1>4 DEF AppendLine
  <2>2. /\ sink'.outbox = Tail(sink.outbox)
        /\ sink'.session = sink.session /\ sink'.sequence = sink.sequence
    BY <1>1, <2>1
  <2> QED BY <1>4, <1>p, <2>2 DEF AppendLine
<1>5. CASE SinkEnds
  <2>1. sink' = [sink EXCEPT !.outbox = <<>>] /\ UNCHANGED <<backup, reader>>
    BY <1>5 DEF SinkEnds
  <2>2. /\ sink'.outbox = <<>>
        /\ sink'.session = sink.session /\ sink'.sequence = sink.sequence
    BY <1>1, <2>1
  <2>3. CASE UNCHANGED <<active, written>>
    BY <1>n, <2>1, <2>2, <2>3 DEF Recorded
  <2> QED BY <1>5, <1>p, <2>1, <2>2, <2>3 DEF SinkEnds
<1>6. CASE Read
  <2>1. UNCHANGED <<active, backup, sink>>
    BY <1>6 DEF Read, LookForBackup, LookForFile, ReadBackup, ReadFile, Reads
  <2>2. reader'.lines \in {<<>>, Of("backup", backup)}
    BY <1>6 DEF Read, LookForBackup, LookForFile, ReadBackup, ReadFile, Reads
  <2>3. Range(Records(backup)) = {piece.record : piece \in Range(backup.lines)}
    BY <1>1 DEF Records, Range
  <2>4. Range(reader'.lines) \subseteq {piece.record : piece \in Range(backup.lines)}
    BY <1>n, <2>2, <2>3 DEF Of
  <2> QED BY <2>1, <2>4 DEF Recorded
<1> QED BY <1>2, <1>3, <1>4, <1>5, <1>6 DEF Write

(* A handler adds the lines it records, with the numbers that come next.    *)
LEMMA RecordAdds ==
    ASSUME JournalInv, UNCHANGED <<active, backup, reader>>,
           NEW session \in Nat, NEW sequence \in Nat, NEW count, NEW contents \in Seq(Contents),
           contents # <<>>, NEW thrown \in BOOLEAN,
           RecordAs(session, sequence, count, contents, thrown)
    PROVE  /\ sink'.session = session /\ sink'.sequence = sequence + Len(contents)
           /\ \A l \in Recorded' : l \in Recorded \/
                 \E n \in 1 .. Len(contents) : /\ l.session = session /\ l.sequence = sequence + n
                                               /\ l.of = contents[n]
<1> DEFINE lines == [k \in DOMAIN contents |->
                        [session |-> session, sequence |-> sequence + k,
                         of |-> contents[k], nth |-> count + k]]
<1>1. DOMAIN contents = 1 .. Len(contents) /\ Len(contents) \in Nat \ {0}
  OBVIOUS
<1>2. sink' = [session |-> session, sequence |-> sequence + Len(contents),
               outbox |-> IF thrown THEN Tail(lines) ELSE lines]
  BY DEF RecordAs
<1>3. \A k \in 1 .. Len(contents) :
         /\ lines[k].session = session /\ lines[k].sequence = sequence + k
         /\ lines[k].of = contents[k]
  BY <1>1
<1>4. lines \in Seq({lines[k] : k \in 1 .. Len(contents)}) /\ Len(lines) = Len(contents)
      /\ lines # <<>>
  <2>1. lines \in [1 .. Len(contents) -> {lines[k] : k \in 1 .. Len(contents)}]
    BY <1>1
  <2> HIDE DEF lines
  <2>2. lines \in Seq({lines[k] : k \in 1 .. Len(contents)}) /\ Len(lines) = Len(contents)
    BY <1>1, <2>1
  <2> QED BY <1>1, <2>2
<1> HIDE DEF lines
<1>5. /\ sink'.outbox \in {Tail(lines), lines}
      /\ sink'.session = session /\ sink'.sequence = sequence + Len(contents)
  BY <1>2
<1>6. Range(sink'.outbox) \subseteq {lines[k] : k \in 1 .. Len(contents)}
  <2>1. Tail(lines) \in Seq({lines[k] : k \in 1 .. Len(contents)})
    BY <1>4
  <2>2. sink'.outbox \in Seq({lines[k] : k \in 1 .. Len(contents)})
    BY <1>4, <1>5, <2>1
  <2> QED BY <2>2 DEF Range
<1>7. \A l \in Recorded' : l \in Recorded \/ l \in Range(sink'.outbox)
  BY DEF Recorded
<1> QED BY <1>3, <1>5, <1>6, <1>7

(* The facts about numbers that are lost stay, when nothing is added.       *)
LEMMA FewerStayApart ==
    ASSUME ConnectionsInv, Recorded' \subseteq Recorded,
           sink'.session = sink.session, sink'.sequence = sink.sequence,
           recorder'.connection = recorder.connection, recorder'.timer => recorder.timer,
           recorder'.timer => socket' = "none"
    PROVE  ConnectionsInv'
<1>1. \A session, k : GivenUp(session, k) => GivenUp(session, k)'
  BY DEF GivenUp
<1>2. Numbered'
  BY DEF ConnectionsInv, Numbered
<1>3. Left'
  BY <1>1 DEF ConnectionsInv, Left, Opens
<1>4. Separated'
  BY <1>1 DEF ConnectionsInv, Separated, Opens
<1> QED BY <1>2, <1>3, <1>4 DEF ConnectionsInv

(* They stay when lines are added to the session, with new numbers: the     *)
(* lines that open a connection are of the current one, which is not given  *)
(* up; and when it is, "backoff" comes last.                                *)
LEMMA LinesStayApart ==
    ASSUME JournalInv, ConnectionsInv, KeepFiles,
           NEW s, NEW m, s = sink.session, m = sink.sequence, NEW contents \in Seq(Contents), contents # <<>>, NEW thrown \in BOOLEAN,
           Record(contents, thrown),
           recorder'.connection = recorder.connection \/ recorder.timer,
           recorder'.timer => recorder.timer \/ contents[Len(contents)].kind = "backoff",
           recorder'.timer => socket' = "none",
           \A n \in 1 .. Len(contents) : contents[n].kind \in {"connecting", "running"} =>
               ~recorder'.timer /\ contents[n].connection = recorder'.connection
    PROVE  ConnectionsInv'
<1> DEFINE c == Len(contents)
<1>1. s \in Nat /\ m \in Nat /\ c \in Nat \ {0}
  BY DEF JournalInv, JournalTypes
<1>2. /\ sink'.session = s /\ sink'.sequence = m + c
      /\ \A l \in Recorded' : l \in Recorded \/
            \E n \in 1 .. c : l.session = s /\ l.sequence = m + n /\ l.of = contents[n]
  BY <1>1, RecordAdds DEF Record, KeepFiles
<1>3. \A l \in Recorded : l.session \in Nat /\ l.sequence \in Nat
  BY RecordedAreLines DEF Lines
<1>4. \A l \in Recorded : l.session <= s /\ (l.session = s => l.sequence <= m)
  BY DEF ConnectionsInv, Numbered
<1> HIDE DEF c
<1>5. ASSUME NEW session \in Nat, NEW k \in Nat, GivenUp(session, k), session = s => k <= m
      PROVE  GivenUp(session, k)'
  BY <1>1, <1>2, <1>5 DEF GivenUp
<1>6. contents[c].kind = "backoff" => GivenUp(s, m + c)'
  <2> SUFFICES ASSUME contents[c].kind = "backoff", NEW l \in Recorded',
                      l.session = s, l.sequence = m + c
               PROVE  l.of.kind = "backoff"
    BY DEF GivenUp
  <2>1. l \notin Recorded
    BY <1>1, <1>3, <1>4
  <2>2. PICK n \in 1 .. c : l.sequence = m + n /\ l.of = contents[n]
    BY <1>2, <2>1
  <2>3. n = c
    BY <1>1, <2>2
  <2> QED BY <2>2, <2>3
<1>7. Numbered'
  <2> SUFFICES ASSUME NEW l \in Recorded'
               PROVE  l.session <= s /\ (l.session = s => l.sequence <= m + c)
    BY <1>2 DEF Numbered
  <2> QED BY <1>1, <1>2, <1>3, <1>4
<1>o. ASSUME NEW a \in Recorded', Opens(a), a \notin Recorded
      PROVE  /\ a.session = s /\ a.sequence \in Nat /\ a.sequence > m
             /\ ~recorder'.timer /\ a.of.connection = recorder'.connection
  <2>1. PICK n \in 1 .. c : a.session = s /\ a.sequence = m + n /\ a.of = contents[n]
    BY <1>2, <1>o
  <2> QED BY <1>1, <1>o, <2>1 DEF Opens, c
<1>l. ASSUME NEW a \in Recorded, Opens(a), a.session = s,
             recorder.timer \/ a.of.connection # recorder.connection
      PROVE  \E k \in Nat : a.sequence < k /\ k <= m /\ GivenUp(s, k)'
  <2>1. PICK k \in Nat : a.sequence < k /\ k <= m /\ GivenUp(s, k)
    BY <1>l DEF ConnectionsInv, Left
  <2> QED BY <1>1, <1>5, <2>1
<1>8. Left'
  <2> SUFFICES ASSUME NEW a \in Recorded', Opens(a), a.session = s,
                      recorder'.timer \/ a.of.connection # recorder'.connection
               PROVE  \E k \in Nat : a.sequence < k /\ k <= m + c /\ GivenUp(s, k)'
    BY <1>2 DEF Left, Opens
  <2>1. a \in Recorded
    BY <1>o
  <2>2. CASE recorder.timer \/ a.of.connection # recorder.connection
    <3>1. PICK k \in Nat : a.sequence < k /\ k <= m /\ GivenUp(s, k)'
      BY <1>l, <2>1, <2>2
    <3> QED BY <1>1, <3>1
  <2>3. CASE contents[c].kind = "backoff"
    <3>1. a.sequence < m + c /\ m + c \in Nat
      BY <1>1, <1>3, <1>4, <2>1
    <3> QED BY <1>1, <1>6, <2>3, <3>1
  <2> QED BY <2>2, <2>3 DEF c
<1>9. Separated'
  <2> SUFFICES ASSUME NEW a \in Recorded', NEW b \in Recorded', Opens(a), Opens(b),
                      a.session = b.session, a.sequence < b.sequence,
                      a.of.connection # b.of.connection
               PROVE  \E k \in Nat : a.sequence < k /\ k < b.sequence /\ GivenUp(a.session, k)'
    BY DEF Separated, Opens
  <2>1. CASE a \in Recorded /\ b \in Recorded
    <3>1. PICK k \in Nat : a.sequence < k /\ k < b.sequence /\ GivenUp(a.session, k)
      BY <2>1 DEF ConnectionsInv, Separated
    <3>2. a.session = s => k <= m
      <4>1. a.session = s => b.sequence <= m
        BY <1>4, <2>1
      <4>2. b.sequence \in Nat
        BY <1>3, <2>1
      <4> QED BY ONLY <1>1, <3>1, <4>1, <4>2
    <3> QED BY <1>3, <1>5, <2>1, <3>1, <3>2
  <2>2. CASE a \in Recorded /\ b \notin Recorded
    <3>1. /\ b.session = s /\ b.sequence \in Nat /\ b.sequence > m
          /\ b.of.connection = recorder'.connection
      BY <1>o, <2>2
    <3>2. recorder.timer \/ a.of.connection # recorder.connection
      BY <3>1
    <3>3. PICK k \in Nat : a.sequence < k /\ k <= m /\ GivenUp(s, k)'
      BY <1>l, <2>2, <3>1, <3>2
    <3> QED BY <1>1, <3>1, <3>3
  <2>3. CASE a \notin Recorded
    <3>1. /\ a.session = s /\ a.sequence \in Nat /\ a.sequence > m
          /\ a.of.connection = recorder'.connection
      BY <1>o, <2>3
    <3>2. b \notin Recorded
      <4>1. SUFFICES ASSUME b \in Recorded PROVE FALSE
        OBVIOUS
      <4>2. b.sequence \in Nat
        BY <1>3, <4>1
      <4>3. b.sequence <= m
        BY <1>4, <3>1, <4>1
      <4>4. a.sequence < b.sequence
        OBVIOUS
      <4> QED BY ONLY <1>1, <3>1, <4>2, <4>3, <4>4
    <3> QED BY <1>o, <3>1, <3>2
  <2> QED BY <2>1, <2>2, <2>3
<1> QED BY <1>7, <1>8, <1>9 DEF ConnectionsInv

(* They stay when a session begins: no earlier one has its lines.           *)
LEMMA SessionStaysApart ==
    ASSUME JournalInv, ConnectionsInv, KeepFiles, NEW s, s = sink.session,
           NEW content \in Contents, NEW contents, contents = <<content>>,
           OpenSession(contents), ~recorder'.timer,
           content.connection = recorder'.connection
    PROVE  ConnectionsInv'
<1>1. s \in Nat /\ contents \in Seq(Contents) /\ contents # <<>>
      /\ Len(contents) = 1 /\ contents[1] = content
  BY DEF JournalInv, JournalTypes
<1>2. /\ sink'.session = s + 1 /\ sink'.sequence = 1
      /\ \A l \in Recorded' : l \in Recorded \/
            (l.session = s + 1 /\ l.sequence = 1 /\ l.of = content)
  <2>1. PICK new \in Nat, zero \in Nat, no \in BOOLEAN : new = s + 1 /\ zero = 0 /\ no = FALSE
    BY <1>1, s + 1 \in Nat, 0 \in Nat, FALSE \in BOOLEAN, Zenon
  <2>2. RecordAs(new, zero, zero, contents, no)
    BY <2>1 DEF OpenSession, RecordAs
  <2>3. UNCHANGED <<active, backup, reader>>
    BY DEF KeepFiles
  <2>4. /\ sink'.session = new /\ sink'.sequence = zero + Len(contents)
        /\ \A l \in Recorded' : l \in Recorded \/
              \E n \in 1 .. Len(contents) : /\ l.session = new /\ l.sequence = zero + n
                                             /\ l.of = contents[n]
    <3>1. /\ contents \in Seq(Contents) /\ contents # <<>>
          /\ zero \in Nat /\ new \in Nat /\ no \in BOOLEAN
      BY <1>1
    <3> QED BY ONLY JournalInv, <3>1, <2>2, <2>3, RecordAdds
  <2> QED BY <1>1, <2>1, <2>4
<1>3. \A l \in Recorded : l.session \in Nat /\ l.sequence \in Nat
  BY RecordedAreLines DEF Lines
<1>4. \A l \in Recorded : l.session <= s
  BY DEF ConnectionsInv, Numbered
<1>5. \A session, k : session # s + 1 /\ GivenUp(session, k) => GivenUp(session, k)'
  BY <1>2 DEF GivenUp
<1>6. \A l \in Recorded : l.session # s + 1
  BY <1>1, <1>3, <1>4
<1>7. Numbered'
  BY <1>1, <1>2, <1>3, <1>4, <1>6 DEF Numbered
<1>8. Left'
  BY <1>1, <1>2, <1>6 DEF Left, Opens
<1>9. Separated'
  <2> SUFFICES ASSUME NEW a \in Recorded', NEW b \in Recorded', Opens(a), Opens(b),
                      a.session = b.session, a.sequence < b.sequence,
                      a.of.connection # b.of.connection
               PROVE  \E k \in Nat : a.sequence < k /\ k < b.sequence /\ GivenUp(a.session, k)'
    BY DEF Separated, Opens
  <2>1. a \in Recorded /\ b \in Recorded
    BY <1>2, <1>6
  <2>2. PICK k \in Nat : a.sequence < k /\ k < b.sequence /\ GivenUp(a.session, k)
    BY <2>1 DEF ConnectionsInv, Separated
  <2> QED BY <1>3, <1>5, <1>6, <2>1, <2>2
<1> QED BY <1>7, <1>8, <1>9 DEF ConnectionsInv

(* Every step keeps them: a handler that only closes or describes what was  *)
(* received, one that gives the connection up and records "backoff" last,   *)
(* one that opens a connection, and what is no handler at all.              *)
LEMMA ConnectionsKeep ==
    JournalInv /\ RecorderInv /\ ConnectionsInv /\ [MarketNext]_marketVars => ConnectionsInv'
<1> SUFFICES ASSUME JournalInv, RecorderInv, ConnectionsInv, [MarketNext]_marketVars
             PROVE  ConnectionsInv'
  OBVIOUS
<1>t. recorder \in [up : BOOLEAN, desired : BOOLEAN, state : States, connection : Nat,
                    trade : Summaries, mark : Summaries, timer : BOOLEAN]
  BY DEF RecorderInv, MarketTypes
<1>k. /\ recorder.connection \in Nat /\ recorder.connection + 1 \in Nat /\ 0 \in Nat
      /\ Messages \subseteq Kinds /\ "error" \in Kinds
      /\ {"connecting", "running", "closed", "backoff", "stopped"} \subseteq Kinds
  BY <1>t, KindsAre DEF Transitions
<1>l. \A kind \in Kinds, connection \in Nat : Line(kind, connection) \in Contents
  BY LineTyped
<1>f. \A kind, connection : Line(kind, connection).kind = kind
                            /\ Line(kind, connection).connection = connection
  BY DEF Line
<1>c. recorder.timer => socket = "none"
  BY DEF ConnectionsInv
<1>r. ASSUME NEW c \in Contents, NEW thrown \in BOOLEAN, KeepFiles, Record(<<c>>, thrown),
             recorder'.connection = recorder.connection \/ recorder.timer,
             recorder'.timer => recorder.timer, recorder'.timer => socket' = "none",
             c.kind \in {"connecting", "running"} =>
                 ~recorder'.timer /\ c.connection = recorder'.connection
      PROVE  ConnectionsInv'
  <2> DEFINE contents == <<c>>
  <2>1. /\ contents \in Seq(Contents) /\ contents # <<>>
        /\ Len(contents) = 1 /\ contents[1] = c
    OBVIOUS
  <2>2. Record(contents, thrown)
    BY <1>r
  <2> HIDE DEF contents
  <2>3. \A n \in 1 .. Len(contents) : contents[n].kind \in {"connecting", "running"} =>
            ~recorder'.timer /\ contents[n].connection = recorder'.connection
    BY <1>r, <2>1
  <2> QED BY <1>r, <2>1, <2>2, <2>3, LinesStayApart
<1>s. ASSUME NEW c \in Contents, c.kind \notin {"connecting", "running"},
             NEW thrown \in BOOLEAN, NEW q, KeepFiles,
             NEW lines, lines \in {<<c>>, <<c, Line("error", 0)>>}, ScheduleRestart(lines, thrown, q)
      PROVE  ConnectionsInv'
  <2> DEFINE all == Append(lines, Line("backoff", 0))
             quiet == {d \in Contents : d.kind \notin {"connecting", "running"}}
  <2>1. Line("backoff", 0) \in quiet /\ Line("error", 0) \in quiet /\ c \in quiet
    BY <1>k, <1>l, <1>f, <1>s
  <2> HIDE DEF quiet
  <2> DEFINE e == Line("error", 0)
  <2>e. e \in quiet /\ lines \in {<<c>>, <<c, e>>}
    BY <1>s, <2>1
  <2> HIDE DEF e
  <2>2. lines \in Seq(quiet)
    <3>1. c \in quiet /\ e \in quiet
      BY <2>1, <2>e
    <3>2. <<c>> \in Seq(quiet) /\ <<c, e>> \in Seq(quiet)
      BY ONLY <3>1
    <3> QED BY <2>e, <3>2
  <2>3. all \in Seq(quiet) /\ all # <<>> /\ all[Len(all)] = Line("backoff", 0)
    BY <2>1, <2>2
  <2>4. Record(all, thrown)
    BY <1>s DEF ScheduleRestart
  <2>5. recorder'.connection = recorder.connection /\ socket' = "none"
    BY <1>s, <1>t DEF ScheduleRestart
  <2> HIDE DEF all
  <2>6. \A n \in 1 .. Len(all) : all[n] \in quiet
    BY <2>3
  <2>7. \A n \in 1 .. Len(all) : all[n].kind \notin {"connecting", "running"}
    BY <2>6 DEF quiet
  <2>8. all \in Seq(Contents)
    BY <2>3 DEF quiet
  <2>9. all[Len(all)].kind = "backoff"
    BY <1>f, <2>3
  <2> QED BY <1>s, <2>3, <2>4, <2>5, <2>7, <2>8, <2>9, LinesStayApart
<1>u. ASSUME NEW c \in Contents, c.kind \notin {"connecting", "running"},
             NEW thrown \in BOOLEAN, KeepFiles, Record(<<c>>, thrown),
             recorder'.connection = recorder.connection,
             recorder'.timer => recorder.timer, recorder'.timer => socket' = "none"
      PROVE  ConnectionsInv'
  BY <1>u, <1>r
<1>m. CASE /\ Recorded' \subseteq Recorded
           /\ sink'.session = sink.session /\ sink'.sequence = sink.sequence
           /\ recorder'.connection = recorder.connection
           /\ recorder'.timer => recorder.timer /\ socket' = "none"
  BY <1>m, FewerStayApart
<1>n. CASE UNCHANGED <<journalVars, recorder, socket>>
  <2>1. Recorded' = Recorded /\ sink' = sink
    BY <1>n DEF Recorded, journalVars
  <2> QED BY <1>n, <1>m, <1>c, <2>1
<1>1. CASE Begin
  <2> DEFINE c == Line("connecting", recorder.connection + 1)
  <2>1. c \in Contents /\ c.connection = recorder.connection + 1
    BY <1>k, <1>l, <1>f
  <2>2. recorder'.connection = recorder.connection + 1 /\ ~recorder'.timer
    BY <1>1, <1>t DEF Begin, ConnectFrom, SummariesReset
  <2> HIDE DEF c
  <2>3. KeepFiles /\ OpenSession(<<c>>)
    BY <1>1 DEF Begin, KeepFiles, c
  <2> QED BY <2>1, <2>2, <2>3, SessionStaysApart
<1>2. CASE Reconnect
  <2> DEFINE c == Line("connecting", recorder.connection + 1)
  <2>1. c \in Contents /\ c.connection = recorder.connection + 1
    BY <1>k, <1>l, <1>f
  <2>2. recorder'.connection = recorder.connection + 1 /\ ~recorder'.timer /\ recorder.timer
    BY <1>2, <1>t DEF Reconnect, ConnectFrom, SummariesReset
  <2> HIDE DEF c
  <2>3. KeepFiles /\ Record(<<c>>, FALSE)
    BY <1>2 DEF Reconnect, c
  <2> QED BY <2>1, <2>2, <2>3, <1>r
<1>3. CASE Opened
  <2> DEFINE c == Line("running", recorder.connection)
  <2>1. c \in Contents /\ c.connection = recorder.connection
    BY <1>k, <1>l, <1>f
  <2>2. /\ recorder'.connection = recorder.connection /\ recorder'.timer = recorder.timer
        /\ ~recorder.timer
    BY <1>3, <1>t, <1>c DEF Opened
  <2> HIDE DEF c
  <2>3. KeepFiles /\ Record(<<c>>, FALSE)
    BY <1>3 DEF Opened, Here, c
  <2> QED BY <2>1, <2>2, <2>3, <1>r
<1>4. CASE Lost
  <2>1. PICK kind \in {"error", "closed"} : ScheduleRestart(<<Line(kind, 0)>>, FALSE, decoding)
    BY <1>4 DEF Lost
  <2>2. Line(kind, 0) \in Contents /\ Line(kind, 0).kind \notin {"connecting", "running"}
    BY <1>k, <1>l, <1>f
  <2>3. KeepFiles
    BY <1>4 DEF Lost
  <2> QED BY <2>1, <2>2, <2>3, <1>s
<1>5. CASE StopRecorder
  <2> DEFINE c == Line("stopped", 0)
  <2>1. c \in Contents /\ c.kind = "stopped"
    BY <1>k, <1>l, <1>f
  <2>2. recorder'.connection = recorder.connection /\ ~recorder'.timer
    BY <1>5, <1>t DEF StopRecorder
  <2> HIDE DEF c
  <2>3. KeepFiles /\ Record(<<c>>, FALSE)
    BY <1>5 DEF StopRecorder, c
  <2> QED BY <2>1, <2>2, <2>3, <1>u
<1>6. CASE Ends
  <2>1. recorder'.connection = recorder.connection /\ ~recorder'.timer
    BY <1>6, <1>t DEF Ends
  <2>2. SinkEnds
    BY <1>6 DEF Ends
  <2> QED BY <1>m, <2>1, <2>2, MovesAddNothing
<1>7. ASSUME NEW i \in DOMAIN decoding, NEW thrown \in BOOLEAN, Decoded(i, thrown)
      PROVE  ConnectionsInv'
  <2> DEFINE d == decoding[i]
             c == [kind |-> d.kind, connection |-> d.connection, frame |-> d.frame,
                   stamp |-> Stamp(d)]
  <2>1. d \in Decodings
    BY DEF RecorderInv, MarketTypes
  <2>2. c \in Contents /\ c.kind \notin {"connecting", "running"}
    BY <1>k, <2>1 DEF Contents, Decodings, Stamp, Messages
  <2>3. KeepFiles
    BY <1>7 DEF Decoded
  <2>4. \/ ScheduleRestart(<<c, Line("error", 0)>>, thrown, RemoveAt(decoding, i))
        \/ /\ Record(<<c>>, thrown) /\ UNCHANGED socket
           /\ recorder' \in {recorder, Summarised(d)}
    BY <1>7 DEF Decoded
  <2>5. \A r \in {recorder, Summarised(d)} :
           r.connection = recorder.connection /\ r.timer = recorder.timer
    BY <1>t DEF Summarised
  <2> HIDE DEF c, d
  <2>6. CASE ScheduleRestart(<<c, Line("error", 0)>>, thrown, RemoveAt(decoding, i))
    BY <2>2, <2>3, <2>6, <1>s
  <2>7. CASE /\ Record(<<c>>, thrown) /\ UNCHANGED socket
             /\ recorder' \in {recorder, Summarised(d)}
    BY <2>2, <2>3, <2>5, <2>7, <1>u, <1>c
  <2> QED BY <2>4, <2>6, <2>7
<1>8. CASE (Write \/ Read) /\ UNCHANGED <<recorderVars, received, faults>>
  <2>1. UNCHANGED <<recorder, socket>>
    BY <1>8 DEF recorderVars
  <2> QED BY <1>8, <1>m, <1>c, <2>1, MovesAddNothing
<1>9. ASSUME NEW kind \in Messages, Receive(kind) PROVE ConnectionsInv'
  BY <1>n, <1>9 DEF Receive
<1> QED BY <1>n, <1>1, <1>2, <1>3, <1>4, <1>5, <1>6, <1>7, <1>8, <1>9
        DEF MarketNext, marketVars, recorderVars

-----------------------------------------------------------------------------
(* The invariant holds of every behaviour.                                  *)
LEMMA MarketInvariant == MarketSpec => []MarketInv
<1>1. MarketInit => MarketInv
  <2> SUFFICES ASSUME MarketInit PROVE MarketInv
    OBVIOUS
  <2>1. JournalInv
    BY JournalAssumption DEF MarketInit, JournalInit, NoFile, JournalInv, JournalTypes, Files,
                             Consecutive, Bounded
  <2>2. RecorderInv
    BY DEF MarketInit, RecorderInv, MarketTypes, None, Summaries, States, Own
  <2>3. ConnectionsInv
    <3>1. Recorded = {}
      BY DEF MarketInit, JournalInit, NoFile, Recorded, Range
    <3> QED BY <3>1 DEF MarketInit, ConnectionsInv, Numbered, Left, Separated
  <2> QED BY <2>1, <2>2, <2>3 DEF MarketInv
<1>2. MarketInv /\ [MarketNext]_marketVars => MarketInv'
  BY RecorderKeeps, JournalKeeps, ConnectionsKeep DEF MarketInv
<1> QED BY <1>1, <1>2, PTL DEF MarketSpec

(* Wherever a rotation or an append stopped, the two files hold the latest  *)
(* of what was written, without a gap, and the limit bounds them            *)
(* (rotateIfNeeded, stream-spec.md FR-B008).                                *)
THEOREM JournalAlwaysKeepsTheLatest == MarketSpec => []JournalKeepsTheLatest
<1>1. ASSUME JournalInv PROVE JournalKeepsTheLatest
  <2> DEFINE a == Len(active.lines)
             b == Len(backup.lines)
             kept == backup.lines \o active.lines
  <2>1. /\ active.lines \in Seq(Pieces) /\ backup.lines \in Seq(Pieces) /\ written \in Nat
        /\ a \in Nat /\ b \in Nat
    BY <1>1 DEF JournalInv, JournalTypes, Files
  <2>2. kept \in Seq(Pieces) /\ Len(kept) = b + a
    BY <2>1
  <2>3. ASSUME NEW i \in DOMAIN kept PROVE kept[i].nth = written - Len(kept) + i
    <3>1. i \in 1 .. b + a
      <4> HIDE DEF a, b, kept
      <4> QED BY <2>1, <2>2
    <3>2. CASE i \in 1 .. b
      <4>1. kept[i] = backup.lines[i] /\ i \in DOMAIN backup.lines
        BY <3>2, <2>1
      <4>2. kept[i].nth = written - a - b + i
        BY <1>1, <4>1 DEF JournalInv, Consecutive
      <4> HIDE DEF a, b, kept
      <4> QED BY <2>1, <2>2, <3>2, <4>2
    <3>3. CASE i \in b + 1 .. b + a
      <4>3. i - b \in 1 .. a /\ i = b + (i - b)
        <5> HIDE DEF a, b
        <5> QED BY <3>3, <2>1
      <4>1. kept[i] = active.lines[i - b] /\ i - b \in DOMAIN active.lines
        BY <3>3, <4>3, <2>1
      <4>2. kept[i].nth = written - a + (i - b)
        BY <1>1, <4>1 DEF JournalInv, Consecutive
      <4> HIDE DEF a, b, kept
      <4> QED BY <2>1, <2>2, <3>3, <4>2
    <3> HIDE DEF a, b, kept
    <3>4. i \in 1 .. b \/ i \in b + 1 .. b + a
      BY ONLY <2>1, <3>1
    <3> QED BY ONLY <3>2, <3>3, <3>4
  <2>4. written > 0 => kept # <<>>
    BY <1>1, <2>1 DEF JournalInv, Consecutive
  <2> QED BY <1>1, <2>3, <2>4 DEF JournalKeepsTheLatest, JournalInv, Bounded
<1> QED BY <1>1, MarketInvariant, PTL DEF MarketInv

(* A capture that is accepted is all that one process tried to record, from *)
(* the first line on (hasContiguousSequence over the numbers record()       *)
(* gives).                                                                  *)
THEOREM AcceptedReadsAreComplete == MarketSpec => []AcceptedIsComplete
<1>1. ASSUME JournalInv PROVE AcceptedIsComplete
  <2> SUFFICES ASSUME Accepted(Returned)
               PROVE  \A i \in DOMAIN Returned :
                         Returned[i].nth = i /\ Returned[i].session = Returned[1].session
    BY DEF AcceptedIsComplete
  <2>1. Returned \in Seq(Lines)
    <3>1. Of("active", active) \in Seq(Lines)
      BY <1>1, RecordsAreLines DEF JournalInv, JournalTypes
    <3> QED BY <1>1, <3>1 DEF Returned, JournalInv, JournalTypes
  <2>2. \A i \in DOMAIN Returned : Returned[i] \in Lines
    BY <2>1
  <2>3. \A i \in DOMAIN Returned :
           Returned[i].session = Returned[1].session /\ Returned[i].sequence = i
    BY DEF Accepted, HasContiguousSequence
  <2> QED BY <2>2, <2>3 DEF Lines
<1> QED BY <1>1, MarketInvariant, PTL DEF MarketInv

(* The latest summaries are of the connection there is, or of a frame that  *)
(* was still being decoded when the epoch moved (connect and onMessage).    *)
THEOREM SummariesStayOwn == MarketSpec => []SummariesAreOwn
<1>1. RecorderInv => SummariesAreOwn
  BY DEF RecorderInv, SummariesAreOwn, Own
<1> QED BY <1>1, MarketInvariant, PTL DEF MarketInv

(* What a reader has and is about to take is among what is recorded.        *)
LEMMA ReturnedIsRecorded ==
    ASSUME JournalInv
    PROVE  /\ Returned \in Seq(Lines)
           /\ \A i \in DOMAIN Returned : Returned[i] \in Recorded
<1>1. active.lines \in Seq(Pieces) /\ reader.lines \in Seq(Lines)
  BY DEF JournalInv, JournalTypes, Files
<1>2. Of("active", active) \in Seq(Lines)
  BY RecordsAreLines DEF JournalInv, JournalTypes
<1>3. \A i \in DOMAIN Of("active", active) : Of("active", active)[i] \in Recorded
  <2>1. CASE Of("active", active) = <<>>
    BY <2>1
  <2>2. CASE Of("active", active) = Records(active)
    BY <1>1, <2>2 DEF Records, Recorded, Range
  <2> QED BY <2>1, <2>2 DEF Of
<1>4. \A i \in DOMAIN reader.lines : reader.lines[i] \in Recorded
  BY DEF Recorded, Range
<1>5. \A i \in DOMAIN Returned : Returned[i] \in Recorded
  <2> DEFINE u == reader.lines
             v == Of("active", active)
             R == {l \in Lines : l \in Recorded}
  <2> HIDE DEF u, v, R
  <2>1. u \in Seq(Lines) /\ v \in Seq(Lines)
    BY <1>1, <1>2 DEF u, v
  <2>2. (\A i \in 1 .. Len(u) : u[i] \in R) /\ (\A i \in 1 .. Len(v) : v[i] \in R)
    BY <1>3, <1>4, <2>1 DEF u, v, R
  <2>3. u \in Seq(R) /\ v \in Seq(R)
    BY <2>1, <2>2
  <2>4. u \o v \in Seq(R)
    BY <2>3
  <2> QED BY <2>4 DEF Returned, u, v, R
<1> QED BY <1>1, <1>2, <1>5 DEF Returned

(* A capture that is accepted has the frames of one connection only, in the *)
(* order they were received in: between the lines of two connections a      *)
(* number of the session went to a "backoff", which it would show or miss   *)
(* (scheduleRestart; verifyBinanceMarketEvidence).                          *)
THEOREM AcceptedReadsAreFaithful == MarketSpec => []AcceptedIsFaithful
<1>1. ASSUME MarketInv, AcceptedIsComplete PROVE AcceptedIsFaithful
  <2> SUFFICES ASSUME Accepted(Returned), NEW i \in DOMAIN Returned, NEW j \in DOMAIN Returned,
                      Returned[i].of.kind \in Messages, Returned[j].of.kind \in Messages, i < j
               PROVE  /\ Returned[i].of.frame < Returned[j].of.frame
                      /\ Returned[i].of.connection = Returned[j].of.connection
    BY <1>1 DEF AcceptedIsFaithful
  <2>1. /\ Returned \in Seq(Lines)
        /\ \A n \in DOMAIN Returned : Returned[n] \in Recorded
    BY <1>1, ReturnedIsRecorded DEF MarketInv
  <2>2. DOMAIN Returned = 1 .. Len(Returned) /\ Len(Returned) \in Nat
    BY <2>1
  <2>3. \A n \in DOMAIN Returned :
           Returned[n].session = Returned[1].session /\ Returned[n].sequence = n
    BY DEF Accepted, HasContiguousSequence
  <2>4. \A n \in DOMAIN Returned : Returned[n].of.kind # "backoff"
    BY DEF Accepted, Shows
  <2>5. Returned[i].of.frame < Returned[j].of.frame
    <3>1. {Returned[i].of.kind, Returned[j].of.kind} \subseteq Messages
      OBVIOUS
    <3>2. Returned[i].of.stamp < Returned[j].of.stamp
      BY <3>1 DEF Accepted, Ordered
    <3>3. Returned[i] \in Lines /\ Returned[j] \in Lines
      BY <2>1
    <3>4. \A l \in Lines : l.of.stamp = l.of.frame
      BY DEF Lines, Contents
    <3> QED BY <3>2, <3>3, <3>4
  <2>6. ASSUME NEW p \in DOMAIN Returned, NEW q \in DOMAIN Returned, p < q,
               Returned[p].of.kind \in {"connecting", "running"},
               Returned[q].of.kind \in {"connecting", "running"}
        PROVE  Returned[p].of.connection = Returned[q].of.connection
    <3> DEFINE a == Returned[p]
               b == Returned[q]
    <3>1. SUFFICES ASSUME a.of.connection # b.of.connection PROVE FALSE
      OBVIOUS
    <3>2. /\ a \in Recorded /\ b \in Recorded /\ Opens(a) /\ Opens(b)
          /\ a.session = b.session /\ a.sequence = p /\ b.sequence = q
      BY <2>1, <2>3, <2>6 DEF Opens
    <3> HIDE DEF a, b
    <3>3. PICK k \in Nat : p < k /\ k < q /\ GivenUp(a.session, k)
      BY <1>1, <2>6, <3>1, <3>2 DEF MarketInv, ConnectionsInv, Separated
    <3>4. k \in DOMAIN Returned
      BY <2>2, <2>6, <3>3
    <3>5. Returned[k] \in Recorded /\ Returned[k].session = a.session /\ Returned[k].sequence = k
      BY <2>1, <2>3, <3>4 DEF a
    <3> QED BY <2>4, <3>3, <3>4, <3>5 DEF GivenUp
  <2>7. PICK p \in 1 .. i - 1 : /\ Returned[p].of.kind \in {"connecting", "running"}
                                /\ Returned[p].of.connection = Returned[i].of.connection
    BY DEF Accepted, Attributed
  <2>8. PICK q \in 1 .. j - 1 : /\ Returned[q].of.kind \in {"connecting", "running"}
                                /\ Returned[q].of.connection = Returned[j].of.connection
    BY DEF Accepted, Attributed
  <2>9. p \in DOMAIN Returned /\ q \in DOMAIN Returned /\ p \in Nat /\ q \in Nat
    BY <2>2
  <2>10. p < q \/ p = q \/ q < p
    BY <2>9
  <2>11. Returned[p].of.connection = Returned[q].of.connection
    BY <2>6, <2>7, <2>8, <2>9, <2>10
  <2> QED BY <2>5, <2>7, <2>8, <2>11
<1> QED BY <1>1, MarketInvariant, AcceptedReadsAreComplete, PTL

=============================================================================
