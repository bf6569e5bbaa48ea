--------------------------- MODULE EvidenceJournal ---------------------------
(***************************************************************************)
(* The journal of the streams: the sink that appends lines to a file and   *)
(* rotates it (JsonlBinanceStreamEvidenceSink), and the reader that puts   *)
(* the backup and the file together (readBinanceStreamEvidenceJsonl).      *)
(*                                                                         *)
(* record() is synchronous: nothing of its own process comes between its   *)
(* calls to the file system, but the process can end there and another     *)
(* process can read there.  What a handler records waits in the outbox and *)
(* is written call by call.  A write that fails ends the process here.     *)
(*                                                                         *)
(* A file holds what was appended to it: lines, and where a crash left     *)
(* them a line without its newline or a part of one.  Sizes are in units   *)
(* that tell the kinds of records apart; a part counts as one.             *)
(***************************************************************************)
EXTENDS Integers, Sequences

CONSTANTS Kinds, LineBytes,     \* what is recorded, and the size of its line
          MaxBytes

ASSUME JournalAssumption == MaxBytes \in Nat \ {0} /\ LineBytes \in [Kinds -> Nat \ {0}]

VARIABLES
    active, backup,     \* the files: path, and path.1
    sink,               \* the session, its last sequence number, the outbox
    reader,             \* a reader in another process
    written,            \* history: how many pieces were put on the disk
    attempts            \* history: how often record() was called in the session

journalVars == <<active, backup, sink, reader, written, attempts>>

(* A file that was never created and one that is empty are treated alike.  *)
NoFile == [lines |-> <<>>, size |-> 0]

JournalInit ==
    /\ active = NoFile /\ backup = NoFile
    /\ sink = [session |-> 0, sequence |-> 0, outbox |-> <<>>]
    /\ reader = [at |-> "idle", sees |-> {}, lines |-> <<>>]
    /\ written = 0 /\ attempts = 0

-----------------------------------------------------------------------------
(* The sink. *)

(* One handler's calls of record(): each takes a number, and the first may  *)
(* throw before it writes anything.  "nth" is history.                      *)
RecordAs(session, sequence, count, contents, thrown) ==
    LET lines == [k \in DOMAIN contents |->
                     [session |-> session, sequence |-> sequence + k,
                      of |-> contents[k], nth |-> count + k]]
    IN  /\ sink' = [session |-> session, sequence |-> sequence + Len(contents),
                    outbox |-> IF thrown THEN Tail(lines) ELSE lines]
        /\ attempts' = count + Len(contents)

Record(contents, thrown) == RecordAs(sink.session, sink.sequence, attempts, contents, thrown)

(* A new process is a new session. *)
OpenSession(contents) == RecordAs(sink.session + 1, 0, 0, contents, FALSE)

Written == sink.outbox = <<>>

(* Mutant: only what the file holds already is compared with the limit. *)
FullAlready(line) == active.size > MaxBytes

NeedsRotation(line) ==
    active.size > 0 /\ active.size + LineBytes[line.of.kind] > MaxBytes

(* rotateIfNeeded: the old backup goes, then the file takes its place. *)
RemoveBackup ==
    /\ ~Written /\ NeedsRotation(Head(sink.outbox)) /\ backup # NoFile
    /\ backup' = NoFile
    /\ UNCHANGED <<active, sink, reader, written, attempts>>

(* Mutant: the file is removed as well. *)
FileDropped == active' = NoFile /\ UNCHANGED backup

BecomesBackup == backup' = active /\ active' = NoFile

Rename ==
    /\ ~Written /\ NeedsRotation(Head(sink.outbox)) /\ backup = NoFile
    /\ BecomesBackup
    /\ UNCHANGED <<sink, reader, written, attempts>>

Puts(line, end) ==
    /\ active' = [lines |-> Append(active.lines,
                                   [record |-> line, end |-> end, nth |-> written + 1]),
                  size |-> active.size + IF end = "torn" THEN 1 ELSE LineBytes[line.of.kind]]
    /\ written' = written + 1

AppendLine ==
    /\ ~Written /\ ~NeedsRotation(Head(sink.outbox))
    /\ Puts(Head(sink.outbox), "line")
    /\ sink' = [sink EXCEPT !.outbox = Tail(@)]
    /\ UNCHANGED <<backup, reader, attempts>>

Write == RemoveBackup \/ Rename \/ AppendLine

(* The process ends; an append it was in may have been done in part, or up  *)
(* to the newline.                                                          *)
SinkEnds ==
    /\ \/ UNCHANGED <<active, written>>
       \/ /\ ~Written /\ ~NeedsRotation(Head(sink.outbox))
          /\ \E end \in {"unended", "torn"} : Puts(Head(sink.outbox), end)
    /\ sink' = [sink EXCEPT !.outbox = <<>>]
    /\ UNCHANGED <<backup, reader, attempts>>

-----------------------------------------------------------------------------
(* The reader. *)

(* Pieces that share a line with another, and parts, are not JSON. *)
Parses(file) ==
    \A i \in DOMAIN file.lines :
        file.lines[i].end = "line" \/ (file.lines[i].end = "unended" /\ i = Len(file.lines))

Records(file) == [i \in DOMAIN file.lines |-> file.lines[i].record]

(* A file that was there is gone, or does not parse: the read throws. *)
Fails(name, file) == name \in reader.sees /\ (file = NoFile \/ ~Parses(file))

Of(name, file) == IF name \in reader.sees THEN Records(file) ELSE <<>>

Reads(at, sees, lines) ==
    /\ reader' = [at |-> at, sees |-> sees, lines |-> lines]
    /\ UNCHANGED <<active, backup, sink, written, attempts>>

(* existsSync of the two names ... *)
LookForBackup ==
    /\ reader.at = "idle"
    /\ Reads("file", IF backup # NoFile THEN {"backup"} ELSE {}, <<>>)

LookForFile ==
    /\ reader.at = "file"
    /\ Reads("backup", reader.sees \cup IF active # NoFile THEN {"active"} ELSE {}, <<>>)

(* ... then readFileSync of those that were there. *)
ReadBackup ==
    /\ reader.at = "backup"
    /\ IF Fails("backup", backup) THEN Reads("idle", {}, <<>>)
       ELSE Reads("active", reader.sees, Of("backup", backup))

(* A read is about to return, and returns this. *)
Returns == reader.at = "active" /\ ~Fails("active", active)
Returned == reader.lines \o Of("active", active)

ReadFile == reader.at = "active" /\ Reads("idle", {}, <<>>)

Read == LookForBackup \/ LookForFile \/ ReadBackup \/ ReadFile

-----------------------------------------------------------------------------
(* Mutant: the numbers are not looked at. *)
OneSession(lines) == lines # <<>> /\ \A i \in DOMAIN lines : lines[i].session = lines[1].session

HasContiguousSequence(lines) ==
    /\ lines # <<>>
    /\ \A i \in DOMAIN lines : lines[i].session = lines[1].session /\ lines[i].sequence = i

-----------------------------------------------------------------------------
(* Properties. *)

(* stream-spec.md, FR-B008: one file and one backup bound the disk, but for *)
(* a line that is too long on its own; and wherever a rotation stopped, the *)
(* two hold the latest of what was written, without a gap, and not nothing. *)
JournalKeepsTheLatest ==
    /\ LET kept == backup.lines \o active.lines
       IN  /\ \A i \in DOMAIN kept : kept[i].nth = written - Len(kept) + i
           /\ written > 0 => kept # <<>>
    /\ \A file \in {active, backup} : file.size <= MaxBytes \/ Len(file.lines) = 1

=============================================================================
