---------------------------- MODULE MarketEvidence ----------------------------
(***************************************************************************)
(* Captures of the market stream: the recorder (market-stream-recorder.ts) *)
(* over the journal, in one process after another, and the verification    *)
(* that accepts a capture as input of a replay (market-evidence.ts).       *)
(*                                                                         *)
(* The recorder has no snapshot to wait for: a connection runs when its    *)
(* socket opens.  A message is decoded asynchronously, and its handler     *)
(* looks at the epoch before that only.                                    *)
(*                                                                         *)
(* The number of a frame stands for the order of its receipt, its trade id *)
(* and its event time: the stream itself is in order, once on each         *)
(* connection.  Wall clock times are left out.                             *)
(***************************************************************************)
EXTENDS EvidenceJournal, SequencesExt, FiniteSets

CONSTANTS MinimumAggregateTrades, MinimumMarkPrices,
          MaxTraffic, MaxFaults      \* bounds: connections and frames, faults

Messages == {"trade", "mark", "bad"}        \* bad: not JSON, or not an event of the symbol
Transitions == {"connecting", "running", "closed", "backoff", "stopped"}

ASSUME MarketAssumption == Kinds = Messages \cup Transitions \cup {"error"}

VARIABLES
    recorder,   \* desiredRunning, state, connection, latest summaries, restart timer
    socket,     \* of the current epoch: "none", "opening", "open"
    decoding,   \* messages whose decoding is awaited
    received,   \* frames received so far
    faults      \* what went wrong so far

recorderVars == <<recorder, socket, decoding>>
marketVars == <<recorder, socket, decoding, received, faults, journalVars>>

None == [frame |-> 0, connection |-> 0, late |-> FALSE]

MarketInit ==
    /\ recorder = [up |-> FALSE, desired |-> FALSE, state |-> "stopped", connection |-> 0,
                   trade |-> None, mark |-> None, timer |-> FALSE]
    /\ socket = "none" /\ decoding = <<>> /\ received = 0 /\ faults = 0
    /\ JournalInit

-----------------------------------------------------------------------------
(* The recorder.  Its handlers run when the one before has written.  The    *)
(* epoch moves: messages in decoding are no longer of the current one.      *)

Line(kind, connection) == [kind |-> kind, connection |-> connection, frame |-> 0, stamp |-> 0]
Here(kind) == Line(kind, recorder.connection)

Disarmed(q) == [i \in DOMAIN q |-> [q[i] EXCEPT !.current = FALSE]]

(* Bound: so many connections and frames, together. *)
More == recorder.connection + received < MaxTraffic

(* Mutant: the summaries are left as they are. *)
SummariesKept(r) == r

SummariesReset(r) == [r EXCEPT !.trade = None, !.mark = None]

(* connect(), in a process that has the recorder r. *)
ConnectFrom(r) ==
    /\ recorder' = [SummariesReset(r) EXCEPT !.desired = TRUE, !.state = "connecting",
                                             !.connection = @ + 1, !.timer = FALSE]
    /\ socket' = "opening"

(* A process starts, on the files as they are, and starts its recorder. *)
Begin ==
    /\ ~recorder.up /\ More
    /\ ConnectFrom([recorder EXCEPT !.up = TRUE])
    /\ decoding' = <<>>
    /\ OpenSession(<<Line("connecting", recorder.connection + 1)>>)
    /\ UNCHANGED <<received, faults, active, backup, reader, written>>

Running == recorder.up /\ Written
KeepFiles == UNCHANGED <<active, backup, reader, written>>

Reconnect ==
    /\ Running /\ recorder.timer /\ More
    /\ ConnectFrom(recorder)
    /\ decoding' = Disarmed(decoding)
    /\ Record(<<Line("connecting", recorder.connection + 1)>>, FALSE)
    /\ KeepFiles /\ UNCHANGED <<received, faults>>

Opened ==
    /\ Running /\ socket = "opening"
    /\ socket' = "open"
    /\ recorder' = [recorder EXCEPT !.state = "running"]
    /\ Record(<<Here("running")>>, FALSE)
    /\ KeepFiles /\ UNCHANGED <<decoding, received, faults>>

(* scheduleRestart, after lines of the same handler. *)
ScheduleRestart(lines, thrown, q) ==
    /\ recorder' = [recorder EXCEPT !.state = "backoff", !.timer = TRUE]
    /\ socket' = "none" /\ decoding' = Disarmed(q)
    /\ Record(Append(lines, Line("backoff", 0)), thrown)

(* The socket reports an error, or is closed. *)
Lost ==
    /\ Running /\ socket # "none" /\ faults < MaxFaults
    /\ \E kind \in {"error", "closed"} : ScheduleRestart(<<Line(kind, 0)>>, FALSE, decoding)
    /\ faults' = faults + 1
    /\ KeepFiles /\ UNCHANGED received

StopRecorder ==
    /\ Running /\ recorder.desired
    /\ recorder' = [recorder EXCEPT !.desired = FALSE, !.state = "stopped", !.timer = FALSE]
    /\ socket' = "none" /\ decoding' = Disarmed(decoding)
    /\ Record(<<Line("stopped", 0)>>, FALSE)
    /\ KeepFiles /\ UNCHANGED <<received, faults>>

(* onMessage, before the decoding is awaited. *)
Receive(kind) ==
    /\ Running /\ socket = "open" /\ More
    /\ kind = "bad" => faults < MaxFaults
    /\ decoding' = Append(decoding, [kind |-> kind, frame |-> received + 1,
                                      connection |-> recorder.connection, current |-> TRUE])
    /\ received' = received + 1
    /\ faults' = IF kind = "bad" THEN faults + 1 ELSE faults
    /\ UNCHANGED <<recorder, socket, journalVars>>

(* Mutant: the receipt is timed when the frame is decoded. *)
StampDecoded(d) == sink.sequence + 1

Stamp(d) == d.frame

Latest(kind) == IF kind = "trade" THEN recorder.trade ELSE recorder.mark

Summarised(d) ==
    LET summary == [frame |-> d.frame, connection |-> d.connection, late |-> ~d.current]
    IN  IF d.kind = "trade" THEN [recorder EXCEPT !.trade = summary]
        ELSE [recorder EXCEPT !.mark = summary]

(* onMessage, after that: the frame is recorded and then looked at.  What   *)
(* is thrown, by record() too, restarts the connection it is of, if that is *)
(* the current one.                                                         *)
Decoded(i, thrown) ==
    LET d == decoding[i]
        q == RemoveAt(decoding, i)
        line == [kind |-> d.kind, connection |-> d.connection, frame |-> d.frame,
                 stamp |-> Stamp(d)]
        valid == ~thrown /\ d.kind # "bad" /\ Latest(d.kind).frame < d.frame
    IN  /\ Running
        /\ thrown => faults < MaxFaults
        /\ faults' = IF thrown THEN faults + 1 ELSE faults
        /\ IF ~valid /\ d.current
           THEN ScheduleRestart(<<line, Line("error", 0)>>, thrown, q)
           ELSE /\ recorder' = IF valid THEN Summarised(d) ELSE recorder
                /\ decoding' = q
                /\ Record(<<line>>, thrown)
                /\ UNCHANGED socket
        /\ KeepFiles /\ UNCHANGED received

(* The process ends, after its recorder was stopped or anywhere before. *)
Ends ==
    /\ recorder.up
    /\ LET orderly == Written /\ ~recorder.desired
       IN  /\ orderly \/ faults < MaxFaults
           /\ faults' = IF orderly THEN faults ELSE faults + 1
    /\ recorder' = [recorder EXCEPT !.up = FALSE, !.desired = FALSE, !.state = "stopped",
                                    !.timer = FALSE, !.trade = None, !.mark = None]
    /\ socket' = "none" /\ decoding' = <<>>
    /\ SinkEnds
    /\ UNCHANGED received

MarketNext ==
    \/ Begin \/ Reconnect \/ Opened \/ Lost \/ StopRecorder \/ Ends
    \/ \E kind \in Messages : Receive(kind)
    \/ \E i \in DOMAIN decoding, thrown \in BOOLEAN : Decoded(i, thrown)
    \/ (Write \/ Read) /\ UNCHANGED <<recorderVars, received, faults>>

MarketSpec == MarketInit /\ [][MarketNext]_marketVars

-----------------------------------------------------------------------------
(* verifyBinanceMarketEvidence: accepted_for_event_replay. *)

Shows(lines, kind) == \E i \in DOMAIN lines : lines[i].of.kind = kind

Counted(lines, kind) == Cardinality({i \in DOMAIN lines : lines[i].of.kind = kind})

Ordered(lines, kinds) ==
    \A i, j \in DOMAIN lines :
        i < j /\ {lines[i].of.kind, lines[j].of.kind} \subseteq kinds =>
            lines[i].of.stamp < lines[j].of.stamp

Attributed(lines, i) ==
    \E j \in 1 .. i - 1 : /\ lines[j].of.kind \in {"connecting", "running"}
                          /\ lines[j].of.connection = lines[i].of.connection

Accepted(lines) ==
    /\ HasContiguousSequence(lines)
    /\ \A kind \in {"connecting", "running", "stopped"} : Shows(lines, kind)
    /\ \A kind \in {"error", "backoff", "bad"} : ~Shows(lines, kind)
    /\ Counted(lines, "trade") >= MinimumAggregateTrades
    /\ Counted(lines, "mark") >= MinimumMarkPrices
    /\ Ordered(lines, Messages)
    /\ \A i \in DOMAIN lines : lines[i].of.kind \in Messages => Attributed(lines, i)

-----------------------------------------------------------------------------
(* Properties. *)

(* What is accepted is a true account, whatever was lost, torn or rotated   *)
(* away, and although the journal may be rotated while it is read: all that *)
(* one process tried to record, from the first line on, ...                 *)
AcceptedIsComplete ==
    Returns /\ Accepted(Returned) =>
        \A i \in DOMAIN Returned :
            Returned[i].nth = i /\ Returned[i].session = Returned[1].session

(* ... and the frames of one connection in the order they were received in  *)
(* (BINANCE_MARKET_EVIDENCE.md, "receive ordering").                        *)
AcceptedIsFaithful ==
    /\ AcceptedIsComplete
    /\ Returns /\ Accepted(Returned) =>
          \A i, j \in {n \in DOMAIN Returned : Returned[n].of.kind \in Messages} :
              i < j => /\ Returned[i].of.frame < Returned[j].of.frame
                       /\ Returned[i].of.connection = Returned[j].of.connection

(* "Those current summaries reset on every connection attempt, so a newly   *)
(* opened connection cannot borrow readiness from a prior connection"       *)
(* (BINANCE_MARKET_EVIDENCE.md).  It can from a frame that was still being  *)
(* decoded when the connection was replaced, and from no other.             *)
SummariesAreOwn ==
    \A summary \in {recorder.trade, recorder.mark} \ {None} :
        recorder.state \in {"connecting", "running"} =>
            summary.connection = recorder.connection \/ summary.late

=============================================================================
