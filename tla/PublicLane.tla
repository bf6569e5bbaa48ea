------------------------------ MODULE PublicLane ------------------------------
(***************************************************************************)
(* The public depth stream (public-stream-lane.ts) around the local book.  *)
(*                                                                         *)
(* Every connection has an epoch; callbacks of an earlier one do nothing.  *)
(* So an epoch is not a number here: what a new one disarms is dropped, or *)
(* (messages whose decoding is awaited, which only check the epoch before  *)
(* the await) kept with current = FALSE.  Text decodes within the turn, a  *)
(* Blob at any later time and in any order: both are allowed.              *)
(*                                                                         *)
(* The venue, its socket and its REST service are external.                *)
(***************************************************************************)
EXTENDS OrderBook

CONSTANTS MaxUpdates,   \* bound: updates of the venue's book
          MaxFaults     \* bound: connections lost, frames lost or malformed, requests failed

ASSUME LaneAssumption == MaxUpdates \in Nat \ {0} /\ MaxFaults \in Nat

VARIABLES
    lane,       \* state, desiredRunning, restart timer, REST request of onOpen
    book,
    decoding,   \* messages whose decoding is awaited
    socket,
    wire,       \* frames in flight on the socket; NONE is one the lane refuses
    updates,    \* venue: the updates so far
    cut,        \* venue: how many of them went into frames
    faults

laneVars == <<lane, book, decoding, socket, wire>>
venueVars == <<updates, cut, faults>>
vars == <<lane, book, decoding, socket, wire, updates, cut, faults>>

Deltas ==
    [U : 1 .. MaxUpdates, u : 1 .. MaxUpdates, pu : 0 .. MaxUpdates \cup {NONE},
     levels : UNION {[S -> 0 .. MaxUpdates] : S \in SUBSET Prices}]

TypeOK ==
    /\ lane \in [state : {"stopped", "connecting", "synchronizing", "running", "backoff"},
                 desired : BOOLEAN, timer : BOOLEAN,
                 rest : {"none", "requested", "answered"}, answer : 0 .. MaxUpdates]
    /\ book.status \in Statuses /\ book.updateId \in 0 .. MaxUpdates
    /\ book.levels \in [Prices -> 0 .. MaxUpdates] /\ book.awaitingFirstDelta \in BOOLEAN
    /\ \A i \in DOMAIN book.buffered : book.buffered[i] \in Deltas
    /\ \A i \in DOMAIN decoding :
          decoding[i].current \in BOOLEAN /\ decoding[i].message \in Deltas \cup {NONE}
    /\ socket \in {"none", "connecting", "open", "failed"}
    /\ \A i \in DOMAIN wire : wire[i] \in Deltas \cup {NONE}
    /\ Len(updates) <= MaxUpdates /\ \A i \in DOMAIN updates : updates[i] \in Prices
    /\ cut \in 0 .. Len(updates) /\ faults \in 0 .. MaxFaults
    /\ lane.state = "backoff" => lane.timer
    /\ lane.state \in {"synchronizing", "running"} => socket \in {"open", "failed"}

Init ==
    /\ lane = [state |-> "stopped", desired |-> FALSE, timer |-> FALSE, rest |-> "none",
               answer |-> 0]
    /\ book = EmptyBook
    /\ decoding = <<>> /\ socket = "none" /\ wire = <<>>
    /\ updates = <<CHOOSE p \in Prices : TRUE>>
    /\ cut = 0 /\ faults = 0

-----------------------------------------------------------------------------
(* Connections. *)

(* A new epoch: nothing that was awaited or in flight counts any more. *)
Disarmed(q) == [i \in DOMAIN q |-> [q[i] EXCEPT !.current = FALSE]]

NewEpoch(state, desired, timer, sock, q) ==
    /\ lane' = [state |-> state, desired |-> desired, timer |-> timer, rest |-> "none",
                answer |-> 0]
    /\ socket' = sock
    /\ wire' = <<>>
    /\ book' = EmptyBook
    /\ decoding' = Disarmed(q)

Connect == NewEpoch("connecting", TRUE, FALSE, "connecting", decoding)

Start == ~lane.desired /\ Connect /\ UNCHANGED venueVars

Stop ==
    /\ lane.desired
    /\ NewEpoch("stopped", FALSE, FALSE, "none", decoding)
    /\ UNCHANGED venueVars

(* Mutant: no timer is armed. *)
ScheduleRestartOnce(b, q) ==
    IF lane.desired /\ lane.state # "backoff"
    THEN NewEpoch("backoff", TRUE, FALSE, "none", q)
    ELSE book' = b /\ decoding' = q /\ UNCHANGED <<lane, socket, wire>>

(* scheduleRestart, with the book and the awaited messages as they are now. *)
ScheduleRestart(b, q) ==
    IF lane.desired /\ lane.state # "backoff"
    THEN NewEpoch("backoff", TRUE, TRUE, "none", q)
    ELSE book' = b /\ decoding' = q /\ UNCHANGED <<lane, socket, wire>>

RestartTimer == lane.timer /\ Connect /\ UNCHANGED venueVars

(* The socket's error or close event. *)
SocketEnds ==
    /\ socket = "failed"
    /\ ScheduleRestart(book, decoding)
    /\ UNCHANGED venueVars

-----------------------------------------------------------------------------
(* onOpen: a snapshot is requested, then joined to what was buffered. *)

OnOpen ==
    /\ socket = "connecting"
    /\ socket' = "open"
    /\ lane' = [lane EXCEPT !.state = "synchronizing", !.rest = "requested"]
    /\ UNCHANGED <<book, decoding, wire, venueVars>>

(* Mutant: a gap between the snapshot and a buffered delta is not noticed. *)
JoinedAnyway(b) == TRUE

Joined(b) == b.status # "gapped"

SnapshotArrives ==
    /\ lane.rest = "answered"
    /\ LET b == LoadSnapshot(book, SnapshotAt(updates, lane.answer))
       IN  IF Joined(b)
           THEN /\ book' = b
                /\ lane' = [lane EXCEPT !.state = "running", !.rest = "none", !.answer = 0]
                /\ UNCHANGED <<decoding, socket, wire>>
           ELSE ScheduleRestart(b, decoding)
    /\ UNCHANGED venueVars

SnapshotFails ==
    /\ lane.rest # "none"
    /\ faults < MaxFaults
    /\ faults' = faults + 1
    /\ ScheduleRestart(book, decoding)
    /\ UNCHANGED <<updates, cut>>

-----------------------------------------------------------------------------
(* onMessage, before and after the awaited decoding. *)

OnMessage ==
    /\ socket \in {"open", "failed"} /\ wire # <<>>
    /\ wire' = Tail(wire)
    /\ decoding' = Append(decoding, [message |-> Head(wire), current |-> TRUE])
    /\ UNCHANGED <<lane, book, socket, venueVars>>

(* The epoch is looked at again only if the message turns out malformed. *)
Decoded(i) ==
    /\ i \in DOMAIN decoding
    /\ LET m == decoding[i].message
           q == RemoveAt(decoding, i)
           b == IF m = NONE THEN book ELSE Ingest(book, m)
       IN  IF IF m = NONE THEN decoding[i].current ELSE b.status = "gapped"
           THEN ScheduleRestart(b, q)
           ELSE book' = b /\ decoding' = q /\ UNCHANGED <<lane, socket, wire>>
    /\ UNCHANGED venueVars

-----------------------------------------------------------------------------
(* The venue. *)

Updated(p) ==
    /\ Len(updates) < MaxUpdates
    /\ updates' = Append(updates, p)
    /\ UNCHANGED <<laneVars, cut, faults>>

(* A frame with all updates since the last one; it may be malformed or      *)
(* missing on its way.                                                      *)
Emits(previous) ==
    /\ cut < Len(updates)
    /\ cut' = Len(updates)
    /\ LET d == Delta(updates, cut + 1, Len(updates), previous)
       IN  IF socket = "open"
           THEN \/ wire' = Append(wire, d) /\ UNCHANGED faults
                \/ /\ faults < MaxFaults /\ faults' = faults + 1
                   /\ wire' \in {wire, Append(wire, NONE)}
           ELSE UNCHANGED <<wire, faults>>
    /\ UNCHANGED <<lane, book, decoding, socket, updates>>

(* A depth response may lag behind the stream. *)
SnapshotTaken(n) ==
    /\ lane.rest = "requested"
    /\ lane' = [lane EXCEPT !.rest = "answered", !.answer = n]
    /\ UNCHANGED <<book, decoding, socket, wire, venueVars>>

SocketLost ==
    /\ socket \in {"connecting", "open"}
    /\ faults < MaxFaults
    /\ faults' = faults + 1
    /\ socket' = "failed"
    /\ UNCHANGED <<lane, book, decoding, wire, updates, cut>>

Next ==
    \/ Start \/ Stop \/ RestartTimer \/ SocketEnds
    \/ OnOpen \/ SnapshotArrives \/ SnapshotFails
    \/ OnMessage \/ \E i \in DOMAIN decoding : Decoded(i)
    \/ \E p \in Prices : Updated(p)
    \/ \E previous \in {cut, NONE} : Emits(previous)
    \/ \E n \in 1 .. Len(updates) : SnapshotTaken(n)
    \/ SocketLost

Spec == Init /\ [][Next]_vars

-----------------------------------------------------------------------------
(* Properties. *)

(* Whatever frames were lost, malformed, late, left over from an earlier    *)
(* connection or decoded out of order, a book that calls itself ready is    *)
(* the venue's book at the update it names; and "no gapped public book      *)
(* [...] is reported as running" (docs/BINANCE_STREAMS.md), nor does a lane *)
(* run without a socket whose end it would hear of.                         *)
BookIsTrue ==
    /\ book.status = "ready" => book.levels = BookAt(updates, book.updateId)
    /\ lane.state = "running" => book.status = "ready" /\ socket \in {"open", "failed"}

(* While a lane runs its book never goes back to an earlier update, or to   *)
(* none.                                                                    *)
BookNeverGoesBack ==
    [][lane.state = "running" /\ lane'.state = "running"
          => book'.updateId >= book.updateId]_vars

(* A lane that is wanted synchronises, again and again as often as it has   *)
(* to; only the operator keeps it down.                                     *)
LaneRecovers == lane.desired ~> (lane.state = "running" \/ ~lane.desired)

=============================================================================
