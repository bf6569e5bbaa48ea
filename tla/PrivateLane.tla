------------------------------ MODULE PrivateLane ------------------------------
(***************************************************************************)
(* The user-data stream (private-stream-lane.ts) around the account state  *)
(* it keeps (private-state.ts) and the listen key it owns                  *)
(* (listen-key-client.ts).                                                 *)
(*                                                                         *)
(* Every connection has an epoch.  It is not a number here: a new epoch    *)
(* drops what the old one's callbacks would ignore, and renames to         *)
(* "stale" what they still act on.  Frames are text, which is decoded      *)
(* within the turn that delivers it.                                       *)
(*                                                                         *)
(* The account has two parts, balances with positions and open orders,     *)
(* each at some version; events carry a part's new version.  The venue     *)
(* is external.                                                            *)
(***************************************************************************)
EXTENDS Integers, Sequences, SequencesExt

CONSTANTS MaxBuffered,  \* maximumBufferedEvents
          MaxStarts,    \* bound: calls of start()
          MaxChanges,   \* bound: changes of the venue's account
          MaxFaults,    \* bound: connections lost, requests failed, bad or repeated events
          EXPIRED,      \* listenKeyExpired
          NONE, REFUSED \* a frame that does not decode, an event that apply() refuses

ASSUME LaneAssumption ==
    /\ MaxBuffered \in Nat \ {0} /\ MaxStarts \in 1 .. 2
    /\ MaxChanges \in Nat /\ MaxFaults \in Nat
    /\ REFUSED # NONE

VARIABLES
    lane,      \* fields of the lane, with the promises onOpen and keepAlive await
    creates,   \* connect() awaiting a listen key: "current", "stale"
    closing,   \* awaited DELETEs: of a "restart", a "staleRestart", a "stop" or a "stale" key
    buffer,
    view, seen,        \* account state: versions, events already applied
    socket, wire,
    truth,     \* venue: versions
    key,       \* venue: a listen key is valid, and the last socket's own; what timed-out
               \* requests may have left: a DELETE under way, a key nobody holds
    sent,      \* venue: events sent on this connection
    starts, faults

venue == <<truth, key, sent>>
bounds == <<starts, faults>>
account == <<view, seen>>
vars == <<lane, creates, closing, buffer, account, socket, wire, venue, bounds>>

Parts == 1 .. 2
Versions == 0 .. MaxChanges + 1
Events == [part : Parts, version : Versions]
Frames == Events \cup {EXPIRED, REFUSED, NONE}

TypeOK ==
    /\ lane \in [state : {"stopped", "connecting", "synchronizing", "running", "backoff"},
                 desired : BOOLEAN, restartPending : BOOLEAN, timer : BOOLEAN,
                 listenKey : BOOLEAN, keepalive : BOOLEAN, ping : BOOLEAN,
                 snapshot : {<<>>} \cup [1 .. 1 -> Versions] \cup [Parts -> Versions],
                 requested : BOOLEAN]
    /\ creates \subseteq {"current", "stale"}
    /\ closing \subseteq {"restart", "staleRestart", "stop", "stale"}
    /\ Len(buffer) <= MaxBuffered /\ \A i \in DOMAIN buffer : buffer[i] \in Frames \ {NONE}
    /\ view \in [Parts -> Versions] /\ seen \subseteq Events
    /\ socket \in {"none", "connecting", "open", "failed", "ended"}
    /\ \A i \in DOMAIN wire : wire[i] \in Frames
    /\ truth \in [Parts -> Versions \ {0}] /\ sent \subseteq Events
    /\ key \in [alive : BOOLEAN, attached : BOOLEAN, late : BOOLEAN, leaked : BOOLEAN]
    /\ starts \in 0 .. MaxStarts /\ faults \in 0 .. MaxFaults
    /\ lane.state = "running" => lane.listenKey /\ lane.keepalive

Init ==
    /\ lane = [state |-> "stopped", desired |-> FALSE, restartPending |-> FALSE,
               timer |-> FALSE, listenKey |-> FALSE, keepalive |-> FALSE, ping |-> FALSE,
               snapshot |-> <<>>, requested |-> FALSE]
    /\ creates = {} /\ closing = {} /\ buffer = <<>>
    /\ view = [p \in Parts |-> 0] /\ seen = {}
    /\ socket = "none" /\ wire = <<>>
    /\ truth = [p \in Parts |-> 1] /\ sent = {}
    /\ key = [alive |-> FALSE, attached |-> FALSE, late |-> FALSE, leaked |-> FALSE]
    /\ starts = 0 /\ faults = 0

Fault == faults < MaxFaults /\ faults' = faults + 1 /\ UNCHANGED starts

-----------------------------------------------------------------------------
(* Sessions. *)

(* What the callbacks of the epoch that ends do with their promises. *)
Outdated(creating) == IF creating = {} THEN {} ELSE {"stale"}
OutdatedClosing(c) == IF "restart" \in c THEN (c \ {"restart"}) \cup {"staleRestart"} ELSE c

(* connect(): until the listen key is awaited. *)
Connect(l) ==
    /\ lane' = [l EXCEPT !.state = "connecting", !.timer = FALSE,
                         !.snapshot = <<>>, !.requested = FALSE, !.ping = FALSE]
    /\ creates' = Outdated(creates) \cup {"current"}
    /\ closing' = OutdatedClosing(closing)
    /\ buffer' = <<>>
    /\ UNCHANGED <<account, socket, wire, venue>>

Start ==
    /\ ~lane.desired /\ starts < MaxStarts
    /\ Connect([lane EXCEPT !.desired = TRUE])
    /\ starts' = starts + 1 /\ UNCHANGED faults

(* Mutant: stop forgets the listen key without closing it. *)
ClosedByStopForgotten == {}

(* The DELETE that stop() makes. *)
ClosedByStop == IF lane.listenKey THEN {"stop"} ELSE {}

Stop ==
    /\ lane.desired
    /\ lane' = [lane EXCEPT !.desired = FALSE, !.state = "stopped", !.timer = FALSE,
                            !.keepalive = FALSE, !.listenKey = FALSE, !.ping = FALSE,
                            !.snapshot = <<>>, !.requested = FALSE]
    /\ creates' = Outdated(creates)
    /\ closing' = OutdatedClosing(closing) \cup ClosedByStop
    /\ buffer' = <<>> /\ socket' = "none" /\ wire' = <<>>
    /\ UNCHANGED <<account, venue, bounds>>

(* Mutant: the next session does not wait for the DELETE of the last one. *)
WaitsNever == TRUE

(* The timer is armed at once only if there is no listen key to close. *)
WaitsNot == ~lane.listenKey

(* scheduleRestart(); l, b, s and w are lane, buffer, socket and wire if the *)
(* lane does not restart.                                                   *)
ScheduleRestart(l, b, s, w) ==
    IF lane.desired /\ ~lane.restartPending
    THEN /\ lane' = [lane EXCEPT !.restartPending = TRUE, !.state = "backoff",
                                 !.keepalive = FALSE, !.listenKey = FALSE, !.ping = FALSE,
                                 !.snapshot = <<>>, !.requested = FALSE,
                                 !.timer = WaitsNot]
         /\ closing' = closing \cup (IF lane.listenKey THEN {"restart"} ELSE {})
         /\ buffer' = <<>> /\ socket' = "none" /\ wire' = <<>>
    ELSE lane' = l /\ buffer' = b /\ socket' = s /\ wire' = w /\ UNCHANGED closing

(* Mutant: the timer is armed even if the epoch is over. *)
AfterCleanupAlways(c) ==
    IF c \in {"restart", "staleRestart"} THEN [lane EXCEPT !.timer = TRUE] ELSE lane

(* Once the cleanup of a restart ended: the timer, unless the epoch is over. *)
AfterCleanup(c) ==
    CASE c = "restart" -> [lane EXCEPT !.timer = TRUE]
      [] c = "staleRestart" -> [lane EXCEPT !.restartPending = FALSE]
      [] OTHER -> lane

(* Mutant: the restart in progress is never marked as done. *)
RestartedPending(l) == l

Restarted(l) == [l EXCEPT !.restartPending = FALSE]

RestartTimer ==
    /\ lane.timer
    /\ Connect(Restarted(lane))
    /\ UNCHANGED bounds

-----------------------------------------------------------------------------
(* Listen keys. *)

NoKey == [key EXCEPT !.alive = FALSE, !.attached = FALSE, !.leaked = FALSE]

(* The POST is answered, with the valid key if there is one: the key is     *)
(* used, or closed if nobody waits for it.                                  *)
Created(c) ==
    /\ c \in creates
    /\ creates' = creates \ {c}
    /\ key' = [key EXCEPT !.alive = TRUE, !.attached = @ \/ c = "current"]
    /\ IF c = "current"
       THEN /\ lane' = [lane EXCEPT !.listenKey = TRUE]
            /\ socket' = "connecting"
            /\ sent' = {}
            /\ UNCHANGED closing
       ELSE closing' = closing \cup {"stale"} /\ UNCHANGED <<lane, socket, sent>>
    /\ UNCHANGED <<buffer, account, wire, truth, bounds>>

(* The POST fails or times out, executed or not. *)
CreateFails(c) ==
    /\ c \in creates /\ Fault
    /\ creates' = creates \ {c}
    /\ key' \in {key, [key EXCEPT !.alive = TRUE, !.leaked = TRUE]}
    /\ IF c = "current" THEN ScheduleRestart(lane, buffer, socket, wire)
       ELSE UNCHANGED <<lane, closing, buffer, socket, wire>>
    /\ UNCHANGED <<account, truth, sent>>

Closed(c) ==
    /\ c \in closing
    /\ closing' = closing \ {c}
    /\ lane' = AfterCleanup(c)
    /\ key' = NoKey
    /\ UNCHANGED <<creates, buffer, account, socket, wire, truth, sent, bounds>>

(* The DELETE fails or times out; in the second case it may execute later. *)
CloseFails(c) ==
    /\ c \in closing /\ Fault
    /\ closing' = closing \ {c}
    /\ lane' = AfterCleanup(c)
    /\ \E late \in {key.late, TRUE} : key' = [key EXCEPT !.late = late, !.leaked = key.alive]
    /\ UNCHANGED <<creates, buffer, account, socket, wire, truth, sent>>

(* The keepalive interval fires, and its PUT is answered. *)
KeepAliveFires ==
    /\ lane.keepalive /\ lane.state = "running" /\ ~lane.ping
    /\ lane' = [lane EXCEPT !.ping = TRUE]
    /\ UNCHANGED <<creates, closing, buffer, account, socket, wire, venue, bounds>>

(* Mutant: a PUT that fails is only recorded. *)
PingFailedRecorded ==
    lane' = [lane EXCEPT !.ping = FALSE] /\ UNCHANGED <<closing, buffer, socket, wire>>

PingFailed == ScheduleRestart([lane EXCEPT !.ping = FALSE], buffer, socket, wire)

PingAnswers ==
    /\ lane.ping
    /\ \/ /\ key.alive
          /\ lane' = [lane EXCEPT !.ping = FALSE]
          /\ UNCHANGED <<closing, buffer, socket, wire, bounds>>
       \/ /\ IF key.alive THEN Fault ELSE UNCHANGED bounds
          /\ PingFailed
    /\ UNCHANGED <<creates, account, venue>>

-----------------------------------------------------------------------------
(* Account state. *)

Holding(v, s) == [view |-> v, seen |-> s, refused |-> FALSE]

(* Mutant: a repeated event is applied again. *)
ApplyRepeatedly(a, e) ==
    IF a.refused \/ e = REFUSED THEN [a EXCEPT !.refused = TRUE]
    ELSE IF e = EXPIRED THEN a
    ELSE Holding([a.view EXCEPT ![e.part] = e.version], a.seen \cup {e})

(* apply(); refused: it threw, and what comes after is not applied. *)
Apply(a, e) ==
    IF a.refused \/ e = REFUSED THEN [a EXCEPT !.refused = TRUE]
    ELSE IF e = EXPIRED \/ e \in a.seen THEN a
    ELSE Holding([a.view EXCEPT ![e.part] = e.version], a.seen \cup {e})

(* Mutant: the snapshot replaces what arrived while it was read. *)
SynchronizedAfresh(snapshot) == Holding(snapshot, seen)

(* reconcile() installs the snapshot, then the buffered events are applied. *)
Synchronized(snapshot) == FoldLeft(Apply, Holding(snapshot, seen), buffer)

(* What apply() leaves: some of a refused event may be written before it    *)
(* throws, and is no version of the venue's.                                *)
Left(a) ==
    {a.view} \cup (IF a.refused THEN {[a.view EXCEPT ![p] = 0] : p \in Parts} ELSE {})

-----------------------------------------------------------------------------
(* onOpen and onMessage. *)

OnOpen ==
    /\ socket = "connecting"
    /\ socket' = "open"
    /\ lane' = [lane EXCEPT !.state = "synchronizing", !.requested = TRUE]
    /\ UNCHANGED <<creates, closing, buffer, account, wire, venue, bounds>>

(* accountSnapshot() reads the parts of the account one after the other. *)
SnapshotReads ==
    /\ lane.requested /\ Len(lane.snapshot) < 2
    /\ lane' = [lane EXCEPT !.snapshot = Append(@, truth[Len(@) + 1])]
    /\ UNCHANGED <<creates, closing, buffer, account, socket, wire, venue, bounds>>

SnapshotRead == [lane EXCEPT !.snapshot = <<>>, !.requested = FALSE]

SnapshotArrives ==
    /\ Len(lane.snapshot) = 2
    /\ LET a == Synchronized(lane.snapshot)
       IN  view' \in Left(a) /\ seen' = a.seen
    /\ IF {EXPIRED, REFUSED} \cap ToSet(buffer) # {}
       THEN ScheduleRestart(SnapshotRead, <<>>, socket, wire)
       ELSE /\ lane' = [SnapshotRead EXCEPT !.state = "running", !.keepalive = TRUE]
            /\ buffer' = <<>>
            /\ UNCHANGED <<closing, socket, wire>>
    /\ UNCHANGED <<creates, venue, bounds>>

(* reconcile() refuses one of the parts that were read. *)
SnapshotRefused ==
    /\ Len(lane.snapshot) = 2 /\ Fault
    /\ view' \in {[view EXCEPT ![1] = 0], [lane.snapshot EXCEPT ![2] = 0]} /\ UNCHANGED seen
    /\ ScheduleRestart(SnapshotRead, buffer, socket, wire)
    /\ UNCHANGED <<creates, venue>>

SnapshotFails ==
    /\ lane.requested /\ Fault
    /\ ScheduleRestart(SnapshotRead, buffer, socket, wire)
    /\ UNCHANGED <<creates, account, venue>>

Overflows(b) == Len(b) > MaxBuffered

OnMessage ==
    /\ socket \in {"open", "failed"} /\ wire # <<>>
    /\ LET e == Head(wire)
           buffers == e # NONE /\ lane.state # "running"
           b == IF buffers THEN Append(buffer, e) ELSE buffer
       IN  /\ IF e # NONE /\ lane.state = "running"
              THEN LET a == Apply(Holding(view, seen), e)
                   IN  view' \in Left(a) /\ seen' = a.seen
              ELSE UNCHANGED account
           /\ IF \/ e = NONE
                 \/ buffers /\ Overflows(b)
                 \/ ~buffers /\ e \in {EXPIRED, REFUSED}
              THEN ScheduleRestart(lane, b, socket, Tail(wire))
              ELSE /\ buffer' = b /\ wire' = Tail(wire)
                   /\ UNCHANGED <<lane, closing, socket>>
    /\ UNCHANGED <<creates, venue, bounds>>

SocketEnds ==
    /\ socket = "failed"
    /\ ScheduleRestart(lane, buffer, "ended", wire)
    /\ UNCHANGED <<creates, account, venue, bounds>>

-----------------------------------------------------------------------------
(* The venue. *)

Unmoved == UNCHANGED <<lane, creates, closing, buffer, account>>

(* A part of the account changes; the event may not be one the lane takes. *)
Changes(p) ==
    /\ truth[1] + truth[2] < MaxChanges + 2
    /\ truth' = [truth EXCEPT ![p] = @ + 1]
    /\ LET e == [part |-> p, version |-> truth[p] + 1]
       IN  IF socket = "open" /\ key.attached
           THEN /\ sent' = sent \cup {e}
                /\ \/ wire' = Append(wire, e) /\ UNCHANGED bounds
                   \/ wire' \in {Append(wire, NONE), Append(wire, REFUSED)} /\ Fault
           ELSE UNCHANGED <<wire, sent, bounds>>
    /\ Unmoved /\ UNCHANGED <<socket, key>>

(* An event is sent twice. *)
Repeats(e) ==
    /\ e \in sent /\ socket = "open" /\ key.attached /\ Fault
    /\ wire' = Append(wire, e)
    /\ Unmoved /\ UNCHANGED <<socket, venue>>

(* The listen key expires; the notice may be lost. *)
KeyExpires ==
    /\ key.alive /\ Fault
    /\ key' = NoKey
    /\ wire' \in {wire} \cup
                 (IF socket = "open" /\ key.attached THEN {Append(wire, EXPIRED)} ELSE {})
    /\ Unmoved /\ UNCHANGED <<socket, truth, sent>>

DeleteArrivesLate ==
    /\ key.late
    /\ key' = [NoKey EXCEPT !.late = FALSE]
    /\ Unmoved /\ UNCHANGED <<socket, wire, truth, sent, bounds>>

SocketLost ==
    /\ socket \in {"connecting", "open"} /\ Fault
    /\ socket' = "failed"
    /\ Unmoved /\ UNCHANGED <<wire, venue>>

Next ==
    \/ Start \/ Stop \/ RestartTimer
    \/ \E c \in creates : Created(c) \/ CreateFails(c)
    \/ \E c \in closing : Closed(c) \/ CloseFails(c)
    \/ KeepAliveFires \/ PingAnswers
    \/ OnOpen \/ SnapshotReads \/ SnapshotArrives \/ SnapshotRefused \/ SnapshotFails
    \/ OnMessage \/ SocketEnds
    \/ \E p \in Parts : Changes(p)
    \/ \E e \in sent : Repeats(e)
    \/ KeyExpires \/ DeleteArrivesLate \/ SocketLost

Spec == Init /\ [][Next]_vars

(* Timers and intervals fire, events are dispatched, awaited promises       *)
(* settle (both REST clients abort after a timeout), sockets open or fail.  *)
Fairness ==
    /\ WF_vars(RestartTimer) /\ WF_vars(KeepAliveFires) /\ WF_vars(PingAnswers)
    /\ \A c \in {"current", "stale"} : WF_vars(Created(c))
    /\ \A c \in {"restart", "staleRestart", "stop", "stale"} : WF_vars(Closed(c))
    /\ WF_vars(OnOpen) /\ WF_vars(SnapshotReads) /\ WF_vars(SnapshotArrives)
    /\ WF_vars(OnMessage) /\ WF_vars(SocketEnds)

FairSpec == Spec /\ Fairness

-----------------------------------------------------------------------------
(* Properties. *)

(* "No [...] unreconciled private state is reported as running"             *)
(* (docs/BINANCE_STREAMS.md): once a running lane has read what is in       *)
(* flight on a live stream, it holds the venue's account, although the      *)
(* snapshot was read piece by piece while events came in.                   *)
RunningIsReconciled ==
    lane.state = "running" /\ socket = "open" /\ key.attached /\ wire = <<>> => view = truth

(* A listen key that is valid at the venue is held by the lane or about to  *)
(* be closed, unless the answer to a request about it was lost: no order of *)
(* stop, restart and awaited creation forgets it (stream-spec.md, FR-B011). *)
KeyIsAccounted ==
    key.alive => lane.listenKey \/ closing # {} \/ key.leaked

(* The venue's DELETE names no key, so a session is never created or used   *)
(* while that of the session before it is awaited.                          *)
SessionKeepsKey == lane.listenKey \/ "current" \in creates => closing = {}

(* A stopped lane has no timer, no interval, no socket and nothing          *)
(* buffered, whatever was awaited when stop() was called, and creates no    *)
(* restart (stream-spec.md, FR-B011).                                       *)
StopLeavesNothing ==
    ~lane.desired => /\ lane.state = "stopped" /\ ~lane.timer /\ ~lane.keepalive
                     /\ ~lane.listenKey /\ socket = "none" /\ buffer = <<>>

(* A lane that is wanted gets to run, again and again as often as it has    *)
(* to; only the operator keeps it down (FR-B006).                           *)
LaneRecovers == lane.desired ~> (lane.state = "running" \/ ~lane.desired)

(* A listen key that was lost without notice does not leave the lane        *)
(* running on a stream that says nothing (FR-B007).                         *)
StreamLossIsNoticed == lane.state = "running" /\ ~key.alive ~> lane.state # "running"

=============================================================================
