-------------------------- MODULE PrivateLaneProofs --------------------------
(***************************************************************************)
(* What stop, restart and awaited requests leave behind, that replay       *)
(* reproduces the account, and that the account of a running lane is the   *)
(* venue's, for every bound of PrivateLane.                                *)
(***************************************************************************)
EXTENDS PrivateReplay, SequenceTheorems, WellFoundedInduction, TLAPS

Snapshots == Seq(Int)

LaneFields ==
    [state : {"stopped", "connecting", "synchronizing", "running", "backoff"},
     desired : BOOLEAN, restartPending : BOOLEAN, timer : BOOLEAN,
     listenKey : BOOLEAN, keepalive : BOOLEAN, ping : BOOLEAN,
     snapshot : Snapshots, requested : BOOLEAN]

Typed ==
    /\ lane \in LaneFields
    /\ creates \subseteq {"current", "stale"}
    /\ closing \subseteq {"restart", "staleRestart", "stop", "stale"}
    /\ key \in [alive : BOOLEAN, attached : BOOLEAN, late : BOOLEAN, leaked : BOOLEAN]
    /\ truth \in [Parts -> Int]

(* Whatever acts on the lane when its promise settles belongs to a wanted   *)
(* lane; stop() has disarmed the rest.                                      *)
AwaitedIsWanted ==
    /\ "current" \in creates => lane.desired
    /\ "restart" \in closing => lane.desired
    /\ lane.requested => lane.desired
    /\ lane.snapshot # <<>> => lane.desired
    /\ lane.ping => lane.desired

SessionInv == Typed /\ AwaitedIsWanted /\ StopLeavesNothing /\ KeyIsAccounted

-----------------------------------------------------------------------------
(* A snapshot is empty, or read part by part. *)
LEMMA SnapshotGrows ==
    /\ <<>> \in Snapshots
    /\ \A s \in Snapshots : Len(s) \in Nat
    /\ \A s \in Snapshots, v \in Int : Append(s, v) \in Snapshots
  BY DEF Snapshots

(* A restart keeps the invariant of a lane that was wanted. *)
LEMMA RestartKeepsSession ==
    ASSUME NEW l \in LaneFields, NEW b, NEW s, NEW w,
           SessionInv, lane.desired, l.desired, l.listenKey = lane.listenKey,
           ScheduleRestart(l, b, s, w),
           creates' \subseteq creates, truth' = truth,
           key' \in [alive : BOOLEAN, attached : BOOLEAN, late : BOOLEAN, leaked : BOOLEAN],
           key'.alive => (key.alive /\ key'.leaked = key.leaked) \/ key'.leaked
    PROVE  SessionInv'
<1> USE DEF SessionInv
<1>1. CASE ~lane.restartPending
  <2>1. /\ lane' = [lane EXCEPT !.restartPending = TRUE, !.state = "backoff",
                                 !.keepalive = FALSE, !.listenKey = FALSE, !.ping = FALSE,
                                 !.snapshot = <<>>, !.requested = FALSE,
                                 !.timer = WaitsNot]
        /\ closing' = closing \cup (IF lane.listenKey THEN {"restart"} ELSE {})
    BY <1>1 DEF ScheduleRestart
  <2>2. WaitsNot \in BOOLEAN
    BY DEF WaitsNot, Typed, LaneFields
  <2>3. lane' \in LaneFields /\ lane'.desired /\ ~lane'.listenKey
    BY <2>1, <2>2, SnapshotGrows DEF Typed, LaneFields
  <2>4. Typed'
    BY <2>1, <2>3 DEF Typed
  <2>5. KeyIsAccounted'
    BY <2>1, <2>3 DEF KeyIsAccounted, Typed
  <2>6. QED
    BY <2>3, <2>4, <2>5 DEF AwaitedIsWanted, StopLeavesNothing
<1>2. CASE lane.restartPending
  <2>1. lane' = l /\ closing' = closing
    BY <1>2 DEF ScheduleRestart
  <2>2. Typed' /\ KeyIsAccounted'
    BY <2>1 DEF Typed, KeyIsAccounted
  <2>3. QED
    BY <2>1, <2>2 DEF AwaitedIsWanted, StopLeavesNothing
<1>3. QED
  BY <1>1, <1>2 DEF Typed, LaneFields

(* A fresh lane has no session to account for.                              *)
LEMMA InitSession == Init => SessionInv
  BY SnapshotGrows DEF Init, SessionInv, Typed, LaneFields, AwaitedIsWanted, StopLeavesNothing,
         KeyIsAccounted, Parts

(* Asking for a listen key, from a start or a restart, keeps the invariant. *)
LEMMA ConnectSession ==
    ASSUME NEW l \in LaneFields, SessionInv, Connect(l), l.desired,
           l.listenKey = lane.listenKey
    PROVE  SessionInv'
<1> USE DEF SessionInv
<1>1. lane' = [l EXCEPT !.state = "connecting", !.timer = FALSE,
                        !.snapshot = <<>>, !.requested = FALSE, !.ping = FALSE]
  BY DEF Connect
<1>2. lane' \in LaneFields /\ lane'.desired /\ lane'.listenKey = lane.listenKey
  BY <1>1, SnapshotGrows DEF LaneFields
<1>3. Typed'
  BY <1>2 DEF Connect, Typed, Outdated, OutdatedClosing, venue
<1>4. KeyIsAccounted'
  <2>1. closing # {} => closing' # {}
    BY DEF Connect, OutdatedClosing
  <2>2. QED
    BY <1>2, <2>1 DEF KeyIsAccounted, Connect, venue
<1>5. QED
  BY <1>2, <1>3, <1>4 DEF AwaitedIsWanted, StopLeavesNothing

(* stop(), whatever is being awaited, keeps the invariant.                  *)
LEMMA StopSession == SessionInv /\ Stop => SessionInv'
<1> SUFFICES ASSUME SessionInv, Stop PROVE SessionInv'
  OBVIOUS
<1> USE DEF SessionInv
<1>1. lane' \in LaneFields /\ ~lane'.desired /\ lane'.state = "stopped" /\ ~lane'.timer
        /\ ~lane'.keepalive /\ ~lane'.listenKey /\ ~lane'.ping
        /\ lane'.snapshot = <<>> /\ ~lane'.requested
  BY SnapshotGrows DEF Stop, Typed, LaneFields
<1>2. "current" \notin creates' /\ creates' \subseteq {"current", "stale"}
  BY DEF Stop, Outdated, Typed
<1>3. "restart" \notin closing'
        /\ closing' \subseteq {"restart", "staleRestart", "stop", "stale"}
  BY DEF Stop, OutdatedClosing, ClosedByStop, Typed
<1>4. Typed'
  BY <1>1, <1>2, <1>3 DEF Typed, Stop, venue
<1>5. KeyIsAccounted'
  <2>1. closing # {} \/ lane.listenKey => closing' # {}
    BY DEF Stop, OutdatedClosing, ClosedByStop
  <2>2. QED
    BY <2>1 DEF KeyIsAccounted, Stop, venue
<1>6. QED
  BY <1>1, <1>2, <1>3, <1>4, <1>5 DEF AwaitedIsWanted, StopLeavesNothing, Stop

(* start() keeps the invariant.                                             *)
LEMMA StartSession == SessionInv /\ Start => SessionInv'
<1> SUFFICES ASSUME SessionInv, Start PROVE SessionInv'
  OBVIOUS
<1> DEFINE l == [lane EXCEPT !.desired = TRUE]
<1>1. l \in LaneFields /\ l.desired /\ l.listenKey = lane.listenKey
  BY DEF SessionInv, Typed, LaneFields
<1>2. Connect(l)
  BY DEF Start
<1> HIDE DEF l
<1>3. QED
  BY <1>1, <1>2, ConnectSession

(* The restart timer keeps the invariant.                                   *)
LEMMA RestartTimerSession == SessionInv /\ RestartTimer => SessionInv'
<1> SUFFICES ASSUME SessionInv, RestartTimer PROVE SessionInv'
  OBVIOUS
<1> DEFINE l == Restarted(lane)
<1>1. l \in LaneFields /\ l.desired /\ l.listenKey = lane.listenKey
  BY DEF SessionInv, Typed, LaneFields, StopLeavesNothing, RestartTimer, Restarted
<1>2. Connect(l)
  BY DEF RestartTimer
<1> HIDE DEF l
<1>3. QED
  BY <1>1, <1>2, ConnectSession

-----------------------------------------------------------------------------
(* Listen keys. *)
LEMMA CreatedSession ==
    ASSUME NEW c \in creates, SessionInv, Created(c) PROVE SessionInv'
<1> USE DEF SessionInv
<1>1. key' \in [alive : BOOLEAN, attached : BOOLEAN, late : BOOLEAN, leaked : BOOLEAN]
  BY DEF Created, Typed
<1>2. CASE c = "current"
  <2>1. lane.desired
    BY <1>2 DEF AwaitedIsWanted
  <2>2. lane' = [lane EXCEPT !.listenKey = TRUE] /\ closing' = closing
          /\ creates' \subseteq creates
    BY <1>2 DEF Created
  <2>3. lane' \in LaneFields /\ lane'.desired /\ lane'.listenKey
    BY <2>1, <2>2 DEF Typed, LaneFields
  <2>4. QED
    BY <1>1, <2>2, <2>3
       DEF Typed, Created, AwaitedIsWanted, StopLeavesNothing, KeyIsAccounted
<1>3. CASE c # "current"
  <2>1. lane' = lane /\ socket' = socket /\ buffer' = buffer
          /\ closing' = closing \cup {"stale"} /\ creates' \subseteq creates
    BY <1>3 DEF Created
  <2>2. Typed'
    BY <1>1, <2>1 DEF Typed, Created
  <2>3. QED
    BY <2>1, <2>2 DEF AwaitedIsWanted, StopLeavesNothing, KeyIsAccounted
<1>4. QED
  BY <1>2, <1>3

(* A failed creation, current or outdated, keeps the invariant.             *)
LEMMA CreateFailsSession ==
    ASSUME NEW c \in creates, SessionInv, CreateFails(c) PROVE SessionInv'
<1> USE DEF SessionInv
<1>1. /\ key' \in [alive : BOOLEAN, attached : BOOLEAN, late : BOOLEAN, leaked : BOOLEAN]
      /\ key' = key \/ key'.leaked
      /\ creates' \subseteq creates /\ truth' = truth
  BY DEF CreateFails, Typed
<1>2. CASE c = "current"
  <2>1. lane \in LaneFields /\ lane.desired
    BY <1>2 DEF Typed, AwaitedIsWanted
  <2>2. ScheduleRestart(lane, buffer, socket, wire)
    BY <1>2 DEF CreateFails
  <2>3. QED
    BY <1>1, <2>1, <2>2, RestartKeepsSession
<1>3. CASE c # "current"
  <2>1. lane' = lane /\ closing' = closing /\ socket' = socket /\ buffer' = buffer
    BY <1>3 DEF CreateFails
  <2>2. QED
    BY <1>1, <2>1 DEF Typed, AwaitedIsWanted, StopLeavesNothing, KeyIsAccounted
<1>4. QED
  BY <1>2, <1>3

(* What the end of a DELETE does to the lane, answered or not. *)
LEMMA CleanupSession ==
    ASSUME NEW c \in closing, SessionInv,
           lane' = AfterCleanup(c), closing' = closing \ {c},
           key' \in [alive : BOOLEAN, attached : BOOLEAN, late : BOOLEAN, leaked : BOOLEAN],
           key'.alive => key'.leaked,
           UNCHANGED <<creates, buffer, socket, truth>>
    PROVE  SessionInv'
<1> USE DEF SessionInv
<1>1. /\ lane' \in LaneFields
      /\ lane'.desired = lane.desired /\ lane'.state = lane.state
      /\ lane'.keepalive = lane.keepalive /\ lane'.listenKey = lane.listenKey
      /\ lane'.ping = lane.ping /\ lane'.requested = lane.requested
      /\ lane'.snapshot = lane.snapshot
      /\ lane'.timer = lane.timer \/ lane.desired
  BY DEF AfterCleanup, Typed, LaneFields, AwaitedIsWanted
<1>2. Typed'
  BY <1>1 DEF Typed
<1>3. QED
  BY <1>1, <1>2 DEF AwaitedIsWanted, StopLeavesNothing, KeyIsAccounted

(* An answered DELETE keeps the invariant.                                  *)
LEMMA ClosedSession ==
    ASSUME NEW c \in closing, SessionInv, Closed(c) PROVE SessionInv'
<1>1. /\ key' \in [alive : BOOLEAN, attached : BOOLEAN, late : BOOLEAN, leaked : BOOLEAN]
      /\ ~key'.alive
  BY DEF Closed, NoKey, SessionInv, Typed
<1>2. QED
  BY <1>1, CleanupSession DEF Closed

(* A failed DELETE keeps the invariant.                                     *)
LEMMA CloseFailsSession ==
    ASSUME NEW c \in closing, SessionInv, CloseFails(c) PROVE SessionInv'
<1>1. /\ key' \in [alive : BOOLEAN, attached : BOOLEAN, late : BOOLEAN, leaked : BOOLEAN]
      /\ key'.leaked = key'.alive
  BY DEF CloseFails, SessionInv, Typed
<1>2. QED
  BY <1>1, CleanupSession DEF CloseFails

(* The keepalive timer keeps the invariant.                                 *)
LEMMA KeepAliveSession == SessionInv /\ KeepAliveFires => SessionInv'
<1> SUFFICES ASSUME SessionInv, KeepAliveFires PROVE SessionInv'
  OBVIOUS
<1> USE DEF SessionInv
<1>1. lane.desired
  BY DEF KeepAliveFires, StopLeavesNothing
<1>2. lane' \in LaneFields /\ lane'.desired /\ lane'.listenKey = lane.listenKey
  BY <1>1 DEF KeepAliveFires, Typed, LaneFields
<1>3. QED
  BY <1>2 DEF KeepAliveFires, Typed, AwaitedIsWanted, StopLeavesNothing, KeyIsAccounted,
              venue

(* An answered or failed keepalive keeps the invariant.                     *)
LEMMA PingSession == SessionInv /\ PingAnswers => SessionInv'
<1> SUFFICES ASSUME SessionInv, PingAnswers PROVE SessionInv'
  OBVIOUS
<1> USE DEF SessionInv
<1> DEFINE l == [lane EXCEPT !.ping = FALSE]
<1>1. l \in LaneFields /\ l.desired /\ lane.desired /\ l.listenKey = lane.listenKey
  BY DEF PingAnswers, AwaitedIsWanted, Typed, LaneFields
<1>2. creates' = creates /\ truth' = truth /\ key' = key
  BY DEF PingAnswers, venue
<1>3. CASE lane' = l /\ closing' = closing
  BY <1>1, <1>2, <1>3 DEF Typed, AwaitedIsWanted, StopLeavesNothing, KeyIsAccounted
<1>4. CASE ScheduleRestart(l, buffer, socket, wire)
  <2> HIDE DEF l
  <2>1. key' \in [alive : BOOLEAN, attached : BOOLEAN, late : BOOLEAN, leaked : BOOLEAN]
    BY <1>2 DEF Typed
  <2>2. QED
    BY <1>1, <1>2, <1>4, <2>1, RestartKeepsSession
<1>5. QED
  BY <1>3, <1>4 DEF PingAnswers, PingFailed

-----------------------------------------------------------------------------
(* Snapshot, messages and the socket. *)
LEMMA OnOpenSession == SessionInv /\ OnOpen => SessionInv'
<1> SUFFICES ASSUME SessionInv, OnOpen PROVE SessionInv'
  OBVIOUS
<1> USE DEF SessionInv
<1>1. lane.desired
  BY DEF OnOpen, StopLeavesNothing
<1>2. lane' \in LaneFields /\ lane'.desired /\ lane'.listenKey = lane.listenKey
  BY <1>1 DEF OnOpen, Typed, LaneFields
<1>3. QED
  BY <1>2 DEF OnOpen, Typed, AwaitedIsWanted, StopLeavesNothing, KeyIsAccounted, venue

(* A part of the account being read keeps the invariant.                    *)
LEMMA SnapshotReadsSession == SessionInv /\ SnapshotReads => SessionInv'
<1> SUFFICES ASSUME SessionInv, SnapshotReads PROVE SessionInv'
  OBVIOUS
<1> USE DEF SessionInv
<1>1. lane.desired /\ lane.snapshot \in Snapshots
  BY DEF SnapshotReads, AwaitedIsWanted, Typed, LaneFields
<1>2. truth[Len(lane.snapshot) + 1] \in Int
  <2>1. \A n \in Nat : n < 2 => n + 1 \in Parts
    BY DEF Parts
  <2>2. Len(lane.snapshot) \in Nat /\ Len(lane.snapshot) < 2
    BY <1>1, SnapshotGrows DEF SnapshotReads
  <2>3. QED
    BY <2>1, <2>2 DEF Typed
<1>3. Append(lane.snapshot, truth[Len(lane.snapshot) + 1]) \in Snapshots
  BY <1>1, <1>2, SnapshotGrows
<1>4. lane' = [lane EXCEPT !.snapshot =
                   Append(lane.snapshot, truth[Len(lane.snapshot) + 1])]
  BY DEF SnapshotReads, Typed, LaneFields
<1>5. lane' \in LaneFields /\ lane'.desired /\ lane'.listenKey = lane.listenKey
  BY <1>1, <1>3, <1>4 DEF Typed, LaneFields
<1>6. QED
  BY <1>5 DEF SnapshotReads, Typed, AwaitedIsWanted, StopLeavesNothing, KeyIsAccounted,
              venue

(* A reconciled account, current or outdated, keeps the invariant.          *)
LEMMA SnapshotArrivesSession == SessionInv /\ SnapshotArrives => SessionInv'
<1> SUFFICES ASSUME SessionInv, SnapshotArrives PROVE SessionInv'
  OBVIOUS
<1> USE DEF SessionInv
<1>1. lane.desired
  BY DEF SnapshotArrives, AwaitedIsWanted
<1>2. /\ SnapshotRead \in LaneFields /\ SnapshotRead.desired
      /\ SnapshotRead.listenKey = lane.listenKey
  BY <1>1, SnapshotGrows DEF SnapshotRead, Typed, LaneFields
<1>3. creates' = creates /\ truth' = truth /\ key' = key
  BY DEF SnapshotArrives, venue
<1>4. CASE {EXPIRED, REFUSED} \cap ToSet(buffer) # {}
  <2>1. key' \in [alive : BOOLEAN, attached : BOOLEAN, late : BOOLEAN, leaked : BOOLEAN]
    BY <1>3 DEF Typed
  <2>2. ScheduleRestart(SnapshotRead, <<>>, socket, wire)
    BY <1>4 DEF SnapshotArrives
  <2>3. QED
    BY <1>1, <1>2, <1>3, <2>1, <2>2, RestartKeepsSession
<1>5. CASE {EXPIRED, REFUSED} \cap ToSet(buffer) = {}
  <2>1. lane' = [SnapshotRead EXCEPT !.state = "running", !.keepalive = TRUE]
          /\ closing' = closing
    BY <1>5 DEF SnapshotArrives
  <2>2. lane' \in LaneFields /\ lane'.desired /\ lane'.listenKey = lane.listenKey
    BY <1>2, <2>1 DEF LaneFields
  <2>3. QED
    BY <1>3, <2>1, <2>2 DEF Typed, AwaitedIsWanted, StopLeavesNothing, KeyIsAccounted
<1>6. QED
  BY <1>4, <1>5

(* A failed or refused reconciliation keeps the invariant.                  *)
LEMMA SnapshotFailsSession ==
    SessionInv /\ (SnapshotFails \/ SnapshotRefused) => SessionInv'
<1> SUFFICES ASSUME SessionInv, SnapshotFails \/ SnapshotRefused PROVE SessionInv'
  OBVIOUS
<1>0. Len(lane.snapshot) = 2 => lane.snapshot # <<>>
  OBVIOUS
<1>1. lane.desired /\ lane \in LaneFields
  BY <1>0 DEF SessionInv, SnapshotFails, SnapshotRefused, AwaitedIsWanted, Typed
<1>2. /\ SnapshotRead \in LaneFields /\ SnapshotRead.desired
      /\ SnapshotRead.listenKey = lane.listenKey
  BY <1>1, SnapshotGrows DEF SnapshotRead, LaneFields
<1>3. creates' = creates /\ truth' = truth /\ key' = key
        /\ key' \in [alive : BOOLEAN, attached : BOOLEAN, late : BOOLEAN, leaked : BOOLEAN]
  BY DEF SnapshotFails, SnapshotRefused, venue, SessionInv, Typed
<1>4. ScheduleRestart(SnapshotRead, buffer, socket, wire)
  BY DEF SnapshotFails, SnapshotRefused
<1>5. QED
  BY <1>1, <1>2, <1>3, <1>4, RestartKeepsSession

(* A frame of the stream keeps the invariant.                               *)
LEMMA OnMessageSession == SessionInv /\ OnMessage => SessionInv'
<1> SUFFICES ASSUME SessionInv, OnMessage PROVE SessionInv'
  OBVIOUS
<1>1. lane.desired /\ lane \in LaneFields
  BY DEF SessionInv, OnMessage, StopLeavesNothing, Typed
<1>2. creates' = creates /\ truth' = truth /\ key' = key
        /\ key' \in [alive : BOOLEAN, attached : BOOLEAN, late : BOOLEAN, leaked : BOOLEAN]
  BY DEF OnMessage, venue, SessionInv, Typed
<1>3. PICK b : \/ ScheduleRestart(lane, b, socket, Tail(wire))
               \/ lane' = lane /\ closing' = closing
  BY DEF OnMessage
<1>4. CASE ScheduleRestart(lane, b, socket, Tail(wire))
  BY <1>1, <1>2, <1>4, RestartKeepsSession
<1>5. CASE lane' = lane /\ closing' = closing
  BY <1>1, <1>2, <1>5
     DEF SessionInv, Typed, AwaitedIsWanted, StopLeavesNothing, KeyIsAccounted
<1>6. QED
  BY <1>3, <1>4, <1>5

(* The socket's error or close event keeps the invariant.                   *)
LEMMA SocketEndsSession == SessionInv /\ SocketEnds => SessionInv'
<1> SUFFICES ASSUME SessionInv, SocketEnds PROVE SessionInv'
  OBVIOUS
<1>1. lane.desired /\ lane \in LaneFields
  BY DEF SessionInv, SocketEnds, StopLeavesNothing, Typed
<1>2. creates' = creates /\ truth' = truth /\ key' = key
        /\ key' \in [alive : BOOLEAN, attached : BOOLEAN, late : BOOLEAN, leaked : BOOLEAN]
  BY DEF SocketEnds, venue, SessionInv, Typed
<1>3. ScheduleRestart(lane, buffer, "ended", wire)
  BY DEF SocketEnds
<1>4. QED
  BY <1>1, <1>2, <1>3, RestartKeepsSession

-----------------------------------------------------------------------------
(* The venue ends keys and connections, and never makes a key valid. *)
LEMMA VenueSession ==
    ASSUME SessionInv, UNCHANGED <<lane, creates, closing, buffer>>,
           truth' \in [Parts -> Int],
           key' \in [alive : BOOLEAN, attached : BOOLEAN, late : BOOLEAN, leaked : BOOLEAN],
           key'.alive => key' = key,
           socket = "none" => socket' = "none"
    PROVE  SessionInv'
  BY DEF SessionInv, Typed, AwaitedIsWanted, StopLeavesNothing, KeyIsAccounted

(* What the venue does by itself keeps the invariant.                       *)
LEMMA VenueStepsSession ==
    ASSUME SessionInv,
           \/ \E p \in Parts : Changes(p)
           \/ \E e \in sent : Repeats(e)
           \/ KeyExpires \/ DeleteArrivesLate \/ SocketLost
    PROVE  SessionInv'
<1>1. UNCHANGED <<lane, creates, closing, buffer>>
  BY DEF Changes, Repeats, KeyExpires, DeleteArrivesLate, SocketLost, Unmoved
<1>2. truth' \in [Parts -> Int]
  <2>1. CASE \E p \in Parts : Changes(p)
    <3>1. PICK p \in Parts : truth' = [truth EXCEPT ![p] = truth[p] + 1]
      BY <2>1 DEF Changes, SessionInv, Typed
    <3>2. truth \in [Parts -> Int] /\ truth[p] + 1 \in Int
      BY DEF SessionInv, Typed
    <3>3. QED
      BY <3>1, <3>2
  <2>2. CASE ~ \E p \in Parts : Changes(p)
    BY <2>2 DEF SessionInv, Typed, Repeats, KeyExpires, DeleteArrivesLate, SocketLost, venue
  <2>3. QED
    BY <2>1, <2>2
<1>3. /\ key' \in [alive : BOOLEAN, attached : BOOLEAN, late : BOOLEAN, leaked : BOOLEAN]
      /\ key'.alive => key' = key
  BY DEF SessionInv, Typed, Changes, Repeats, KeyExpires, DeleteArrivesLate, SocketLost,
         venue, NoKey
<1>4. socket = "none" => socket' = "none"
  BY DEF Changes, Repeats, KeyExpires, DeleteArrivesLate, SocketLost
<1>5. QED
  BY <1>1, <1>2, <1>3, <1>4, VenueSession

(* Every step of the lane keeps the invariant.                              *)
LEMMA StepSession == SessionInv /\ [Next]_vars => SessionInv'
<1> SUFFICES ASSUME SessionInv, [Next]_vars PROVE SessionInv'
  OBVIOUS
<1>1. CASE Start \/ Stop \/ RestartTimer
  BY <1>1, StartSession, StopSession, RestartTimerSession
<1>2. ASSUME NEW c \in creates, Created(c) \/ CreateFails(c) PROVE SessionInv'
  BY <1>2, CreatedSession, CreateFailsSession
<1>3. ASSUME NEW c \in closing, Closed(c) \/ CloseFails(c) PROVE SessionInv'
  BY <1>3, ClosedSession, CloseFailsSession
<1>4. CASE KeepAliveFires \/ PingAnswers
  BY <1>4, KeepAliveSession, PingSession
<1>5. CASE OnOpen \/ SnapshotReads \/ SnapshotArrives \/ SnapshotRefused \/ SnapshotFails
  BY <1>5, OnOpenSession, SnapshotReadsSession, SnapshotArrivesSession,
     SnapshotFailsSession
<1>6. CASE OnMessage \/ SocketEnds
  BY <1>6, OnMessageSession, SocketEndsSession
<1>7. CASE \/ \E p \in Parts : Changes(p)
           \/ \E e \in sent : Repeats(e)
           \/ KeyExpires \/ DeleteArrivesLate \/ SocketLost
  BY <1>7, VenueStepsSession
<1>8. CASE UNCHANGED vars
  BY <1>8 DEF vars, venue, SessionInv, Typed, AwaitedIsWanted, StopLeavesNothing,
              KeyIsAccounted
<1>9. QED
  BY <1>1, <1>2, <1>3, <1>4, <1>5, <1>6, <1>7, <1>8 DEF Next

(* Whatever was awaited when stop() was called, a stopped lane has no       *)
(* timer, interval, socket or buffered event, and none comes back.          *)
THEOREM StoppedLaneIsQuiet == Spec => []StopLeavesNothing
<1>1. SessionInv => StopLeavesNothing
  BY DEF SessionInv
<1>2. QED
  BY InitSession, StepSession, <1>1, PTL DEF Spec

(* No order of stop, restart, failed and late requests forgets a listen key *)
(* whose creation was answered.                                             *)
THEOREM ListenKeyIsAccounted == Spec => []KeyIsAccounted
<1>1. SessionInv => KeyIsAccounted
  BY DEF SessionInv
<1>2. QED
  BY InitSession, StepSession, <1>1, PTL DEF Spec

-----------------------------------------------------------------------------
(* Where a connection is in its life: what the lane's state says of its     *)
(* socket, its promises, its timer and its buffer.                          *)
Live == {"synchronizing", "running"}

ConnectionInv ==
    /\ lane.state \in {"stopped", "backoff"} => socket = "none"
    /\ "current" \in creates => lane.state = "connecting" /\ socket = "none"
    /\ socket = "connecting" => lane.state = "connecting"
    /\ socket = "open" \/ wire # <<>> \/ buffer # <<>> => lane.state \in Live
    /\ lane.requested \/ lane.snapshot # <<>> => lane.state = "synchronizing"
    /\ lane.timer \/ "restart" \in closing => lane.state = "backoff"
    /\ lane.ping => lane.state = "running"

(* Connecting keeps it: no socket, promise or timer of before is left.      *)
LEMMA ConnectConnection ==
    ASSUME NEW l \in LaneFields, SessionInv, ConnectionInv, Connect(l),
           socket = "none", wire = <<>>
    PROVE  ConnectionInv'
<1>1. lane' = [l EXCEPT !.state = "connecting", !.timer = FALSE,
                        !.snapshot = <<>>, !.requested = FALSE, !.ping = FALSE]
  BY DEF Connect
<1>2. /\ lane'.state = "connecting" /\ ~lane'.timer /\ lane'.snapshot = <<>>
      /\ ~lane'.requested /\ ~lane'.ping
  BY <1>1 DEF LaneFields
<1>3. buffer' = <<>> /\ socket' = "none" /\ wire' = <<>> /\ "restart" \notin closing'
  BY DEF Connect, OutdatedClosing
<1> QED BY <1>2, <1>3 DEF ConnectionInv

(* A restart keeps it, whether it is scheduled or one is pending already.   *)
LEMMA RestartConnection ==
    ASSUME NEW l \in LaneFields, NEW b, NEW s, NEW w,
           SessionInv, ConnectionInv, ScheduleRestart(l, b, s, w),
           "current" \notin creates',
           l.state = lane.state, l.timer = lane.timer,
           l.requested => lane.requested, l.snapshot # <<>> => lane.snapshot # <<>>,
           l.ping => lane.ping,
           w # <<>> => wire # <<>>, b # <<>> => lane.state \in Live,
           s = socket \/ (s = "ended" /\ socket # "none")
    PROVE  ConnectionInv'
<1>1. CASE lane.desired /\ ~lane.restartPending
  <2>1. lane' = [lane EXCEPT !.restartPending = TRUE, !.state = "backoff",
                             !.keepalive = FALSE, !.listenKey = FALSE, !.ping = FALSE,
                             !.snapshot = <<>>, !.requested = FALSE, !.timer = WaitsNot]
    BY <1>1 DEF ScheduleRestart
  <2>2. lane'.state = "backoff" /\ lane'.snapshot = <<>> /\ ~lane'.requested /\ ~lane'.ping
    BY <2>1 DEF SessionInv, Typed, LaneFields
  <2>3. buffer' = <<>> /\ socket' = "none" /\ wire' = <<>>
    BY <1>1 DEF ScheduleRestart
  <2> QED BY <2>2, <2>3 DEF ConnectionInv
<1>2. CASE ~(lane.desired /\ ~lane.restartPending)
  <2>1. lane' = l /\ buffer' = b /\ socket' = s /\ wire' = w /\ closing' = closing
    BY <1>2 DEF ScheduleRestart
  <2> QED BY <2>1 DEF ConnectionInv
<1> QED BY <1>1, <1>2

(* A snapshot is awaited by a wanted lane that synchronises. *)
LEMMA SnapshotAwaited ==
    ASSUME SessionInv, ConnectionInv, SnapshotArrives \/ SnapshotRefused \/ SnapshotFails
    PROVE  lane.state = "synchronizing" /\ lane.desired
<1>1. CASE SnapshotArrives \/ SnapshotRefused
  <2>1. Len(lane.snapshot) = 2
    BY <1>1 DEF SnapshotArrives, SnapshotRefused
  <2>2. lane.snapshot # <<>>
    BY <2>1
  <2> QED BY <2>2 DEF ConnectionInv, SessionInv, AwaitedIsWanted
<1>2. CASE SnapshotFails
  BY <1>2 DEF SnapshotFails, ConnectionInv, SessionInv, AwaitedIsWanted
<1> QED BY <1>1, <1>2

(* Every step of the lane keeps it. *)
LEMMA StepConnection == SessionInv /\ ConnectionInv /\ [Next]_vars => ConnectionInv'
<1> SUFFICES ASSUME SessionInv, ConnectionInv, [Next]_vars PROVE ConnectionInv'
  OBVIOUS
<1>0. lane \in LaneFields /\ (buffer # <<>> => lane.state \in Live)
  BY DEF SessionInv, Typed, ConnectionInv
<1>1. CASE Start
  <2> DEFINE l == [lane EXCEPT !.desired = TRUE]
  <2>1. l \in LaneFields
    BY <1>0 DEF LaneFields
  <2>2. socket = "none" /\ wire = <<>>
    BY <1>1 DEF Start, SessionInv, StopLeavesNothing, ConnectionInv, Live
  <2>3. Connect(l)
    BY <1>1 DEF Start
  <2> HIDE DEF l
  <2> QED BY <2>1, <2>2, <2>3, ConnectConnection
<1>2. CASE Stop
  <2>1. /\ lane'.state = "stopped" /\ ~lane'.timer /\ lane'.snapshot = <<>>
        /\ ~lane'.requested /\ ~lane'.ping
    BY <1>0, <1>2 DEF Stop, LaneFields
  <2>2. buffer' = <<>> /\ socket' = "none" /\ wire' = <<>>
    BY <1>2 DEF Stop
  <2>3. "current" \notin creates' /\ "restart" \notin closing'
    BY <1>2 DEF Stop, Outdated, OutdatedClosing, ClosedByStop
  <2> QED BY <2>1, <2>2, <2>3 DEF ConnectionInv, Live
<1>3. CASE RestartTimer
  <2>1. Restarted(lane) \in LaneFields
    BY <1>0 DEF Restarted, LaneFields
  <2>2. socket = "none" /\ wire = <<>>
    BY <1>3 DEF RestartTimer, ConnectionInv, Live
  <2> QED BY <1>3, <2>1, <2>2, ConnectConnection DEF RestartTimer
<1>4. ASSUME NEW c \in creates, Created(c) PROVE ConnectionInv'
  <2>1. CASE c = "current"
    <3>1. lane'.state = lane.state /\ lane'.timer = lane.timer /\ lane'.snapshot = lane.snapshot
          /\ lane'.requested = lane.requested /\ lane'.ping = lane.ping
      BY <1>0, <1>4, <2>1 DEF Created, LaneFields
    <3>2. /\ "current" \notin creates' /\ socket' = "connecting"
          /\ UNCHANGED <<closing, buffer, wire>>
      BY <1>4, <2>1 DEF Created
    <3> QED BY <1>4, <2>1, <3>1, <3>2 DEF ConnectionInv, Live
  <2>2. CASE c # "current"
    <3>1. UNCHANGED <<lane, socket, buffer, wire>> /\ creates' \subseteq creates
          /\ closing' = closing \cup {"stale"}
      BY <1>4, <2>2 DEF Created
    <3> QED BY <3>1 DEF ConnectionInv, Live
  <2> QED BY <2>1, <2>2
<1>5. ASSUME NEW c \in creates, CreateFails(c) PROVE ConnectionInv'
  <2>1. CASE c = "current"
    <3>1. ScheduleRestart(lane, buffer, socket, wire) /\ "current" \notin creates'
      BY <1>5, <2>1 DEF CreateFails
    <3> QED BY <1>0, <3>1, RestartConnection
  <2>2. CASE c # "current"
    <3>1. UNCHANGED <<lane, closing, socket, buffer, wire>> /\ creates' \subseteq creates
      BY <1>5, <2>2 DEF CreateFails
    <3> QED BY <3>1 DEF ConnectionInv, Live
  <2> QED BY <2>1, <2>2
<1>6. ASSUME NEW c \in closing, Closed(c) \/ CloseFails(c) PROVE ConnectionInv'
  <2>1. /\ closing' = closing \ {c} /\ lane' = AfterCleanup(c)
        /\ UNCHANGED <<creates, buffer, socket, wire>>
    BY <1>6 DEF Closed, CloseFails
  <2>2. CASE c = "restart"
    <3>1. lane' = [lane EXCEPT !.timer = TRUE] /\ lane.state = "backoff"
      BY <2>1, <2>2 DEF AfterCleanup, ConnectionInv
    <3>2. lane'.state = "backoff" /\ lane'.snapshot = lane.snapshot
          /\ lane'.requested = lane.requested /\ lane'.ping = lane.ping
      BY <1>0, <3>1 DEF LaneFields
    <3> QED BY <2>1, <3>1, <3>2 DEF ConnectionInv, Live
  <2>3. CASE c # "restart"
    <3>1. lane'.state = lane.state /\ lane'.timer = lane.timer /\ lane'.snapshot = lane.snapshot
          /\ lane'.requested = lane.requested /\ lane'.ping = lane.ping
      BY <1>0, <2>1, <2>3 DEF AfterCleanup, LaneFields
    <3> QED BY <2>1, <3>1 DEF ConnectionInv, Live
  <2> QED BY <2>2, <2>3
<1>7. CASE KeepAliveFires
  <2>1. lane'.state = "running" /\ lane'.timer = lane.timer /\ lane'.snapshot = lane.snapshot
        /\ lane'.requested = lane.requested
    BY <1>0, <1>7 DEF KeepAliveFires, LaneFields
  <2>2. UNCHANGED <<creates, closing, buffer, socket, wire>> /\ lane.state = "running"
    BY <1>7 DEF KeepAliveFires
  <2> QED BY <2>1, <2>2 DEF ConnectionInv, Live
<1>8. CASE PingAnswers
  <2> DEFINE l == [lane EXCEPT !.ping = FALSE]
  <2>1. /\ l \in LaneFields /\ l.state = lane.state /\ l.timer = lane.timer /\ ~l.ping
        /\ l.requested = lane.requested /\ l.snapshot = lane.snapshot
    BY <1>0 DEF LaneFields
  <2>2. \/ lane' = l /\ UNCHANGED <<closing, buffer, socket, wire>>
        \/ ScheduleRestart(l, buffer, socket, wire)
    BY <1>8 DEF PingAnswers, PingFailed
  <2>3. UNCHANGED creates /\ "current" \notin creates
    BY <1>8 DEF PingAnswers, ConnectionInv
  <2> HIDE DEF l
  <2>4. CASE lane' = l /\ UNCHANGED <<closing, buffer, socket, wire>>
    BY <2>1, <2>3, <2>4 DEF ConnectionInv, Live
  <2>5. CASE ScheduleRestart(l, buffer, socket, wire)
    BY <1>0, <2>1, <2>3, <2>5, RestartConnection
  <2> QED BY <2>2, <2>4, <2>5
<1>9. CASE OnOpen
  <2>1. lane'.state = "synchronizing" /\ lane'.timer = lane.timer
        /\ lane'.snapshot = lane.snapshot /\ lane'.ping = lane.ping
    BY <1>0, <1>9 DEF OnOpen, LaneFields
  <2>2. socket' = "open" /\ UNCHANGED <<creates, closing, buffer, wire>>
        /\ socket = "connecting"
    BY <1>9 DEF OnOpen
  <2> QED BY <2>1, <2>2 DEF ConnectionInv, Live
<1>10. CASE SnapshotReads
  <2>1. lane'.state = lane.state /\ lane'.timer = lane.timer
        /\ lane'.requested = lane.requested /\ lane'.ping = lane.ping
    BY <1>0, <1>10 DEF SnapshotReads, LaneFields
  <2>2. UNCHANGED <<creates, closing, buffer, socket, wire>> /\ lane.requested
    BY <1>10 DEF SnapshotReads
  <2> QED BY <2>1, <2>2 DEF ConnectionInv, Live
<1>11. CASE SnapshotArrives \/ SnapshotRefused \/ SnapshotFails
  <2>1. /\ SnapshotRead \in LaneFields /\ SnapshotRead.state = lane.state
        /\ SnapshotRead.timer = lane.timer /\ SnapshotRead.ping = lane.ping
        /\ ~SnapshotRead.requested /\ SnapshotRead.snapshot = <<>>
    BY <1>0, SnapshotGrows DEF SnapshotRead, LaneFields
  <2>2. lane.state = "synchronizing"
    BY <1>11, SnapshotAwaited
  <2>3. UNCHANGED creates /\ "current" \notin creates
    BY <1>11, <2>2 DEF SnapshotArrives, SnapshotRefused, SnapshotFails, ConnectionInv
  <2>4. CASE lane' = [SnapshotRead EXCEPT !.state = "running", !.keepalive = TRUE]
             /\ buffer' = <<>> /\ UNCHANGED <<closing, socket, wire>>
    <3>1. lane'.state = "running" /\ lane'.timer = lane.timer /\ ~lane'.requested
          /\ lane'.snapshot = <<>> /\ lane'.ping = lane.ping
      BY <2>1, <2>4 DEF LaneFields
    <3> QED BY <2>2, <2>3, <2>4, <3>1 DEF ConnectionInv, Live
  <2>5. ASSUME NEW b \in {<<>>, buffer}, ScheduleRestart(SnapshotRead, b, socket, wire)
        PROVE  ConnectionInv'
    BY <1>0, <2>1, <2>3, <2>5, RestartConnection
  <2> QED BY <1>11, <2>4, <2>5 DEF SnapshotArrives, SnapshotRefused, SnapshotFails
<1>12. CASE OnMessage
  <2>1. lane.state \in Live /\ UNCHANGED creates /\ "current" \notin creates
    BY <1>12 DEF OnMessage, ConnectionInv, Live
  <2>2. PICK b : \/ ScheduleRestart(lane, b, socket, Tail(wire))
                 \/ buffer' = b /\ wire' = Tail(wire) /\ UNCHANGED <<lane, closing, socket>>
    BY <1>12 DEF OnMessage
  <2>3. wire # <<>>
    BY <1>12 DEF OnMessage
  <2>4. CASE ScheduleRestart(lane, b, socket, Tail(wire))
    BY <1>0, <2>1, <2>3, <2>4, RestartConnection
  <2>5. CASE buffer' = b /\ wire' = Tail(wire) /\ UNCHANGED <<lane, closing, socket>>
    BY <2>1, <2>5 DEF ConnectionInv, Live
  <2> QED BY <2>2, <2>4, <2>5
<1>13. CASE SocketEnds
  <2>1. ScheduleRestart(lane, buffer, "ended", wire) /\ UNCHANGED creates
        /\ "current" \notin creates /\ socket # "none"
    BY <1>13 DEF SocketEnds, ConnectionInv
  <2> QED BY <1>0, <2>1, RestartConnection
<1>14. CASE \/ \E p \in Parts : Changes(p)
            \/ \E e \in sent : Repeats(e)
            \/ KeyExpires \/ DeleteArrivesLate \/ SocketLost
  <2>1. UNCHANGED <<lane, creates, closing, buffer>>
    BY <1>14 DEF Changes, Repeats, KeyExpires, DeleteArrivesLate, SocketLost, Unmoved
  <2>2. socket' = socket \/ (socket \in {"connecting", "open"} /\ socket' = "failed")
    BY <1>14 DEF Changes, Repeats, KeyExpires, DeleteArrivesLate, SocketLost, venue
  <2>3. wire' = wire \/ socket = "open"
    BY <1>14 DEF Changes, Repeats, KeyExpires, DeleteArrivesLate, SocketLost
  <2> QED BY <2>1, <2>2, <2>3 DEF ConnectionInv, Live
<1>15. CASE UNCHANGED vars
  BY <1>15 DEF vars, ConnectionInv, Live
<1> QED BY <1>1, <1>2, <1>3, <1>4, <1>5, <1>6, <1>7, <1>8, <1>9, <1>10, <1>11, <1>12, <1>13,
           <1>14, <1>15 DEF Next

(* What a lane that is started once adds: nothing is left of an earlier     *)
(* session, and a restart is pending exactly as long as the lane backs off. *)
OneStartInv ==
    /\ starts \in Nat
    /\ starts = 0 => ~lane.desired /\ creates = {} /\ closing = {} /\ ~lane.restartPending
    /\ lane.desired => /\ creates \subseteq {"current"} /\ closing \subseteq {"restart"}
                       /\ lane.restartPending = (lane.state = "backoff")
    /\ lane.timer => "restart" \notin closing
    /\ lane.listenKey => lane.state \notin {"stopped", "backoff"} /\ "current" \notin creates

(* A restart keeps it: what is awaited for the session that ends is what    *)
(* the next one waits for.                                                  *)
LEMMA RestartOneStart ==
    ASSUME NEW l \in LaneFields, NEW b, NEW s, NEW w,
           SessionInv, ConnectionInv, OneStartInv, ScheduleRestart(l, b, s, w),
           lane.desired, starts' = starts, creates' \subseteq creates, "current" \notin creates',
           l.state = lane.state, l.timer = lane.timer, l.desired,
           l.restartPending = lane.restartPending, l.listenKey = lane.listenKey
    PROVE  OneStartInv'
<1> USE DEF OneStartInv
<1>1. CASE ~lane.restartPending
  <2>1. /\ lane' = [lane EXCEPT !.restartPending = TRUE, !.state = "backoff",
                                !.keepalive = FALSE, !.listenKey = FALSE, !.ping = FALSE,
                                !.snapshot = <<>>, !.requested = FALSE, !.timer = WaitsNot]
        /\ closing' = closing \cup (IF lane.listenKey THEN {"restart"} ELSE {})
    BY <1>1 DEF ScheduleRestart
  <2>2. /\ lane'.state = "backoff" /\ lane'.restartPending = TRUE /\ lane'.desired
        /\ ~lane'.listenKey /\ (lane'.timer => ~lane.listenKey)
    BY <2>1 DEF SessionInv, Typed, LaneFields, WaitsNot
  <2>3. lane.state # "backoff" /\ "restart" \notin closing
    BY <1>1 DEF ConnectionInv, SessionInv, Typed, LaneFields
  <2>4. closing' \subseteq {"restart"} /\ (lane'.timer => "restart" \notin closing')
    BY <2>1, <2>2, <2>3
  <2> QED BY <2>2, <2>4
<1>2. CASE lane.restartPending
  <2>1. lane' = l /\ closing' = closing
    BY <1>2 DEF ScheduleRestart
  <2> QED BY <2>1
<1> QED BY <1>1, <1>2 DEF SessionInv, Typed, LaneFields

(* A step that leaves the session as it is keeps it.                        *)
LEMMA StayOneStart ==
    ASSUME OneStartInv, starts' = starts, creates' \subseteq creates, closing' \subseteq closing,
           lane'.desired = lane.desired, lane'.restartPending = lane.restartPending,
           lane'.timer = lane.timer, lane'.listenKey = lane.listenKey,
           \/ lane'.state = lane.state
           \/ lane'.state \notin {"stopped", "backoff"} /\ lane.state \notin {"stopped", "backoff"}
    PROVE  OneStartInv'
BY DEF OneStartInv

(* Every step of a lane that is started once keeps it. *)
LEMMA StepOneStart ==
    ASSUME MaxStarts = 1, SessionInv, ConnectionInv, OneStartInv, [Next]_vars
    PROVE  OneStartInv'
<1>0. lane \in LaneFields
  BY DEF SessionInv, Typed
<1>1. CASE Start
  <2>1. starts = 0 /\ starts' \in Nat /\ starts' # 0
    BY <1>1 DEF Start, OneStartInv
  <2>2. creates = {} /\ closing = {} /\ ~lane.restartPending /\ ~lane.desired
    BY <2>1 DEF OneStartInv
  <2>3. Connect([lane EXCEPT !.desired = TRUE])
    BY <1>1 DEF Start
  <2>4. /\ lane'.state = "connecting" /\ lane'.restartPending = FALSE /\ lane'.timer = FALSE
        /\ lane'.listenKey = lane.listenKey
    BY <1>0, <2>2, <2>3 DEF Connect, LaneFields
  <2>5. creates' = {"current"} /\ closing' = {}
    BY <2>2, <2>3 DEF Connect, Outdated, OutdatedClosing
  <2>6. ~lane.listenKey
    BY <2>2 DEF SessionInv, StopLeavesNothing
  <2> QED BY <2>1, <2>4, <2>5, <2>6 DEF OneStartInv
<1>2. CASE Stop
  <2>1. ~lane'.desired /\ ~lane'.timer /\ ~lane'.listenKey
    BY <1>0, <1>2 DEF Stop, LaneFields
  <2>2. starts' = starts /\ starts # 0
    BY <1>2 DEF Stop, bounds, OneStartInv
  <2> QED BY <2>1, <2>2 DEF OneStartInv
<1>3. CASE RestartTimer
  <2>1. lane.desired /\ lane.state = "backoff"
    BY <1>3 DEF RestartTimer, SessionInv, StopLeavesNothing, ConnectionInv
  <2>2. creates = {} /\ closing = {} /\ ~lane.listenKey
    BY <1>3, <2>1 DEF RestartTimer, ConnectionInv, OneStartInv
  <2>3. Connect(Restarted(lane)) /\ starts' = starts /\ starts # 0
    BY <1>3, <2>1 DEF RestartTimer, bounds, OneStartInv
  <2>4. /\ lane'.state = "connecting" /\ lane'.restartPending = FALSE /\ lane'.timer = FALSE
        /\ lane'.listenKey = lane.listenKey
    BY <1>0, <2>3 DEF Connect, Restarted, LaneFields
  <2>5. creates' = {"current"} /\ closing' = {}
    BY <2>2, <2>3 DEF Connect, Outdated, OutdatedClosing
  <2> QED BY <2>2, <2>3, <2>4, <2>5 DEF OneStartInv
<1>4. ASSUME NEW c \in creates, Created(c) PROVE OneStartInv'
  <2>1. starts' = starts /\ starts # 0 /\ creates' \subseteq creates
    BY <1>4 DEF Created, bounds, OneStartInv
  <2>2. CASE c = "current"
    <3>1. lane' = [lane EXCEPT !.listenKey = TRUE] /\ closing' = closing
          /\ "current" \notin creates' /\ lane.state = "connecting"
      BY <1>4, <2>2 DEF Created, ConnectionInv
    <3>2. /\ lane'.state = "connecting" /\ lane'.desired = lane.desired
          /\ lane'.restartPending = lane.restartPending /\ lane'.timer = lane.timer
      BY <1>0, <3>1 DEF LaneFields
    <3> QED BY <2>1, <3>1, <3>2 DEF OneStartInv
  <2>3. CASE c # "current"
    <3>1. ~lane.desired /\ lane' = lane /\ ~lane.listenKey /\ ~lane.timer
      BY <1>4, <2>3 DEF Created, OneStartInv, SessionInv, StopLeavesNothing
    <3> QED BY <2>1, <3>1 DEF OneStartInv
  <2> QED BY <2>2, <2>3
<1>5. ASSUME NEW c \in creates, CreateFails(c) PROVE OneStartInv'
  <2>1. starts' = starts /\ creates' \subseteq creates
    BY <1>5 DEF CreateFails, Fault
  <2>2. CASE c = "current"
    <3>1. ScheduleRestart(lane, buffer, socket, wire) /\ "current" \notin creates'
      BY <1>5, <2>2 DEF CreateFails
    <3>2. lane.desired
      BY <2>2 DEF SessionInv, AwaitedIsWanted
    <3> QED BY <1>0, <2>1, <3>1, <3>2, RestartOneStart
  <2>3. CASE c # "current"
    <3>1. UNCHANGED <<lane, closing>>
      BY <1>5, <2>3 DEF CreateFails
    <3> QED BY <2>1, <3>1, StayOneStart
  <2> QED BY <2>2, <2>3
<1>6. ASSUME NEW c \in closing, Closed(c) \/ CloseFails(c) PROVE OneStartInv'
  <2>1. /\ closing' = closing \ {c} /\ lane' = AfterCleanup(c) /\ creates' = creates
        /\ starts' = starts /\ starts # 0
    BY <1>6 DEF Closed, CloseFails, bounds, Fault, OneStartInv
  <2>2. CASE c = "restart"
    <3>1. lane' = [lane EXCEPT !.timer = TRUE] /\ lane.desired /\ ~lane.listenKey
      BY <2>1, <2>2 DEF AfterCleanup, SessionInv, AwaitedIsWanted, ConnectionInv, OneStartInv
    <3>2. /\ lane'.state = lane.state /\ lane'.desired = lane.desired
          /\ lane'.restartPending = lane.restartPending /\ lane'.listenKey = lane.listenKey
      BY <1>0, <3>1 DEF LaneFields
    <3> QED BY <2>1, <2>2, <3>1, <3>2 DEF OneStartInv
  <2>3. CASE c # "restart"
    <3>1. ~lane.desired
      BY <2>3 DEF OneStartInv
    <3>2. /\ lane'.desired = lane.desired /\ lane'.timer = lane.timer
          /\ lane'.listenKey = lane.listenKey
      BY <1>0, <2>1, <2>3 DEF AfterCleanup, LaneFields
    <3> QED BY <2>1, <3>1, <3>2 DEF OneStartInv, SessionInv, StopLeavesNothing
  <2> QED BY <2>2, <2>3
<1>7. CASE KeepAliveFires
  <2>1. /\ lane'.state = lane.state /\ lane'.timer = lane.timer /\ lane'.desired = lane.desired
        /\ lane'.restartPending = lane.restartPending /\ lane'.listenKey = lane.listenKey
    BY <1>0, <1>7 DEF KeepAliveFires, LaneFields
  <2>2. UNCHANGED <<creates, closing, starts>>
    BY <1>7 DEF KeepAliveFires, bounds
  <2> QED BY <2>1, <2>2, StayOneStart
<1>8. CASE PingAnswers
  <2> DEFINE l == [lane EXCEPT !.ping = FALSE]
  <2>1. /\ l \in LaneFields /\ l.state = lane.state /\ l.timer = lane.timer
        /\ l.desired = lane.desired /\ l.restartPending = lane.restartPending
        /\ l.listenKey = lane.listenKey
    BY <1>0 DEF LaneFields
  <2>2. \/ lane' = l /\ UNCHANGED closing
        \/ ScheduleRestart(l, buffer, socket, wire)
    BY <1>8 DEF PingAnswers, PingFailed
  <2>3. /\ UNCHANGED <<creates, starts>> /\ "current" \notin creates /\ lane.desired
    BY <1>8 DEF PingAnswers, ConnectionInv, bounds, Fault, SessionInv, AwaitedIsWanted
  <2> HIDE DEF l
  <2>4. CASE lane' = l /\ UNCHANGED closing
    BY <2>1, <2>3, <2>4, StayOneStart
  <2>5. CASE ScheduleRestart(l, buffer, socket, wire)
    BY <2>1, <2>3, <2>5, RestartOneStart
  <2> QED BY <2>2, <2>4, <2>5
<1>9. CASE OnOpen \/ SnapshotReads
  <2>1. /\ lane'.timer = lane.timer /\ lane'.desired = lane.desired
        /\ lane'.restartPending = lane.restartPending /\ lane'.listenKey = lane.listenKey
        /\ \/ lane'.state = lane.state
           \/ lane'.state = "synchronizing" /\ lane.state = "connecting"
    BY <1>0, <1>9 DEF OnOpen, SnapshotReads, LaneFields, ConnectionInv
  <2>2. UNCHANGED <<creates, closing, starts>>
    BY <1>9 DEF OnOpen, SnapshotReads, bounds
  <2> QED BY <2>1, <2>2, StayOneStart
<1>10. CASE SnapshotArrives \/ SnapshotRefused \/ SnapshotFails
  <2>1. /\ SnapshotRead \in LaneFields /\ SnapshotRead.state = lane.state
        /\ SnapshotRead.timer = lane.timer /\ SnapshotRead.desired = lane.desired
        /\ SnapshotRead.restartPending = lane.restartPending
        /\ SnapshotRead.listenKey = lane.listenKey
    BY <1>0, SnapshotGrows DEF SnapshotRead, LaneFields
  <2>2. lane.state = "synchronizing" /\ lane.desired
    BY <1>10, SnapshotAwaited
  <2>3. UNCHANGED <<creates, starts>> /\ "current" \notin creates
    BY <1>10, <2>2
       DEF SnapshotArrives, SnapshotRefused, SnapshotFails, ConnectionInv, bounds, Fault
  <2>4. CASE lane' = [SnapshotRead EXCEPT !.state = "running", !.keepalive = TRUE]
             /\ UNCHANGED closing
    <3>1. /\ lane'.state = "running" /\ lane'.timer = lane.timer /\ lane'.desired = lane.desired
          /\ lane'.restartPending = lane.restartPending /\ lane'.listenKey = lane.listenKey
      BY <2>1, <2>4 DEF LaneFields
    <3> QED BY <2>2, <2>3, <2>4, <3>1, StayOneStart
  <2>5. ASSUME NEW b \in {<<>>, buffer}, ScheduleRestart(SnapshotRead, b, socket, wire)
        PROVE  OneStartInv'
    BY <2>1, <2>2, <2>3, <2>5, RestartOneStart
  <2> QED BY <1>10, <2>4, <2>5 DEF SnapshotArrives, SnapshotRefused, SnapshotFails
<1>11. CASE OnMessage \/ SocketEnds
  <2>1. UNCHANGED <<creates, starts>> /\ "current" \notin creates /\ lane.desired
    BY <1>11 DEF OnMessage, SocketEnds, ConnectionInv, bounds, SessionInv, StopLeavesNothing
  <2>2. PICK b, s, w : ScheduleRestart(lane, b, s, w) \/ UNCHANGED <<lane, closing>>
    BY <1>11 DEF OnMessage, SocketEnds
  <2>3. CASE ScheduleRestart(lane, b, s, w)
    BY <1>0, <2>1, <2>3, RestartOneStart
  <2>4. CASE UNCHANGED <<lane, closing>>
    BY <2>1, <2>4, StayOneStart
  <2> QED BY <2>2, <2>3, <2>4
<1>12. CASE \/ \E p \in Parts : Changes(p)
            \/ \E e \in sent : Repeats(e)
            \/ KeyExpires \/ DeleteArrivesLate \/ SocketLost
  <2>1. UNCHANGED <<lane, creates, closing, starts>>
    BY <1>12 DEF Changes, Repeats, KeyExpires, DeleteArrivesLate, SocketLost, Unmoved, bounds,
                 Fault
  <2> QED BY <2>1, StayOneStart
<1>13. CASE UNCHANGED vars
  BY <1>13, StayOneStart DEF vars, bounds
<1> QED BY <1>1, <1>2, <1>3, <1>4, <1>5, <1>6, <1>7, <1>8, <1>9, <1>10, <1>11, <1>12, <1>13
        DEF Next

(* A lane that was never started is connected to nothing. *)
LEMMA InitConnection == Init => ConnectionInv /\ OneStartInv
  BY DEF Init, ConnectionInv, OneStartInv, Live

(* The lane of a process that starts it once never creates or uses a        *)
(* session while the nameless DELETE of the one before is awaited.          *)
THEOREM OneSessionAtATime == MaxStarts = 1 /\ Spec => []SessionKeepsKey
<1> SUFFICES ASSUME MaxStarts = 1 PROVE Spec => []SessionKeepsKey
  OBVIOUS
<1> DEFINE Inv == SessionInv /\ ConnectionInv /\ OneStartInv
<1>1. Init => Inv
  BY InitSession, InitConnection
<1>2. Inv /\ [Next]_vars => Inv'
  BY StepSession, StepConnection, StepOneStart
<1>3. Inv => SessionKeepsKey
  BY DEF SessionInv, StopLeavesNothing, ConnectionInv, OneStartInv, SessionKeepsKey
<1> QED BY <1>1, <1>2, <1>3, PTL DEF Spec

OneSessionInv == SessionInv /\ ConnectionInv /\ OneStartInv

-----------------------------------------------------------------------------
(* Folds over the buffered events. *)

(* Induction for sets of natural numbers, from the well-foundedness of <.   *)
LEMMA NatSetInduction ==
    ASSUME NEW S, 0 \in S, \A n \in Nat : n \in S => n + 1 \in S
    PROVE  Nat \subseteq S
<1> DEFINE R == OpToRel(<, Nat)
           T == Nat \ S
<1>1. SUFFICES ASSUME T # {} PROVE FALSE
  OBVIOUS
<1>2. IsWellFoundedOn(R, Nat)
  BY NatLessThanWellFounded
<1>3. PICK x \in T : \A y \in T : <<y, x>> \notin R
  <2> HIDE DEF R
  <2> QED BY <1>1, <1>2, WFMin
<1>4. x \in Nat /\ x # 0 /\ x - 1 \in Nat
  OBVIOUS
<1>5. x - 1 \in T
  BY <1>4
<1>6. <<x - 1, x>> \in R
  BY <1>4 DEF OpToRel
<1> QED BY <1>3, <1>5, <1>6

(* The function by which FoldLeft applies the first k events of q.          *)
IsFold(f, base, q, k) ==
    f = [s \in SUBSET (1 .. k) |->
            IF s = {} THEN base ELSE Apply(f[s \ {Max(s)}], q[Max(s)])]

(* The largest of the first numbers.                                        *)
LEMMA MaxIsLast ==
    ASSUME NEW n \in Nat, NEW s \in SUBSET (1 .. n + 1), n + 1 \in s
    PROVE  Max(s) = n + 1
<1>1. \A y \in s : n + 1 >= y
  OBVIOUS
<1>2. ASSUME NEW x \in s, \A y \in s : x >= y PROVE x = n + 1
  BY <1>1, <1>2
<1> QED BY <1>1, <1>2 DEF Max

(* One more event extends it.                                               *)
LEMMA FoldExtends ==
    ASSUME NEW base, NEW q, NEW k \in Nat, NEW f, IsFold(f, base, q, k)
    PROVE  \E g : IsFold(g, base, q, k + 1)
<1> DEFINE g == [s \in SUBSET (1 .. k + 1) |->
                    IF k + 1 \in s THEN Apply(f[s \ {k + 1}], q[k + 1]) ELSE f[s]]
<1>1. ASSUME NEW s \in SUBSET (1 .. k + 1)
      PROVE  g[s] = IF s = {} THEN base ELSE Apply(g[s \ {Max(s)}], q[Max(s)])
  <2>1. CASE k + 1 \in s
    <3>1. Max(s) = k + 1
      BY <2>1, MaxIsLast
    <3>2. s \ {k + 1} \in SUBSET (1 .. k + 1) /\ k + 1 \notin s \ {k + 1}
      OBVIOUS
    <3>3. g[s \ {k + 1}] = f[s \ {k + 1}]
      BY <3>2
    <3> QED BY <2>1, <3>1, <3>3
  <2>2. CASE k + 1 \notin s
    <3>1. s \in SUBSET (1 .. k)
      BY <2>2
    <3>2. f[s] = IF s = {} THEN base ELSE Apply(f[s \ {Max(s)}], q[Max(s)])
      BY <3>1 DEF IsFold
    <3>3. s \ {Max(s)} \in SUBSET (1 .. k + 1) /\ k + 1 \notin s \ {Max(s)}
      BY <2>2
    <3>4. g[s \ {Max(s)}] = f[s \ {Max(s)}] /\ g[s] = f[s]
      BY <2>2, <3>3
    <3> QED BY <3>2, <3>4
  <2> QED BY <2>1, <2>2
<1>2. g = [s \in SUBSET (1 .. k + 1) |->
              IF s = {} THEN base ELSE Apply(g[s \ {Max(s)}], q[Max(s)])]
  <2> HIDE DEF g
  <2>1. g = [s \in SUBSET (1 .. k + 1) |-> g[s]]
    BY DEF g
  <2> QED BY <1>1, <2>1
<1>3. IsFold(g, base, q, k + 1)
  BY <1>2 DEF IsFold
<1> QED BY <1>3

(* So it exists for every number of events.                                 *)
LEMMA FoldExists ==
    ASSUME NEW base, NEW q
    PROVE  \A k \in Nat : \E f : IsFold(f, base, q, k)
<1> DEFINE S == {k \in Nat : \E f : IsFold(f, base, q, k)}
<1>1. 0 \in S
  <2> DEFINE f == [s \in SUBSET (1 .. 0) |-> base]
  <2>1. \A s \in SUBSET (1 .. 0) : s = {}
    OBVIOUS
  <2>2. IsFold(f, base, q, 0)
    BY <2>1 DEF IsFold
  <2> QED BY <2>2
<1>2. \A n \in Nat : n \in S => n + 1 \in S
  BY FoldExtends
<1>3. Nat \subseteq S
  <2> HIDE DEF S
  <2> QED BY <1>1, <1>2, NatSetInduction
<1> QED BY <1>3

(* It begins with the base, and applies one event after the other.          *)
FoldSteps(f, base, q, k) ==
    /\ f[1 .. 0] = base
    /\ \A i \in 0 .. k - 1 : f[1 .. i + 1] = Apply(f[1 .. i], q[i + 1])

LEMMA FoldStepwise ==
    ASSUME NEW base, NEW q, NEW k \in Nat, NEW f, IsFold(f, base, q, k)
    PROVE  FoldSteps(f, base, q, k)
<1>1. f[1 .. 0] = base
  <2>1. 1 .. 0 = {} /\ {} \in SUBSET (1 .. k)
    OBVIOUS
  <2> QED BY <2>1 DEF IsFold
<1>2. ASSUME NEW i \in 0 .. k - 1
      PROVE  f[1 .. i + 1] = Apply(f[1 .. i], q[i + 1])
  <2> DEFINE s == 1 .. i + 1
  <2>1. s \in SUBSET (1 .. k) /\ s # {}
    OBVIOUS
  <2>2. Max(s) = i + 1
    BY MaxIsLast
  <2>3. s \ {i + 1} = 1 .. i
    OBVIOUS
  <2>4. f[s] = Apply(f[s \ {Max(s)}], q[Max(s)])
    <3> HIDE DEF s
    <3> QED BY <2>1 DEF IsFold
  <2> QED BY <2>2, <2>3, <2>4
<1> QED BY <1>1, <1>2 DEF FoldSteps

(* The buffered events applied to an account.                               *)
Folded(base, q) == FoldLeft(Apply, base, q)

(* It is the value of that function for all events.                         *)
LEMMA FoldLeftSteps ==
    ASSUME NEW base, NEW q, NEW k \in Nat, DOMAIN q = 1 .. k
    PROVE  \E f : FoldSteps(f, base, q, k) /\ Folded(base, q) = f[1 .. k]
<1> DEFINE f == CHOOSE h : IsFold(h, base, q, k)
<1>1. IsFold(f, base, q, k)
  BY FoldExists
<1>2. Folded(base, q) = f[1 .. k]
  BY DEF Folded, FoldLeft, MapThenFoldSet, IsFold
<1> HIDE DEF f
<1>3. FoldSteps(f, base, q, k)
  BY <1>1, FoldStepwise
<1> QED BY <1>2, <1>3

-----------------------------------------------------------------------------
(* The account. *)

(* The newest event of a part, and those that the venue can have sent.      *)
Newest(t, p) == [part |-> p, version |-> t[p]]
Known(t) == {e \in [part : Parts, version : Nat] : e.version <= t[e.part]}

(* What can be buffered, and what can come in.                              *)
Event(t) == Known(t) \cup {EXPIRED, REFUSED}
Frame(t) == Event(t) \cup {NONE}

Clean(q) == \A i \in DOMAIN q : q[i] \notin {NONE, REFUSED, EXPIRED}

(* What was sent on this connection is applied or on its way, and an older  *)
(* event that is not yet applied comes before the newest of its part.       *)
InFlight(applied, q, t, st) ==
    /\ \A i \in DOMAIN q : q[i] \in st
    /\ \A e \in st : e \in applied \/ \E i \in DOMAIN q : q[i] = e
    /\ \A e \in st \ applied : e # Newest(t, e.part) =>
          /\ Newest(t, e.part) \in st \ applied
          /\ \A i \in DOMAIN q : q[i] = Newest(t, e.part) => \E k \in 1 .. i - 1 : q[k] = e

(* A part is the venue's, unless its newest event is yet to be applied.     *)
Held(v, applied, t, st, p) == Newest(t, p) \notin st \ applied => v[p] = t[p]

(* An event that is applied keeps both.                                     *)
LEMMA ApplyKeeps ==
    ASSUME NEW t \in [Parts -> Nat], NEW st \in SUBSET Known(t), NEW applied, NEW S,
           NEW q \in Seq(S), q # <<>>, Clean(q), InFlight(applied, q, t, st),
           NEW v \in [Parts -> Nat], \A p \in Parts : Held(v, applied, t, st, p),
           NEW a, a = Apply(Holding(v, applied), Head(q))
    PROVE  /\ InFlight(a.seen, Tail(q), t, st)
           /\ \A p \in Parts : Held(a.view, a.seen, t, st, p)
<1> DEFINE e == Head(q)
           n == Len(q)
           r == Tail(q)
<1>1. /\ n \in Nat \ {0} /\ DOMAIN q = 1 .. n /\ e = q[1]
      /\ DOMAIN r = 1 .. n - 1 /\ \A i \in 1 .. n - 1 : r[i] = q[i + 1]
  OBVIOUS
<1>2. \A i \in DOMAIN q : q[i] \in st
  BY DEF InFlight
<1> HIDE DEF e, n, r
<1>3. \A i \in DOMAIN r : r[i] \in st
  <2>1. \A i \in DOMAIN r : i + 1 \in DOMAIN q /\ r[i] = q[i + 1]
    BY <1>1
  <2> QED BY <1>2, <2>1
<1>4. e \in st /\ e # EXPIRED /\ e # REFUSED /\ e \in Known(t) /\ e.part \in Parts
  <2>1. 1 \in DOMAIN q
    BY <1>1
  <2>2. e \in st /\ e # EXPIRED /\ e # REFUSED
    BY <1>1, <1>2, <2>1 DEF Clean
  <2>3. \A x \in Known(t) : x.part \in Parts
    BY DEF Known
  <2> QED BY <2>2, <2>3
<1>5. CASE e \in applied
  <2>1. a.view = v /\ a.seen = applied
    BY <1>4, <1>5 DEF Apply, Holding, e
  <2>2. \A i \in DOMAIN r : r[i] \in st
    BY <1>3
  <2>3. ASSUME NEW x \in st, x \notin applied PROVE \E i \in DOMAIN r : r[i] = x
    <3>1. PICK i \in DOMAIN q : q[i] = x
      BY <2>3 DEF InFlight
    <3>2. i # 1 /\ i - 1 \in DOMAIN r /\ r[i - 1] = x
      BY <1>1, <1>5, <2>3, <3>1
    <3> QED BY <3>2
  <2>4. ASSUME NEW x \in st \ applied, x # Newest(t, x.part)
        PROVE  /\ Newest(t, x.part) \in st \ applied
               /\ \A i \in DOMAIN r : r[i] = Newest(t, x.part) => \E k \in 1 .. i - 1 : r[k] = x
    <3>1. Newest(t, x.part) \in st \ applied
      BY <2>4 DEF InFlight
    <3>2. ASSUME NEW i \in DOMAIN r, r[i] = Newest(t, x.part)
          PROVE  \E k \in 1 .. i - 1 : r[k] = x
      <4>1. i + 1 \in DOMAIN q /\ q[i + 1] = Newest(t, x.part)
        BY <1>1, <3>2
      <4>2. PICK k \in 1 .. i : q[k] = x
        BY <2>4, <4>1, <1>1, <3>2 DEF InFlight
      <4>3. k # 1 /\ k - 1 \in 1 .. i - 1 /\ r[k - 1] = x
        BY <1>1, <1>5, <2>4, <3>2, <4>2
      <4> QED BY <4>3
    <3> QED BY <3>1, <3>2
  <2> QED BY <2>1, <2>2, <2>3, <2>4 DEF InFlight, r
<1>6. CASE e \notin applied
  <2>1. a.view = [v EXCEPT ![e.part] = e.version] /\ a.seen = applied \cup {e}
    BY <1>4, <1>6 DEF Apply, Holding, e
  <2>2. \A i \in DOMAIN r : r[i] \in st
    BY <1>3
  <2>3. ASSUME NEW x \in st, x \notin a.seen PROVE \E i \in DOMAIN r : r[i] = x
    <3>1. PICK i \in DOMAIN q : q[i] = x
      BY <2>1, <2>3 DEF InFlight
    <3>2. i # 1 /\ i - 1 \in DOMAIN r /\ r[i - 1] = x
      BY <1>1, <2>1, <2>3, <3>1
    <3> QED BY <3>2
  <2>4. ASSUME NEW x \in st \ a.seen, x # Newest(t, x.part)
        PROVE  /\ Newest(t, x.part) \in st \ a.seen
               /\ \A i \in DOMAIN r : r[i] = Newest(t, x.part) => \E k \in 1 .. i - 1 : r[k] = x
    <3>1. Newest(t, x.part) \in st \ applied
      BY <2>1, <2>4 DEF InFlight
    <3>2. Newest(t, x.part) # e
      <4>1. ASSUME Newest(t, x.part) = q[1] PROVE FALSE
        <5>1. 1 \in DOMAIN q /\ x \in st \ applied
          BY <1>1, <2>1
        <5>2. \A i \in DOMAIN q : q[i] = Newest(t, x.part) => \E k \in 1 .. i - 1 : q[k] = x
          BY <2>4, <5>1 DEF InFlight
        <5>3. \E k \in 1 .. 1 - 1 : q[k] = x
          BY <4>1, <5>1, <5>2
        <5> QED BY <5>3
      <4> QED BY <1>1, <4>1
    <3>3. ASSUME NEW i \in DOMAIN r, r[i] = Newest(t, x.part)
          PROVE  \E k \in 1 .. i - 1 : r[k] = x
      <4>1. i + 1 \in DOMAIN q /\ q[i + 1] = Newest(t, x.part)
        BY <1>1, <3>3
      <4>2. PICK k \in 1 .. i : q[k] = x
        BY <1>1, <2>1, <2>4, <3>3, <4>1 DEF InFlight
      <4>3. k # 1 /\ k - 1 \in 1 .. i - 1 /\ r[k - 1] = x
        BY <1>1, <2>1, <2>4, <3>3, <4>2
      <4> QED BY <4>3
    <3> QED BY <2>1, <3>1, <3>2, <3>3
  <2>5. InFlight(a.seen, r, t, st)
    BY <2>2, <2>3, <2>4 DEF InFlight
  <2>6. ASSUME NEW p \in Parts, Newest(t, p) \notin st \ a.seen PROVE a.view[p] = t[p]
    <3>1. CASE Newest(t, p) = e
      BY <1>4, <2>1, <3>1 DEF Newest
    <3>2. CASE Newest(t, p) # e
      <4>1. v[p] = t[p]
        BY <2>1, <2>6, <3>2 DEF Held
      <4>2. e.part # p
        <5>1. ASSUME e.part = p PROVE FALSE
          <6>1. Newest(t, p) \in st \ applied
            BY <1>4, <1>6, <3>2, <5>1 DEF InFlight
          <6> QED BY <2>1, <2>6, <3>2, <6>1
        <5> QED BY <5>1
      <4> QED BY <2>1, <4>1, <4>2
    <3> QED BY <3>1, <3>2
  <2> QED BY <2>5, <2>6 DEF Held, r
<1> QED BY <1>5, <1>6

(* An event repeated by the venue keeps what is in flight.                  *)
LEMMA RepeatKeeps ==
    ASSUME NEW t, NEW st, NEW applied, NEW S, NEW q \in Seq(S), NEW x \in st,
           InFlight(applied, q, t, st)
    PROVE  InFlight(applied, Append(q, x), t, st)
<1> DEFINE n == Len(q)
           r == Append(q, x)
<1>1. /\ n \in Nat /\ DOMAIN q = 1 .. n /\ DOMAIN r = 1 .. n + 1
      /\ \A i \in 1 .. n : r[i] = q[i]
      /\ r[n + 1] = x
  OBVIOUS
<1> HIDE DEF n, r
<1>2. \A i \in DOMAIN r : r[i] \in st
  <2>1. ASSUME NEW i \in DOMAIN r PROVE r[i] \in st
    <3>1. i \in 1 .. n \/ i = n + 1
      BY <1>1
    <3> QED BY <1>1, <3>1 DEF InFlight
  <2> QED BY <2>1
<1>3. ASSUME NEW e \in st, e \notin applied PROVE \E i \in DOMAIN r : r[i] = e
  <2>1. PICK i \in 1 .. n : q[i] = e
    BY <1>1, <1>3 DEF InFlight
  <2> QED BY <1>1, <2>1
<1>4. ASSUME NEW e \in st \ applied, e # Newest(t, e.part)
      PROVE  /\ Newest(t, e.part) \in st \ applied
             /\ \A i \in DOMAIN r : r[i] = Newest(t, e.part) => \E k \in 1 .. i - 1 : r[k] = e
  <2>1. Newest(t, e.part) \in st \ applied
    BY <1>4 DEF InFlight
  <2>2. ASSUME NEW i \in DOMAIN r, r[i] = Newest(t, e.part)
        PROVE  \E k \in 1 .. i - 1 : r[k] = e
    <3>1. CASE i \in 1 .. n
      <4>1. PICK k \in 1 .. i - 1 : q[k] = e
        BY <1>1, <1>4, <2>2, <3>1 DEF InFlight
      <4>2. k \in 1 .. n
        BY <1>1, <3>1
      <4> QED BY <1>1, <4>1, <4>2
    <3>2. CASE i = n + 1
      <4>1. PICK k \in 1 .. n : q[k] = e
        BY <1>1, <1>4 DEF InFlight
      <4>2. k \in 1 .. i - 1 /\ r[k] = e
        BY <1>1, <3>2, <4>1
      <4> QED BY <4>2
    <3> QED BY <1>1, <2>2, <3>1, <3>2
  <2> QED BY <2>1, <2>2
<1>5. InFlight(applied, r, t, st)
  BY <1>2, <1>3, <1>4 DEF InFlight
<1> QED BY <1>5 DEF r

(* So does a change of a part: its event is newer than all that was sent.   *)
LEMMA ChangeKeeps ==
    ASSUME NEW t \in [Parts -> Nat], NEW st \in SUBSET Known(t), NEW applied \in SUBSET Known(t),
           NEW S, NEW q \in Seq(S), InFlight(applied, q, t, st), NEW p \in Parts,
           NEW u, u = [t EXCEPT ![p] = @ + 1]
    PROVE  /\ InFlight(applied, Append(q, Newest(u, p)), u, st \cup {Newest(u, p)})
           /\ \A v, o : Held(v, applied, t, st, o) /\ o \in Parts
                        => Held(v, applied, u, st \cup {Newest(u, p)}, o)
<1> DEFINE n == Len(q)
           x == Newest(u, p)
           r == Append(q, x)
           su == st \cup {x}
<1>1. /\ n \in Nat /\ DOMAIN q = 1 .. n /\ DOMAIN r = 1 .. n + 1
      /\ \A i \in 1 .. n : r[i] = q[i]
      /\ r[n + 1] = x
  OBVIOUS
<1>2. x \notin Known(t)
  <2>1. x.version = t[p] + 1 /\ x.part = p /\ t[p] \in Nat
    BY DEF Newest
  <2> HIDE DEF x
  <2> QED BY <2>1 DEF Known
<1>3. \A o \in Parts : o # p => Newest(u, o) = Newest(t, o)
  BY DEF Newest
<1>4. x \notin st /\ x \notin applied
  BY <1>2
<1>5. x.part = p
  BY DEF Newest
<1> HIDE DEF n, x, r
<1>6. \A i \in DOMAIN r : r[i] \in su
  <2>1. ASSUME NEW i \in DOMAIN r PROVE r[i] \in su
    <3>1. i \in 1 .. n \/ i = n + 1
      BY <1>1
    <3> QED BY <1>1, <3>1 DEF InFlight
  <2> QED BY <2>1
<1>7. ASSUME NEW e \in su, e \notin applied PROVE \E i \in DOMAIN r : r[i] = e
  <2>1. CASE e = x
    BY <1>1, <2>1
  <2>2. CASE e # x
    <3>1. PICK i \in 1 .. n : q[i] = e
      BY <1>1, <1>7, <2>2 DEF InFlight
    <3> QED BY <1>1, <3>1
  <2> QED BY <2>1, <2>2
<1>8. ASSUME NEW e \in su \ applied, e # Newest(u, e.part)
      PROVE  /\ Newest(u, e.part) \in su \ applied
             /\ \A i \in DOMAIN r : r[i] = Newest(u, e.part) => \E k \in 1 .. i - 1 : r[k] = e
  <2>0. e # x /\ e \in st \ applied /\ e.part \in Parts
    <3>1. e # x
      BY <1>5, <1>8 DEF x
    <3> QED BY <1>8, <3>1 DEF Known
  <2>1. CASE e.part = p
    <3>1. Newest(u, e.part) = x
      BY <2>1 DEF x
    <3>2. ASSUME NEW i \in DOMAIN r, r[i] = x PROVE \E k \in 1 .. i - 1 : r[k] = e
      <4>1. i = n + 1
        <5>1. ASSUME i \in 1 .. n PROVE FALSE
          BY <1>1, <1>4, <3>2, <5>1 DEF InFlight
        <5> QED BY <1>1, <5>1
      <4>2. PICK k \in 1 .. n : q[k] = e
        BY <1>1, <2>0 DEF InFlight
      <4>3. k \in 1 .. i - 1 /\ r[k] = e
        BY <1>1, <4>1, <4>2
      <4> QED BY <4>3
    <3> QED BY <1>4, <3>1, <3>2
  <2>2. CASE e.part # p
    <3>1. Newest(u, e.part) = Newest(t, e.part) /\ e # Newest(t, e.part)
      BY <1>3, <1>8, <2>0, <2>2
    <3>2. Newest(t, e.part) \in st \ applied
      BY <2>0, <3>1 DEF InFlight
    <3>3. ASSUME NEW i \in DOMAIN r, r[i] = Newest(t, e.part)
          PROVE  \E k \in 1 .. i - 1 : r[k] = e
      <4>1. i \in 1 .. n
        BY <1>1, <1>4, <3>2, <3>3
      <4>2. PICK k \in 1 .. i - 1 : q[k] = e
        BY <1>1, <2>0, <3>1, <3>3, <4>1 DEF InFlight
      <4>3. k \in 1 .. n
        BY <1>1, <4>1
      <4> QED BY <1>1, <4>2, <4>3
    <3> QED BY <3>1, <3>2, <3>3
  <2> QED BY <2>1, <2>2
<1>9. InFlight(applied, r, u, su)
  BY <1>6, <1>7, <1>8 DEF InFlight
<1>10. ASSUME NEW v, NEW o \in Parts, Held(v, applied, t, st, o) PROVE Held(v, applied, u, su, o)
  <2>1. CASE o = p
    BY <1>4, <2>1 DEF Held, x
  <2>2. CASE o # p
    <3>1. Newest(u, o) = Newest(t, o) /\ u[o] = t[o]
      BY <1>3, <2>2
    <3> QED BY <1>10, <3>1 DEF Held
  <2> QED BY <2>1, <2>2
<1> QED BY <1>9, <1>10 DEF r, x

(* Everything the lane knows of the account was sent, or read from it.      *)
AccountTyped ==
    /\ truth \in [Parts -> Nat] /\ view \in [Parts -> Nat]
    /\ seen \subseteq Known(truth) /\ sent \subseteq Known(truth)
    /\ wire \in Seq(Frame(truth))
    /\ buffer \in Seq(Event(truth))
    /\ \A i \in DOMAIN buffer : buffer[i] # NONE
    /\ lane.snapshot \in Seq(Nat) /\ Len(lane.snapshot) <= 2

(* On a live stream the parts that were read, or the parts of a running     *)
(* lane, are the venue's but for what is buffered or on its way.            *)
AccountInv ==
    /\ AccountTyped
    /\ lane.state = "running" => buffer = <<>>
    /\ socket = "connecting" => sent = {}
    /\ socket = "open" /\ key.attached /\ Clean(buffer \o wire) =>
          /\ InFlight(seen, buffer \o wire, truth, sent)
          /\ lane.state = "running" => \A p \in Parts : Held(view, seen, truth, sent, p)
          /\ lane.state = "synchronizing" =>
                \A p \in 1 .. Len(lane.snapshot) : Held(lane.snapshot, seen, truth, sent, p)

(* Where no connection is open, the types are enough.                       *)
LEMMA ApartAccount ==
    ASSUME AccountInv, truth' = truth, seen' \subseteq Known(truth), view' \in [Parts -> Nat],
           sent' \in {sent, {}}, wire' = <<>>, buffer' = <<>>, lane'.snapshot = <<>>,
           socket' # "open", socket' = "connecting" => sent' = {}
    PROVE  AccountInv'
<1>1. /\ <<>> \in Seq(Frame(truth)) /\ <<>> \in Seq(Event(truth))
      /\ <<>> \in Seq(Nat) /\ Len(<<>>) = 0 /\ DOMAIN <<>> = {}
  OBVIOUS
<1> QED BY <1>1 DEF AccountInv, AccountTyped

(* A step that leaves the account and the stream as they were.              *)
LEMMA StayAccount ==
    ASSUME AccountInv, UNCHANGED <<truth, view, seen, sent, buffer, wire>>,
           socket' = socket \/ socket' = "failed", key'.attached => key.attached,
           lane'.state = lane.state, lane'.snapshot = lane.snapshot
    PROVE  AccountInv'
BY DEF AccountInv, AccountTyped

(* A restart ends the connection.                                           *)
LEMMA RestartEnds ==
    ASSUME NEW l \in LaneFields, NEW b, NEW s, NEW w, OneSessionInv, lane.desired,
           lane.state # "backoff", ScheduleRestart(l, b, s, w)
    PROVE  /\ lane'.state = "backoff" /\ lane'.snapshot = <<>>
           /\ socket' = "none" /\ wire' = <<>> /\ buffer' = <<>>
<1>1. lane \in LaneFields
  BY DEF OneSessionInv, SessionInv, Typed
<1>2. ~lane.restartPending
  BY <1>1 DEF OneSessionInv, OneStartInv, LaneFields
<1> QED BY <1>1, <1>2 DEF ScheduleRestart, LaneFields

(* Events the venue can have sent keep the types of an account.             *)
IsAccount(a, t) ==
    /\ a.view \in [Parts -> Nat] /\ a.seen \in SUBSET Known(t) /\ a.refused \in BOOLEAN
    /\ a = [view |-> a.view, seen |-> a.seen, refused |-> a.refused]

LEMMA ApplyTyped ==
    ASSUME NEW t, NEW b, IsAccount(b, t), NEW e \in Event(t)
    PROVE  IsAccount(Apply(b, e), t)
<1> DEFINE v == b.view
           o == b.seen
           h == b.refused
<1>1. /\ v \in [Parts -> Nat] /\ o \in SUBSET Known(t) /\ h \in BOOLEAN
      /\ b = [view |-> v, seen |-> o, refused |-> h]
  BY DEF IsAccount
<1> HIDE DEF v, o, h
<1>2. CASE h \/ e = REFUSED
  <2>1. Apply(b, e) = [view |-> v, seen |-> o, refused |-> TRUE]
    BY <1>1, <1>2 DEF Apply
  <2> DEFINE c == Apply(b, e)
  <2>2. c.view = v /\ c.seen = o /\ c.refused = TRUE
    BY <2>1
  <2> HIDE DEF c
  <2> QED BY <1>1, <2>1, <2>2 DEF IsAccount, c
<1>3. CASE ~(h \/ e = REFUSED) /\ (e = EXPIRED \/ e \in o)
  <2>1. Apply(b, e) = b
    BY <1>1, <1>3 DEF Apply
  <2> QED BY <1>1, <2>1 DEF IsAccount
<1>4. CASE ~(h \/ e = REFUSED) /\ ~(e = EXPIRED \/ e \in o)
  <2>1. Apply(b, e) =
            [view |-> [v EXCEPT ![e.part] = e.version], seen |-> o \cup {e}, refused |-> FALSE]
    BY <1>1, <1>4 DEF Apply, Holding
  <2>2. e \in Known(t) /\ e.version \in Nat
    BY <1>4 DEF Known, Event
  <2> DEFINE c == Apply(b, e)
  <2>3. /\ c.view = [v EXCEPT ![e.part] = e.version] /\ c.seen = o \cup {e}
        /\ c.refused = FALSE
    BY <2>1
  <2>4. c.view \in [Parts -> Nat] /\ c.seen \in SUBSET Known(t)
    <3> HIDE DEF c
    <3> QED BY <1>1, <2>2, <2>3
  <2> HIDE DEF c
  <2> QED BY <2>1, <2>3, <2>4 DEF IsAccount, c
<1> QED BY <1>2, <1>3, <1>4

(* What a refused account leaves is no version of the venue's; any other is *)
(* left as it is.                                                           *)
LEMMA LeftTyped ==
    ASSUME NEW t, NEW a, IsAccount(a, t)
    PROVE  Left(a) \subseteq [Parts -> Nat] /\ (~a.refused => Left(a) = {a.view})
BY DEF IsAccount, Left

(* What is left of a queue when its first i entries are gone.               *)
Rest(q, i) == SubSeq(q, i + 1, Len(q))

IsSplit(S, b, w) ==
    /\ Rest(b \o w, 0) = b \o w /\ Rest(b \o w, Len(b)) = w
    /\ \A i \in 0 .. Len(b) - 1 :
          /\ Rest(b \o w, i) \in Seq(S) /\ Rest(b \o w, i) # <<>>
          /\ Head(Rest(b \o w, i)) = b[i + 1]
          /\ Tail(Rest(b \o w, i)) = Rest(b \o w, i + 1)
          /\ \A j \in DOMAIN Rest(b \o w, i) :
                \E k \in DOMAIN (b \o w) : Rest(b \o w, i)[j] = (b \o w)[k]

LEMMA Remains ==
    ASSUME NEW S, NEW b \in Seq(S), NEW w \in Seq(S)
    PROVE  IsSplit(S, b, w)
<1> DEFINE q == b \o w
           n == Len(q)
           m == Len(b)
<1>1. /\ q \in Seq(S) /\ n \in Nat /\ m \in Nat /\ m <= n /\ n = m + Len(w) /\ Len(w) \in Nat
      /\ DOMAIN q = 1 .. n
      /\ \A i \in 1 .. m : q[i] = b[i]
      /\ \A i \in 1 .. Len(w) : q[i + m] = w[i]
  OBVIOUS
<1> HIDE DEF q, n, m
<1>2. Rest(q, 0) = q
  BY <1>1 DEF Rest
<1>3. Rest(q, m) = w
  <2> DEFINE r == SubSeq(q, m + 1, n)
  <2>1. r \in Seq(S) /\ Len(r) = Len(w) /\ \A i \in 1 .. Len(w) : r[i] = q[i + m]
    BY <1>1 DEF n
  <2>2. \A i \in 1 .. Len(w) : r[i] = w[i]
    BY <1>1, <2>1
  <2> HIDE DEF r
  <2>3. r = w
    BY <2>1, <2>2
  <2> QED BY <2>3 DEF r, n, Rest
<1>4. ASSUME NEW i \in 0 .. m - 1
      PROVE  /\ Rest(q, i) \in Seq(S) /\ Rest(q, i) # <<>> /\ Head(Rest(q, i)) = b[i + 1]
             /\ Tail(Rest(q, i)) = Rest(q, i + 1)
             /\ \A j \in DOMAIN Rest(q, i) : \E k \in DOMAIN q : Rest(q, i)[j] = q[k]
  <2> DEFINE r == SubSeq(q, i + 1, n)
             u == SubSeq(q, i + 2, n)
  <2>1. i + 1 \in 1 .. m /\ i + 1 <= n /\ i \in Nat
    BY <1>1
  <2>2. r \in Seq(S) /\ Len(r) = n - i /\ \A j \in 1 .. n - i : r[j] = q[i + j]
    BY <1>1, <2>1
  <2>3. u \in Seq(S) /\ Len(u) = n - i - 1 /\ \A j \in 1 .. n - i - 1 : u[j] = q[i + 1 + j]
    <3>1. i + 2 \in Int /\ n \in Int /\ n - (i + 2) + 1 = n - i - 1
          /\ (i + 2 > n => n - i - 1 = 0)
      BY <1>1, <2>1
    <3>2. \A j \in i + 2 .. n : q[j] \in S
      BY <1>1, <2>1
    <3>3. /\ u \in Seq(S) /\ Len(u) = IF i + 2 <= n THEN n - (i + 2) + 1 ELSE 0
          /\ \A j \in 1 .. n - (i + 2) + 1 : u[j] = q[i + 2 + j - 1]
      BY <3>1, <3>2, SubSeqProperties
    <3>4. \A j \in 1 .. n - i - 1 : i + 2 + j - 1 = i + 1 + j
      BY <1>1, <2>1
    <3> HIDE DEF r, u
    <3> QED BY <3>1, <3>3, <3>4
  <2>7. Rest(q, i) = r /\ Rest(q, i + 1) = u
    BY <1>1, <2>1 DEF Rest, n
  <2> HIDE DEF r, u
  <2>4. r # <<>> /\ Head(r) = b[i + 1]
    BY <1>1, <2>1, <2>2
  <2>5. Tail(r) = u
    <3>1. /\ Tail(r) \in Seq(S) /\ Len(Tail(r)) = n - i - 1
          /\ \A j \in 1 .. n - i - 1 : Tail(r)[j] = r[j + 1]
      BY <1>1, <2>1, <2>2, <2>4
    <3>2. \A j \in 1 .. n - i - 1 : Tail(r)[j] = u[j]
      BY <1>1, <2>1, <2>2, <2>3, <3>1
    <3> QED BY <2>3, <3>1, <3>2
  <2>6. ASSUME NEW j \in DOMAIN r PROVE \E k \in DOMAIN q : r[j] = q[k]
    <3>1. j \in 1 .. n - i
      BY <1>1, <2>1, <2>2
    <3>2. i + j \in DOMAIN q
      BY <1>1, <2>1, <3>1
    <3> QED BY <2>2, <3>1, <3>2
  <2> QED BY <2>2, <2>4, <2>5, <2>6, <2>7
<1> QED BY <1>2, <1>3, <1>4 DEF q, m, IsSplit

(* The snapshot with the buffered events is an account.                     *)
LEMMA SynchronizedTyped ==
    ASSUME NEW t, NEW base, IsAccount(base, t), NEW b \in Seq(Event(t)),
           NEW f, FoldSteps(f, base, b, Len(b))
    PROVE  \A i \in 0 .. Len(b) : IsAccount(f[1 .. i], t)
<1> DEFINE k == Len(b)
           D == {i \in Nat : i <= k => IsAccount(f[1 .. i], t)}
<1>1. k \in Nat /\ \A i \in 1 .. k : b[i] \in Event(t)
  OBVIOUS
<1>2. FoldSteps(f, base, b, k)
  OBVIOUS
<1> HIDE DEF k
<1>3. 0 \in D
  <2>1. f[1 .. 0] = base
    BY <1>2 DEF FoldSteps
  <2>2. IsAccount(f[1 .. 0], t)
    BY <2>1
  <2> QED BY <2>2
<1>4. ASSUME NEW i \in Nat, i \in D PROVE i + 1 \in D
  <2>1. SUFFICES ASSUME i + 1 <= k PROVE IsAccount(f[1 .. i + 1], t)
    BY <1>4
  <2>2. i \in 0 .. k - 1 /\ i + 1 \in 1 .. k /\ i <= k
    BY <1>1, <2>1
  <2>3. f[1 .. i + 1] = Apply(f[1 .. i], b[i + 1])
    BY <1>2, <2>2 DEF FoldSteps
  <2>4. IsAccount(f[1 .. i], t)
    BY <1>4, <2>2
  <2>5. IsAccount(Apply(f[1 .. i], b[i + 1]), t)
    BY <1>1, <2>2, <2>4, ApplyTyped
  <2> QED BY <2>3, <2>5
<1>5. Nat \subseteq D
  <2> HIDE DEF D
  <2> QED BY <1>3, <1>4, NatSetInduction
<1>6. ASSUME NEW i \in 0 .. k PROVE IsAccount(f[1 .. i], t)
  BY <1>1, <1>5
<1> QED BY <1>6 DEF k

(* An account is refused by a refused event alone.                          *)
LEMMA Unrefused ==
    ASSUME NEW base, ~base.refused, NEW k \in Nat, NEW b, NEW f, FoldSteps(f, base, b, k),
           \A i \in 1 .. k : b[i] # REFUSED
    PROVE  \A i \in 0 .. k : ~f[1 .. i].refused
<1> DEFINE D == {i \in Nat : i <= k => ~f[1 .. i].refused}
<1>1. 0 \in D
  BY DEF FoldSteps
<1>2. ASSUME NEW i \in Nat, i \in D PROVE i + 1 \in D
  <2>1. SUFFICES ASSUME i + 1 <= k PROVE ~f[1 .. i + 1].refused
    BY <1>2
  <2>2. i \in 0 .. k - 1 /\ i + 1 \in 1 .. k /\ ~f[1 .. i].refused
    BY <1>2, <2>1
  <2>3. f[1 .. i + 1] = Apply(f[1 .. i], b[i + 1]) /\ b[i + 1] # REFUSED
    BY <2>2 DEF FoldSteps
  <2>4. ASSUME NEW a, ~a.refused, NEW e, e # REFUSED PROVE ~Apply(a, e).refused
    BY <2>4 DEF Apply, Holding
  <2> QED BY <2>2, <2>3, <2>4
<1>3. Nat \subseteq D
  <2> HIDE DEF D
  <2> QED BY <1>1, <1>2, NatSetInduction
<1> QED BY <1>3

(* Applying what was buffered leaves in flight what is not yet delivered.   *)
LEMMA SynchronizedKeeps ==
    ASSUME NEW s \in [Parts -> Nat], NEW t \in [Parts -> Nat], NEW st \in SUBSET Known(t),
           NEW applied \in SUBSET Known(t),
           NEW b \in Seq(Event(t)), NEW w \in Seq(Frame(t)),
           NEW base, base = Holding(s, applied),
           NEW f, FoldSteps(f, base, b, Len(b)),
           Clean(b \o w), InFlight(applied, b \o w, t, st),
           \A p \in Parts : Held(s, applied, t, st, p)
    PROVE  /\ InFlight(f[1 .. Len(b)].seen, w, t, st)
           /\ \A p \in Parts : Held(f[1 .. Len(b)].view, f[1 .. Len(b)].seen, t, st, p)
<1> DEFINE S == Frame(t)
           k == Len(b)
           q == b \o w
           r(i) == Rest(q, i)
           Kept(i) == /\ InFlight(f[1 .. i].seen, r(i), t, st)
                      /\ \A p \in Parts : Held(f[1 .. i].view, f[1 .. i].seen, t, st, p)
           D == {i \in Nat : i <= k => Kept(i)}
<1>1. k \in Nat /\ b \in Seq(S) /\ w \in Seq(S)
  <2>1. b \in Seq(S)
    <3>1. Event(t) \subseteq S
      BY DEF Frame
    <3> HIDE DEF S
    <3> QED BY <3>1
  <2> QED BY <2>1
<1>2. FoldSteps(f, base, b, k)
  OBVIOUS
<1>3. /\ r(0) = q /\ r(k) = w
      /\ \A i \in 0 .. k - 1 :
            /\ r(i) \in Seq(S) /\ r(i) # <<>> /\ Head(r(i)) = b[i + 1]
            /\ Tail(r(i)) = r(i + 1)
            /\ \A j \in DOMAIN r(i) : \E h \in DOMAIN q : r(i)[j] = q[h]
  <2> HIDE DEF S
  <2>1. IsSplit(S, b, w)
    BY <1>1, Remains
  <2> QED BY <2>1 DEF IsSplit
<1>4. Clean(q)
  OBVIOUS
<1>5. \A i \in 0 .. k : IsAccount(f[1 .. i], t)
  <2>1. IsAccount(base, t)
    BY DEF IsAccount, Holding
  <2> QED BY <2>1, SynchronizedTyped
<1>10. \A i \in 0 .. k : ~f[1 .. i].refused
  <2>1. ~base.refused
    BY DEF Holding
  <2>2. \A i \in 1 .. k : b[i] # REFUSED
    <3>1. \A i \in 1 .. k : i \in DOMAIN q /\ q[i] = b[i]
      <4> HIDE DEF S
      <4> QED BY <1>1
    <3> QED BY <1>4, <3>1 DEF Clean
  <2> HIDE DEF k, q
  <2> QED BY <1>1, <1>2, <2>1, <2>2, Unrefused
<1>6. 0 \in D
  <2>1. f[1 .. 0] = base
    BY <1>2 DEF FoldSteps
  <2>2. r(0) = q
    BY <1>3
  <2> HIDE DEF r
  <2>3. f[1 .. 0].seen = applied /\ f[1 .. 0].view = s
    BY <2>1 DEF Holding
  <2>4. Kept(0)
    BY <2>2, <2>3
  <2> HIDE DEF Kept
  <2> QED BY <2>4
<1> HIDE DEF r, q, k, S
<1>7. ASSUME NEW i \in Nat, i \in D PROVE i + 1 \in D
  <2>1. SUFFICES ASSUME i + 1 <= k PROVE Kept(i + 1)
    BY <1>7
  <2>2. i \in 0 .. k - 1 /\ i <= k /\ i \in 0 .. k
    BY <1>1, <2>1
  <2>3. Kept(i)
    BY <1>7, <2>2
  <2>4. f[1 .. i + 1] = Apply(f[1 .. i], b[i + 1])
    BY <1>2, <2>2 DEF FoldSteps
  <2> DEFINE v == f[1 .. i].view
             o == f[1 .. i].seen
             a == f[1 .. i + 1]
  <2>5. v \in [Parts -> Nat] /\ a = Apply(Holding(v, o), Head(r(i)))
    <3>1. IsAccount(f[1 .. i], t) /\ f[1 .. i].refused = FALSE
      BY <1>5, <1>10, <2>2 DEF IsAccount
    <3> QED BY <1>3, <2>2, <2>4, <3>1 DEF IsAccount, Holding
  <2>6. InFlight(o, r(i), t, st) /\ \A p \in Parts : Held(v, o, t, st, p)
    BY <2>3
  <2>7. r(i) \in Seq(S) /\ r(i) # <<>> /\ Tail(r(i)) = r(i + 1)
    BY <1>3, <2>2
  <2>8. Clean(r(i))
    BY <1>3, <1>4, <2>2 DEF Clean
  <2> HIDE DEF v, o, a
  <2>9. InFlight(a.seen, r(i + 1), t, st) /\ \A p \in Parts : Held(a.view, a.seen, t, st, p)
    BY <2>5, <2>6, <2>7, <2>8, ApplyKeeps
  <2> QED BY <2>9 DEF a
<1>8. Nat \subseteq D
  <2> HIDE DEF D
  <2> QED BY <1>6, <1>7, NatSetInduction
<1>9. Kept(k)
  BY <1>1, <1>8
<1> QED BY <1>3, <1>9 DEF k

(* What happens to the events that are buffered, b, and on their way, w.    *)
LEMMA QueueMoves ==
    ASSUME NEW S, NEW b \in Seq(S), NEW w \in Seq(S), NEW x \in S
    PROVE  /\ <<>> \o w = w
           /\ b \o Append(w, x) = Append(b \o w, x)
           /\ w # <<>> => /\ Head(w) \in S /\ Tail(w) \in Seq(S)
                          /\ Append(b, Head(w)) \o Tail(w) = b \o w
<1>1. <<>> \o w = w
  OBVIOUS
<1>2. b \o Append(w, x) = Append(b \o w, x)
  <2> DEFINE l == b \o Append(w, x)
             r == Append(b \o w, x)
             n == Len(b) + Len(w) + 1
  <2>1. n \in Nat /\ l \in Seq(S) /\ r \in Seq(S) /\ Len(l) = n /\ Len(r) = n
    OBVIOUS
  <2>2. \A i \in 1 .. n : l[i] = r[i]
    OBVIOUS
  <2> HIDE DEF l, r, n
  <2>3. l = r
    BY <2>1, <2>2
  <2> QED BY <2>3 DEF l, r
<1>3. ASSUME w # <<>>
      PROVE  /\ Head(w) \in S /\ Tail(w) \in Seq(S)
             /\ Append(b, Head(w)) \o Tail(w) = b \o w
  <2> DEFINE l == Append(b, Head(w)) \o Tail(w)
             r == b \o w
             n == Len(b) + Len(w)
             h == Head(w)
             u == Tail(w)
  <2>1. /\ h \in S /\ u \in Seq(S) /\ h = w[1] /\ Len(u) = Len(w) - 1
        /\ \A i \in 1 .. Len(w) - 1 : u[i] = w[i + 1]
    BY <1>3
  <2>2. n \in Nat /\ l \in Seq(S) /\ r \in Seq(S) /\ Len(l) = n /\ Len(r) = n
    BY <1>3
  <2>3. /\ \A i \in 1 .. Len(b) : l[i] = b[i] /\ r[i] = b[i]
        /\ l[Len(b) + 1] = h /\ r[Len(b) + 1] = w[1]
        /\ \A i \in 1 .. Len(w) - 1 : l[Len(b) + 1 + i] = u[i] /\ r[Len(b) + 1 + i] = w[1 + i]
    BY <1>3
  <2> DEFINE m == Len(b)
             k == Len(w)
  <2>4. /\ m \in Nat /\ k \in Nat /\ n = m + k
        /\ \A i \in 1 .. m : l[i] = r[i]
        /\ l[m + 1] = r[m + 1]
        /\ \A j \in 1 .. k - 1 : l[m + 1 + j] = r[m + 1 + j]
    <3>1. m \in Nat /\ k \in Nat /\ n = m + k
      OBVIOUS
    <3>2. l[m + 1] = r[m + 1] /\ \A i \in 1 .. m : l[i] = r[i]
      <4> HIDE DEF l, r, h, u
      <4> QED BY <2>1, <2>3
    <3>3. ASSUME NEW j \in 1 .. k - 1 PROVE l[m + 1 + j] = r[m + 1 + j]
      <4> HIDE DEF l, r, h, u
      <4>1. u[j] = w[j + 1] /\ j + 1 = 1 + j
        BY <2>1
      <4>2. l[m + 1 + j] = u[j] /\ r[m + 1 + j] = w[1 + j]
        BY <2>3
      <4> QED BY <4>1, <4>2
    <3> HIDE DEF l, r, n, k, m
    <3> QED BY <3>1, <3>2, <3>3
  <2>5. ASSUME NEW i \in 1 .. n PROVE l[i] = r[i]
    <3> HIDE DEF l, r, h, u, m, k, n
    <3>1. i \in 1 .. m \/ i = m + 1 \/ (i - m - 1 \in 1 .. k - 1 /\ m + 1 + (i - m - 1) = i)
      BY <2>4
    <3> QED BY <2>4, <3>1
  <2> HIDE DEF l, r, h, u, m, k, n
  <2>6. l = r
    BY <2>2, <2>5
  <2> QED BY <2>1, <2>6 DEF l, r, h, u
<1> QED BY <1>1, <1>2, <1>3

(* Starting, stopping, restarting and being granted a listen key: none of   *)
(* them has a connection open.                                              *)
LEMMA SessionAccount ==
    ASSUME OneSessionInv, AccountInv,
           Start \/ Stop \/ RestartTimer \/ ("current" \in creates /\ Created("current"))
    PROVE  AccountInv'
<1>0. lane \in LaneFields /\ ConnectionInv /\ StopLeavesNothing
  BY DEF OneSessionInv, SessionInv, Typed
<1>1. view \in [Parts -> Nat] /\ seen \subseteq Known(truth)
  BY DEF AccountInv, AccountTyped
<1>2. CASE Start \/ RestartTimer
  <2>1. socket = "none" /\ wire = <<>>
    BY <1>0, <1>2 DEF Start, RestartTimer, StopLeavesNothing, ConnectionInv, Live
  <2>2. buffer' = <<>> /\ lane'.snapshot = <<>> /\ UNCHANGED <<view, seen, socket, wire, truth, sent>>
    BY <1>0, <1>2 DEF Start, RestartTimer, Connect, Restarted, LaneFields, account, venue
  <2> QED BY <1>1, <2>1, <2>2, ApartAccount
<1>3. CASE Stop
  <2>1. /\ lane'.snapshot = <<>> /\ buffer' = <<>> /\ socket' = "none" /\ wire' = <<>>
        /\ UNCHANGED <<view, seen, truth, sent>>
    BY <1>0, <1>3 DEF Stop, LaneFields, account, venue
  <2> QED BY <1>1, <2>1, ApartAccount
<1>4. CASE "current" \in creates /\ Created("current")
  <2>1. lane.state = "connecting" /\ wire = <<>> /\ buffer = <<>> /\ lane.snapshot = <<>>
    BY <1>0, <1>4 DEF ConnectionInv, Live
  <2>2. /\ lane'.snapshot = lane.snapshot /\ sent' = {} /\ socket' = "connecting"
        /\ UNCHANGED <<buffer, view, seen, wire, truth>>
    BY <1>0, <1>4 DEF Created, LaneFields, account
  <2> QED BY <1>1, <2>1, <2>2, ApartAccount
<1> QED BY <1>2, <1>3, <1>4

(* A request or a connection that fails: the lane restarts.                 *)
LEMMA FailureAccount ==
    ASSUME OneSessionInv, AccountInv,
           \/ "current" \in creates /\ CreateFails("current")
           \/ lane.ping /\ PingFailed /\ UNCHANGED <<account, venue>>
           \/ SnapshotFails \/ SocketEnds
    PROVE  AccountInv'
<1>0. lane \in LaneFields /\ ConnectionInv /\ StopLeavesNothing /\ AwaitedIsWanted
  BY DEF OneSessionInv, SessionInv, Typed
<1>1. view \in [Parts -> Nat] /\ seen \subseteq Known(truth)
  BY DEF AccountInv, AccountTyped
<1>2. lane.desired /\ lane.state # "backoff"
  BY <1>0 DEF ConnectionInv, StopLeavesNothing, AwaitedIsWanted, SnapshotFails, SocketEnds
<1>3. SnapshotRead \in LaneFields /\ [lane EXCEPT !.ping = FALSE] \in LaneFields
  BY <1>0, SnapshotGrows DEF SnapshotRead, LaneFields
<1>4. PICK l, s : l \in LaneFields /\ ScheduleRestart(l, buffer, s, wire)
  BY <1>0, <1>3 DEF CreateFails, PingFailed, SnapshotFails, SocketEnds
<1>5. /\ lane'.state = "backoff" /\ lane'.snapshot = <<>>
      /\ socket' = "none" /\ wire' = <<>> /\ buffer' = <<>>
  BY <1>2, <1>4, RestartEnds
<1>6. UNCHANGED <<view, seen, truth, sent>>
  BY DEF CreateFails, PingFailed, SnapshotFails, SocketEnds, account, venue
<1> QED BY <1>1, <1>5, <1>6, ApartAccount

(* A snapshot of both parts gives a version to each.                        *)
LEMMA SnapshotOfParts ==
    ASSUME NEW s \in Seq(Nat), Len(s) = 2
    PROVE  s \in [Parts -> Nat]
BY DEF Parts

(* A snapshot that is refused ends the connection too.                      *)
LEMMA RefusedAccount ==
    ASSUME OneSessionInv, AccountInv, SnapshotRefused
    PROVE  AccountInv'
<1>1. lane.state = "synchronizing" /\ lane.desired /\ lane \in LaneFields
  <2>1. lane.snapshot # <<>>
    BY DEF SnapshotRefused
  <2> QED BY <2>1, SnapshotAwaited DEF OneSessionInv, SessionInv, Typed
<1>2. view \in [Parts -> Nat] /\ seen \subseteq Known(truth)
  BY DEF AccountInv, AccountTyped
<1>3. view' \in [Parts -> Nat] /\ UNCHANGED <<seen, truth, sent>>
  <2>1. lane.snapshot \in [Parts -> Nat]
    BY SnapshotOfParts DEF SnapshotRefused, AccountInv, AccountTyped
  <2> QED BY <1>2, <2>1 DEF SnapshotRefused, venue
<1>4. SnapshotRead \in LaneFields
  BY <1>1, SnapshotGrows DEF SnapshotRead, LaneFields
<1>5. ScheduleRestart(SnapshotRead, buffer, socket, wire)
  BY DEF SnapshotRefused
<1>6. /\ lane'.state = "backoff" /\ lane'.snapshot = <<>>
      /\ socket' = "none" /\ wire' = <<>> /\ buffer' = <<>>
  BY <1>1, <1>4, <1>5, RestartEnds
<1> QED BY <1>2, <1>3, <1>6, ApartAccount

(* What does not touch the stream: DELETEs, keepalives, a key nobody waits  *)
(* for, a connection lost.                                                  *)
LEMMA AsideAccount ==
    ASSUME OneSessionInv, AccountInv,
           \/ \E c \in creates : c = "stale" /\ (Created(c) \/ CreateFails(c))
           \/ \E c \in closing : Closed(c) \/ CloseFails(c)
           \/ KeepAliveFires \/ DeleteArrivesLate \/ SocketLost
           \/ /\ lane' = [lane EXCEPT !.ping = FALSE]
              /\ UNCHANGED <<buffer, socket, wire, account, venue>>
           \/ UNCHANGED vars
    PROVE  AccountInv'
<1>0. /\ lane \in LaneFields
      /\ key \in [alive : BOOLEAN, attached : BOOLEAN, late : BOOLEAN, leaked : BOOLEAN]
  BY DEF OneSessionInv, SessionInv, Typed
<1>1. UNCHANGED <<truth, view, seen, sent, buffer, wire>> /\ (socket' = socket \/ socket' = "failed")
  BY DEF Created, CreateFails, Closed, CloseFails, KeepAliveFires, DeleteArrivesLate, SocketLost,
         Unmoved, account, venue, vars
<1>2. key'.attached => key.attached
  BY <1>0 DEF Created, CreateFails, Closed, CloseFails, KeepAliveFires, DeleteArrivesLate,
              SocketLost, NoKey, venue, vars
<1>3. lane'.state = lane.state /\ lane'.snapshot = lane.snapshot
  BY <1>0 DEF Created, CreateFails, Closed, CloseFails, KeepAliveFires, DeleteArrivesLate,
              SocketLost, AfterCleanup, Unmoved, vars, LaneFields
<1> QED BY <1>1, <1>2, <1>3, StayAccount

(* One more part of the account is read.                                    *)
LEMMA PartIsRead ==
    ASSUME NEW o \in Seq(Nat), Len(o) < 2, NEW t \in [Parts -> Nat],
           NEW s, s = Append(o, t[Len(o) + 1])
    PROVE  /\ Len(o) \in Nat /\ s \in Seq(Nat) /\ Len(s) = Len(o) + 1 /\ Len(s) <= 2
           /\ s[Len(o) + 1] = t[Len(o) + 1] /\ \A p \in 1 .. Len(o) : s[p] = o[p]
<1>1. Len(o) \in Nat
  BY LenProperties
<1>2. Len(o) + 1 \in Parts
  BY <1>1 DEF Parts
<1>3. t[Len(o) + 1] \in Nat
  BY <1>2
<1> QED BY <1>1, <1>3

(* The connection opens with nothing on its way; the snapshot is read part  *)
(* by part, each part as the venue has it then.                             *)
LEMMA OpeningAccount ==
    ASSUME OneSessionInv, AccountInv, OnOpen \/ SnapshotReads
    PROVE  AccountInv'
<1>0. lane \in LaneFields /\ ConnectionInv
  BY DEF OneSessionInv, SessionInv, Typed
<1>1. CASE OnOpen
  <2>1. lane.state = "connecting" /\ wire = <<>> /\ buffer = <<>> /\ lane.snapshot = <<>> /\ sent = {}
    BY <1>0, <1>1 DEF OnOpen, ConnectionInv, Live, AccountInv
  <2>2. /\ lane'.state = "synchronizing" /\ lane'.snapshot = lane.snapshot /\ socket' = "open"
        /\ UNCHANGED <<buffer, view, seen, wire, truth, sent>>
    BY <1>0, <1>1 DEF OnOpen, LaneFields, account, venue
  <2>3. AccountTyped'
    BY <2>2 DEF AccountInv, AccountTyped
  <2>4. DOMAIN (<<>> \o <<>>) = {} /\ Len(<<>>) = 0
    OBVIOUS
  <2>5. InFlight(seen, <<>> \o <<>>, truth, {})
    BY <2>4 DEF InFlight
  <2> QED BY <2>1, <2>2, <2>3, <2>4, <2>5 DEF AccountInv
<1>2. CASE SnapshotReads
  <2> DEFINE o == lane.snapshot
             n == Len(o)
             v == truth[n + 1]
             s == Append(o, v)
  <2>1. Len(o) < 2 /\ o \in Seq(Nat) /\ truth \in [Parts -> Nat]
    BY <1>2 DEF SnapshotReads, AccountInv, AccountTyped
  <2>2. /\ n \in Nat /\ s \in Seq(Nat) /\ Len(s) = n + 1 /\ Len(s) <= 2
        /\ s[n + 1] = v /\ \A p \in 1 .. n : s[p] = o[p]
    <3> HIDE DEF s, o
    <3>1. s = Append(o, truth[Len(o) + 1])
      BY DEF s
    <3> QED BY <2>1, <3>1, PartIsRead
  <2>3. /\ lane'.snapshot = s /\ lane'.state = lane.state /\ lane.state = "synchronizing"
        /\ UNCHANGED <<buffer, view, seen, socket, wire, truth, key, sent>>
    BY <1>0, <1>2 DEF SnapshotReads, LaneFields, account, venue, ConnectionInv
  <2> HIDE DEF s
  <2>4. AccountTyped'
    <3> HIDE DEF n, o, v
    <3> QED BY <2>2, <2>3 DEF AccountInv, AccountTyped
  <2>5. ASSUME \A p \in 1 .. n : Held(lane.snapshot, seen, truth, sent, p)
        PROVE  \A p \in 1 .. Len(s) : Held(s, seen, truth, sent, p)
    <3>1. ASSUME NEW p \in 1 .. n + 1 PROVE Held(s, seen, truth, sent, p)
      <4>1. p \in 1 .. n \/ p = n + 1
        BY <2>1
      <4> QED BY <2>2, <2>5, <4>1 DEF Held
    <3> QED BY <2>2, <3>1
  <2> QED BY <2>3, <2>4, <2>5 DEF AccountInv
<1> QED BY <1>1, <1>2

(* A part of the account changes: its event is on its way, or it was        *)
(* damaged, or nobody listens.                                              *)
LEMMA ChangesAccount ==
    ASSUME AccountInv, NEW p \in Parts, Changes(p)
    PROVE  AccountInv'
<1> DEFINE e == Newest(truth', p)
           S == Frame(truth)
           T == Frame(truth')
<1>1. AccountTyped /\ truth \in [Parts -> Nat] /\ truth' = [truth EXCEPT ![p] = @ + 1]
  BY DEF AccountInv, AccountTyped, Changes
<1>2. UNCHANGED <<lane, buffer, view, seen, socket, key>>
  BY DEF Changes, Unmoved, account
<1>3. Known(truth) \subseteq Known(truth') /\ truth' \in [Parts -> Nat] /\ e \in Known(truth')
  <2>1. truth' \in [Parts -> Nat] /\ \A o \in Parts : truth[o] <= truth'[o] /\ truth[o] \in Nat
    BY <1>1
  <2> QED BY <2>1 DEF Known, Newest
<1>4. \/ UNCHANGED <<wire, sent>> /\ ~(socket = "open" /\ key.attached)
      \/ /\ socket = "open" /\ key.attached /\ sent' = sent \cup {e}
         /\ \E x \in {e, NONE, REFUSED} : wire' = Append(wire, x)
  <2>1. e = [part |-> p, version |-> truth[p] + 1]
    BY <1>1 DEF Newest
  <2> QED BY <2>1 DEF Changes
<1> HIDE DEF e
<1>5. S \subseteq T /\ e \in T /\ NONE \in T /\ REFUSED \in T
  BY <1>3 DEF Frame, Event
<1>6. AccountTyped'
  <2>1. wire \in Seq(T)
    <3>1. wire \in Seq(S)
      BY <1>1 DEF AccountTyped
    <3> HIDE DEF S, T
    <3> QED BY <1>5, <3>1
  <2>2. wire' \in Seq(T)
    <3> HIDE DEF T
    <3> QED BY <1>4, <1>5, <2>1
  <2>3. buffer \in Seq(Event(truth'))
    <3> DEFINE B == Event(truth)
               C == Event(truth')
    <3>1. buffer \in Seq(B) /\ B \subseteq C
      BY <1>1, <1>3 DEF AccountTyped, Event
    <3> HIDE DEF B, C
    <3>2. buffer \in Seq(C)
      BY <3>1
    <3> QED BY <3>2 DEF C
  <2>4. sent' \subseteq Known(truth') /\ seen' \subseteq Known(truth')
    BY <1>1, <1>2, <1>3, <1>4 DEF AccountTyped
  <2> QED BY <1>1, <1>2, <1>3, <2>2, <2>3, <2>4 DEF AccountTyped
<1>7. socket' = "connecting" => sent' = {}
  BY <1>2, <1>4 DEF AccountInv
<1>8. ASSUME socket' = "open", key'.attached, Clean(buffer' \o wire')
      PROVE  /\ InFlight(seen', buffer' \o wire', truth', sent')
             /\ lane'.state = "running" => \A o \in Parts : Held(view', seen', truth', sent', o)
             /\ lane'.state = "synchronizing" =>
                   \A o \in 1 .. Len(lane'.snapshot) :
                      Held(lane'.snapshot, seen', truth', sent', o)
  <2> DEFINE q == buffer \o wire
  <2>1. buffer \in Seq(S) /\ wire \in Seq(S)
    <3> DEFINE B == Event(truth)
    <3>1. buffer \in Seq(B) /\ B \subseteq S /\ wire \in Seq(S)
      BY <1>1 DEF AccountTyped, Frame
    <3> HIDE DEF B, S
    <3> QED BY <3>1
  <2>2. buffer \in Seq(T) /\ wire \in Seq(T) /\ q \in Seq(T)
    <3> HIDE DEF S, T
    <3> QED BY <1>5, <2>1
  <2> HIDE DEF S, T
  <2>3. \A x \in T : buffer \o Append(wire, x) = Append(q, x)
    BY <2>2, QueueMoves
  <2> HIDE DEF q
  <2>4. /\ Len(q) \in Nat /\ DOMAIN q = 1 .. Len(q)
        /\ \A x \in T : /\ Append(q, x)[Len(q) + 1] = x
                        /\ DOMAIN Append(q, x) = 1 .. Len(q) + 1
                        /\ \A i \in 1 .. Len(q) : Append(q, x)[i] = q[i]
    BY <2>2
  <2>5. wire' = Append(wire, e) /\ sent' = sent \cup {e} /\ Clean(q)
    <3>1. \A x \in {NONE, REFUSED} : wire' # Append(wire, x)
      <4>1. ASSUME NEW x \in {NONE, REFUSED}, wire' = Append(wire, x) PROVE FALSE
        <5>1. buffer' \o wire' = Append(q, x)
          BY <1>2, <1>5, <2>3, <4>1
        <5>2. Len(q) + 1 \in DOMAIN Append(q, x) /\ Append(q, x)[Len(q) + 1] = x
          BY <1>5, <2>4
        <5> QED BY <1>8, <5>1, <5>2 DEF Clean
      <4> QED BY <4>1
    <3>2. wire' = Append(wire, e) /\ sent' = sent \cup {e}
      BY <1>2, <1>4, <1>8, <3>1
    <3>3. Clean(Append(q, e))
      BY <1>2, <1>5, <1>8, <2>3, <3>2
    <3>4. \A i \in 1 .. Len(q) : i \in 1 .. Len(q) + 1
      BY <2>4
    <3> QED BY <1>5, <2>4, <3>2, <3>3, <3>4 DEF Clean
  <2>6. /\ InFlight(seen, q, truth, sent)
        /\ lane.state = "running" => \A o \in Parts : Held(view, seen, truth, sent, o)
        /\ lane.state = "synchronizing" =>
              \A o \in 1 .. Len(lane.snapshot) : Held(lane.snapshot, seen, truth, sent, o)
    BY <1>2, <1>8, <2>5 DEF AccountInv, q
  <2>7. /\ InFlight(seen, Append(q, e), truth', sent \cup {e})
        /\ \A v, o : Held(v, seen, truth, sent, o) /\ o \in Parts
                        => Held(v, seen, truth', sent \cup {e}, o)
    <3>1. seen \in SUBSET Known(truth) /\ sent \in SUBSET Known(truth)
      BY <1>1 DEF AccountTyped
    <3> QED BY <1>1, <2>2, <2>6, <3>1, ChangeKeeps DEF e
  <2>8. \A o \in 1 .. Len(lane.snapshot) : o \in Parts
    <3>1. Len(lane.snapshot) \in Nat /\ Len(lane.snapshot) <= 2
      BY <1>1, LenProperties DEF AccountTyped
    <3> QED BY <3>1 DEF Parts
  <2> QED BY <1>2, <1>5, <2>3, <2>5, <2>6, <2>7, <2>8
<1> QED BY <1>2, <1>6, <1>7, <1>8 DEF AccountInv

(* An event is sent once more, or the listen key ends with its notice.      *)
LEMMA NoticeAccount ==
    ASSUME OneSessionInv, AccountInv, KeyExpires \/ \E e \in sent : Repeats(e)
    PROVE  AccountInv'
<1> DEFINE S == Frame(truth)
<1>1. AccountTyped /\ wire \in Seq(S)
  BY DEF AccountInv, AccountTyped
<1>2. UNCHANGED <<lane, buffer, view, seen, truth, socket, sent>>
  BY DEF KeyExpires, Repeats, Unmoved, account, venue
<1>3. CASE KeyExpires
  <2>1. ~key'.attached
    BY <1>3 DEF KeyExpires, NoKey, OneSessionInv, SessionInv, Typed
  <2>2. wire' \in Seq(S)
    <3>1. wire' = wire \/ wire' = Append(wire, EXPIRED)
      BY <1>3 DEF KeyExpires
    <3>2. EXPIRED \in S
      BY DEF Frame, Event
    <3> HIDE DEF S
    <3> QED BY <1>1, <3>1, <3>2
  <2>3. AccountTyped'
    BY <1>1, <1>2, <2>2 DEF AccountTyped
  <2> QED BY <1>2, <2>1, <2>3 DEF AccountInv
<1>4. ASSUME NEW e \in sent, Repeats(e) PROVE AccountInv'
  <2> DEFINE q == buffer \o wire
  <2>1. e \in S /\ wire' = Append(wire, e) /\ key' = key /\ sent \in SUBSET Known(truth)
    BY <1>1, <1>4 DEF AccountTyped, Repeats, venue, Frame, Event
  <2>2. buffer \in Seq(S)
    <3> DEFINE B == Event(truth)
    <3>1. buffer \in Seq(B) /\ B \subseteq S
      BY <1>1 DEF AccountTyped, Frame
    <3> HIDE DEF B, S
    <3> QED BY <3>1
  <2>3. AccountTyped'
    <3>1. wire' \in Seq(S)
      <4> HIDE DEF S
      <4> QED BY <1>1, <2>1
    <3> QED BY <1>1, <1>2, <3>1 DEF AccountTyped
  <2> HIDE DEF S
  <2>4. q \in Seq(S) /\ buffer \o wire' = Append(q, e)
    BY <1>1, <2>1, <2>2, QueueMoves
  <2>5. ASSUME Clean(buffer \o wire'), InFlight(seen, q, truth, sent) \/ ~Clean(q)
        PROVE  InFlight(seen, buffer \o wire', truth, sent) /\ Clean(q)
    <3> HIDE DEF q
    <3>1. /\ Len(q) \in Nat /\ DOMAIN q = 1 .. Len(q) /\ DOMAIN Append(q, e) = 1 .. Len(q) + 1
          /\ \A i \in 1 .. Len(q) : Append(q, e)[i] = q[i]
      BY <2>1, <2>4
    <3>2. \A i \in 1 .. Len(q) : i \in 1 .. Len(q) + 1
      BY <3>1
    <3>3. Clean(q)
      BY <2>4, <2>5, <3>1, <3>2 DEF Clean
    <3> QED BY <2>1, <2>4, <2>5, <3>3, RepeatKeeps
  <2> QED BY <1>2, <2>1, <2>3, <2>5 DEF AccountInv
<1> QED BY <1>3, <1>4

(* The snapshot is installed, with what was buffered while it was read.     *)
LEMMA ArrivesAccount ==
    ASSUME OneSessionInv, AccountInv, SnapshotArrives
    PROVE  AccountInv'
<1> DEFINE s == lane.snapshot
           base == Holding(s, seen)
           B == Event(truth)
           k == Len(buffer)
<1>1. lane.state = "synchronizing" /\ lane.desired /\ lane \in LaneFields
  BY SnapshotAwaited DEF OneSessionInv, SessionInv, Typed
<1>2. AccountTyped /\ buffer \in Seq(B) /\ seen \in SUBSET Known(truth)
        /\ sent \in SUBSET Known(truth) /\ wire \in Seq(Frame(truth))
        /\ truth \in [Parts -> Nat]
  BY DEF AccountInv, AccountTyped
<1>3. s \in [Parts -> Nat] /\ Len(s) = 2
  <2>1. s \in Seq(Nat) /\ Len(s) = 2
    BY <1>2 DEF AccountTyped, SnapshotArrives
  <2> QED BY <2>1, SnapshotOfParts
<1>4. k \in Nat /\ DOMAIN buffer = 1 .. k
  <2> HIDE DEF B
  <2> QED BY <1>2
<1>5. PICK f : FoldSteps(f, base, buffer, k) /\ Folded(base, buffer) = f[1 .. k]
  <2> HIDE DEF base, k
  <2> QED BY <1>4, FoldLeftSteps
<1> DEFINE a == f[1 .. k]
<1>6. view' \in Left(a) /\ seen' = a.seen /\ UNCHANGED <<truth, key, sent>>
  <2>1. Synchronized(lane.snapshot) = a
    BY <1>5 DEF Synchronized, Folded
  <2>2. view' \in Left(Synchronized(lane.snapshot)) /\ seen' = Synchronized(lane.snapshot).seen
    BY DEF SnapshotArrives
  <2> QED BY <2>1, <2>2 DEF SnapshotArrives, venue
<1>7. IsAccount(a, truth)
  <2>1. IsAccount(base, truth)
    BY <1>2, <1>3 DEF IsAccount, Holding
  <2>2. \A i \in 0 .. k : IsAccount(f[1 .. i], truth)
    <3> HIDE DEF base
    <3> QED BY <1>2, <1>5, <2>1, SynchronizedTyped
  <2> HIDE DEF k
  <2> QED BY <1>4, <2>2
<1>8. ASSUME socket = "open", key.attached, Clean(buffer \o wire)
      PROVE  /\ InFlight(a.seen, wire, truth, sent)
             /\ \A p \in Parts : Held(a.view, a.seen, truth, sent, p)
  <2>1. /\ InFlight(seen, buffer \o wire, truth, sent)
        /\ \A p \in 1 .. Len(s) : Held(s, seen, truth, sent, p)
    BY <1>1, <1>8 DEF AccountInv
  <2>2. \A p \in Parts : Held(s, seen, truth, sent, p)
    BY <1>3, <2>1 DEF Parts
  <2>3. base = Holding(s, seen)
    OBVIOUS
  <2> HIDE DEF base, s
  <2> QED BY <1>2, <1>3, <1>5, <1>8, <2>1, <2>2, <2>3, SynchronizedKeeps
<1>13. ASSUME REFUSED \notin ToSet(buffer) PROVE view' = a.view
  <2>1. ~base.refused
    BY DEF Holding
  <2>2. \A i \in 1 .. k : buffer[i] # REFUSED
    <3> HIDE DEF k
    <3> QED BY <1>4, <1>13 DEF ToSet
  <2>3. ~a.refused
    <3>1. \A i \in 0 .. k : ~f[1 .. i].refused
      <4> HIDE DEF base, k
      <4> QED BY <1>4, <1>5, <2>1, <2>2, Unrefused
    <3> HIDE DEF k
    <3> QED BY <1>4, <3>1
  <2> HIDE DEF a
  <2> QED BY <1>6, <1>7, <2>3, LeftTyped
<1> HIDE DEF a, base, s, k
<1>9. SnapshotRead \in LaneFields /\ SnapshotRead.state = lane.state
  BY <1>1, SnapshotGrows DEF SnapshotRead, LaneFields
<1>10. view' \in [Parts -> Nat] /\ seen' \in SUBSET Known(truth)
  BY <1>6, <1>7, LeftTyped DEF IsAccount
<1>11. CASE ScheduleRestart(SnapshotRead, <<>>, socket, wire)
  <2>1. /\ lane'.state = "backoff" /\ lane'.snapshot = <<>>
        /\ socket' = "none" /\ wire' = <<>> /\ buffer' = <<>>
    BY <1>1, <1>9, <1>11, RestartEnds
  <2> QED BY <1>6, <1>10, <2>1, ApartAccount
<1>12. CASE /\ lane' = [SnapshotRead EXCEPT !.state = "running", !.keepalive = TRUE]
            /\ buffer' = <<>> /\ UNCHANGED <<closing, socket, wire>>
            /\ {EXPIRED, REFUSED} \cap ToSet(buffer) = {}
  <2>1. lane'.state = "running" /\ lane'.snapshot = <<>>
    BY <1>1, <1>12, SnapshotGrows DEF SnapshotRead, LaneFields
  <2>2. /\ <<>> \in Seq(B) /\ <<>> \in Seq(Nat) /\ Len(<<>>) = 0 /\ DOMAIN <<>> = {}
        /\ <<>> \o wire = wire
    BY <1>2
  <2>3. AccountTyped'
    <3> HIDE DEF B
    <3>1. buffer' \in Seq(Event(truth)) /\ DOMAIN buffer' = {}
      BY <1>12, <2>2 DEF B
    <3>2. lane'.snapshot \in Seq(Nat) /\ Len(lane'.snapshot) <= 2
      BY <2>1, <2>2
    <3>3. wire' \in Seq(Frame(truth')) /\ truth' = truth /\ sent' = sent
      BY <1>2, <1>6, <1>12
    <3>4. view' \in [Parts -> Nat] /\ seen' \subseteq Known(truth')
      BY <1>6, <1>10
    <3> QED BY <1>2, <3>1, <3>2, <3>3, <3>4 DEF AccountTyped
  <2>4. Clean(wire) => Clean(buffer \o wire)
    <3>1. \A i \in DOMAIN buffer : buffer[i] \notin {NONE, REFUSED, EXPIRED}
      BY <1>2, <1>12 DEF AccountTyped, ToSet
    <3> DEFINE S == Frame(truth)
    <3>2. buffer \in Seq(S) /\ wire \in Seq(S)
      <4>1. buffer \in Seq(B) /\ B \subseteq S /\ wire \in Seq(S)
        BY <1>2 DEF Frame
      <4> HIDE DEF B, S
      <4> QED BY <4>1
    <3> HIDE DEF S
    <3>3. ASSUME NEW i \in DOMAIN (buffer \o wire)
          PROVE  \/ i \in DOMAIN buffer /\ (buffer \o wire)[i] = buffer[i]
                 \/ i - Len(buffer) \in DOMAIN wire /\ (buffer \o wire)[i] = wire[i - Len(buffer)]
      BY <3>2
    <3> QED BY <3>1, <3>3 DEF Clean
  <2>5. socket' = "connecting" => sent' = {}
    BY <1>6, <1>12 DEF AccountInv
  <2>6. ASSUME socket' = "open", key'.attached, Clean(buffer' \o wire')
        PROVE  /\ InFlight(seen', buffer' \o wire', truth', sent')
               /\ \A p \in Parts : Held(view', seen', truth', sent', p)
    <3>1. buffer' \o wire' = wire
      BY <1>12, <2>2
    <3>2. view' = a.view
      BY <1>12, <1>13
    <3> QED BY <1>6, <1>8, <1>12, <2>4, <2>6, <3>1, <3>2
  <2> QED BY <1>12, <2>1, <2>3, <2>5, <2>6 DEF AccountInv
<1> QED BY <1>11, <1>12 DEF SnapshotArrives

(* A message is buffered, applied, or ends the connection.                  *)
LEMMA MessageAccount ==
    ASSUME OneSessionInv, AccountInv, OnMessage
    PROVE  AccountInv'
<1> DEFINE e == Head(wire)
           buffers == e # NONE /\ lane.state # "running"
           b == IF buffers THEN Append(buffer, e) ELSE buffer
           a == Apply(Holding(view, seen), e)
           S == Frame(truth)
           B == Event(truth)
<1>1. lane.state \in Live /\ lane \in LaneFields /\ lane.desired
  BY DEF OnMessage, OneSessionInv, ConnectionInv, Live, SessionInv, Typed, StopLeavesNothing
<1>2. /\ AccountTyped /\ wire \in Seq(S) /\ buffer \in Seq(B) /\ wire # <<>>
      /\ seen \in SUBSET Known(truth) /\ sent \in SUBSET Known(truth)
      /\ view \in [Parts -> Nat] /\ truth \in [Parts -> Nat]
  BY DEF AccountInv, AccountTyped, OnMessage
<1>3. /\ IF e # NONE /\ lane.state = "running" THEN view' \in Left(a) /\ seen' = a.seen
         ELSE UNCHANGED <<view, seen>>
      /\ \/ ScheduleRestart(lane, b, socket, Tail(wire))
         \/ /\ ~(e = NONE \/ (~buffers /\ e \in {EXPIRED, REFUSED}))
            /\ buffer' = b /\ wire' = Tail(wire) /\ UNCHANGED <<lane, closing, socket>>
      /\ UNCHANGED <<truth, key, sent>>
  BY DEF OnMessage, account, venue
<1>4. /\ buffer \in Seq(S) /\ e \in S /\ Tail(wire) \in Seq(S)
      /\ Append(buffer, e) \o Tail(wire) = buffer \o wire
      /\ <<>> \o wire = wire /\ <<>> \o Tail(wire) = Tail(wire)
  <2>1. buffer \in Seq(S)
    <3>1. B \subseteq S
      BY DEF Frame
    <3> HIDE DEF B, S
    <3> QED BY <1>2, <3>1
  <2>2. NONE \in S
    BY DEF Frame
  <2> HIDE DEF S
  <2>3. e \in S /\ Tail(wire) \in Seq(S) /\ Append(buffer, e) \o Tail(wire) = buffer \o wire
    BY <1>2, <2>1, <2>2, QueueMoves
  <2>4. <<>> \o wire = wire
    BY <1>2
  <2>5. <<>> \o Tail(wire) = Tail(wire)
    BY <2>3
  <2> QED BY <2>1, <2>3, <2>4, <2>5
<1>5. view' \in [Parts -> Nat] /\ seen' \in SUBSET Known(truth)
  <2>1. CASE e # NONE /\ lane.state = "running"
    <3>1. IsAccount(Holding(view, seen), truth) /\ e \in Event(truth)
      BY <1>2, <1>4, <2>1 DEF IsAccount, Holding, Frame
    <3> HIDE DEF e
    <3>2. IsAccount(a, truth)
      BY <3>1, ApplyTyped
    <3> HIDE DEF a
    <3> QED BY <1>3, <2>1, <3>2, LeftTyped DEF IsAccount
  <2> QED BY <1>2, <1>3, <2>1
<1>6. CASE ScheduleRestart(lane, b, socket, Tail(wire))
  <2>1. /\ lane'.state = "backoff" /\ lane'.snapshot = <<>>
        /\ socket' = "none" /\ wire' = <<>> /\ buffer' = <<>>
    BY <1>1, <1>6, RestartEnds DEF Live
  <2> QED BY <1>3, <1>5, <2>1, ApartAccount
<1>7. CASE /\ ~(e = NONE \/ (~buffers /\ e \in {EXPIRED, REFUSED}))
           /\ buffer' = b /\ wire' = Tail(wire) /\ UNCHANGED <<lane, closing, socket>>
  <2>1. CASE lane.state # "running"
    <3>1. buffer' = Append(buffer, e) /\ UNCHANGED <<view, seen>>
      BY <1>3, <1>7, <2>1
    <3>2. buffer' \o wire' = buffer \o wire
      BY <1>4, <1>7, <3>1
    <3>3. AccountTyped'
      <4>1. buffer' \in Seq(B) /\ \A i \in DOMAIN buffer' : buffer'[i] # NONE
        <5>1. e \in B /\ e # NONE /\ \A i \in DOMAIN buffer : buffer[i] # NONE
          BY <1>2, <1>4, <1>7, <2>1 DEF AccountTyped, Frame
        <5> HIDE DEF e, B
        <5> QED BY <1>2, <3>1, <5>1
      <4>2. wire' \in Seq(Frame(truth))
        BY <1>4, <1>7
      <4> HIDE DEF e, b
      <4> QED BY <1>2, <1>3, <1>7, <3>1, <4>1, <4>2 DEF AccountTyped
    <3> HIDE DEF e, b, buffers
    <3> QED BY <1>3, <1>7, <2>1, <3>1, <3>2, <3>3 DEF AccountInv
  <2>2. CASE lane.state = "running"
    <3>1. buffer = <<>> /\ buffer' = <<>> /\ e \notin {NONE, REFUSED, EXPIRED}
            /\ view' = a.view /\ seen' = a.seen
      <4>1. buffer = <<>> /\ buffer' = <<>> /\ e \notin {NONE, REFUSED, EXPIRED}
              /\ view' \in Left(a) /\ seen' = a.seen
        BY <1>3, <1>7, <2>2 DEF AccountInv
      <4>2. ~a.refused
        BY <4>1 DEF Apply, Holding
      <4> HIDE DEF a
      <4> QED BY <4>1, <4>2 DEF Left
    <3>2. AccountTyped'
      <4>1. wire' \in Seq(Frame(truth)) /\ buffer' = buffer
        BY <1>4, <1>7, <3>1
      <4> HIDE DEF e, b, a
      <4> QED BY <1>2, <1>3, <1>5, <1>7, <4>1 DEF AccountTyped
    <3>3. socket' = "connecting" => sent' = {}
      BY <1>3, <1>7 DEF AccountInv
    <3>4. ASSUME socket' = "open", key'.attached, Clean(buffer' \o wire')
          PROVE  /\ InFlight(seen', buffer' \o wire', truth', sent')
                 /\ \A p \in Parts : Held(view', seen', truth', sent', p)
      <4>1. buffer \o wire = wire /\ buffer' \o wire' = Tail(wire)
        BY <1>4, <1>7, <3>1
      <4>2. Clean(wire)
        <5>1. Clean(Tail(wire))
          BY <3>4, <4>1
        <5> HIDE DEF S
        <5>2. \A i \in DOMAIN wire : i = 1 \/ (i - 1 \in DOMAIN Tail(wire) /\ Tail(wire)[i - 1] = wire[i])
          BY <1>2
        <5>3. wire[1] = e
          BY <1>2
        <5> HIDE DEF e
        <5> QED BY <3>1, <5>1, <5>2, <5>3 DEF Clean
      <4>3. InFlight(seen, wire, truth, sent) /\ \A p \in Parts : Held(view, seen, truth, sent, p)
        BY <1>3, <1>7, <2>2, <3>4, <4>1, <4>2 DEF AccountInv
      <4>4. a = Apply(Holding(view, seen), Head(wire))
        OBVIOUS
      <4> HIDE DEF S, a
      <4>5. InFlight(a.seen, Tail(wire), truth, sent)
              /\ \A p \in Parts : Held(a.view, a.seen, truth, sent, p)
        BY <1>2, <4>2, <4>3, <4>4, ApplyKeeps
      <4> QED BY <1>3, <3>1, <4>1, <4>5
    <3> HIDE DEF e, b, a, buffers
    <3> QED BY <1>7, <2>2, <3>1, <3>2, <3>3, <3>4 DEF AccountInv
  <2> QED BY <2>1, <2>2
<1> QED BY <1>3, <1>6, <1>7

(* Every step of the lane and of the venue keeps the account.               *)
LEMMA StepAccount == OneSessionInv /\ AccountInv /\ [Next]_vars => AccountInv'
<1> SUFFICES ASSUME OneSessionInv, AccountInv, [Next]_vars PROVE AccountInv'
  OBVIOUS
<1>1. creates \subseteq {"current", "stale"}
  BY DEF OneSessionInv, SessionInv, Typed
<1>2. CASE Start \/ Stop \/ RestartTimer
  BY <1>2, SessionAccount
<1>3. ASSUME NEW c \in creates, Created(c) \/ CreateFails(c) PROVE AccountInv'
  <2>1. CASE c = "current"
    BY <1>3, <2>1, SessionAccount, FailureAccount
  <2>2. CASE c = "stale"
    BY <1>3, <2>2, AsideAccount
  <2> QED BY <1>1, <2>1, <2>2
<1>4. CASE PingAnswers
  <2>1. lane.ping /\ UNCHANGED <<account, venue>>
    BY <1>4 DEF PingAnswers
  <2>2. \/ lane' = [lane EXCEPT !.ping = FALSE] /\ UNCHANGED <<buffer, socket, wire>>
        \/ PingFailed
    BY <1>4 DEF PingAnswers
  <2>3. CASE lane' = [lane EXCEPT !.ping = FALSE] /\ UNCHANGED <<buffer, socket, wire>>
    <3>1. /\ lane' = [lane EXCEPT !.ping = FALSE]
          /\ UNCHANGED <<buffer, socket, wire, account, venue>>
      BY <2>1, <2>3
    <3> QED BY <3>1, AsideAccount
  <2>4. CASE PingFailed
    BY <2>1, <2>4, FailureAccount
  <2> QED BY <2>2, <2>3, <2>4
<1>5. CASE \/ \E c \in closing : Closed(c) \/ CloseFails(c)
           \/ KeepAliveFires \/ DeleteArrivesLate \/ SocketLost \/ UNCHANGED vars
  BY <1>5, AsideAccount
<1>6. CASE OnOpen \/ SnapshotReads
  BY <1>6, OpeningAccount
<1>7. CASE SnapshotArrives
  BY <1>7, ArrivesAccount
<1>8. CASE SnapshotFails \/ SocketEnds
  BY <1>8, FailureAccount
<1>12. CASE SnapshotRefused
  BY <1>12, RefusedAccount
<1>9. CASE OnMessage
  BY <1>9, MessageAccount
<1>10. CASE \E p \in Parts : Changes(p)
  BY <1>10, ChangesAccount
<1>11. CASE KeyExpires \/ \E e \in sent : Repeats(e)
  BY <1>11, NoticeAccount
<1> QED BY <1>2, <1>3, <1>4, <1>5, <1>6, <1>7, <1>8, <1>9, <1>10, <1>11, <1>12 DEF Next

(* A lane that was never started knows nothing of the account.              *)
LEMMA InitAccount == Init => OneSessionInv /\ AccountInv
<1> SUFFICES ASSUME Init PROVE OneSessionInv /\ AccountInv
  OBVIOUS
<1>1. OneSessionInv
  BY InitSession, InitConnection DEF OneSessionInv
<1>2. /\ truth \in [Parts -> Nat] /\ view \in [Parts -> Nat] /\ seen = {} /\ sent = {}
      /\ wire = <<>> /\ buffer = <<>> /\ lane.snapshot = <<>> /\ socket = "none"
  BY DEF Init
<1>3. /\ <<>> \in Seq(Frame(truth)) /\ <<>> \in Seq(Event(truth))
      /\ <<>> \in Seq(Nat) /\ Len(<<>>) = 0 /\ DOMAIN <<>> = {}
  OBVIOUS
<1>4. AccountInv
  BY <1>2, <1>3 DEF AccountInv, AccountTyped
<1> QED BY <1>1, <1>4

(* Its session and its account are kept together.                           *)
LEMMA StepLane ==
    MaxStarts = 1 /\ OneSessionInv /\ AccountInv /\ [Next]_vars => OneSessionInv' /\ AccountInv'
BY StepAccount, StepSession, StepConnection, StepOneStart DEF OneSessionInv

(* A running lane that has read what is in flight on a live stream holds    *)
(* the venue's account, however many events came in while the snapshot was  *)
(* read and however they were repeated (RunningIsReconciled).  The lane is  *)
(* started once, as in the run.                                             *)
THEOREM RunningLaneIsReconciled == MaxStarts = 1 /\ Spec => []RunningIsReconciled
<1> SUFFICES ASSUME MaxStarts = 1 PROVE Spec => []RunningIsReconciled
  OBVIOUS
<1>1. Init => OneSessionInv /\ AccountInv
  BY InitAccount
<1>2. OneSessionInv /\ AccountInv /\ [Next]_vars => (OneSessionInv /\ AccountInv)'
  BY StepLane
<1>3. OneSessionInv /\ AccountInv => RunningIsReconciled
  <2> SUFFICES ASSUME AccountInv, lane.state = "running", socket = "open", key.attached, wire = <<>>
               PROVE  view = truth
    BY DEF RunningIsReconciled
  <2>1. buffer \o wire = <<>> /\ DOMAIN <<>> = {}
    BY DEF AccountInv
  <2>2. InFlight(seen, <<>>, truth, sent) /\ \A p \in Parts : Held(view, seen, truth, sent, p)
    BY <2>1 DEF AccountInv, Clean
  <2>3. sent \ seen = {}
    BY <2>1, <2>2 DEF InFlight
  <2>4. \A p \in Parts : view[p] = truth[p]
    BY <2>2, <2>3 DEF Held
  <2>5. view \in [Parts -> Nat] /\ truth \in [Parts -> Nat]
    BY DEF AccountInv, AccountTyped
  <2> QED BY <2>4, <2>5
<1> QED BY <1>1, <1>2, <1>3, PTL DEF Spec

-----------------------------------------------------------------------------
(* Replay. *)
IsReplay(r) ==
    /\ r.threw \in BOOLEAN
    /\ r = [view |-> r.view, seen |-> r.seen, buffer |-> r.buffer,
            synchronized |-> r.synchronized, threw |-> r.threw]

MirrorInv == IsReplay(replay) /\ ReplayMirrorsAccount

(* What a lane that is started once asks to be restarted backs off.         *)
LEMMA RestartBacksOff ==
    ASSUME NEW l \in LaneFields, NEW b, NEW s, NEW w, OneSessionInv, lane.desired,
           l.state = lane.state, ScheduleRestart(l, b, s, w)
    PROVE  lane'.state = "backoff"
<1>1. lane \in LaneFields
  BY DEF OneSessionInv, SessionInv, Typed
<1>2. CASE ~lane.restartPending
  BY <1>1, <1>2 DEF ScheduleRestart, LaneFields
<1>3. CASE lane.restartPending
  BY <1>1, <1>3 DEF ScheduleRestart, OneSessionInv, OneStartInv, LaneFields
<1> QED BY <1>2, <1>3

(* A reset of the buffer keeps the account.                                 *)
LEMMA BackoffKeepsAccount ==
    ASSUME NEW r, IsReplay(r)
    PROVE  /\ IsReplay(AfterBackoff(r)) /\ IsReplay(Unsynchronized(r))
           /\ AfterBackoff(r).view = r.view /\ AfterBackoff(r).seen = r.seen
           /\ Unsynchronized(r).view = r.view /\ Unsynchronized(r).seen = r.seen
           /\ AfterBackoff(r).threw = r.threw /\ Unsynchronized(r).threw = r.threw
           /\ Unsynchronized(r).buffer = <<>> /\ Unsynchronized(r).synchronized = FALSE
<1>1. /\ DOMAIN r = {"view", "seen", "buffer", "synchronized", "threw"}
      /\ Unsynchronized(r) = [[r EXCEPT !.buffer = <<>>] EXCEPT !.synchronized = FALSE]
  <2>1. DOMAIN [view |-> r.view, seen |-> r.seen, buffer |-> r.buffer,
                synchronized |-> r.synchronized, threw |-> r.threw]
            = {"view", "seen", "buffer", "synchronized", "threw"}
    OBVIOUS
  <2> QED BY <2>1 DEF Unsynchronized, IsReplay
<1>3. /\ Unsynchronized(r).view = r.view /\ Unsynchronized(r).seen = r.seen
      /\ Unsynchronized(r).threw = r.threw
      /\ Unsynchronized(r).buffer = <<>> /\ Unsynchronized(r).synchronized = FALSE
  BY <1>1
<1>4. IsReplay(Unsynchronized(r))
  BY <1>1, <1>3 DEF IsReplay
<1>2. AfterBackoff(r) \in {r, Unsynchronized(r)}
  BY DEF AfterBackoff
<1> QED BY <1>2, <1>3, <1>4

(* Where no connection is open only the account has to agree.               *)
LEMMA ApartMirrors ==
    ASSUME NEW r, IsReplay(r), replay' = AfterBackoff(r), refused' = r.threw,
           ~r.threw => r.view = view' /\ r.seen = seen',
           lane'.state \notin {"synchronizing", "running"}
    PROVE  MirrorInv'
BY BackoffKeepsAccount DEF MirrorInv, ReplayMirrorsAccount

(* A replay that has no result, for what the lane refused, has none.        *)
LEMMA ThrewMirrors ==
    ASSUME NEW r, IsReplay(r), r.threw, replay' = AfterBackoff(r), refused' = TRUE
    PROVE  MirrorInv'
BY BackoffKeepsAccount DEF MirrorInv, ReplayMirrorsAccount, IsReplay

LEMMA ThrewIsReplay == IsReplay(Threw) /\ Threw.threw
BY DEF IsReplay, Threw

(* A step that restarts nothing and leaves the connection as it was.        *)
LEMMA StayMirrors ==
    ASSUME MirrorInv, replay' = AfterBackoff(replay), UNCHANGED <<view, seen, buffer, refused>>,
           lane'.state = lane.state, lane'.restartPending => lane.restartPending
    PROVE  MirrorInv'
<1>1. replay' = replay
  BY DEF AfterBackoff
<1> QED BY <1>1 DEF MirrorInv, ReplayMirrorsAccount

(* What replay ignores leaves the account alone, and ends the connection or *)
(* leaves it as it was.                                                     *)
LEMMA IgnoredMirrors ==
    ASSUME OneSessionInv, MirrorInv, Ignored
    PROVE  MirrorInv'
<1> DEFINE Apart == lane'.state \notin {"synchronizing", "running"}
           Stays == /\ lane'.state = lane.state /\ buffer' = buffer
                    /\ lane'.restartPending => lane.restartPending
<1>0. lane \in LaneFields
  BY DEF OneSessionInv, SessionInv, Typed
<1>1. CASE Start \/ Stop \/ RestartTimer
  <2>1. UNCHANGED <<view, seen>>
    BY <1>1 DEF Start, Stop, RestartTimer, Connect, account
  <2>2. Apart
    BY <1>0, <1>1 DEF Start, Stop, RestartTimer, Connect, Restarted, LaneFields
  <2> QED BY <2>1, <2>2, ApartMirrors DEF Ignored, MirrorInv, ReplayMirrorsAccount
<1>2. ASSUME NEW c \in creates, (c = "stale" /\ Created(c)) \/ CreateFails(c)
      PROVE  MirrorInv'
  <2>1. UNCHANGED <<view, seen>>
    BY <1>2 DEF Created, CreateFails, account
  <2>2. CASE c = "current"
    <3>1. ScheduleRestart(lane, buffer, socket, wire) /\ lane.desired
      BY <1>2, <2>2 DEF CreateFails, OneSessionInv, SessionInv, AwaitedIsWanted
    <3>2. Apart
      BY <1>0, <3>1, RestartBacksOff
    <3> QED BY <2>1, <3>2, ApartMirrors DEF Ignored, MirrorInv, ReplayMirrorsAccount
  <2>3. CASE c # "current"
    <3>1. Stays
      BY <1>2, <2>3 DEF Created, CreateFails
    <3> QED BY <2>1, <3>1, StayMirrors DEF Ignored
  <2> QED BY <2>2, <2>3
<1>3. ASSUME NEW c \in closing, Closed(c) \/ CloseFails(c) PROVE MirrorInv'
  <2>1. UNCHANGED <<view, seen, buffer>> /\ lane' = AfterCleanup(c)
    BY <1>3 DEF Closed, CloseFails, account
  <2>2. lane'.state = lane.state /\ (lane'.restartPending => lane.restartPending)
    BY <1>0, <2>1 DEF AfterCleanup, LaneFields
  <2> QED BY <2>1, <2>2, StayMirrors DEF Ignored
<1>4. CASE KeepAliveFires \/ SnapshotReads
  <2>1. UNCHANGED <<view, seen, buffer>> /\ Stays
    BY <1>0, <1>4 DEF KeepAliveFires, SnapshotReads, account, LaneFields
  <2> QED BY <2>1, StayMirrors DEF Ignored
<1>5. CASE PingAnswers
  <2> DEFINE l == [lane EXCEPT !.ping = FALSE]
  <2>1. l \in LaneFields /\ l.state = lane.state /\ l.restartPending = lane.restartPending
    BY <1>0 DEF LaneFields
  <2>2. \/ lane' = l /\ buffer' = buffer
        \/ ScheduleRestart(l, buffer, socket, wire)
    BY <1>5 DEF PingAnswers, PingFailed
  <2>3. UNCHANGED <<view, seen>> /\ lane.desired
    BY <1>5 DEF PingAnswers, account, OneSessionInv, SessionInv, AwaitedIsWanted
  <2> HIDE DEF l
  <2>4. CASE lane' = l /\ buffer' = buffer
    BY <2>1, <2>3, <2>4, StayMirrors DEF Ignored
  <2>5. CASE ScheduleRestart(l, buffer, socket, wire)
    <3>1. Apart
      BY <2>1, <2>3, <2>5, RestartBacksOff
    <3> QED BY <2>3, <3>1, ApartMirrors DEF Ignored, MirrorInv, ReplayMirrorsAccount
  <2> QED BY <2>2, <2>4, <2>5
<1>6. CASE SnapshotFails \/ SocketEnds
  <2>1. SnapshotRead \in LaneFields /\ SnapshotRead.state = lane.state
    BY <1>0, SnapshotGrows DEF SnapshotRead, LaneFields
  <2>2. lane.desired /\ UNCHANGED <<view, seen>>
    BY <1>6 DEF SnapshotFails, SocketEnds, account, OneSessionInv, SessionInv,
                AwaitedIsWanted, StopLeavesNothing
  <2>3. PICK s : \/ ScheduleRestart(SnapshotRead, buffer, s, wire)
                 \/ ScheduleRestart(lane, buffer, s, wire)
    BY <1>6 DEF SnapshotFails, SocketEnds
  <2>4. Apart
    BY <1>0, <2>1, <2>2, <2>3, RestartBacksOff
  <2> QED BY <2>2, <2>4, ApartMirrors DEF Ignored, MirrorInv, ReplayMirrorsAccount
<1>7. CASE \/ \E p \in Parts : Changes(p)
           \/ \E e \in sent : Repeats(e)
           \/ KeyExpires \/ DeleteArrivesLate \/ SocketLost
  <2>1. UNCHANGED <<lane, view, seen, buffer>>
    BY <1>7 DEF Changes, Repeats, KeyExpires, DeleteArrivesLate, SocketLost, Unmoved, account
  <2> QED BY <2>1, StayMirrors DEF Ignored
<1> QED BY <1>1, <1>2, <1>3, <1>4, <1>5, <1>6, <1>7 DEF Ignored

(* The snapshot and the buffered events make the same account, or both      *)
(* refuse one of the events.                                                *)
LEMMA ReconcilesMirrors ==
    ASSUME OneSessionInv, AccountInv, MirrorInv, Reconciles
    PROVE  MirrorInv'
<1> DEFINE r == Reconciled(replay, lane.snapshot)
           a == Synchronized(lane.snapshot)
<1>1. lane.state = "synchronizing" /\ lane.desired /\ lane \in LaneFields
  BY SnapshotAwaited DEF Reconciles, OneSessionInv, SessionInv, Typed
<1>2. /\ refused = replay.threw /\ replay.threw \in BOOLEAN
      /\ ~replay.threw => replay.buffer = buffer /\ replay.seen = seen
  BY <1>1 DEF MirrorInv, ReplayMirrorsAccount, IsReplay
<1>3. /\ view' \in Left(a) /\ seen' = a.seen /\ replay' = AfterBackoff(r)
      /\ refused' = (refused \/ REFUSED \in ToSet(buffer))
  BY DEF Reconciles, SnapshotArrives
<1>4. CASE replay.threw \/ REFUSED \in ToSet(buffer)
  <2>1. r = Threw
    BY <1>2, <1>4 DEF Reconciled
  <2>2. refused' = TRUE
    BY <1>2, <1>3, <1>4
  <2> HIDE DEF r
  <2> QED BY <1>3, <2>1, <2>2, ThrewIsReplay, ThrewMirrors
<1>5. CASE ~replay.threw /\ REFUSED \notin ToSet(buffer)
  <2>1. r = [view |-> a.view, seen |-> a.seen, buffer |-> <<>>, synchronized |-> TRUE,
             threw |-> FALSE]
    BY <1>2, <1>5 DEF Reconciled, Synchronized
  <2>2. /\ IsReplay(r) /\ r.view = a.view /\ r.seen = a.seen /\ ~r.threw
        /\ r.buffer = <<>> /\ r.synchronized = TRUE /\ r.threw = FALSE
    <3> HIDE DEF r, a
    <3> QED BY <2>1 DEF IsReplay
  <2>3. view' = a.view
    <3> DEFINE base == Holding(lane.snapshot, seen)
               k == Len(buffer)
               B == Event(truth)
    <3>1. buffer \in Seq(B)
      BY DEF AccountInv, AccountTyped
    <3>2. k \in Nat /\ DOMAIN buffer = 1 .. k
      <4> HIDE DEF B
      <4> QED BY <3>1
    <3>3. ~base.refused
      BY DEF Holding
    <3>4. \A i \in 1 .. k : buffer[i] # REFUSED
      <4> HIDE DEF k
      <4> QED BY <1>5, <3>2 DEF ToSet
    <3>5. a = Folded(base, buffer)
      BY DEF Synchronized, Folded
    <3> HIDE DEF base, k, a
    <3>6. PICK f : FoldSteps(f, base, buffer, k) /\ a = f[1 .. k]
      BY <3>2, <3>5, FoldLeftSteps
    <3>7. \A i \in 0 .. k : ~f[1 .. i].refused
      BY <3>2, <3>3, <3>4, <3>6, Unrefused
    <3>8. ~a.refused
      BY <3>2, <3>6, <3>7
    <3> QED BY <1>3, <3>8 DEF Left
  <2>4. refused' = FALSE
    BY <1>2, <1>3, <1>5
  <2>5. SnapshotRead \in LaneFields /\ SnapshotRead.state = lane.state
        /\ SnapshotRead.restartPending = lane.restartPending
    BY <1>1, SnapshotGrows DEF SnapshotRead, LaneFields
  <2>6. CASE ScheduleRestart(SnapshotRead, <<>>, socket, wire)
    <3>1. lane'.state = "backoff"
      BY <1>1, <2>5, <2>6, RestartBacksOff
    <3> HIDE DEF r, a
    <3> QED BY <1>3, <2>2, <2>3, <2>4, <3>1, ApartMirrors
  <2>7. CASE lane' = [SnapshotRead EXCEPT !.state = "running", !.keepalive = TRUE]
             /\ buffer' = <<>>
    <3>1. lane'.state = "running" /\ lane'.restartPending = lane.restartPending
      BY <2>5, <2>7 DEF LaneFields
    <3>2. replay' = r
      BY <1>3, <3>1 DEF AfterBackoff
    <3> HIDE DEF r, a
    <3> QED BY <1>3, <2>2, <2>3, <2>4, <2>7, <3>1, <3>2 DEF MirrorInv, ReplayMirrorsAccount
  <2> QED BY <2>6, <2>7 DEF Reconciles, SnapshotArrives
<1> QED BY <1>2, <1>4, <1>5

(* A message is buffered by both, applied by both or refused by both.       *)
LEMMA ReceivesMirrors ==
    ASSUME OneSessionInv, MirrorInv, Receives
    PROVE  MirrorInv'
<1> DEFINE e == Head(wire)
           buffers == e # NONE /\ lane.state # "running"
           b == IF buffers THEN Append(buffer, e) ELSE buffer
           a == Apply(Holding(view, seen), e)
           r == IF e = NONE THEN replay ELSE Observed(replay, e)
<1>1. lane.state \in {"synchronizing", "running"} /\ lane \in LaneFields /\ lane.desired
  BY DEF Receives, OnMessage, OneSessionInv, ConnectionInv, Live, SessionInv, Typed,
         StopLeavesNothing
<1>2. /\ IsReplay(replay) /\ replay.threw = refused /\ replay.threw \in BOOLEAN
      /\ ~replay.threw =>
            /\ replay.view = view /\ replay.seen = seen /\ replay.buffer = buffer
            /\ replay.synchronized = (lane.state = "running")
  BY <1>1 DEF MirrorInv, ReplayMirrorsAccount, IsReplay
<1>3. /\ IF e # NONE /\ lane.state = "running" THEN view' \in Left(a) /\ seen' = a.seen
         ELSE UNCHANGED <<view, seen>>
      /\ \/ ScheduleRestart(lane, b, socket, Tail(wire))
         \/ buffer' = b /\ lane' = lane
      /\ replay' = AfterBackoff(r)
      /\ refused' = (refused \/ (e = REFUSED /\ lane.state = "running"))
  BY DEF Receives, OnMessage, account
<1>4. CASE replay.threw
  <2>1. r = replay /\ refused' = TRUE
    BY <1>2, <1>3, <1>4 DEF Observed
  <2> HIDE DEF r
  <2> QED BY <1>2, <1>3, <1>4, <2>1, ThrewMirrors
<1>5. CASE ~replay.threw /\ e = REFUSED /\ lane.state = "running"
  <2>1. a.refused
    BY <1>5 DEF Apply, Holding
  <2>2. r = Threw
    BY <1>2, <1>5, <2>1, LaneAssumption DEF Observed
  <2>3. refused' = TRUE
    BY <1>3, <1>5
  <2> HIDE DEF r
  <2> QED BY <1>3, <2>2, <2>3, ThrewIsReplay, ThrewMirrors
<1>6. CASE ~replay.threw /\ ~(e = REFUSED /\ lane.state = "running")
  <2>1. refused' = FALSE /\ replay.threw = FALSE
    BY <1>2, <1>3, <1>6
  <2>2. /\ IsReplay(r) /\ r.view = view' /\ r.seen = seen' /\ r.threw = FALSE
        /\ r.buffer = b /\ r.synchronized = replay.synchronized
    <3>1. CASE e = NONE
      BY <1>2, <1>3, <1>6, <2>1, <3>1
    <3>2. CASE e # NONE /\ lane.state = "running"
      <4>1. ~a.refused
        BY <1>6, <3>2 DEF Apply, Holding
      <4>2. view' = a.view /\ seen' = a.seen
        <5> HIDE DEF a
        <5> QED BY <1>3, <3>2, <4>1 DEF Left
      <4>3. r = [replay EXCEPT !.view = a.view, !.seen = a.seen]
        BY <1>2, <1>6, <3>2, <4>1 DEF Observed
      <4> HIDE DEF r, a
      <4> QED BY <1>2, <1>6, <2>1, <3>2, <4>2, <4>3 DEF IsReplay
    <3>3. CASE e # NONE /\ lane.state # "running"
      <4>1. r = [replay EXCEPT !.buffer = Append(replay.buffer, e)]
        BY <1>2, <1>6, <3>3 DEF Observed
      <4> HIDE DEF r
      <4> QED BY <1>2, <1>3, <1>6, <2>1, <3>3, <4>1 DEF IsReplay
    <3> QED BY <3>1, <3>2, <3>3
  <2>3. CASE ScheduleRestart(lane, b, socket, Tail(wire))
    <3>1. lane'.state = "backoff"
      BY <1>1, <2>3, RestartBacksOff
    <3> HIDE DEF r, b
    <3> QED BY <1>3, <2>1, <2>2, <3>1, ApartMirrors
  <2>4. CASE buffer' = b /\ lane' = lane
    <3>1. replay' = r
      BY <1>3, <2>4 DEF AfterBackoff
    <3> HIDE DEF r, b
    <3> QED BY <1>2, <1>6, <2>1, <2>2, <2>4, <3>1 DEF MirrorInv, ReplayMirrorsAccount
  <2> QED BY <1>3, <2>3, <2>4
<1> QED BY <1>2, <1>4, <1>5, <1>6

(* Every step of the lane keeps the replay beside it.                       *)
LEMMA StepMirrors ==
    ASSUME OneSessionInv, AccountInv, MirrorInv, [ReplayNext]_replayVars
    PROVE  MirrorInv'
<1>0. lane \in LaneFields /\ IsReplay(replay)
  BY DEF OneSessionInv, SessionInv, Typed, MirrorInv
<1>1. CASE Connects
  <2>1. replay' = Unsynchronized(replay) /\ UNCHANGED <<view, seen, refused>>
    BY <1>1 DEF Connects, Created, account
  <2>2. lane'.state = "connecting"
    BY <1>0, <1>1 DEF Connects, Created, OneSessionInv, ConnectionInv, LaneFields
  <2> QED BY <1>0, <2>1, <2>2, BackoffKeepsAccount DEF MirrorInv, ReplayMirrorsAccount
<1>2. CASE Synchronises
  <2>1. replay' = Unsynchronized(replay) /\ UNCHANGED <<view, seen, buffer, refused>>
    BY <1>2 DEF Synchronises, OnOpen, account
  <2>2. lane'.state = "synchronizing"
    BY <1>0, <1>2 DEF Synchronises, OnOpen, LaneFields
  <2>3. buffer = <<>>
    BY <1>2 DEF Synchronises, OnOpen, OneSessionInv, ConnectionInv, Live
  <2> QED BY <1>0, <2>1, <2>2, <2>3, BackoffKeepsAccount DEF MirrorInv, ReplayMirrorsAccount
<1>3. CASE UNCHANGED replayVars
  BY <1>3 DEF replayVars, vars, account, MirrorInv, ReplayMirrorsAccount, IsReplay
<1>4. CASE ReconcilesNot
  <2>1. replay' = Threw /\ refused' = TRUE
    BY <1>4 DEF ReconcilesNot
  <2> QED BY <2>1, ThrewIsReplay DEF MirrorInv, ReplayMirrorsAccount, IsReplay
<1> QED BY <1>1, <1>2, <1>3, <1>4, IgnoredMirrors, ReconcilesMirrors, ReceivesMirrors DEF ReplayNext

(* A step of the lane with its replay is a step of the lane. *)
LEMMA ReplayStepIsStep == [ReplayNext]_replayVars => [Next]_vars
BY DEF ReplayNext, Ignored, Connects, Synchronises, Reconciles, ReconcilesNot, Receives, Next,
       replayVars

(* FR-B009, the private half: at every record of the journal of a process   *)
(* that starts the lane once, replay holds the lane's account, and it has   *)
(* no result exactly from the record on at which the lane's own account     *)
(* refused a snapshot or an event.                                          *)
THEOREM ReplayReproducesAccount == MaxStarts = 1 /\ ReplaySpec => []ReplayMirrorsAccount
<1> SUFFICES ASSUME MaxStarts = 1 PROVE ReplaySpec => []ReplayMirrorsAccount
  OBVIOUS
<1>1. ReplayInit => OneSessionInv /\ AccountInv /\ MirrorInv
  <2> SUFFICES ASSUME ReplayInit PROVE OneSessionInv /\ AccountInv /\ MirrorInv
    OBVIOUS
  <2>1. Init
    BY DEF ReplayInit
  <2>2. MirrorInv
    BY DEF ReplayInit, Init, MirrorInv, IsReplay, ReplayMirrorsAccount
  <2> QED BY <2>1, <2>2, InitAccount
<1>2. /\ OneSessionInv /\ AccountInv /\ MirrorInv /\ [ReplayNext]_replayVars
      => (OneSessionInv /\ AccountInv /\ MirrorInv)'
  <2> SUFFICES ASSUME OneSessionInv, AccountInv, MirrorInv, [ReplayNext]_replayVars
               PROVE  (OneSessionInv /\ AccountInv /\ MirrorInv)'
    OBVIOUS
  <2>1. OneSessionInv' /\ AccountInv'
    BY ReplayStepIsStep, StepLane
  <2> QED BY <2>1, StepMirrors
<1>3. MirrorInv => ReplayMirrorsAccount
  BY DEF MirrorInv
<1> QED BY <1>1, <1>2, <1>3, PTL DEF ReplaySpec

=============================================================================
