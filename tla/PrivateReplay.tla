---------------------------- MODULE PrivateReplay ----------------------------
(***************************************************************************)
(* The private lane with its evidence and the replay of it                 *)
(* (stream-replay.ts, the private channel), kept as PublicReplay keeps the *)
(* public one: each step adds what its records make of the account.  What  *)
(* the account refuses is recorded first, and replay throws at that record *)
(* and has no result from then on.                                         *)
(***************************************************************************)
EXTENDS PrivateLane

VARIABLES
    replay,     \* [view, seen, buffer, synchronized, threw]
    refused     \* history: the lane's account refused an event or a snapshot

replayVars == <<vars, replay, refused>>

ReplayInit ==
    /\ Init
    /\ replay = [view |-> view, seen |-> seen, buffer |-> <<>>, synchronized |-> FALSE,
                 threw |-> FALSE]
    /\ refused = FALSE

Threw == [view |-> [p \in Parts |-> 0], seen |-> {}, buffer |-> <<>>, synchronized |-> FALSE,
          threw |-> TRUE]

(* Mutant: messages go on being applied until the next reconciliation. *)
StillSynchronized(r) == [r EXCEPT !.buffer = <<>>]

(* "connecting", "synchronizing" and "backoff". *)
Unsynchronized(r) == [r EXCEPT !.buffer = <<>>, !.synchronized = FALSE]

(* A restart the step schedules is recorded last. *)
AfterBackoff(r) ==
    IF ~lane.restartPending /\ lane'.restartPending THEN Unsynchronized(r) ELSE r

(* "creating_listen_key" and "stopped" are ignored, and so are errors,      *)
(* keepalives and the transitions the lane does not restart at.             *)
Ignored ==
    /\ \/ Start \/ Stop \/ RestartTimer
       \/ \E c \in creates : (c = "stale" /\ Created(c)) \/ CreateFails(c)
       \/ \E c \in closing : Closed(c) \/ CloseFails(c)
       \/ KeepAliveFires \/ PingAnswers
       \/ SnapshotReads \/ SnapshotFails \/ SocketEnds
       \/ \E p \in Parts : Changes(p)
       \/ \E e \in sent : Repeats(e)
       \/ KeyExpires \/ DeleteArrivesLate \/ SocketLost
    /\ replay' = AfterBackoff(replay) /\ UNCHANGED refused

Connects ==
    /\ "current" \in creates /\ Created("current")
    /\ replay' = Unsynchronized(replay) /\ UNCHANGED refused

Synchronises ==
    /\ OnOpen
    /\ replay' = Unsynchronized(replay) /\ UNCHANGED refused

Reconciled(r, snapshot) ==
    LET a == FoldLeft(Apply, Holding(snapshot, r.seen), r.buffer)
    IN  IF r.threw \/ REFUSED \in ToSet(r.buffer) THEN Threw
        ELSE [view |-> a.view, seen |-> a.seen, buffer |-> <<>>, synchronized |-> TRUE,
              threw |-> FALSE]

(* A reconciliation is recorded before the lane's account is reconciled. *)
Reconciles ==
    /\ SnapshotArrives
    /\ replay' = AfterBackoff(Reconciled(replay, lane.snapshot))
    /\ refused' = (refused \/ REFUSED \in ToSet(buffer))

ReconcilesNot ==
    /\ SnapshotRefused
    /\ replay' = Threw
    /\ refused' = TRUE

(* Mutant: an event is recorded once it is applied. *)
ObservedOnceApplied(r, e) ==
    LET a == Apply(Holding(r.view, r.seen), e)
    IN  IF r.threw \/ a.refused THEN r
        ELSE IF ~r.synchronized THEN [r EXCEPT !.buffer = Append(@, e)]
        ELSE [r EXCEPT !.view = a.view, !.seen = a.seen]

Observed(r, e) ==
    LET a == Apply(Holding(r.view, r.seen), e)
    IN  IF r.threw THEN r
        ELSE IF ~r.synchronized THEN [r EXCEPT !.buffer = Append(@, e)]
        ELSE IF a.refused THEN Threw
        ELSE [r EXCEPT !.view = a.view, !.seen = a.seen]

(* A message is recorded once it is unwrapped, before it is acted on. *)
Receives ==
    /\ OnMessage
    /\ replay' = AfterBackoff(IF Head(wire) = NONE THEN replay ELSE Observed(replay, Head(wire)))
    /\ refused' = (refused \/ (Head(wire) = REFUSED /\ lane.state = "running"))

ReplayNext == Ignored \/ Connects \/ Synchronises \/ Reconciles \/ ReconcilesNot \/ Receives

ReplaySpec == ReplayInit /\ [][ReplayNext]_replayVars

FairReplaySpec == ReplaySpec /\ Fairness

-----------------------------------------------------------------------------
(* FR-B009: replay reproduces the account the lane holds, and what it       *)
(* buffers until its next reconciliation, at every record of a journal      *)
(* that begins with the lane, and has no result from the record on at which *)
(* the lane's own account refused a snapshot or an event: no other throws,  *)
(* an event least of all that a restart dropped before it was applied.      *)
ReplayMirrorsAccount ==
    /\ replay.threw = refused
    /\ ~replay.threw =>
          /\ replay.view = view /\ replay.seen = seen
          /\ lane.state \in {"synchronizing", "running"} =>
                replay.buffer = buffer /\ replay.synchronized = (lane.state = "running")

=============================================================================
