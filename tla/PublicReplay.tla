---------------------------- MODULE PublicReplay ----------------------------
(***************************************************************************)
(* The public lane with its evidence and the replay of it                  *)
(* (stream-replay.ts, the public channel).  A handler writes its records   *)
(* within the turn in which it acts, so the replay of the records up to    *)
(* now is a book kept beside the lane's: each step adds what its records   *)
(* make of it.  A reader of a rotated journal begins with some later       *)
(* record: Rotated.                                                        *)
(***************************************************************************)
EXTENDS PublicLane

VARIABLE replay     \* [book; synced: history; foreign: the book holds a frame the lane
                    \* refused, and is not followed; threw]

replayVars == <<vars, replay>>

(* The reader has seen the last connecting or backoff and no stop since. *)
Restored == [book |-> EmptyBook, synced |-> TRUE, foreign |-> FALSE, threw |-> FALSE]

(* Replay ingests a depth message of another symbol, or of another type. *)
Foreign == [book |-> EmptyBook, synced |-> FALSE, foreign |-> TRUE, threw |-> FALSE]

(* Parsing a malformed message throws, and the whole replay with it. *)
Threw == [book |-> EmptyBook, synced |-> FALSE, foreign |-> FALSE, threw |-> TRUE]

ReplayInit == Init /\ replay = Restored

Showing(b) == IF replay.threw \/ replay.foreign THEN replay ELSE [replay EXCEPT !.book = b]

(* Mutant: the book survives a backoff. *)
KeptInBackoff(r) == r

(* A reconnect the step schedules is recorded last; it resets the book. *)
AfterBackoff(r) ==
    IF lane.state # "backoff" /\ lane'.state = "backoff" /\ ~r.threw THEN Restored ELSE r

(* "connecting" resets the book; "stopped" does not. *)
Connects ==
    /\ Start \/ RestartTimer
    /\ replay' = IF replay.threw THEN replay ELSE Restored

Stops ==
    /\ Stop
    /\ replay' = [replay EXCEPT !.synced = FALSE]

(* Errors and other transitions are ignored. *)
Fails ==
    /\ SocketEnds \/ SnapshotFails
    /\ replay' = AfterBackoff(replay)

Synchronises ==
    /\ SnapshotArrives
    /\ replay' = AfterBackoff(Showing(LoadSnapshot(replay.book,
                                                   SnapshotAt(updates, lane.answer))))

(* A message the lane refuses is not recorded if it does not decode at all, *)
(* and was recorded if it does not parse or fails the identity check, which *)
(* replay does not make.                                                    *)
Refused == {replay, Threw} \cup (IF replay.threw THEN {} ELSE {Foreign})

(* A frame is recorded if it decodes, and before it is parsed and checked. *)
Receives(i) ==
    /\ Decoded(i)
    /\ LET m == decoding[i].message
       IN  IF m = NONE THEN \E r \in Refused : replay' = AfterBackoff(r)
           ELSE replay' = AfterBackoff(Showing(Ingest(replay.book, m)))

(* The journal's oldest records are gone: a reader begins here.             *)
(* Bound: only where it loses what the snapshot is to be joined to.         *)
Rotated ==
    /\ replay.synced /\ lane.state = "synchronizing" /\ decoding = <<>>
    /\ faults < MaxFaults
    /\ faults' = faults + 1
    /\ replay' = [book |-> EmptyBook, synced |-> FALSE, foreign |-> FALSE, threw |-> FALSE]
    /\ UNCHANGED <<laneVars, updates, cut>>

Unrecorded ==
    /\ \/ OnOpen \/ OnMessage \/ SocketLost
       \/ \E p \in Prices : Updated(p)
       \/ \E previous \in {cut, NONE} : Emits(previous)
       \/ \E n \in 1 .. Len(updates) : SnapshotTaken(n)
    /\ UNCHANGED replay

ReplayNext ==
    \/ Connects \/ Stops \/ Fails \/ Synchronises
    \/ \E i \in DOMAIN decoding : Receives(i)
    \/ Rotated
    \/ Unrecorded

ReplaySpec == ReplayInit /\ [][ReplayNext]_replayVars

(* The event loop does not starve: as long as a timer, an event, an answer  *)
(* or an awaited promise is due, one of them is served.  A socket opens or  *)
(* fails, and the REST client aborts after its timeout.                     *)
Served ==
    \/ lane.timer /\ Connects
    \/ socket = "failed" /\ SocketEnds /\ replay' = AfterBackoff(replay)
    \/ Synchronises
    \/ \E i \in DOMAIN decoding : Receives(i)
    \/ (OnOpen \/ OnMessage \/ \E n \in 1 .. Len(updates) : SnapshotTaken(n)) /\ UNCHANGED replay

FairReplaySpec == ReplaySpec /\ WF_replayVars(Served)

-----------------------------------------------------------------------------
(* Properties. *)

(* FR-B009: replay reproduces the lane's book, its buffer included, from    *)
(* the first connecting or backoff the reader finds until the lane is       *)
(* stopped or refuses a message that a restart did not reset: one decoded   *)
(* late, which only replay takes in, or one on which replay throws.         *)
(* Whatever else was decoded late or out of order, both took it.            *)
ReplayMirrorsBook ==
    replay.synced => replay.book = book

(* Wherever the journal begins, a replayed book that calls itself ready is  *)
(* the venue's at the update it names, unless it took in a late message     *)
(* that the lane refused.                                                   *)
ReplayIsTrue ==
    ~replay.foreign /\ replay.book.status = "ready" =>
        replay.book.levels = BookAt(updates, replay.book.updateId)

=============================================================================
