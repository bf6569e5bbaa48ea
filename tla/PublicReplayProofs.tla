-------------------------- MODULE PublicReplayProofs --------------------------
(***************************************************************************)
(* The public lane and its replay, for every number of updates, levels and *)
(* faults.                                                                 *)
(*                                                                         *)
(* Replay reproduces the lane's book: every handler hands both the same    *)
(* operation, so nothing about the book itself is needed.  That a ready    *)
(* book is the venue's needs the book's own argument: whatever may still   *)
(* reach it was cut from the venue's history, and a delta is applied only  *)
(* where it leaves nothing out.                                            *)
(***************************************************************************)
EXTENDS PublicReplay, SequenceTheorems, WellFoundedInduction, TLAPS

IsReplay(r) ==
    r = [book |-> r.book, synced |-> r.synced, foreign |-> r.foreign, threw |-> r.threw]

(* The invariant: a replay in step was not aborted, and the books agree.    *)
InStep(r, b) == r.synced => ~r.threw /\ ~r.foreign /\ r.book = b

MirrorInv == IsReplay(replay) /\ InStep(replay, book)

HasState == "state" \in DOMAIN lane

(* The lane stays a record with a state.                                    *)
LEMMA StepHasState ==
    ASSUME HasState, [ReplayNext]_replayVars
    PROVE  HasState'
<1>1. ASSUME NEW state, NEW desired, NEW timer, NEW sock, NEW q,
             NewEpoch(state, desired, timer, sock, q)
      PROVE  HasState'
  BY <1>1 DEF NewEpoch, HasState
<1>2. ASSUME NEW b, NEW q, ScheduleRestart(b, q) PROVE HasState'
  BY <1>1, <1>2 DEF ScheduleRestart, HasState
<1>3. CASE Connects
  BY <1>1, <1>3 DEF Connects, Start, RestartTimer, Connect
<1>4. CASE Stops
  BY <1>1, <1>4 DEF Stops, Stop
<1>5. CASE Fails
  BY <1>2, <1>5 DEF Fails, SocketEnds, SnapshotFails
<1>6. CASE Synchronises
  <2>1. SnapshotArrives
    BY <1>6 DEF Synchronises
  <2> QED BY <1>2, <2>1 DEF SnapshotArrives, HasState
<1>7. ASSUME NEW i \in DOMAIN decoding, Receives(i) PROVE HasState'
  <2>1. Decoded(i)
    BY <1>7 DEF Receives
  <2> QED BY <1>2, <2>1 DEF Decoded, HasState
<1>8. CASE Rotated
  BY <1>8 DEF Rotated, laneVars, HasState
<1>9. CASE Unrecorded
  BY <1>9 DEF Unrecorded, OnOpen, OnMessage, SocketLost, Updated, Emits, SnapshotTaken,
              laneVars, venueVars, HasState
<1>10. CASE UNCHANGED replayVars
  BY <1>10 DEF replayVars, vars, HasState
<1> QED BY <1>3, <1>4, <1>5, <1>6, <1>7, <1>8, <1>9, <1>10 DEF ReplayNext

(* A step that gives the lane's book b gives it to the replay as well,      *)
(* unless a reconnect resets both.                                          *)
LEMMA RestartMirrors ==
    ASSUME MirrorInv, NEW b, NEW q, NEW r, IsReplay(r),
           InStep(r, b),
           ScheduleRestart(b, q), replay' = AfterBackoff(r)
    PROVE  MirrorInv'
<1>1. CASE lane.desired /\ lane.state # "backoff"
  <2>1. book' = EmptyBook /\ lane'.state = "backoff"
    BY <1>1 DEF ScheduleRestart, NewEpoch
  <2>2. CASE r.threw
    BY <1>1, <2>1, <2>2 DEF AfterBackoff, MirrorInv, InStep
  <2>3. CASE ~r.threw
    BY <1>1, <2>1, <2>3 DEF AfterBackoff, MirrorInv, InStep, Restored, IsReplay
  <2> QED BY <2>2, <2>3
<1>2. CASE ~(lane.desired /\ lane.state # "backoff")
  <2>1. book' = b /\ lane' = lane
    BY <1>2 DEF ScheduleRestart
  <2>2. replay' = r
    BY <2>1 DEF AfterBackoff
  <2> QED BY <2>1, <2>2 DEF MirrorInv
<1> QED BY <1>1, <1>2

(* As the last one, for a step that does not reconnect.                     *)
LEMMA StayMirrors ==
    ASSUME NEW b, NEW r, IsReplay(r), InStep(r, b),
           book' = b, replay' = AfterBackoff(r), lane'.state # "backoff" \/ lane' = lane
    PROVE  MirrorInv'
<1>1. replay' = r
  BY DEF AfterBackoff
<1> QED BY <1>1 DEF MirrorInv

(* Showing c beside the lane's b, equal where the two books were.           *)
LEMMA ShowingMirrors ==
    ASSUME MirrorInv, NEW b, NEW c, replay.book = book => c = b
    PROVE  IsReplay(Showing(c)) /\ InStep(Showing(c), b)
BY DEF MirrorInv, InStep, Showing, IsReplay

(* "connecting" resets both books.                                          *)
LEMMA ConnectsMirrors ==
    ASSUME MirrorInv, Connects
    PROVE  MirrorInv'
<1>1. book' = EmptyBook
  BY DEF Connects, Start, RestartTimer, Connect, NewEpoch
<1> QED BY <1>1 DEF Connects, MirrorInv, InStep, Restored, IsReplay

(* The snapshot is loaded into both.                                        *)
LEMMA SynchronisesMirrors ==
    ASSUME MirrorInv, HasState, Synchronises
    PROVE  MirrorInv'
<1> DEFINE s == SnapshotAt(updates, lane.answer)
           r == Showing(LoadSnapshot(replay.book, s))
<1>1. IsReplay(r) /\ InStep(r, LoadSnapshot(book, s))
  <2>1. replay.book = book => LoadSnapshot(replay.book, s) = LoadSnapshot(book, s)
    OBVIOUS
  <2> QED BY <2>1, ShowingMirrors
<1>2. SnapshotArrives /\ replay' = AfterBackoff(r)
  BY DEF Synchronises
<1>3. CASE Joined(LoadSnapshot(book, s))
  <2>1. book' = LoadSnapshot(book, s) /\ lane'.state = "running"
    BY <1>2, <1>3 DEF SnapshotArrives, HasState
  <2> QED BY <1>1, <1>2, <2>1, StayMirrors
<1>4. CASE ~Joined(LoadSnapshot(book, s))
  <2>1. ScheduleRestart(LoadSnapshot(book, s), decoding)
    BY <1>2, <1>4 DEF SnapshotArrives
  <2> QED BY <1>1, <1>2, <2>1, RestartMirrors
<1> QED BY <1>3, <1>4

(* A message is ingested by both, or ends the replay.                       *)
LEMMA ReceivesMirrors ==
    ASSUME MirrorInv, NEW i \in DOMAIN decoding, Receives(i)
    PROVE  MirrorInv'
<1> DEFINE m == decoding[i].message
           q == RemoveAt(decoding, i)
           b == IF m = NONE THEN book ELSE Ingest(book, m)
<1>1. PICK r : replay' = AfterBackoff(r) /\ IsReplay(r) /\ InStep(r, b)
  <2>1. CASE m = NONE
    <3>1. PICK r \in Refused : replay' = AfterBackoff(r)
      BY <2>1 DEF Receives
    <3>2. IsReplay(r) /\ InStep(r, book)
      BY <3>1 DEF Refused, Threw, Foreign, MirrorInv, IsReplay, InStep
    <3> QED BY <2>1, <3>1, <3>2
  <2>2. CASE m # NONE
    <3>1. replay.book = book => Ingest(replay.book, m) = Ingest(book, m)
      OBVIOUS
    <3>2. replay' = AfterBackoff(Showing(Ingest(replay.book, m)))
      BY <2>2 DEF Receives
    <3> QED BY <2>2, <3>1, <3>2, ShowingMirrors
  <2> QED BY <2>1, <2>2
<1>2. ScheduleRestart(b, q) \/ (book' = b /\ lane' = lane)
  BY DEF Receives, Decoded
<1> HIDE DEF b, q, m
<1>3. CASE ScheduleRestart(b, q)
  BY <1>1, <1>3, RestartMirrors
<1>4. CASE book' = b /\ lane' = lane
  BY <1>1, <1>4, StayMirrors
<1> QED BY <1>2, <1>3, <1>4

(* Every step keeps the two books together.                                 *)
LEMMA StepMirrors ==
    ASSUME MirrorInv, HasState, [ReplayNext]_replayVars
    PROVE  MirrorInv'
<1>1. CASE Connects
  BY <1>1, ConnectsMirrors
<1>2. CASE Stops
  BY <1>2 DEF Stops, MirrorInv, InStep, IsReplay
<1>3. CASE Fails
  <2>1. ScheduleRestart(book, decoding) /\ replay' = AfterBackoff(replay)
    BY <1>3 DEF Fails, SocketEnds, SnapshotFails
  <2> QED BY <2>1, RestartMirrors DEF MirrorInv
<1>4. CASE Synchronises
  BY <1>4, SynchronisesMirrors
<1>5. CASE \E i \in DOMAIN decoding : Receives(i)
  BY <1>5, ReceivesMirrors
<1>6. CASE Rotated
  BY <1>6 DEF Rotated, MirrorInv, InStep, IsReplay
<1>7. CASE Unrecorded
  <2>1. UNCHANGED <<book, replay>>
    BY <1>7 DEF Unrecorded, OnOpen, OnMessage, SocketLost, Updated, Emits, SnapshotTaken,
                laneVars, venueVars
  <2> QED BY <2>1 DEF MirrorInv, IsReplay
<1>8. CASE UNCHANGED replayVars
  BY <1>8 DEF replayVars, vars, MirrorInv, IsReplay
<1> QED BY <1>1, <1>2, <1>3, <1>4, <1>5, <1>6, <1>7, <1>8 DEF ReplayNext

(* FR-B009, the public half: from the first connecting or backoff its       *)
(* reader finds until the lane is stopped, the replayed book is the lane's, *)
(* whatever was lost, malformed, late or decoded out of order, unless the   *)
(* replay ingested a late message that the lane had refused as foreign.     *)
THEOREM ReplayReproducesBook == ReplaySpec => []ReplayMirrorsBook
<1>1. ReplayInit => MirrorInv /\ HasState
  BY DEF ReplayInit, Init, Restored, MirrorInv, InStep, IsReplay, HasState
<1>2. MirrorInv /\ HasState /\ [ReplayNext]_replayVars => MirrorInv' /\ HasState'
  BY StepMirrors, StepHasState
<1>3. MirrorInv => ReplayMirrorsBook
  BY DEF MirrorInv, InStep, ReplayMirrorsBook
<1> QED BY <1>1, <1>2, <1>3, PTL DEF ReplaySpec

-----------------------------------------------------------------------------
(* Folds over the buffered deltas. *)

(* Induction for sets of natural numbers, from the well-foundedness of <.   *)
LEMMA NatSetInduction ==
    ASSUME NEW S, 0 \in S, \A n \in Nat : n \in S => n + 1 \in S
    PROVE  Nat \subseteq S
<1> DEFINE R == OpToRel(<, Nat)
           T == Nat \ S
<1>1. SUFFICES ASSUME T # {} PROVE FALSE
  OBVIOUS
<1>2. IsWellFoundedOn(R, Nat)
  BY NatLessThanWellFounded
<1>3. PICK x \in T : \A y \in T : <<y, x>> \notin R
  <2> HIDE DEF R
  <2> QED BY <1>1, <1>2, WFMin
<1>4. x \in Nat /\ x # 0 /\ x - 1 \in Nat
  OBVIOUS
<1>5. x - 1 \in T
  BY <1>4
<1>6. <<x - 1, x>> \in R
  BY <1>4 DEF OpToRel
<1> QED BY <1>3, <1>5, <1>6

(* The function by which FoldLeft applies the first k deltas of q.          *)
IsFold(f, base, q, k) ==
    f = [s \in SUBSET (1 .. k) |->
            IF s = {} THEN base ELSE ApplyBuffered(f[s \ {Max(s)}], q[Max(s)])]

(* One more delta extends it.                                               *)
LEMMA FoldExtends ==
    ASSUME NEW base, NEW q, NEW k \in Nat, NEW f, IsFold(f, base, q, k)
    PROVE  \E g : IsFold(g, base, q, k + 1)
<1> DEFINE g == [s \in SUBSET (1 .. k + 1) |->
                    IF k + 1 \in s THEN ApplyBuffered(f[s \ {k + 1}], q[k + 1]) ELSE f[s]]
<1>1. ASSUME NEW s \in SUBSET (1 .. k + 1)
      PROVE  g[s] = IF s = {} THEN base ELSE ApplyBuffered(g[s \ {Max(s)}], q[Max(s)])
  <2>1. CASE k + 1 \in s
    <3>1. Max(s) = k + 1
      <4>1. \A y \in s : k + 1 >= y
        OBVIOUS
      <4>2. ASSUME NEW x \in s, \A y \in s : x >= y PROVE x = k + 1
        BY <2>1, <4>1, <4>2
      <4> QED BY <2>1, <4>1, <4>2 DEF Max
    <3>2. s \ {k + 1} \in SUBSET (1 .. k + 1) /\ k + 1 \notin s \ {k + 1}
      OBVIOUS
    <3>3. g[s \ {k + 1}] = f[s \ {k + 1}]
      BY <3>2
    <3> QED BY <2>1, <3>1, <3>3
  <2>2. CASE k + 1 \notin s
    <3>1. s \in SUBSET (1 .. k)
      BY <2>2
    <3>2. f[s] = IF s = {} THEN base ELSE ApplyBuffered(f[s \ {Max(s)}], q[Max(s)])
      BY <3>1 DEF IsFold
    <3>3. s \ {Max(s)} \in SUBSET (1 .. k + 1) /\ k + 1 \notin s \ {Max(s)}
      BY <2>2
    <3>4. g[s \ {Max(s)}] = f[s \ {Max(s)}] /\ g[s] = f[s]
      BY <2>2, <3>3
    <3> QED BY <3>2, <3>4
  <2> QED BY <2>1, <2>2
<1>2. g = [s \in SUBSET (1 .. k + 1) |->
              IF s = {} THEN base ELSE ApplyBuffered(g[s \ {Max(s)}], q[Max(s)])]
  <2> HIDE DEF g
  <2>1. g = [s \in SUBSET (1 .. k + 1) |-> g[s]]
    BY DEF g
  <2> QED BY <1>1, <2>1
<1>3. IsFold(g, base, q, k + 1)
  BY <1>2 DEF IsFold
<1> QED BY <1>3

(* So it exists for every number of deltas.                                 *)
LEMMA FoldExists ==
    ASSUME NEW base, NEW q
    PROVE  \A k \in Nat : \E f : IsFold(f, base, q, k)
<1> DEFINE S == {k \in Nat : \E f : IsFold(f, base, q, k)}
<1>1. 0 \in S
  <2> DEFINE f == [s \in SUBSET (1 .. 0) |-> base]
  <2>1. \A s \in SUBSET (1 .. 0) : s = {}
    OBVIOUS
  <2>2. IsFold(f, base, q, 0)
    BY <2>1 DEF IsFold
  <2> QED BY <2>2
<1>2. \A n \in Nat : n \in S => n + 1 \in S
  BY FoldExtends
<1>3. Nat \subseteq S
  <2> HIDE DEF S
  <2> QED BY <1>1, <1>2, NatSetInduction
<1> QED BY <1>3

(* It begins with the base, and applies one delta after the other.          *)
FoldSteps(f, base, q, k) ==
    /\ f[1 .. 0] = base
    /\ \A i \in 0 .. k - 1 : f[1 .. i + 1] = ApplyBuffered(f[1 .. i], q[i + 1])

LEMMA FoldStepwise ==
    ASSUME NEW k \in Nat, NEW base, NEW q, NEW f, IsFold(f, base, q, k)
    PROVE  FoldSteps(f, base, q, k)
<1>1. f[1 .. 0] = base
  <2>1. 1 .. 0 = {} /\ {} \in SUBSET (1 .. k)
    OBVIOUS
  <2> QED BY <2>1 DEF IsFold
<1>2. ASSUME NEW i \in 0 .. k - 1
      PROVE  f[1 .. i + 1] = ApplyBuffered(f[1 .. i], q[i + 1])
  <2> DEFINE s == 1 .. i + 1
  <2>1. s \in SUBSET (1 .. k) /\ s # {}
    OBVIOUS
  <2>2. Max(s) = i + 1
    <3>1. i + 1 \in s /\ \A y \in s : i + 1 >= y
      OBVIOUS
    <3>2. ASSUME NEW x \in s, \A y \in s : x >= y PROVE x = i + 1
      BY <3>1, <3>2
    <3> HIDE DEF s
    <3> QED BY <3>1, <3>2 DEF Max
  <2>3. s \ {i + 1} = 1 .. i
    OBVIOUS
  <2>4. f[s] = ApplyBuffered(f[s \ {Max(s)}], q[Max(s)])
    <3> HIDE DEF s
    <3> QED BY <2>1 DEF IsFold
  <2> QED BY <2>2, <2>3, <2>4
<1> QED BY <1>1, <1>2 DEF FoldSteps

(* The buffered deltas applied to a book.                                   *)
Folded(base, q) == FoldLeft(ApplyBuffered, base, q)

(* It is the value of that function for all deltas.                         *)
LEMMA FoldLeftSteps ==
    ASSUME NEW base, NEW q, NEW k \in Nat, DOMAIN q = 1 .. k
    PROVE  \E f : FoldSteps(f, base, q, k) /\ Folded(base, q) = f[1 .. k]
<1> DEFINE f == CHOOSE h : IsFold(h, base, q, k)
<1>1. IsFold(f, base, q, k)
  BY FoldExists
<1>2. Folded(base, q) = f[1 .. k]
  BY DEF Folded, FoldLeft, MapThenFoldSet, IsFold
<1> HIDE DEF f
<1>3. FoldSteps(f, base, q, k)
  BY <1>1, FoldStepwise
<1> QED BY <1>2, <1>3

-----------------------------------------------------------------------------
(* The venue's book and what is cut from it. *)

(* The deltas and frames that the venue can have sent.                      *)
Cuts(us) ==
    {c \in [first : 1 .. Len(us), last : 1 .. Len(us), previous : Nat \cup {NONE}] :
        c.first <= c.last /\ c.previous \in {c.first - 1, NONE}}
DeltasOf(us) == {Delta(us, c.first, c.last, c.previous) : c \in Cuts(us)}
FramesOf(us) == DeltasOf(us) \cup {NONE}

(* A book that is ready is the venue's at its update, and one without an    *)
(* update is not ready.                                                     *)
IsBook(b) ==
    b = [status |-> b.status, updateId |-> b.updateId, levels |-> b.levels,
         buffered |-> b.buffered, awaitingFirstDelta |-> b.awaitingFirstDelta]
GoodBook(b, us) ==
    /\ IsBook(b)
    /\ b.status \in Statuses
    /\ b.updateId \in 0 .. Len(us)
    /\ b.status \in {"empty", "buffering"} => b.updateId = 0
    /\ b.status = "ready" => b.updateId # 0 /\ b.levels = BookAt(us, b.updateId)
    /\ b.buffered \in Seq(DeltasOf(us))

(* The quantity of a price is that of its last update.                      *)
LEMMA LevelUnchanged ==
    ASSUME NEW us, NEW m \in Nat, NEW n \in Nat, m <= n, NEW p,
           \A j \in m + 1 .. n : us[j] # p
    PROVE  LevelAt(us, n, p) = LevelAt(us, m, p)
<1> DEFINE P(i) == i \in 0 .. n /\ (i = 0 \/ us[i] = p) /\ \A j \in i + 1 .. n : us[j] # p
           Q(i) == i \in 0 .. m /\ (i = 0 \/ us[i] = p) /\ \A j \in i + 1 .. m : us[j] # p
<1>1. ASSUME NEW i, P(i) PROVE Q(i)
  <2>1. i \in 0 .. m
    BY <1>1
  <2>2. \A j \in i + 1 .. m : j \in i + 1 .. n
    BY <2>1
  <2> QED BY <1>1, <2>1, <2>2
<1>2. ASSUME NEW i, Q(i) PROVE P(i)
  <2>1. i \in 0 .. n
    BY <1>2
  <2>2. \A j \in i + 1 .. n : j \in i + 1 .. m \/ j \in m + 1 .. n
    BY <2>1
  <2> QED BY <1>2, <2>1, <2>2
<1>3. LevelAt(us, n, p) = CHOOSE i : P(i)
  BY DEF LevelAt
<1>4. LevelAt(us, m, p) = CHOOSE i : Q(i)
  BY DEF LevelAt
<1>5. \A i : P(i) <=> Q(i)
  BY <1>1, <1>2
<1>6. (CHOOSE i : P(i)) = (CHOOSE i : Q(i))
  <2> HIDE DEF P, Q
  <2> QED BY <1>5
<1> QED BY <1>3, <1>4, <1>6

(* Later updates do not change what was cut.                                *)
LEMMA LevelKept ==
    ASSUME NEW us \in Seq(Prices), NEW q \in Prices, NEW n \in 0 .. Len(us), NEW p
    PROVE  LevelAt(Append(us, q), n, p) = LevelAt(us, n, p)
<1> DEFINE vs == Append(us, q)
           P(i) == i \in 0 .. n /\ (i = 0 \/ vs[i] = p) /\ \A j \in i + 1 .. n : vs[j] # p
           Q(i) == i \in 0 .. n /\ (i = 0 \/ us[i] = p) /\ \A j \in i + 1 .. n : us[j] # p
<1>1. \A j \in 1 .. n : vs[j] = us[j]
  OBVIOUS
<1>2. \A i \in 0 .. n : (i = 0 \/ i \in 1 .. n) /\ \A j \in i + 1 .. n : j \in 1 .. n
  OBVIOUS
<1>3. \A i : P(i) <=> Q(i)
  <2> HIDE DEF vs
  <2> QED BY <1>1, <1>2
<1>4. LevelAt(vs, n, p) = CHOOSE i : P(i)
  BY DEF LevelAt
<1>5. LevelAt(us, n, p) = CHOOSE i : Q(i)
  BY DEF LevelAt
<1>6. (CHOOSE i : P(i)) = (CHOOSE i : Q(i))
  <2> HIDE DEF P, Q
  <2> QED BY <1>3
<1> QED BY <1>4, <1>5, <1>6

(* The same for books and deltas.                                           *)
LEMMA CutsAreKept ==
    ASSUME NEW us \in Seq(Prices), NEW q \in Prices
    PROVE  /\ \A n \in 0 .. Len(us) : BookAt(Append(us, q), n) = BookAt(us, n)
           /\ DeltasOf(us) \subseteq DeltasOf(Append(us, q))
           /\ FramesOf(us) \subseteq FramesOf(Append(us, q))
<1> DEFINE vs == Append(us, q)
<1>1. vs \in Seq(Prices) /\ Len(vs) = Len(us) + 1 /\ \A i \in 1 .. Len(us) : vs[i] = us[i]
  OBVIOUS
<1>2. \A n \in 0 .. Len(us) : BookAt(vs, n) = BookAt(us, n)
  BY LevelKept DEF BookAt
<1>3. ASSUME NEW first \in 1 .. Len(us), NEW last \in 1 .. Len(us), NEW previous
      PROVE  Delta(vs, first, last, previous) = Delta(us, first, last, previous)
  <2>1. {vs[i] : i \in first .. last} = {us[i] : i \in first .. last}
    <3>1. \A i \in first .. last : vs[i] = us[i]
      BY <1>1
    <3> HIDE DEF vs
    <3> QED BY <3>1
  <2>2. \A p : LevelAt(vs, last, p) = LevelAt(us, last, p)
    BY LevelKept
  <2> HIDE DEF vs
  <2>3. [p \in {vs[i] : i \in first .. last} |-> LevelAt(vs, last, p)]
        = [p \in {us[i] : i \in first .. last} |-> LevelAt(us, last, p)]
    BY <2>1, <2>2
  <2> QED BY <2>3 DEF Delta
<1>4. ASSUME NEW d \in DeltasOf(us) PROVE d \in DeltasOf(vs)
  <2>1. PICK c \in Cuts(us) : d = Delta(us, c.first, c.last, c.previous)
    BY DEF DeltasOf
  <2>2. d = Delta(vs, c.first, c.last, c.previous)
    BY <1>3, <2>1 DEF Cuts
  <2>3. c \in Cuts(vs)
    <3> HIDE DEF vs
    <3> QED BY <1>1 DEF Cuts
  <2> QED BY <2>2, <2>3 DEF DeltasOf
<1> QED BY <1>2, <1>4 DEF FramesOf

(* A good book stays good when the venue's book goes on.                    *)
LEMMA GoodBookKept ==
    ASSUME NEW us \in Seq(Prices), NEW q \in Prices, NEW b, GoodBook(b, us)
    PROVE  GoodBook(b, Append(us, q))
<1>1. Len(Append(us, q)) = Len(us) + 1
  OBVIOUS
<1>2. Seq(DeltasOf(us)) \subseteq Seq(DeltasOf(Append(us, q)))
  BY CutsAreKept
<1> QED BY <1>1, <1>2, CutsAreKept DEF GoodBook

(* Applying a delta to a good book: it stays good and never goes back.      *)
LEMMA ApplyLiveIsGood ==
    ASSUME NEW us \in Seq(Prices), NEW b, GoodBook(b, us), b.status = "ready",
           NEW d \in DeltasOf(us)
    PROVE  /\ GoodBook(ApplyLive(b, d), us)
           /\ ApplyLive(b, d).status \in {"ready", "gapped"}
           /\ ApplyLive(b, d).updateId >= b.updateId
<1>1. PICK c \in Cuts(us) : d = Delta(us, c.first, c.last, c.previous)
  BY DEF DeltasOf
<1> DEFINE first == c.first
           last == c.last
<1>2. /\ first \in 1 .. Len(us) /\ last \in 1 .. Len(us) /\ first <= last
      /\ c.previous \in {first - 1, NONE} /\ Len(us) \in Nat
  BY DEF Cuts
<1>3. /\ d.U = first /\ d.u = last /\ d.pu = c.previous
      /\ d.levels = [p \in {us[i] : i \in first .. last} |-> LevelAt(us, last, p)]
  BY <1>1 DEF Delta
<1> HIDE DEF first, last
<1>4. /\ b.updateId \in 1 .. Len(us) /\ b.levels = BookAt(us, b.updateId)
      /\ IsBook(b) /\ b.buffered \in Seq(DeltasOf(us))
  BY <1>2 DEF GoodBook
<1>5. CASE AlreadyApplied(b, d)
  <2>1. ApplyLive(b, d) = b
    BY <1>5 DEF ApplyLive
  <2> QED BY <1>4, <2>1
<1>6. CASE /\ ~AlreadyApplied(b, d)
           /\ IF b.awaitingFirstDelta THEN JoinsSnapshot(b, d) ELSE Continues(b, d)
  <2>1. first <= b.updateId + 1 /\ b.updateId <= last
    BY <1>2, <1>3, <1>4, <1>6, BookAssumption DEF AlreadyApplied, JoinsSnapshot, Continues
  <2>2. ApplyLive(b, d) = WithLevels(b, d)
    BY <1>6 DEF ApplyLive
  <2>3. ASSUME NEW p \in Prices
        PROVE  (IF p \in DOMAIN d.levels THEN d.levels[p] ELSE b.levels[p]) = LevelAt(us, last, p)
    <3>1. CASE p \in {us[i] : i \in first .. last}
      BY <1>3, <3>1
    <3>2. CASE p \notin {us[i] : i \in first .. last}
      <4>1. \A j \in b.updateId + 1 .. last : us[j] # p
        <5>1. \A j \in b.updateId + 1 .. last : j \in first .. last
          BY <1>2, <1>4, <2>1
        <5> QED BY <3>2, <5>1
      <4>2. LevelAt(us, last, p) = LevelAt(us, b.updateId, p)
        BY <1>2, <1>4, <2>1, <4>1, LevelUnchanged
      <4>3. b.levels[p] = LevelAt(us, b.updateId, p)
        BY <1>4 DEF BookAt
      <4>4. p \notin DOMAIN d.levels
        BY <1>3, <3>2
      <4> QED BY <4>2, <4>3, <4>4
    <3> QED BY <3>1, <3>2
  <2>4. WithLevels(b, d).levels = BookAt(us, last)
    <3>1. [p \in Prices |-> IF p \in DOMAIN d.levels THEN d.levels[p] ELSE b.levels[p]]
          = [p \in Prices |-> LevelAt(us, last, p)]
      BY <2>3
    <3> QED BY <1>4, <3>1 DEF WithLevels, IsBook, BookAt
  <2>5. /\ IsBook(WithLevels(b, d)) /\ WithLevels(b, d).status = "ready"
        /\ WithLevels(b, d).updateId = last /\ WithLevels(b, d).buffered = b.buffered
    <3> DEFINE levels == [p \in Prices |-> IF p \in DOMAIN d.levels THEN d.levels[p]
                                           ELSE b.levels[p]]
    <3>1. WithLevels(b, d) = [b EXCEPT !.levels = levels, !.updateId = d.u,
                                       !.status = "ready", !.awaitingFirstDelta = FALSE]
      BY DEF WithLevels
    <3> HIDE DEF levels
    <3>2. WithLevels(b, d) = [status |-> "ready", updateId |-> d.u, levels |-> levels,
                              buffered |-> b.buffered, awaitingFirstDelta |-> FALSE]
      BY <1>4, <3>1 DEF IsBook
    <3> QED BY <1>3, <3>2 DEF IsBook
  <2> QED BY <1>2, <1>4, <2>1, <2>2, <2>4, <2>5 DEF GoodBook, Statuses
<1>7. CASE /\ ~AlreadyApplied(b, d)
           /\ ~(IF b.awaitingFirstDelta THEN JoinsSnapshot(b, d) ELSE Continues(b, d))
  <2>1. ApplyLive(b, d) = Gapped(b)
    BY <1>7 DEF ApplyLive
  <2>2. /\ IsBook(Gapped(b)) /\ Gapped(b).status = "gapped"
        /\ Gapped(b).updateId = b.updateId /\ Gapped(b).buffered = b.buffered
    BY <1>4 DEF Gapped, IsBook
  <2> QED BY <1>2, <1>4, <2>1, <2>2 DEF GoodBook, Statuses
<1> QED BY <1>5, <1>6, <1>7

(* Ingesting one: it is buffered or applied.                                *)
LEMMA IngestIsGood ==
    ASSUME NEW us \in Seq(Prices), NEW b, GoodBook(b, us), NEW d \in DeltasOf(us)
    PROVE  /\ GoodBook(Ingest(b, d), us)
           /\ Ingest(b, d).updateId >= b.updateId
           /\ b.status = "ready" => Ingest(b, d).status \in {"ready", "gapped"}
<1>1. CASE b.status = "gapped"
  BY <1>1 DEF Ingest, GoodBook
<1>2. CASE b.status # "gapped" /\ b.updateId = 0
  <2> DEFINE e == [b EXCEPT !.status = "buffering", !.buffered = Append(@, d)]
  <2>1. Ingest(b, d) = e
    BY <1>2 DEF Ingest
  <2>2. IsBook(b) /\ b.buffered \in Seq(DeltasOf(us))
    BY DEF GoodBook
  <2>3. /\ IsBook(e) /\ e.status = "buffering" /\ e.updateId = 0
        /\ e.buffered = Append(b.buffered, d)
    <3> DEFINE buffered == Append(b.buffered, d)
    <3>1. e = [b EXCEPT !.status = "buffering", !.buffered = buffered]
      OBVIOUS
    <3> HIDE DEF buffered, e
    <3>2. e = [status |-> "buffering", updateId |-> b.updateId, levels |-> b.levels,
               buffered |-> buffered, awaitingFirstDelta |-> b.awaitingFirstDelta]
      BY <2>2, <3>1 DEF IsBook
    <3>3. IsBook(e) /\ e.status = "buffering" /\ e.updateId = 0 /\ e.buffered = buffered
      BY <1>2, <3>2 DEF IsBook
    <3> QED BY <3>3 DEF buffered
  <2>4. Append(b.buffered, d) \in Seq(DeltasOf(us))
    BY <2>2
  <2>5. b.status # "ready"
    BY <1>2 DEF GoodBook
  <2> HIDE DEF e
  <2> QED BY <1>2, <2>1, <2>3, <2>4, <2>5 DEF GoodBook, Statuses
<1>3. CASE b.status # "gapped" /\ b.updateId # 0
  <2>1. b.status = "ready"
    BY <1>3 DEF GoodBook, Statuses
  <2>2. Ingest(b, d) = ApplyLive(b, d)
    BY <1>3 DEF Ingest
  <2> QED BY <2>1, <2>2, ApplyLiveIsGood
<1> QED BY <1>1, <1>2, <1>3

(* A book that is not waiting for a snapshot.                               *)
Loaded(b, us) == GoodBook(b, us) /\ b.status \in {"ready", "gapped"}

(* The buffered deltas, one after the other.                                *)
LEMMA BufferedAreGood ==
    ASSUME NEW us \in Seq(Prices), NEW base, Loaded(base, us), NEW q \in Seq(DeltasOf(us))
    PROVE  Loaded(Folded(base, q), us)
<1>1. PICK k \in Nat : DOMAIN q = 1 .. k
  OBVIOUS
<1>2. ASSUME NEW b, Loaded(b, us), NEW d \in DeltasOf(us) PROVE Loaded(ApplyBuffered(b, d), us)
  BY <1>2, ApplyLiveIsGood DEF ApplyBuffered, Loaded
<1>3. PICK f : FoldSteps(f, base, q, k) /\ Folded(base, q) = f[1 .. k]
  BY <1>1, FoldLeftSteps
<1>4. /\ f[1 .. 0] = base
       /\ \A i \in 0 .. k - 1 : f[1 .. i + 1] = ApplyBuffered(f[1 .. i], q[i + 1])
  BY <1>3 DEF FoldSteps
<1> DEFINE S == {i \in Nat : i <= k => Loaded(f[1 .. i], us)}
<1>5. 0 \in S
  BY <1>4
<1>6. ASSUME NEW i \in Nat, i \in S PROVE i + 1 \in S
  <2>1. SUFFICES ASSUME i + 1 <= k PROVE Loaded(f[1 .. i + 1], us)
    OBVIOUS
  <2>2. i \in 0 .. k - 1 /\ Loaded(f[1 .. i], us)
    BY <1>6, <2>1
  <2>3. q[i + 1] \in DeltasOf(us)
    BY <1>1, <2>1
  <2>4. f[1 .. i + 1] = ApplyBuffered(f[1 .. i], q[i + 1])
    BY <1>4, <2>2
  <2> QED BY <1>2, <2>2, <2>3, <2>4
<1>7. Nat \subseteq S
  <2> HIDE DEF S
  <2> QED BY <1>5, <1>6, NatSetInduction
<1>8. Loaded(f[1 .. k], us)
  BY <1>7
<1> QED BY <1>3, <1>8

(* Loading a snapshot and applying what was buffered makes a good book.     *)
LEMMA LoadSnapshotIsGood ==
    ASSUME NEW us \in Seq(Prices), NEW b, GoodBook(b, us), NEW n \in 1 .. Len(us)
    PROVE  Loaded(LoadSnapshot(b, SnapshotAt(us, n)), us)
<1> DEFINE base == [status |-> "ready", updateId |-> n, levels |-> BookAt(us, n),
                    buffered |-> <<>>, awaitingFirstDelta |-> TRUE]
<1>1. LoadSnapshot(b, SnapshotAt(us, n)) = Folded(base, b.buffered)
  BY DEF LoadSnapshot, SnapshotAt, Folded
<1>2. b.buffered \in Seq(DeltasOf(us))
  BY DEF GoodBook
<1>3. Loaded(base, us)
  <2>1. n \in 0 .. Len(us) /\ n # 0
    OBVIOUS
  <2> QED BY <2>1 DEF Loaded, GoodBook, IsBook, Statuses
<1> HIDE DEF base
<1> QED BY <1>1, <1>2, <1>3, BufferedAreGood

-----------------------------------------------------------------------------
(* The lane. *)

Lanes ==
    [state : {"stopped", "connecting", "synchronizing", "running", "backoff"},
     desired : BOOLEAN, timer : BOOLEAN, rest : {"none", "requested", "answered"}, answer : Nat]

(* A lane that has a socket is wanted, a snapshot is under way only while   *)
(* it synchronises, and a running lane has a book that is ready.            *)
LaneInv ==
    /\ lane \in Lanes
    /\ socket \in {"none", "connecting", "open", "failed"}
    /\ socket # "none" => lane.desired
    /\ lane.state \in {"synchronizing", "running"} => socket \in {"open", "failed"}
    /\ lane.rest # "none" => lane.state = "synchronizing"
    /\ lane.rest = "answered" => lane.answer \in 1 .. Len(updates)
    /\ lane.state = "running" => book.status = "ready"

(* Messages whose decoding is awaited.                                      *)
Awaited(us) == [message : FramesOf(us), current : BOOLEAN]

(* The local book, and whatever awaits it, comes from the venue's.          *)
BookInv ==
    /\ updates \in Seq(Prices)
    /\ cut \in 0 .. Len(updates)
    /\ GoodBook(book, updates)
    /\ wire \in Seq(FramesOf(updates))
    /\ decoding \in Seq(Awaited(updates))

(* An empty book is good.                                                   *)
LEMMA EmptyIsGood ==
    ASSUME NEW us \in Seq(Prices)
    PROVE  GoodBook(EmptyBook, us)
<1>1. Len(us) \in Nat
  OBVIOUS
<1> QED BY <1>1 DEF GoodBook, IsBook, EmptyBook, Statuses

(* A new epoch, whatever its reason.                                        *)
LEMMA NewEpochIsTrue ==
    ASSUME updates \in Seq(Prices), UNCHANGED <<updates, cut>>, cut \in 0 .. Len(updates),
           NEW q \in Seq(Awaited(updates)),
           NEW state \in {"stopped", "connecting", "backoff"}, NEW desired \in BOOLEAN,
           NEW timer \in BOOLEAN, NEW sock \in {"none", "connecting"},
           sock # "none" => desired,
           NewEpoch(state, desired, timer, sock, q)
    PROVE  LaneInv' /\ BookInv'
<1>1. LaneInv'
  BY DEF NewEpoch, LaneInv, Lanes
<1>2. Disarmed(q) \in Seq(Awaited(updates))
  <2> DEFINE n == Len(q)
  <2>1. n \in Nat /\ DOMAIN q = 1 .. n
    OBVIOUS
  <2>2. ASSUME NEW i \in 1 .. n
        PROVE  [q[i] EXCEPT !.current = FALSE] \in Awaited(updates)
    <3>1. q[i] \in Awaited(updates)
      BY <2>1
    <3> QED BY <3>1 DEF Awaited
  <2> HIDE DEF n
  <2>3. Disarmed(q) = [i \in 1 .. n |-> [q[i] EXCEPT !.current = FALSE]]
    BY <2>1 DEF Disarmed
  <2>4. Disarmed(q) \in [1 .. n -> Awaited(updates)]
    BY <2>2, <2>3
  <2> QED BY <2>1, <2>4
<1>3. book' = EmptyBook /\ wire' = <<>> /\ decoding' = Disarmed(q) /\ updates' = updates
  BY DEF NewEpoch
<1>4. GoodBook(EmptyBook, updates)
  BY EmptyIsGood
<1>5. BookInv'
  BY <1>2, <1>3, <1>4 DEF BookInv
<1> QED BY <1>1, <1>5

(* A step that may reconnect: with a good book and good frames it is safe,  *)
(* if the lane goes on running only where the book is ready.                *)
LEMMA ScheduleRestartIsTrue ==
    ASSUME LaneInv, BookInv, UNCHANGED <<updates, cut>>,
           NEW b, GoodBook(b, updates),
           NEW q \in Seq(Awaited(updates)),
           ScheduleRestart(b, q)
    PROVE  LaneInv' /\ BookInv'
<1>1. CASE lane.desired /\ lane.state # "backoff"
  <2>1. NewEpoch("backoff", TRUE, TRUE, "none", q)
    BY <1>1 DEF ScheduleRestart
  <2> QED BY <2>1, NewEpochIsTrue DEF BookInv
<1>2. CASE ~(lane.desired /\ lane.state # "backoff")
  <2>1. book' = b /\ decoding' = q /\ UNCHANGED <<lane, socket, wire>>
    BY <1>2 DEF ScheduleRestart
  <2>2. lane.state # "running"
    BY <1>2 DEF LaneInv
  <2>3. LaneInv'
    BY <2>1, <2>2 DEF LaneInv
  <2> QED BY <2>1, <2>3 DEF BookInv
<1> QED BY <1>1, <1>2

(* What a snapshot brings to the lane.                                      *)
LEMMA SnapshotArrivesIsTrue ==
    ASSUME LaneInv, BookInv, SnapshotArrives
    PROVE  LaneInv' /\ BookInv'
<1> DEFINE b == LoadSnapshot(book, SnapshotAt(updates, lane.answer))
<1>1. Loaded(b, updates)
  <2>1. lane.rest = "answered" /\ lane.answer \in 1 .. Len(updates)
    BY DEF SnapshotArrives, LaneInv
  <2> QED BY <2>1, LoadSnapshotIsGood DEF BookInv
<1>2. UNCHANGED <<updates, cut>> /\ lane.rest = "answered"
  BY DEF SnapshotArrives, venueVars
<1>3. CASE Joined(b)
  <2>1. /\ book' = b
        /\ lane' = [lane EXCEPT !.state = "running", !.rest = "none", !.answer = 0]
        /\ UNCHANGED <<decoding, socket, wire>>
    BY <1>3 DEF SnapshotArrives
  <2>2. b.status = "ready" /\ GoodBook(b, updates)
    BY <1>1, <1>3 DEF Joined, Loaded
  <2> HIDE DEF b
  <2>3. LaneInv'
    BY <1>2, <2>1, <2>2 DEF LaneInv, Lanes
  <2>4. BookInv'
    BY <1>2, <2>1, <2>2 DEF BookInv
  <2> QED BY <2>3, <2>4
<1>4. CASE ~Joined(b)
  <2>1. ScheduleRestart(b, decoding)
    BY <1>4 DEF SnapshotArrives
  <2> QED BY <1>1, <1>2, <2>1, ScheduleRestartIsTrue DEF BookInv, Loaded
<1> QED BY <1>3, <1>4

(* What a decoded message does: a lane that runs on has a ready book.       *)
LEMMA DecodedIsTrue ==
    ASSUME LaneInv, BookInv, NEW i \in DOMAIN decoding, Decoded(i)
    PROVE  LaneInv' /\ BookInv'
<1> DEFINE m == decoding[i].message
           q == RemoveAt(decoding, i)
           b == IF m = NONE THEN book ELSE Ingest(book, m)
<1>1. UNCHANGED <<updates, cut>> /\ updates \in Seq(Prices)
  BY DEF Decoded, venueVars, BookInv
<1>2. decoding \in Seq(Awaited(updates)) /\ decoding[i] \in Awaited(updates)
  BY DEF BookInv
<1>3. q \in Seq(Awaited(updates))
  <2>1. i \in 1 .. Len(decoding)
    BY <1>2
  <2>2. /\ SubSeq(decoding, 1, i - 1) \in Seq(Awaited(updates))
        /\ SubSeq(decoding, i + 1, Len(decoding)) \in Seq(Awaited(updates))
    BY <1>2, <2>1
  <2> QED BY <2>2 DEF RemoveAt
<1>4. m = NONE \/ m \in DeltasOf(updates)
  BY <1>2 DEF Awaited, FramesOf
<1>5. GoodBook(b, updates) /\ (book.status = "ready" => b.status \in {"ready", "gapped"})
  BY <1>1, <1>4, IngestIsGood DEF BookInv
<1>6. CASE IF m = NONE THEN decoding[i].current ELSE b.status = "gapped"
  <2>1. ScheduleRestart(b, q)
    BY <1>6 DEF Decoded
  <2> QED BY <1>1, <1>3, <1>5, <2>1, ScheduleRestartIsTrue
<1>7. CASE ~(IF m = NONE THEN decoding[i].current ELSE b.status = "gapped")
  <2>1. book' = b /\ decoding' = q /\ UNCHANGED <<lane, socket, wire>>
    BY <1>7 DEF Decoded
  <2>2. book.status = "ready" => b.status = "ready"
    BY <1>5, <1>7
  <2> HIDE DEF b, q
  <2>3. LaneInv'
    BY <1>1, <2>1, <2>2 DEF LaneInv
  <2>4. BookInv'
    BY <1>1, <1>3, <1>5, <2>1 DEF BookInv
  <2> QED BY <2>3, <2>4
<1> QED BY <1>6, <1>7

(* An update of the venue's book: what was cut from it is kept.             *)
LEMMA UpdatedIsTrue ==
    ASSUME LaneInv, BookInv, NEW p \in Prices, Updated(p)
    PROVE  LaneInv' /\ BookInv'
<1>1. updates' = Append(updates, p) /\ UNCHANGED laneVars /\ cut' = cut
  BY DEF Updated
<1>2. updates' \in Seq(Prices) /\ Len(updates') = Len(updates) + 1 /\ Len(updates) \in Nat
  BY <1>1 DEF BookInv
<1>3. LaneInv'
  BY <1>1, <1>2 DEF LaneInv, laneVars
<1>4. FramesOf(updates) \subseteq FramesOf(updates')
  BY <1>1, CutsAreKept DEF BookInv
<1>5. GoodBook(book, updates')
  BY <1>1, GoodBookKept DEF BookInv
<1>6. Seq(FramesOf(updates)) \subseteq Seq(FramesOf(updates'))
  BY <1>4
<1>7. Seq(Awaited(updates)) \subseteq Seq(Awaited(updates'))
  <2>1. Awaited(updates) \subseteq Awaited(updates')
    BY <1>4 DEF Awaited
  <2> QED BY <2>1
<1>8. BookInv'
  BY <1>1, <1>2, <1>5, <1>6, <1>7 DEF BookInv, laneVars
<1> QED BY <1>3, <1>8

(* A frame of the venue: all updates since the last one.                    *)
LEMMA EmitsIsTrue ==
    ASSUME LaneInv, BookInv, NEW previous \in {cut, NONE}, Emits(previous)
    PROVE  LaneInv' /\ BookInv'
<1> DEFINE d == Delta(updates, cut + 1, Len(updates), previous)
<1>1. d \in DeltasOf(updates)
  <2> DEFINE c == [first |-> cut + 1, last |-> Len(updates), previous |-> previous]
  <2>1. cut \in 0 .. Len(updates) /\ cut < Len(updates) /\ Len(updates) \in Nat
    BY DEF BookInv, Emits
  <2>2. c \in Cuts(updates)
    BY <2>1 DEF Cuts
  <2>3. d = Delta(updates, c.first, c.last, c.previous)
    OBVIOUS
  <2> HIDE DEF c, d
  <2> QED BY <2>2, <2>3 DEF DeltasOf
<1>2. wire' \in {wire, Append(wire, d), Append(wire, NONE)}
  BY DEF Emits
<1>3. UNCHANGED <<lane, book, decoding, socket, updates>> /\ cut' = Len(updates)
  BY DEF Emits
<1>4. wire' \in Seq(FramesOf(updates))
  <2>1. wire \in Seq(FramesOf(updates)) /\ d \in FramesOf(updates) /\ NONE \in FramesOf(updates)
    BY <1>1 DEF BookInv, FramesOf
  <2> HIDE DEF d
  <2> QED BY <1>2, <2>1
<1>5. LaneInv'
  BY <1>3 DEF LaneInv
<1>6. BookInv'
  <2>1. Len(updates) \in Nat
    BY DEF BookInv
  <2> QED BY <1>3, <1>4, <2>1 DEF BookInv
<1> QED BY <1>5, <1>6

(* Every step of the lane keeps both.                                       *)
LEMMA StepIsTrue ==
    ASSUME LaneInv, BookInv, [Next]_vars
    PROVE  LaneInv' /\ BookInv'
<1> USE DEF venueVars
<1>0. /\ updates \in Seq(Prices) /\ cut \in 0 .. Len(updates) /\ GoodBook(book, updates)
      /\ decoding \in Seq(Awaited(updates)) /\ wire \in Seq(FramesOf(updates))
  BY DEF BookInv
<1>1. CASE Start \/ RestartTimer
  <2>1. NewEpoch("connecting", TRUE, FALSE, "connecting", decoding) /\ UNCHANGED <<updates, cut>>
    BY <1>1 DEF Start, RestartTimer, Connect
  <2> QED BY <1>0, <2>1, NewEpochIsTrue
<1>2. CASE Stop
  <2>1. NewEpoch("stopped", FALSE, FALSE, "none", decoding) /\ UNCHANGED <<updates, cut>>
    BY <1>2 DEF Stop
  <2> QED BY <1>0, <2>1, NewEpochIsTrue
<1>3. CASE SocketEnds \/ SnapshotFails
  <2>1. ScheduleRestart(book, decoding) /\ UNCHANGED <<updates, cut>>
    BY <1>3 DEF SocketEnds, SnapshotFails
  <2> QED BY <1>0, <2>1, ScheduleRestartIsTrue
<1>4. CASE OnOpen
  <2>1. LaneInv'
    BY <1>4 DEF OnOpen, LaneInv, Lanes
  <2> QED BY <1>4, <2>1 DEF OnOpen, BookInv
<1>5. CASE SnapshotArrives
  BY <1>5, SnapshotArrivesIsTrue
<1>6. CASE OnMessage
  <2>1. LaneInv'
    BY <1>6 DEF OnMessage, LaneInv
  <2>2. Tail(wire) \in Seq(FramesOf(updates)) /\ Head(wire) \in FramesOf(updates)
    BY <1>0, <1>6 DEF OnMessage
  <2>3. [message |-> Head(wire), current |-> TRUE] \in Awaited(updates)
    BY <2>2 DEF Awaited
  <2>4. Append(decoding, [message |-> Head(wire), current |-> TRUE]) \in Seq(Awaited(updates))
    BY <1>0, <2>3
  <2>5. BookInv'
    BY <1>0, <1>6, <2>2, <2>4 DEF OnMessage, BookInv
  <2> QED BY <2>1, <2>5
<1>7. CASE \E i \in DOMAIN decoding : Decoded(i)
  BY <1>7, DecodedIsTrue
<1>8. CASE \E p \in Prices : Updated(p)
  BY <1>8, UpdatedIsTrue
<1>9. CASE \E previous \in {cut, NONE} : Emits(previous)
  BY <1>9, EmitsIsTrue
<1>10. ASSUME NEW n \in 1 .. Len(updates), SnapshotTaken(n) PROVE LaneInv' /\ BookInv'
  <2>1. /\ lane' = [lane EXCEPT !.rest = "answered", !.answer = n]
        /\ lane.rest = "requested" /\ n \in Nat
        /\ UNCHANGED <<book, socket, updates>>
    BY <1>0, <1>10 DEF SnapshotTaken
  <2>2. LaneInv'
    BY <2>1 DEF LaneInv, Lanes
  <2> QED BY <1>10, <2>2 DEF SnapshotTaken, BookInv
<1>11. CASE SocketLost
  <2>1. LaneInv'
    BY <1>11 DEF SocketLost, LaneInv
  <2> QED BY <1>11, <2>1 DEF SocketLost, BookInv
<1>12. CASE UNCHANGED vars
  BY <1>12 DEF vars, LaneInv, BookInv
<1> QED BY <1>1, <1>2, <1>3, <1>4, <1>5, <1>6, <1>7, <1>8, <1>9, <1>10, <1>11, <1>12 DEF Next

(* What runs on does not go back.                                           *)
LEMMA StepNeverGoesBack ==
    ASSUME LaneInv, BookInv, [Next]_vars, lane.state = "running", lane'.state = "running"
    PROVE  book'.updateId >= book.updateId
<1>1. /\ book.status = "ready" /\ lane.rest = "none" /\ lane.desired
      /\ book.updateId \in Nat /\ socket \in {"open", "failed"}
  <2>1. updates \in Seq(Prices) /\ book.updateId \in 0 .. Len(updates)
    BY DEF BookInv, GoodBook
  <2> QED BY <2>1 DEF LaneInv
<1>2. ASSUME NEW state, NEW desired, NEW timer, NEW sock, NEW q,
             NewEpoch(state, desired, timer, sock, q)
      PROVE  state = "running"
  BY <1>2 DEF NewEpoch
<1>3. ASSUME NEW b, NEW q, ScheduleRestart(b, q) PROVE FALSE
  <2>1. NewEpoch("backoff", TRUE, TRUE, "none", q)
    BY <1>1, <1>3 DEF ScheduleRestart
  <2> QED BY <1>2, <2>1
<1>4. CASE Start \/ RestartTimer \/ Stop
  <2>1. \/ NewEpoch("connecting", TRUE, FALSE, "connecting", decoding)
        \/ NewEpoch("stopped", FALSE, FALSE, "none", decoding)
    BY <1>4 DEF Start, RestartTimer, Connect, Stop
  <2> QED BY <1>2, <2>1
<1>5. CASE SocketEnds \/ SnapshotFails
  BY <1>3, <1>5 DEF SocketEnds, SnapshotFails
<1>6. CASE OnOpen \/ SnapshotArrives
  BY <1>1, <1>6 DEF OnOpen, SnapshotArrives
<1>7. ASSUME NEW i \in DOMAIN decoding, Decoded(i)
      PROVE  book'.updateId >= book.updateId
  <2> DEFINE m == decoding[i].message
             b == IF m = NONE THEN book ELSE Ingest(book, m)
  <2>1. m = NONE \/ m \in DeltasOf(updates)
    <3>1. decoding[i] \in Awaited(updates)
      BY DEF BookInv
    <3> QED BY <3>1 DEF Awaited, FramesOf
  <2>2. b.updateId >= book.updateId
    BY <1>1, <2>1, IngestIsGood DEF BookInv
  <2>3. book' = b
    BY <1>3, <1>7 DEF Decoded
  <2> QED BY <2>2, <2>3
<1>8. CASE \/ OnMessage \/ SocketLost \/ UNCHANGED vars
           \/ \E p \in Prices : Updated(p)
           \/ \E previous \in {cut, NONE} : Emits(previous)
           \/ \E n \in 1 .. Len(updates) : SnapshotTaken(n)
  <2>1. book' = book
    BY <1>8 DEF OnMessage, SocketLost, vars, Updated, Emits, SnapshotTaken, laneVars
  <2> QED BY <1>1, <2>1
<1> QED BY <1>4, <1>5, <1>6, <1>7, <1>8 DEF Next

-----------------------------------------------------------------------------
(* The replay. *)

(* The replayed book comes from the venue's as well, wherever the reader    *)
(* began.                                                                   *)
ReplayInv == IsReplay(replay) /\ GoodBook(replay.book, updates)

(* A step of the lane and its replay is one of the lane, or the journal's.  *)
LEMMA ReplayStepIsLaneStep ==
    ASSUME [ReplayNext]_replayVars
    PROVE  [Next]_vars \/ UNCHANGED <<laneVars, updates, cut>>
<1>1. CASE Connects \/ Stops \/ Fails \/ Synchronises \/ Unrecorded
  BY <1>1 DEF Connects, Stops, Fails, Synchronises, Unrecorded, Next
<1>2. CASE \E i \in DOMAIN decoding : Receives(i)
  BY <1>2 DEF Receives, Next
<1>3. CASE Rotated
  BY <1>3 DEF Rotated
<1>4. CASE UNCHANGED replayVars
  BY <1>4 DEF replayVars
<1> QED BY <1>1, <1>2, <1>3, <1>4 DEF ReplayNext

(* A good book shown, or reset by a backoff, is a good replay.              *)
LEMMA ShowingIsGood ==
    ASSUME ReplayInv, updates \in Seq(Prices), UNCHANGED updates,
           NEW b, GoodBook(b, updates),
           replay' = AfterBackoff(Showing(b)) \/ replay' = AfterBackoff(replay)
    PROVE  ReplayInv'
<1>1. replay' \in {Showing(b), replay, Restored}
  BY DEF AfterBackoff
<1>2. IsReplay(Restored) /\ GoodBook(Restored.book, updates)
  BY EmptyIsGood DEF Restored, IsReplay
<1>3. IsReplay(Showing(b)) /\ GoodBook(Showing(b).book, updates)
  BY DEF Showing, ReplayInv, IsReplay
<1> QED BY <1>1, <1>2, <1>3 DEF ReplayInv

(* Every step keeps the replay good.                                        *)
LEMMA ReplayStepIsTrue ==
    ASSUME LaneInv, BookInv, ReplayInv, [ReplayNext]_replayVars
    PROVE  ReplayInv'
<1>1. updates \in Seq(Prices) /\ GoodBook(EmptyBook, updates) /\ GoodBook(replay.book, updates)
  BY EmptyIsGood DEF BookInv, ReplayInv
<1>2. CASE Connects
  <2>1. updates' = updates
    BY <1>2 DEF Connects, Start, RestartTimer, venueVars
  <2> QED BY <1>1, <1>2, <2>1 DEF Connects, ReplayInv, Restored, IsReplay
<1>3. CASE Stops
  <2>1. updates' = updates
    BY <1>3 DEF Stops, Stop, venueVars
  <2>2. replay' = [replay EXCEPT !.synced = FALSE]
    BY <1>3 DEF Stops
  <2> QED BY <1>1, <2>1, <2>2 DEF ReplayInv, IsReplay
<1>4. CASE Fails
  <2>1. updates' = updates /\ replay' = AfterBackoff(replay)
    BY <1>4 DEF Fails, SocketEnds, SnapshotFails, venueVars
  <2> QED BY <1>1, <2>1, ShowingIsGood
<1>5. CASE Synchronises
  <2> DEFINE b == LoadSnapshot(replay.book, SnapshotAt(updates, lane.answer))
  <2>1. UNCHANGED updates /\ lane.answer \in 1 .. Len(updates)
    BY <1>5 DEF Synchronises, SnapshotArrives, venueVars, LaneInv
  <2>2. GoodBook(b, updates)
    BY <1>1, <2>1, LoadSnapshotIsGood DEF Loaded
  <2>3. replay' = AfterBackoff(Showing(b))
    BY <1>5 DEF Synchronises
  <2> HIDE DEF b
  <2> QED BY <1>1, <2>1, <2>2, <2>3, ShowingIsGood
<1>6. ASSUME NEW i \in DOMAIN decoding, Receives(i) PROVE ReplayInv'
  <2> DEFINE m == decoding[i].message
  <2>1. updates' = updates
    BY <1>6 DEF Receives, Decoded, venueVars
  <2>2. decoding[i] \in Awaited(updates)
    BY DEF BookInv
  <2>3. CASE m = NONE
    <3>1. PICK r \in Refused : replay' = AfterBackoff(r)
      BY <1>6, <2>3 DEF Receives
    <3>2. IsReplay(r) /\ GoodBook(r.book, updates)
      BY <1>1, <3>1 DEF Refused, Threw, Foreign, ReplayInv, IsReplay
    <3>3. replay' = r \/ replay' = Restored
      BY <3>1 DEF AfterBackoff
    <3> QED BY <1>1, <2>1, <3>2, <3>3 DEF ReplayInv, Restored, IsReplay
  <2>4. CASE m # NONE
    <3>1. m \in DeltasOf(updates)
      BY <2>2, <2>4 DEF Awaited, FramesOf
    <3>2. GoodBook(Ingest(replay.book, m), updates)
      BY <1>1, <3>1, IngestIsGood
    <3>3. replay' = AfterBackoff(Showing(Ingest(replay.book, m)))
      BY <1>6, <2>4 DEF Receives
    <3> QED BY <1>1, <2>1, <3>2, <3>3, ShowingIsGood
  <2> QED BY <2>3, <2>4
<1>7. CASE Rotated
  <2>1. updates' = updates
    BY <1>7 DEF Rotated
  <2> QED BY <1>1, <1>7, <2>1 DEF Rotated, ReplayInv, IsReplay
<1>8. CASE Unrecorded
  <2>1. replay' = replay
    BY <1>8 DEF Unrecorded
  <2>2. updates' = updates \/ \E p \in Prices : updates' = Append(updates, p)
    BY <1>8 DEF Unrecorded, OnOpen, OnMessage, SocketLost, Updated, Emits, SnapshotTaken,
                venueVars
  <2>3. GoodBook(replay.book, updates')
    BY <1>1, <2>2, GoodBookKept
  <2> QED BY <2>1, <2>3 DEF ReplayInv
<1>9. CASE UNCHANGED replayVars
  BY <1>9 DEF replayVars, vars, ReplayInv
<1> QED BY <1>2, <1>3, <1>4, <1>5, <1>6, <1>7, <1>8, <1>9 DEF ReplayNext

(* The three hold together, from the beginning on.                          *)
LEMMA TrueInitially ==
    ASSUME ReplayInit
    PROVE  LaneInv /\ BookInv /\ ReplayInv
<1> USE DEF ReplayInit, Init
<1>1. updates \in Seq(Prices) /\ Len(updates) \in Nat
  BY BookAssumption
<1>2. GoodBook(EmptyBook, updates)
  BY <1>1, EmptyIsGood
<1>3. LaneInv
  BY DEF LaneInv, Lanes
<1>4. BookInv
  <2>1. <<>> \in Seq(FramesOf(updates)) /\ <<>> \in Seq(Awaited(updates))
    OBVIOUS
  <2>2. cut \in 0 .. Len(updates)
    BY <1>1
  <2>3. book = EmptyBook /\ wire = <<>> /\ decoding = <<>>
    OBVIOUS
  <2> QED BY <1>1, <1>2, <2>1, <2>2, <2>3 DEF BookInv
<1>5. ReplayInv
  BY <1>2 DEF ReplayInv, Restored, IsReplay
<1> QED BY <1>3, <1>4, <1>5

(* One step of all three.                                                   *)
LEMMA TrueStep ==
    ASSUME LaneInv, BookInv, ReplayInv, [ReplayNext]_replayVars
    PROVE  LaneInv' /\ BookInv' /\ ReplayInv'
<1>1. CASE [Next]_vars
  BY <1>1, StepIsTrue, ReplayStepIsTrue
<1>2. CASE UNCHANGED <<laneVars, updates, cut>>
  BY <1>2, ReplayStepIsTrue DEF laneVars, LaneInv, BookInv
<1> QED BY <1>1, <1>2, ReplayStepIsLaneStep

(* "No gapped public book [...] is reported as running", and a ready one is *)
(* the venue's at the update it names, whatever was lost, malformed, late   *)
(* or decoded out of order.                                                 *)
THEOREM RunningBookIsTrue == ReplaySpec => []BookIsTrue
<1>1. LaneInv /\ BookInv => BookIsTrue
  BY DEF LaneInv, BookInv, GoodBook, BookIsTrue
<1> QED BY <1>1, TrueInitially, TrueStep, PTL DEF ReplaySpec

(* A replayed book that calls itself ready is the venue's as well, wherever *)
(* the journal's reader began, unless it holds a message that the lane had  *)
(* refused as foreign.                                                      *)
THEOREM ReplayedBookIsTrue == ReplaySpec => []ReplayIsTrue
<1>1. ReplayInv => ReplayIsTrue
  BY DEF ReplayInv, GoodBook, ReplayIsTrue
<1> QED BY <1>1, TrueInitially, TrueStep, PTL DEF ReplaySpec

(* While a lane runs, its book never goes back to an earlier update.        *)
THEOREM RunningBookAdvances == ReplaySpec => BookNeverGoesBack
<1>1. ASSUME LaneInv, BookInv, [ReplayNext]_replayVars
      PROVE  [lane.state = "running" /\ lane'.state = "running"
              => book'.updateId >= book.updateId]_vars
  <2>1. CASE [Next]_vars
    BY <1>1, <2>1, StepNeverGoesBack
  <2>2. CASE UNCHANGED <<laneVars, updates, cut>>
    <3>1. book.updateId \in Nat /\ book' = book
      BY <1>1, <2>2 DEF BookInv, GoodBook, laneVars
    <3> QED BY <3>1
  <2> QED BY <1>1, <2>1, <2>2, ReplayStepIsLaneStep
<1> QED BY <1>1, TrueInitially, TrueStep, PTL DEF ReplaySpec, BookNeverGoesBack

=============================================================================
