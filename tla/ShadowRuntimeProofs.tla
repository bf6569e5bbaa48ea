------------------------- MODULE ShadowRuntimeProofs -------------------------
(***************************************************************************)
(* Decision events are used once, fit the position and keep their cadence, *)
(* for every interval, lifetime and number of intents and packets.         *)
(***************************************************************************)
EXTENDS ShadowRuntime, TLAPS

(* The event on offer has not been used; one that was used is withdrawn or  *)
(* has expired. *)
UnusedOnOffer == event # NONE /\ event.left > 0 => used = 0

Typed == event \in Events \cup {NONE} /\ used \in Nat

OfferInv == Typed /\ EventUsedOnce /\ UnusedOnOffer /\ CandidateMeansFlat

-----------------------------------------------------------------------------
(* The two ways the event on offer goes on: as it is, or withdrawn. *)
LEMMA KeepsOffer ==
    ASSUME OfferInv, Keep, position' \in {position, NONE} PROVE OfferInv'
  BY NoneAssumption DEF OfferInv, Typed, Keep, history, EventUsedOnce, UnusedOnOffer, CandidateMeansFlat,
         OnOffer

(* A withdrawn event is not on offer.                                       *)
LEMMA WithdrawsOffer ==
    ASSUME OfferInv, Withdraw PROVE OfferInv'
  BY DEF OfferInv, Typed, Withdraw, history, EventUsedOnce, UnusedOnOffer,
         CandidateMeansFlat, OnOffer

(* A new event is unused, and no candidate beside a position.               *)
LEMMA CreatesOffer ==
    ASSUME OfferInv, NEW type \in EventTypes,
           position' \in IntentIds \cup {NONE},
           type = "CANDIDATE" => position' = NONE,
           Create(type, position')
    PROVE  OfferInv'
<1>1. EventLifetime \in Nat
  BY RuntimeAssumption
<1>2. event' \in Events /\ event'.type = type /\ used' = 0
  BY <1>1 DEF Create, Events
<1>3. QED
  BY <1>2 DEF OfferInv, Typed, EventUsedOnce, UnusedOnOffer, CandidateMeansFlat, OnOffer

(* An evaluation, whatever it decides, keeps the invariant.                 *)
LEMMA EvaluateOffers ==
    ASSUME OfferInv, Evaluate, position' \in {position, NONE},
           position' \in IntentIds \cup {NONE}
    PROVE  OfferInv'
<1> DEFINE type == IF position' # NONE THEN "POSITION" ELSE "CANDIDATE"
<1>1. CASE ~(control' /\ Ready')
  <2>1. Withdraw
    BY <1>1 DEF Evaluate
  <2>2. QED
    BY <2>1, WithdrawsOffer
<1>2. CASE control' /\ Ready'
  <2>1. type \in EventTypes /\ (type = "CANDIDATE" => position' = NONE)
    BY DEF EventTypes
  <2>2. Keep \/ Create(type, position') \/ Withdraw
    BY <1>2 DEF Evaluate, NotDueYet
  <2> HIDE DEF type
  <2>3. QED
    BY <2>1, <2>2, KeepsOffer, CreatesOffer, WithdrawsOffer
<1>3. QED
  BY <1>1, <1>2

(* A submitted intent keeps the invariant: an accepted one that needed the  *)
(* event takes it off the offer.                                            *)
LEMMA SubmitKeepsOffer ==
    ASSUME NEW i \in IntentIds, NEW action \in Actions, NEW n \in 0 .. Len(bindings),
           OfferInv, SubmitIntent(i, action, n)
    PROVE  OfferInv'
<1>1. CASE UNCHANGED position /\ Keep
  BY <1>1, KeepsOffer
<1>2. CASE Effect(i, action) /\ Bound(n)
  <2>1. event # NONE /\ event.left > 0 /\ used = 0 /\ event \in Events
    BY <1>2 DEF Bound, OfferInv, UnusedOnOffer, Typed
  <2>2. CASE AcknowledgeDecision /\ used' = used + 1
    BY <2>1, <2>2 DEF AcknowledgeDecision, OfferInv, Typed, EventUsedOnce, UnusedOnOffer,
                      CandidateMeansFlat, OnOffer
  <2>3. CASE event' = [event EXCEPT !.left = 0] /\ used' = used + 1
    <3>1. event' \in Events /\ event'.left = 0
      BY <2>1, <2>3, RuntimeAssumption DEF Events
    <3>2. QED
      BY <2>1, <2>3, <3>1 DEF OfferInv, Typed, EventUsedOnce, UnusedOnOffer,
                              CandidateMeansFlat, OnOffer
  <2>4. QED
    BY <1>2, <2>1, <2>2, <2>3, KeepsOffer DEF SubmitIntent
<1>3. CASE Effect(i, action) /\ ~Bound(n) /\ Keep
  <2>1. action # "ENTER"
    BY <1>3 DEF SubmitIntent, Admitted, NeedsEvent
  <2>2. position' \in {position, NONE}
    BY <1>3, <2>1 DEF Effect
  <2>3. QED
    BY <1>3, <2>2, KeepsOffer
<1>4. QED
  BY <1>1, <1>2, <1>3 DEF SubmitIntent

(* Time only takes an event off the offer.                                  *)
LEMMA TickKeepsOffer == OfferInv /\ Tick => OfferInv'
<1> SUFFICES ASSUME OfferInv, Tick PROVE OfferInv'
  OBVIOUS
<1>1. CASE event = NONE
  BY <1>1 DEF Tick, gateway, OfferInv, Typed, EventUsedOnce, UnusedOnOffer,
              CandidateMeansFlat, OnOffer
<1>2. CASE event # NONE
  <2>1. event \in Events /\ event.left \in 0 .. EventLifetime /\ EventLifetime \in Nat
    BY <1>2, RuntimeAssumption DEF OfferInv, Typed, Events
  <2>2. event' = [event EXCEPT !.left = Sooner(event.left)]
    BY <1>2, <2>1 DEF Tick, Events
  <2>3. Sooner(event.left) \in 0 .. event.left
    BY <2>1 DEF Sooner
  <2>4. event' \in Events /\ event'.type = event.type /\ event'.left <= event.left
    BY <2>1, <2>2, <2>3 DEF Events
  <2>5. event'.left > 0 => event.left > 0
    BY <2>1, <2>2, <2>3, <2>4 DEF Sooner
  <2>6. QED
    BY <1>2, <2>4, <2>5 DEF Tick, gateway, OfferInv, Typed, EventUsedOnce, UnusedOnOffer,
                            CandidateMeansFlat, OnOffer
<1>3. QED
  BY <1>1, <1>2

-----------------------------------------------------------------------------
PositionTyped == position \in IntentIds \cup {NONE}

(* The position is an intent's or none, after every step.                   *)
LEMMA PositionStep == PositionTyped /\ [Next]_vars => PositionTyped'
  BY DEF PositionTyped, Next, vars, Observe, BookResets, GetPacket, SubmitIntent, Effect,
         Control, Tick, Shutdown, Restart, gateway

(* Every step of the runtime keeps the invariant.                           *)
LEMMA OfferStep == PositionTyped /\ OfferInv /\ [Next]_vars => OfferInv'
<1> SUFFICES ASSUME PositionTyped, OfferInv, [Next]_vars PROVE OfferInv'
  OBVIOUS
<1>0. PositionTyped'
  BY PositionStep
<1>1. ASSUME NEW mark \in BOOLEAN, Observe(mark) PROVE OfferInv'
  <2>1. position' \in {position, NONE}
    BY <1>1 DEF Observe
  <2>2. Evaluate \/ Keep
    BY <1>1 DEF Observe
  <2>3. QED
    BY <1>0, <2>1, <2>2, EvaluateOffers, KeepsOffer DEF PositionTyped
<1>2. CASE BookResets \/ GetPacket
  BY <1>2 DEF BookResets, GetPacket, runtimeVars, gateway, history, OfferInv, Typed,
              EventUsedOnce, UnusedOnOffer, CandidateMeansFlat, OnOffer
<1>3. ASSUME NEW i \in IntentIds, NEW action \in Actions, NEW n \in 0 .. Len(bindings),
             SubmitIntent(i, action, n)
      PROVE  OfferInv'
  BY <1>3, SubmitKeepsOffer
<1>4. CASE Control
  BY <1>4 DEF Control, runtimeVars, history, OfferInv, Typed, EventUsedOnce,
              UnusedOnOffer, CandidateMeansFlat, OnOffer
<1>5. CASE Tick
  BY <1>5, TickKeepsOffer
<1>6. CASE Shutdown
  BY <1>6, WithdrawsOffer DEF Shutdown
<1>7. CASE Restart
  BY <1>7 DEF Restart, FreshRuntime, OfferInv, Typed, EventUsedOnce, UnusedOnOffer,
              CandidateMeansFlat, OnOffer
<1>8. CASE UNCHANGED vars
  BY <1>8 DEF vars, runtimeVars, gateway, history, OfferInv, Typed, EventUsedOnce,
              UnusedOnOffer, CandidateMeansFlat, OnOffer
<1>9. QED
  BY <1>1, <1>2, <1>3, <1>4, <1>5, <1>6, <1>7, <1>8 DEF Next

(* A fresh runtime offers nothing.                                          *)
LEMMA OfferInit == Init => OfferInv /\ PositionTyped
  BY DEF Init, FreshRuntime, OfferInv, Typed, EventUsedOnce, UnusedOnOffer,
         CandidateMeansFlat, OnOffer, PositionTyped

(* The offer's invariant holds of every behaviour.                          *)
LEMMA OfferInvariant == Spec => [](OfferInv /\ PositionTyped)
  BY OfferInit, OfferStep, PositionStep, PTL DEF Spec

(* However packets are handed out, evicted and sent again, a decision event *)
(* authorises one accepted intent at most.                                  *)
THEOREM EventsAreUsedOnce == Spec => []EventUsedOnce
<1>1. OfferInv => EventUsedOnce
  BY DEF OfferInv
<1>2. QED
  BY OfferInvariant, <1>1, PTL

(* No live offer to enter stands beside an open position. *)
THEOREM CandidatesAreFlat == Spec => []CandidateMeansFlat
<1>1. OfferInv => CandidateMeansFlat
  BY DEF OfferInv
<1>2. QED
  BY OfferInvariant, <1>1, PTL

-----------------------------------------------------------------------------
(* Exposure begins only on a live event, on good evidence, under a running  *)
(* runtime, and uses the event up.                                          *)
LEMMA ExposureStep ==
    ASSUME PositionTyped, OfferInv, [Next]_vars, position' \notin {position, NONE}
    PROVE  /\ live /\ Ready /\ control
           /\ event # NONE /\ event.left > 0
           /\ event' = NONE \/ event'.left = 0
<1>1. PICK i \in IntentIds, action \in Actions, n \in 0 .. Len(bindings) :
          SubmitIntent(i, action, n)
  BY DEF Next, vars, Observe, BookResets, GetPacket, Control, Tick, Shutdown, Restart,
         gateway
<1>2. Effect(i, action)
  BY <1>1 DEF SubmitIntent
<1>3. action = "ENTER" /\ control
  BY <1>2 DEF Effect
<1>4. live /\ Bound(n) /\ Ready
  BY <1>1, <1>3 DEF SubmitIntent, Admitted, NeedsEvent
<1>5. event # NONE /\ event.left > 0 /\ event \in Events
  BY <1>4 DEF Bound, OfferInv, Typed
<1>6. event' = NONE \/ event' = [event EXCEPT !.left = 0]
  BY <1>1, <1>4 DEF SubmitIntent, AcknowledgeDecision
<1>7. QED
  BY <1>3, <1>4, <1>5, <1>6 DEF Events

(* A step that opens a position is an intent admitted on a current event    *)
(* and fresh evidence, and the event is used up with it (submitIntent,      *)
(* acknowledgeDecision).                                                    *)
THEOREM ExposureAlwaysUsesEvent == Spec => ExposureUsesEvent
<1>1. PositionTyped /\ OfferInv /\ [Next]_vars =>
          [position' \notin {position, NONE} =>
             /\ live /\ Ready /\ control
             /\ event # NONE /\ event.left > 0
             /\ event' = NONE \/ event'.left = 0]_vars
  BY ExposureStep
<1>2. QED
  BY OfferInvariant, <1>1, PTL DEF Spec, ExposureUsesEvent

-----------------------------------------------------------------------------
(* The runtime counts what it has waited for as long ago as it was: the     *)
(* time is taken down whenever, and only when, an event of the type is      *)
(* created or answered, and never by what is withdrawn or expires.          *)
WaitedSinceOffered == waited = offered

(* Every step keeps the runtime's times true.                               *)
LEMMA WaitedStep == WaitedSinceOffered /\ [Next]_vars => WaitedSinceOffered'
<1> SUFFICES ASSUME waited = offered, [Next]_vars PROVE waited' = offered'
  BY DEF WaitedSinceOffered
<1>1. ASSUME Keep \/ Withdraw PROVE waited' = offered'
  BY <1>1 DEF Keep, Withdraw, history
<1>2. ASSUME NEW type, NEW tranche, Create(type, tranche) PROVE waited' = offered'
  BY <1>2 DEF Create, WaitsAgain
<1>3. ASSUME NEW mark \in BOOLEAN, Observe(mark) PROVE waited' = offered'
  <2>1. Evaluate \/ Keep
    BY <1>3 DEF Observe
  <2>2. CASE Evaluate
    <3>1. Keep \/ Withdraw \/ \E type, tranche : Create(type, tranche)
      BY <2>2 DEF Evaluate, NotDueYet
    <3> QED BY <1>1, <1>2, <3>1
  <2> QED BY <1>1, <2>1, <2>2
<1>4. ASSUME NEW i \in IntentIds, NEW action \in Actions, NEW n \in 0 .. Len(bindings),
             SubmitIntent(i, action, n)
      PROVE  waited' = offered'
  BY <1>1, <1>4 DEF SubmitIntent, AcknowledgeDecision, WaitsAgain
<1>5. CASE Shutdown
  BY <1>1, <1>5 DEF Shutdown
<1>6. CASE BookResets \/ GetPacket \/ Control \/ Tick \/ Restart \/ UNCHANGED vars
  BY <1>6 DEF BookResets, GetPacket, Control, Tick, Restart, FreshRuntime, vars, runtimeVars,
              history
<1> QED BY <1>3, <1>4, <1>5, <1>6 DEF Next

(* A step that puts a new event on offer is an evaluation that found the    *)
(* event's interval to have passed.                                         *)
LEMMA OfferIsDue ==
    ASSUME OfferInv, [Next]_vars, event' # event, event' # NONE, event'.left = EventLifetime
    PROVE  waited[event'.type] >= Interval[event'.type]
<1>1. EventLifetime \in Nat \ {0}
  BY RuntimeAssumption
<1>2. ASSUME NEW mark \in BOOLEAN, Observe(mark)
      PROVE  waited[event'.type] >= Interval[event'.type]
  <2>1. Evaluate
    BY <1>2 DEF Observe, Keep
  <2>2. PICK type, tranche : Create(type, tranche) /\ waited[type] >= Interval[type]
    BY <2>1 DEF Evaluate, Keep, NotDueYet, Withdraw
  <2>3. event'.type = type
    BY <2>2 DEF Create
  <2> QED BY <2>2, <2>3
<1>3. ASSUME NEW i \in IntentIds, NEW action \in Actions, NEW n \in 0 .. Len(bindings),
             SubmitIntent(i, action, n)
      PROVE  FALSE
  <2>1. event' = [event EXCEPT !.left = 0] /\ Bound(n)
    BY <1>3 DEF SubmitIntent, AcknowledgeDecision, Keep
  <2>2. event \in Events
    BY <2>1 DEF Bound, OfferInv, Typed
  <2>3. event'.left = 0
    BY <2>1, <2>2 DEF Events
  <2> QED BY <1>1, <2>3
<1>4. ~Tick
  <2> SUFFICES ASSUME Tick PROVE FALSE
    OBVIOUS
  <2>1. event # NONE /\ event' = [event EXCEPT !.left = Sooner(@)]
    BY DEF Tick
  <2>2. event \in Events /\ event.left \in 0 .. EventLifetime
    BY <2>1 DEF OfferInv, Typed, Events
  <2>3. event'.left = Sooner(event.left)
    BY <2>1, <2>2 DEF Events
  <2>4. event.left = 0
    BY <1>1, <2>2, <2>3 DEF Sooner
  <2> QED BY <1>1, <2>3, <2>4 DEF Sooner
<1>5. ~(BookResets \/ GetPacket \/ Control \/ Restart \/ Shutdown \/ UNCHANGED vars)
  BY DEF BookResets, GetPacket, Control, Restart, FreshRuntime, Shutdown, Withdraw, vars,
         runtimeVars
<1> QED BY <1>2, <1>3, <1>4, <1>5 DEF Next

(* Within one life of the process an event of a type comes no sooner than   *)
(* its interval after the last of that type was created or answered,        *)
(* whatever was withdrawn, expired or answered late in between.             *)
THEOREM ReviewsAlwaysKeepCadence == Spec => ReviewsKeepCadence
<1>1. Init => WaitedSinceOffered
  BY DEF Init, FreshRuntime, WaitedSinceOffered
<1>2. OfferInv /\ WaitedSinceOffered /\ [Next]_vars =>
         [event' # event /\ event' # NONE /\ event'.left = EventLifetime =>
             offered[event'.type] >= Interval[event'.type]]_vars
  BY OfferIsDue DEF WaitedSinceOffered
<1>3. Spec => []WaitedSinceOffered
  BY <1>1, WaitedStep, PTL DEF Spec
<1> QED BY <1>2, <1>3, OfferInvariant, PTL DEF Spec, ReviewsKeepCadence

=============================================================================
