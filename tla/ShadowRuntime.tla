---------------------------- MODULE ShadowRuntime ----------------------------
(***************************************************************************)
(* Decisions on live market evidence: the runtime that offers them         *)
(* (binance-shadow-runtime.ts) and the engine that admits intents bound to *)
(* them (shadow-trading-engine.ts).                                        *)
(*                                                                         *)
(* Records of the streams move the market and the paper mark; at most one  *)
(* per evaluation interval, a tick, decides on the event on offer.  A      *)
(* packet handed to a caller is bound to the event it shows.               *)
(*                                                                         *)
(* Times are kept as ages and remaining lifetimes.  Event and packet ids   *)
(* never recur: a binding is of the current event or of none.  The paper   *)
(* gateway below is PaperEngine, here reduced to its control, its one      *)
(* position and its rows; whether it accepts an intent it may accept is    *)
(* left open.                                                              *)
(***************************************************************************)
EXTENDS Integers, Sequences, SequencesExt

CONSTANTS IntentIds,
          CandidateCooldown, PositionReview, EventLifetime, MaximumMarketAge,  \* in ticks
          MaximumPacketBindings,
          NONE

ASSUME RuntimeAssumption ==
    /\ {CandidateCooldown, PositionReview, EventLifetime, MaximumMarketAge,
        MaximumPacketBindings} \subseteq Nat \ {0}
    /\ NONE \notin IntentIds

VARIABLES
    live,                       \* the runtime runs
    event,                      \* latestDecisionEvent, with the ticks it has left
    waited,                     \* ticks since lastCandidateEventMs, lastPositionEventMs
    evaluated,                  \* an evaluation ran in this interval
    bindings,                   \* packetBindings, in the order of insertion
    market, age,                \* what the evidence adds up to, and its age
    control, position, stored,  \* the gateway: running, the open tranche, known intents
    used,                       \* history: intents accepted on the latest event
    offered                     \* history: ticks since an event was created or answered

runtimeVars == <<live, event, waited, evaluated, bindings>>
gateway == <<control, position, stored>>
history == <<used, offered>>
vars == <<runtimeVars, market, age, gateway, history>>

EventTypes == {"CANDIDATE", "POSITION"}
Interval == [t \in EventTypes |-> IF t = "CANDIDATE" THEN CandidateCooldown ELSE PositionReview]
Events ==
    [type : EventTypes, tranche : IntentIds \cup {NONE}, left : 0 .. EventLifetime]

ASSUME NoneAssumption == NONE \notin Events

NeedsEvent == {"ENTER", "HOLD", "NOTHING", "MOVE"}
Actions == NeedsEvent \cup {"REDUCE", "EXIT"}

Ready == market = "ready" /\ age <= MaximumMarketAge

TypeOK ==
    /\ live \in BOOLEAN /\ evaluated \in BOOLEAN /\ control \in BOOLEAN
    /\ event \in Events \cup {NONE}
    /\ \A t \in EventTypes : waited[t] \in 0 .. Interval[t] /\ offered[t] \in 0 .. Interval[t]
    /\ Len(bindings) <= MaximumPacketBindings
    /\ \A i \in DOMAIN bindings :
          bindings[i] \in [current : BOOLEAN, left : 0 .. EventLifetime]
    /\ market \in {"warming", "ready"} /\ age \in 0 .. MaximumMarketAge + 1
    /\ stored \subseteq IntentIds /\ position \in stored \cup {NONE}
    /\ used \in Nat

(* What a new process starts from: no event was offered in this life. *)
FreshRuntime(v, e, w, ev, b, m, a) ==
    v = TRUE /\ e = NONE /\ w = Interval /\ ev = FALSE /\ b = <<>>
    /\ m = "warming" /\ a = MaximumMarketAge + 1

Init ==
    /\ FreshRuntime(live, event, waited, evaluated, bindings, market, age)
    /\ control = FALSE /\ position = NONE /\ stored = {}
    /\ used = 0 /\ offered = Interval

-----------------------------------------------------------------------------
(* Events. *)

Outdated == [i \in DOMAIN bindings |-> [bindings[i] EXCEPT !.current = FALSE]]

Keep == UNCHANGED <<event, waited, bindings, history>>

(* The event on offer is withdrawn. *)
Withdraw ==
    /\ event' = NONE
    /\ bindings' = Outdated
    /\ UNCHANGED <<waited, history>>

(* Mutant: an event is created without the time being taken down. *)
WaitedOn(type) == waited

WaitsAgain(type) == [waited EXCEPT ![type] = 0]

Create(type, tranche) ==
    /\ event' = [type |-> type, tranche |-> tranche, left |-> EventLifetime]
    /\ waited' = WaitsAgain(type)
    /\ bindings' = Outdated
    /\ used' = 0 /\ offered' = [offered EXCEPT ![type] = 0]

(* Mutant: an answered event stays on offer. *)
AcknowledgeKept == waited' = WaitsAgain(event.type) /\ UNCHANGED <<event, bindings>>

(* acknowledgeDecision, of the current event. *)
AcknowledgeDecision ==
    /\ waited' = WaitsAgain(event.type)
    /\ event' = NONE
    /\ bindings' = Outdated

OnOffer(type) == event # NONE /\ event.type = type

FreshFor(type, tranche) == OnOffer(type) /\ event.left > 0 /\ event.tranche = tranche

(* Mutant: time is taken down although nothing is created yet. *)
NotDueYetTaken(type) == waited' = WaitsAgain(type) /\ UNCHANGED <<event, bindings, history>>

(* The event's interval has not passed: what is on offer stays. *)
NotDueYet(type) == Keep

(* evaluate(), over the gateway and the evidence as the record left them. *)
Evaluate ==
    /\ evaluated' = TRUE
    /\ IF ~(control' /\ Ready')
       THEN Withdraw
       ELSE LET type == IF position' # NONE THEN "POSITION" ELSE "CANDIDATE"
            IN  CASE FreshFor(type, position') -> Keep
                  [] ~FreshFor(type, position') /\ waited[type] >= Interval[type] ->
                        Create(type, position')
                  [] OTHER ->
                        IF type = "CANDIDATE" /\ OnOffer("POSITION") THEN Withdraw
                        ELSE NotDueYet(type)

-----------------------------------------------------------------------------
(* Records of the streams. *)

(* A record changes the evidence, and makes one part of it new; a mark may  *)
(* close the position, and stop the gateway with it.                        *)
Observe(mark) ==
    /\ market' \in {"warming", "ready"}
    /\ age' \in {0, age}
    /\ \/ UNCHANGED <<position, control>>
       \/ /\ mark /\ position # NONE
          /\ position' = NONE /\ control' \in {control, FALSE}
    /\ IF live /\ ~evaluated THEN Evaluate ELSE Keep /\ UNCHANGED evaluated
    /\ UNCHANGED <<live, stored>>

(* The depth lane reconnects or stops: the replayed book is reset. *)
BookResets ==
    /\ market' = "warming"
    /\ UNCHANGED <<runtimeVars, age, gateway, history>>

-----------------------------------------------------------------------------
(* Callers. *)

Evicted(b) == IF Len(b) > MaximumPacketBindings THEN Tail(b) ELSE b

(* getPacket, of a packet that was not handed out before. *)
GetPacket ==
    /\ event # NONE
    /\ LET kept == SelectSeq(bindings, LAMBDA b : b.left > 0)
       IN  bindings' = Evicted(Append(kept, [current |-> TRUE, left |-> event.left]))
    /\ UNCHANGED <<live, event, waited, evaluated, market, age, gateway, history>>

(* bindingMatchesCurrentEvent; packets that are not bound are number 0. *)
Bound(n) ==
    /\ n \in DOMAIN bindings /\ bindings[n].current /\ bindings[n].left > 0
    /\ event # NONE /\ event.left > 0

(* Mutant: the age of the evidence is not looked at. *)
AdmittedOnOldEvidence(action, n) == action \in NeedsEvent => live /\ Bound(n)

Admitted(action, n) == action \in NeedsEvent => live /\ Bound(n) /\ Ready

(* What the gateway may do with the intent i. *)
Effect(i, action) ==
    CASE action = "ENTER" -> control /\ position = NONE /\ position' = i
      [] action = "EXIT" -> position # NONE /\ position' = NONE
      [] action \in {"MOVE", "REDUCE"} -> position # NONE /\ UNCHANGED position
      [] OTHER -> UNCHANGED position

(* An intent that is not in the store, sent with packet n.  An accepted one *)
(* answers the event, unless that expired while it was executed.  Refusals  *)
(* and replays change nothing.                                              *)
SubmitIntent(i, action, n) ==
    /\ i \notin stored
    /\ Admitted(action, n)
    /\ stored' = stored \cup {i}
    /\ \/ UNCHANGED position /\ Keep
       \/ /\ Effect(i, action)
          /\ IF Bound(n)
             THEN /\ used' = used + 1
                  /\ \/ /\ AcknowledgeDecision
                        /\ offered' = [offered EXCEPT ![event.type] = 0]
                     \/ /\ event.left = 1
                        /\ event' = [event EXCEPT !.left = 0]
                        /\ UNCHANGED <<waited, bindings, offered>>
             ELSE Keep
    /\ UNCHANGED <<live, evaluated, market, age, control>>

(* The control routes: start and stop, or flatten. *)
Control ==
    /\ \/ control' = ~control /\ UNCHANGED position
       \/ control' = FALSE /\ position' = NONE
    /\ UNCHANGED <<runtimeVars, market, age, stored, history>>

-----------------------------------------------------------------------------
(* Time, and the process. *)

Sooner(n) == IF n = 0 THEN 0 ELSE n - 1
Later(n, most) == IF n < most THEN n + 1 ELSE most

Tick ==
    /\ age' = Later(age, MaximumMarketAge + 1)
    /\ event' = IF event = NONE THEN NONE ELSE [event EXCEPT !.left = Sooner(@)]
    /\ bindings' = [i \in DOMAIN bindings |-> [bindings[i] EXCEPT !.left = Sooner(@)]]
    /\ waited' = [t \in EventTypes |-> Later(waited[t], Interval[t])]
    /\ offered' = [t \in EventTypes |-> Later(offered[t], Interval[t])]
    /\ evaluated' = FALSE
    /\ UNCHANGED <<live, market, gateway, used>>

(* stop(), at the shutdown of the process; the server answers a little      *)
(* longer.                                                                  *)
Shutdown ==
    /\ live
    /\ live' = FALSE
    /\ Withdraw
    /\ UNCHANGED <<evaluated, market, age, gateway>>

(* The process ends anywhere and is started again. *)
Restart ==
    /\ FreshRuntime(live', event', waited', evaluated', bindings', market', age')
    /\ used' = 0 /\ offered' = Interval
    /\ UNCHANGED gateway

Next ==
    \/ \E mark \in BOOLEAN : Observe(mark)
    \/ BookResets \/ GetPacket
    \/ \E i \in IntentIds, action \in Actions, n \in 0 .. Len(bindings) :
          SubmitIntent(i, action, n)
    \/ Control \/ Tick \/ Shutdown \/ Restart

Spec == Init /\ [][Next]_vars

-----------------------------------------------------------------------------
(* Properties. *)

(* A decision event authorises one accepted intent at most, whatever        *)
(* packets show it: the answer withdraws it, or it expired on the way.      *)
EventUsedOnce == used <= 1

(* A candidate, an offer to enter, is never on offer beside an open         *)
(* position: evaluate() leaves one alone until the next review is due, so   *)
(* it relies on every entry having used it up.                              *)
CandidateMeansFlat ==
    OnOffer("CANDIDATE") /\ event.left > 0 => position = NONE

(* "stopped/stale events cannot create new exposure" (README.md): exposure  *)
(* begins only on a current event, on evidence that is not too old, under a *)
(* running runtime, and uses the event up.                                  *)
ExposureUsesEvent ==
    [][position' \notin {position, NONE} =>
          /\ live /\ Ready /\ control
          /\ event # NONE /\ event.left > 0
          /\ event' = NONE \/ event'.left = 0]_vars

(* "Healthy flat reviews default to five minutes and position reviews to    *)
(* one minute" (README.md): within one life of the process no event of a    *)
(* type is created sooner than its interval after the last of that type was *)
(* created or answered, whatever was withdrawn in between.                  *)
ReviewsKeepCadence ==
    [][event' # event /\ event' # NONE /\ event'.left = EventLifetime =>
          offered[event'.type] >= Interval[event'.type]]_vars

Reviewable == live /\ control /\ Ready

(* While the gateway runs on good evidence there is, again and again, an    *)
(* event to answer.                                                         *)
HealthyMarketIsReviewed ==
    Reviewable ~> ~Reviewable \/ (event # NONE /\ event.left > 0)

=============================================================================
