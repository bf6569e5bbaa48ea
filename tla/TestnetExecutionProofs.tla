------------------------ MODULE TestnetExecutionProofs ------------------------
(***************************************************************************)
(* The coordinators at work implement the orchestrator's contract, so what *)
(* is proved of the record over that contract holds of whole executions.   *)
(*                                                                         *)
(* A target in transit has its stop (Proper), whoever repeats or fails.    *)
(* Exposure has an owner and an owned position its stop: Account says what *)
(* was executed for the pending request, what each mutation under way may  *)
(* still do, and what each coordinator has learnt at each of its awaits.   *)
(***************************************************************************)
EXTENDS TestnetExecution, TestnetOrchestratorProofs

(* What a step of a whole execution does to the record: what the            *)
(* orchestrator's next-state relation allows, or nothing.                   *)
OrchStep == OrchNext \/ UNCHANGED orchVars

(* A coordinator's return is the orchestrator's, with that result.          *)
LEMMA ReturnIsOrchStep ==
    ASSUME NEW o \in Orchestrators, NEW result, Return(o, result)
    PROVE  OrchNext
<1>1. EffectReturns(o, result, TRUE)
  BY DEF Return
<1>2. result \in Results(orch[o].request.kind)
  BY <1>1 DEF EffectReturns
<1>3. \E kind \in {"protected_entry", "protection_revision", "owned_position_close"} :
         result \in Results(kind)
  <2>1. Results(orch[o].request.kind) =
           CASE orch[o].request.kind = "protected_entry" -> Results("protected_entry")
             [] orch[o].request.kind = "protection_revision" -> Results("protection_revision")
             [] OTHER -> Results("owned_position_close")
    BY DEF Results, Unresolved
  <2> QED BY <1>2, <2>1
<1> QED BY <1>1, <1>3 DEF OrchNext

(* Sending a mutation leaves the record alone.                              *)
LEMMA SendKeepsRecord ==
    ASSUME NEW o, NEW at, NEW m, NEW qty, NEW ok, Send(o, at, m, qty, ok)
    PROVE  UNCHANGED orchVars
BY DEF Send

(* Looking something up leaves the record alone.                            *)
LEMMA LookKeepsRecord ==
    ASSUME NEW o, NEW at, NEW qty, NEW ok, Look(o, at, qty, ok)
    PROVE  UNCHANGED orchVars
BY DEF Look

(* Each continuation of an await sends, looks or returns. *)
LEMMA CoordinateIsOrchStep ==
    ASSUME NEW o \in Orchestrators, Coordinate(o)
    PROVE  OrchStep
<1> USE ReturnIsOrchStep, SendKeepsRecord, LookKeepsRecord DEF OrchStep
<1>1. ASSUME EntrySubmitted(o) \/ EntryLookedUp(o) PROVE OrchStep
  <2>1. ASSUME NEW executed, AfterEntry(o, executed) PROVE OrchStep
    BY <2>1 DEF AfterEntry, Flatten
  <2> QED BY <1>1, <2>1 DEF EntrySubmitted, EntryLookedUp
<1>2. ASSUME StopSubmitted(o) \/ StopLookedUp(o) PROVE OrchStep
  BY <1>2 DEF StopSubmitted, StopLookedUp, Flatten
<1>3. ASSUME TargetSubmitted(o) \/ TargetLookedUp(o) PROVE OrchStep
  BY <1>3 DEF TargetSubmitted, TargetLookedUp
<1>4. ASSUME FlattenSubmitted(o) \/ FlattenLookedUp(o) PROVE OrchStep
  BY <1>4 DEF FlattenSubmitted, FlattenLookedUp
<1>5. ASSUME ReconcileEntry(o) \/ ReconcileStop(o) PROVE OrchStep
  BY <1>5 DEF ReconcileEntry, ReconcileStop
<1>6. ASSUME CurrentStopLookedUp(o) \/ CurrentTargetLookedUp(o) PROVE OrchStep
  BY <1>6 DEF CurrentStopLookedUp, CurrentTargetLookedUp, NewStop
<1>7. ASSUME ReductionSubmitted(o) \/ ReductionLookedUp(o) PROVE OrchStep
  BY <1>7 DEF ReductionSubmitted, ReductionLookedUp, NewStop
<1>8. ASSUME NewStopSubmitted(o) \/ NewStopLookedUp(o) PROVE OrchStep
  BY <1>8 DEF NewStopSubmitted, NewStopLookedUp
<1>9. ASSUME NewTargetSubmitted(o) \/ NewTargetLookedUp(o) PROVE OrchStep
  BY <1>9 DEF NewTargetSubmitted, NewTargetLookedUp, CancelTarget
<1>10. ASSUME CloseSubmitted(o) \/ CloseLookedUp(o) PROVE OrchStep
  BY <1>10 DEF CloseSubmitted, CloseLookedUp, AfterCloseLookup, CancelTarget
<1>11. ASSUME TargetCancelled(o) \/ StopCancelled(o) PROVE OrchStep
  BY <1>11 DEF TargetCancelled, StopCancelled, CleanedUp
<1>12. ASSUME ReconcileReduction(o) \/ ReconcileNewStop(o) \/ ReconcileNewTarget(o)
       PROVE  OrchStep
  BY <1>12 DEF ReconcileReduction, ReconcileNewStop, ReconcileNewTarget
<1>13. ASSUME ReconcileClose(o) \/ ReconcileCleanup(o) PROVE OrchStep
  BY <1>13 DEF ReconcileClose, ReconcileCleanup, CleanedUp
<1> QED BY <1>1, <1>2, <1>3, <1>4, <1>5, <1>6, <1>7, <1>8, <1>9, <1>10, <1>11, <1>12, <1>13
        DEF Coordinate

(* Every step of an execution is an orchestrator's step or none.            *)
LEMMA ExecutionStep == [Next]_vars => [OrchNext]_orchVars
<1> SUFFICES ASSUME [Next]_vars PROVE OrchStep
  BY DEF OrchStep
<1>1. CASE UNCHANGED vars
  BY <1>1 DEF vars, orchVars, OrchStep
<1>2. ASSUME NEW o \in Orchestrators, NEW r \in Requests, Submit(o, r) PROVE OrchStep
  BY <1>2 DEF Submit, OrchStep, OrchNext
<1>3. ASSUME NEW o \in Orchestrators, StartEffect(o) PROVE OrchStep
  BY <1>3 DEF StartEffect, OrchStep, OrchNext
<1>4. ASSUME NEW o \in Orchestrators, StartRecovery(o) PROVE OrchStep
  BY <1>4 DEF StartRecovery, OrchStep, OrchNext
<1>5. ASSUME NEW o \in Orchestrators, Fail(o) PROVE OrchStep
  BY <1>5 DEF Fail, OrchStep, OrchNext
<1>6. ASSUME NEW o \in Orchestrators, VenueAccepts(o) \/ VenueRejects(o) \/ AnswerLost(o)
      PROVE  OrchStep
  BY <1>6 DEF VenueAccepts, VenueRejects, AnswerLost, OrchStep
<1>7. ASSUME NEW m, ExecutesUnseen(m) PROVE OrchStep
  BY <1>7 DEF ExecutesUnseen, OrchStep
<1>8. ASSUME NEW id, Trigger(id) \/ FillsFurther(id) \/ Expires(id) PROVE OrchStep
  BY <1>8 DEF Trigger, FillsFurther, Expires, OrchStep
<1> QED BY <1>1, <1>2, <1>3, <1>4, <1>5, <1>6, <1>7, <1>8, CoordinateIsOrchStep DEF Next

(* So what the orchestrator promises holds of whole executions.             *)
LEMMA ExecutionIsOrchestrated == Spec => OrchSpec
<1>1. Init => OrchInit
  BY DEF Init
<1> QED BY <1>1, ExecutionStep, PTL DEF Spec, OrchSpec

(* With the coordinators and the venue: one writer, a valid record, a       *)
(* pointer that follows its requests.                                       *)
COROLLARY ExecutionHasOneWriter ==
    Spec => SingleWriter /\ PointerFollowsRequest /\ []OrchTypeOK
BY ExecutionIsOrchestrated, SharedRecordHasOneWriter, PointerAlwaysFollows, OrchTypeCorrect, PTL

-----------------------------------------------------------------------------
(* Types.  The bounds of a type invariant follow from what is accounted for *)
(* below; what the arguments need first is that every call is one of its    *)
(* own operation, and that whatever travels names an order it may name.     *)

EntryAwaits ==
    {"entry", "entry_lookup", "stop", "stop_lookup", "target", "target_lookup",
     "flatten", "flatten_lookup", "re_entry", "re_stop", "re_target", "re_flatten"}

CleanupAwaits ==
    {"cancel_target", "target_inspection", "cancel_stop", "stop_inspection",
     "re_target_gone", "re_stop_gone"}

NewTargetAwaits == {"new_target", "new_target_lookup", "re_new_target"}

NewStopAwaits == {"new_stop", "new_stop_lookup", "re_new_stop"}

RevisionAwaits ==
    {"current_stop", "current_target", "reduction", "reduction_lookup", "re_reduction"}
        \cup NewStopAwaits \cup NewTargetAwaits \cup CleanupAwaits

CloseAwaits ==
    {"current_stop", "current_target", "close", "close_lookup", "re_close"} \cup CleanupAwaits

AwaitsOf(kind) ==
    CASE kind = "protected_entry" -> EntryAwaits
      [] kind = "protection_revision" -> RevisionAwaits
      [] OTHER -> CloseAwaits

Orders == [qty : Nat, filled : Nat, open : BOOLEAN]

Algos == [qty : Nat, status : {"none", "active", "canceled", "triggered"}]

Sendable ==
    [type : {"market"}, id : OrderIds, qty : Nat, reduceOnly : BOOLEAN]
    \cup [type : {"algo"}, id : AlgoIds, qty : Nat]
    \cup [type : {"cancel"}, id : AlgoIds]

Calls ==
    [at : Awaits, sent : Sendable \cup {NONE}, answer : Answers, qty : Nat, payload : Nat,
     ok : BOOLEAN]

(* What an operation awaits is a call of its kind of request.               *)
InPhase(op, c) ==
    c.at # "none" => op.pc \in {"effect", "recovering"} /\ c.at \in AwaitsOf(op.request.kind)

VenueTyped ==
    /\ pos \in Nat
    /\ orders \in [OrderIds -> Orders]
    /\ algos \in [AlgoIds -> Algos]
    /\ net \subseteq Sendable

CallsTyped ==
    /\ call \in [Orchestrators -> Calls]
    /\ \A o \in Orchestrators : InPhase(orch[o], call[o])

Typed == OrchInv /\ VenueTyped /\ CallsTyped

(* What a request of each kind carries.                                     *)
LEMMA RequestShapes ==
    ASSUME NEW r \in Requests
    PROVE  /\ r.kind = "protected_entry" =>
                r.id \in EntryIds /\ r.qty \in Quantities
           /\ r.kind = "protection_revision" =>
                /\ r.id \in RevisionIds /\ r.current \in Ownerships
                /\ r.reduction \in Nat /\ r.reduction < r.current.qty
                /\ r.current.stop # ClientId("grs", r.id)
           /\ r.kind = "owned_position_close" =>
                r.id \in CloseIds /\ r.current \in Ownerships
BY OwnedProtectionAssumption
   DEF Requests, EntryRequests, RevisionRequests, CloseRequests, RevisionValid

(* What an owned position consists of.                                      *)
LEMMA OwnershipShapes ==
    ASSUME NEW c \in Ownerships
    PROVE  c.qty \in Nat \ {0} /\ c.stop \in StopIds /\ c.target \in TargetIds
BY OwnedProtectionAssumption DEF Ownerships, Quantities

(* Client ids are pairs, and name orders of their role.                     *)
LEMMA IdShapes ==
    /\ \A role, i : ClientId(role, i)[1] = role /\ ClientId(role, i)[2] = i
    /\ \A i \in EntryIds :
          /\ ClientId("gce", i) \in OrderIds /\ ClientId("gcf", i) \in OrderIds
          /\ ClientId("gcs", i) \in StopIds /\ ClientId("gct", i) \in TargetIds
    /\ \A i \in RevisionIds :
          /\ ClientId("gcr", i) \in OrderIds
          /\ ClientId("grs", i) \in StopIds /\ ClientId("grt", i) \in TargetIds
    /\ \A i \in CloseIds : ClientId("gpc", i) \in OrderIds
    /\ StopIds \subseteq AlgoIds /\ TargetIds \subseteq AlgoIds
BY DEF ClientId, OrderIds, StopIds, TargetIds, AlgoIds

(* The mutations a coordinator writes can travel.                           *)
LEMMA SendableShapes ==
    /\ \A role, i, qty, reduceOnly :
          /\ Market(role, i, qty, reduceOnly).type = "market"
          /\ Market(role, i, qty, reduceOnly).id = ClientId(role, i)
          /\ Market(role, i, qty, reduceOnly).reduceOnly = reduceOnly
          /\ ClientId(role, i) \in OrderIds /\ qty \in Nat /\ reduceOnly \in BOOLEAN =>
                Market(role, i, qty, reduceOnly) \in Sendable
    /\ \A role, i, qty :
          /\ PlaceAlgo(role, i, qty).type = "algo"
          /\ PlaceAlgo(role, i, qty).id = ClientId(role, i)
          /\ PlaceAlgo(role, i, qty).qty = qty
          /\ ClientId(role, i) \in AlgoIds /\ qty \in Nat => PlaceAlgo(role, i, qty) \in Sendable
    /\ \A id :
          /\ Cancel(id).type = "cancel" /\ Cancel(id).id = id
          /\ id \in AlgoIds => Cancel(id) \in Sendable
BY DEF Market, PlaceAlgo, Cancel, Sendable

(* What travels is one of three kinds, each naming an order of that kind.   *)
LEMMA MutationShapes ==
    ASSUME NEW m \in Sendable
    PROVE  /\ m.type \in {"market", "algo", "cancel"}
           /\ m.type = "market" => m.id \in OrderIds /\ m.qty \in Nat /\ m.reduceOnly \in BOOLEAN
           /\ m.type = "algo" => m.id \in AlgoIds /\ m.qty \in Nat
           /\ m.type = "cancel" => m.id \in AlgoIds
BY DEF Sendable

(* No call is awaited in a fresh memory.                                    *)
LEMMA NoCallTyped == NoCall \in Calls /\ NoCall.at = "none"
BY DEF NoCall, Calls, Awaits, Answers

(* A conditional order the venue knows keeps its quantity, and is never     *)
(* forgotten.                                                               *)
AlgosKept ==
    \A id \in AlgoIds :
        algos[id].status # "none" =>
            algos'[id].status # "none" /\ algos'[id].qty = algos[id].qty

(* The venue executes: everything keeps its type.                           *)
LEMMA ExecutesTyped ==
    ASSUME VenueTyped, NEW m \in net, VenueExecutes(m)
    PROVE  VenueTyped' /\ AlgosKept /\ net' = net \ {m}
<1>1. m \in Sendable
  BY DEF VenueTyped
<1>2. CASE m.type = "market"
  <2>1. m.id \in OrderIds /\ m.qty \in Nat /\ m.reduceOnly \in BOOLEAN
    BY <1>1, <1>2, MutationShapes
  <2>2. PICK how \in Fills, n \in 0 .. MaxQuantity :
           /\ n <= IF m.reduceOnly THEN Least(m.qty, pos) ELSE m.qty
           /\ orders' = [orders EXCEPT ![m.id] =
                             [qty |-> m.qty, filled |-> n, open |-> how \in {"stalled", "working"}]]
           /\ pos' = IF m.reduceOnly THEN pos - n ELSE pos + n
    BY <1>2 DEF VenueExecutes, MarketExecutes
  <2>3. algos' = algos /\ net' = net \ {m}
    BY <1>2 DEF VenueExecutes
  <2>4. pos' \in Nat
    BY <2>1, <2>2 DEF Least, VenueTyped
  <2>5. orders' \in [OrderIds -> Orders]
    BY <2>1, <2>2 DEF VenueTyped, Orders
  <2> QED BY <2>3, <2>4, <2>5 DEF VenueTyped, AlgosKept
<1>3. CASE m.type = "algo"
  <2>1. m.id \in AlgoIds /\ m.qty \in Nat
    BY <1>1, <1>3, MutationShapes
  <2>2. /\ algos[m.id].status = "none" /\ net' = net \ {m} /\ UNCHANGED <<pos, orders>>
        /\ algos' = [algos EXCEPT ![m.id] = [qty |-> m.qty, status |-> "active"]]
    BY <1>3 DEF VenueExecutes, CanExecute
  <2>3. algos' \in [AlgoIds -> Algos] /\ AlgosKept
    BY <2>1, <2>2 DEF VenueTyped, Algos, AlgosKept
  <2> QED BY <2>2, <2>3 DEF VenueTyped
<1>4. CASE m.type = "cancel"
  <2>1. m.id \in AlgoIds
    BY <1>1, <1>4, MutationShapes
  <2>2. /\ net' = net \ {m} /\ UNCHANGED <<pos, orders>>
        /\ algos' = [algos EXCEPT ![m.id].status = "canceled"]
    BY <1>4 DEF VenueExecutes
  <2>3. algos' \in [AlgoIds -> Algos] /\ AlgosKept
    BY <2>1, <2>2 DEF VenueTyped, Algos, AlgosKept
  <2> QED BY <2>2, <2>3 DEF VenueTyped
<1> QED BY <1>1, <1>2, <1>3, <1>4, MutationShapes

(* A trigger, a further fill and an expiry keep the types.                  *)
LEMMA VenueMovesTyped ==
    ASSUME VenueTyped,
           \/ \E id \in AlgoIds : Trigger(id)
           \/ \E id \in OrderIds : FillsFurther(id) \/ Expires(id)
    PROVE  VenueTyped' /\ AlgosKept /\ UNCHANGED <<orchVars, net, call>>
<1>1. ASSUME NEW id \in AlgoIds, Trigger(id)
      PROVE  VenueTyped' /\ AlgosKept /\ UNCHANGED <<orchVars, net, call>>
  <2>1. /\ algos' = [algos EXCEPT ![id].status = "triggered"]
        /\ pos' = pos - Least(algos[id].qty, pos)
        /\ UNCHANGED <<orchVars, orders, net, call>>
    BY <1>1 DEF Trigger
  <2>2. pos' \in Nat
    BY <2>1 DEF Least, VenueTyped, Algos
  <2>3. algos' \in [AlgoIds -> Algos] /\ AlgosKept
    BY <2>1 DEF VenueTyped, Algos, AlgosKept
  <2> QED BY <2>1, <2>2, <2>3 DEF VenueTyped
<1>2. ASSUME NEW id \in OrderIds, FillsFurther(id)
      PROVE  VenueTyped' /\ AlgosKept /\ UNCHANGED <<orchVars, net, call>>
  BY <1>2 DEF FillsFurther, VenueTyped, Orders, AlgosKept
<1>3. ASSUME NEW id \in OrderIds, Expires(id)
      PROVE  VenueTyped' /\ AlgosKept /\ UNCHANGED <<orchVars, net, call>>
  BY <1>3 DEF Expires, VenueTyped, Orders, AlgosKept
<1> QED BY <1>1, <1>2, <1>3

(* What a target in transit needs.                                          *)
HasStop(m) ==
    m.type = "algo" /\ m.id \in TargetIds =>
        algos[StopOf(m.id)].status # "none" /\ algos[StopOf(m.id)].qty = m.qty

(* Types, and SC-002 with them.                                             *)
Proper == Typed /\ TargetNeedsStop

(* The stop of a target is a conditional order.                             *)
LEMMA StopOfTarget == ASSUME NEW t \in TargetIds PROVE StopOf(t) \in AlgoIds
BY DEF StopOf, TargetIds, StopIds, AlgoIds, ClientId

(* A venue that keeps what it knows leaves every target its stop.           *)
LEMMA StopsKept ==
    ASSUME TargetNeedsStop, AlgosKept, NEW m, HasStop(m), net' \subseteq net \cup {m}
    PROVE  TargetNeedsStop'
<1> SUFFICES ASSUME NEW n \in net', n.type = "algo", n.id \in TargetIds
             PROVE  algos'[StopOf(n.id)].status # "none" /\ algos'[StopOf(n.id)].qty = n.qty
  BY DEF TargetNeedsStop
<1>1. HasStop(n)
  BY DEF TargetNeedsStop, HasStop
<1> QED BY <1>1, StopOfTarget DEF HasStop, AlgosKept

-----------------------------------------------------------------------------
(* Types, step by step. *)

(* The operations of the other processes stay what they are.                *)
OthersKeep(o) ==
    \A q \in Orchestrators \ {o} :
        orch'[q].pc = orch[q].pc /\ orch'[q].request = orch[q].request

(* A save takes only `fresh` from the others.                               *)
LEMMA SavedKeepsOthers ==
    ASSUME OrchInv, NEW o \in Orchestrators, NEW s, NEW op, Saved(o, s, op)
    PROVE  OthersKeep(o) /\ orch'[o] = op
BY DEF Saved, OthersKeep, OrchInv, OrchTypeOK

(* A process that begins, moves on or ends leaves the others alone.         *)
LEMMA MoveKeepsOthers ==
    ASSUME OrchInv, NEW o \in Orchestrators, NEW op, orch' = [orch EXCEPT ![o] = op]
    PROVE  OthersKeep(o) /\ orch'[o] = op
BY DEF OthersKeep, OrchInv, OrchTypeOK

(* A return ends its operation and no other.                                *)
LEMMA ReturnKeepsOthers ==
    ASSUME OrchInv, NEW o \in Orchestrators, NEW result, Return(o, result)
    PROVE  OthersKeep(o) /\ orch'[o] = Idle
BY SavedKeepsOthers, MoveKeepsOthers DEF Return, EffectReturns

(* Every await is one the types know.                                       *)
LEMMA AwaitsTyped == \A kind : AwaitsOf(kind) \subseteq Awaits /\ "none" \notin AwaitsOf(kind)
BY DEF AwaitsOf, EntryAwaits, RevisionAwaits, CloseAwaits, NewStopAwaits, NewTargetAwaits,
       CleanupAwaits, Awaits

(* One process moves to a call of its operation.                            *)
LEMMA CallMoves ==
    ASSUME CallsTyped, NEW o \in Orchestrators, NEW c \in Calls,
           call' = [call EXCEPT ![o] = c], InPhase(orch'[o], c), OthersKeep(o)
    PROVE  CallsTyped'
<1>1. ASSUME NEW q \in Orchestrators PROVE InPhase(orch'[q], call'[q])
  <2>1. CASE q = o
    BY <2>1 DEF CallsTyped
  <2>2. CASE q # o
    BY <2>2 DEF CallsTyped, OthersKeep, InPhase
  <2> QED BY <2>1, <2>2
<1> QED BY <1>1 DEF CallsTyped

(* Nobody moves, and the record stays.                                      *)
LEMMA NobodyMoves ==
    ASSUME Typed, UNCHANGED orchVars
    PROVE  OrchInv' /\ \A o : OthersKeep(o) /\ orch'[o] = orch[o]
BY OrchStepInv DEF Typed, orchVars, OthersKeep

(* A mutation of the operation's own is sent.                               *)
LEMMA SendProper ==
    ASSUME Proper, NEW o \in Orchestrators, call[o].at # "none",
           NEW at \in AwaitsOf(Request(o).kind), NEW m \in Sendable, NEW qty \in Nat,
           NEW ok \in BOOLEAN,
           Send(o, at, m, qty, ok), UNCHANGED venue, HasStop(m)
    PROVE  Proper'
<1> DEFINE c == [at |-> at, sent |-> m, answer |-> "waiting", qty |-> qty, payload |-> 0,
                 ok |-> ok]
<1>1. UNCHANGED orchVars /\ net' = net \cup {m} /\ call' = [call EXCEPT ![o] = c]
  BY DEF Send
<1>2. OrchInv' /\ OthersKeep(o) /\ orch'[o] = orch[o]
  BY <1>1, NobodyMoves DEF Proper
<1>3. c \in Calls
  BY AwaitsTyped DEF Calls, Answers
<1>4. InPhase(orch'[o], c)
  BY <1>2 DEF InPhase, Request, Proper, Typed, CallsTyped
<1> HIDE DEF c
<1>5. CallsTyped'
  BY <1>1, <1>2, <1>3, <1>4, CallMoves DEF Proper, Typed
<1>6. VenueTyped'
  BY <1>1 DEF venue, VenueTyped, Proper, Typed
<1>7. TargetNeedsStop'
  BY <1>1, StopsKept DEF venue, AlgosKept, Proper
<1> QED BY <1>2, <1>5, <1>6, <1>7 DEF Proper, Typed

(* Something is looked up.                                                  *)
LEMMA LookProper ==
    ASSUME Proper, NEW o \in Orchestrators, call[o].at # "none",
           NEW at \in AwaitsOf(Request(o).kind), NEW qty \in Nat, NEW ok \in BOOLEAN,
           Look(o, at, qty, ok), UNCHANGED venue
    PROVE  Proper'
<1> DEFINE c == [NoCall EXCEPT !.at = at, !.qty = qty, !.ok = ok]
<1>1. UNCHANGED orchVars /\ net' = net /\ call' = [call EXCEPT ![o] = c]
  BY DEF Look
<1>2. OrchInv' /\ OthersKeep(o) /\ orch'[o] = orch[o]
  BY <1>1, NobodyMoves DEF Proper
<1>3. c \in Calls /\ c.at = at
  BY AwaitsTyped, NoCallTyped DEF Calls
<1>4. InPhase(orch'[o], c)
  BY <1>2, <1>3 DEF InPhase, Request, Proper, Typed, CallsTyped
<1> HIDE DEF c
<1>5. CallsTyped'
  BY <1>1, <1>2, <1>3, <1>4, CallMoves DEF Proper, Typed
<1>6. VenueTyped' /\ TargetNeedsStop'
  BY <1>1 DEF venue, VenueTyped, TargetNeedsStop, Proper, Typed
<1> QED BY <1>2, <1>5, <1>6 DEF Proper, Typed

(* An operation ends, whatever becomes of the record.                       *)
LEMMA EndProper ==
    ASSUME Proper, NEW o \in Orchestrators, OrchInv', OthersKeep(o),
           call' = [call EXCEPT ![o] = NoCall], UNCHANGED <<venue, net>>
    PROVE  Proper'
<1>1. InPhase(orch'[o], NoCall)
  BY NoCallTyped DEF InPhase
<1>2. CallsTyped'
  BY <1>1, NoCallTyped, CallMoves DEF Proper, Typed
<1>3. VenueTyped' /\ TargetNeedsStop'
  BY DEF venue, VenueTyped, TargetNeedsStop, Proper, Typed
<1> QED BY <1>2, <1>3 DEF Proper, Typed

LEMMA ReturnProper ==
    ASSUME Proper, NEW o \in Orchestrators, NEW result, Return(o, result), UNCHANGED venue
    PROVE  Proper'
<1>1. OrchInv'
  BY EffectReturnsInv DEF Return, Proper, Typed
<1>2. OthersKeep(o)
  BY ReturnKeepsOthers DEF Proper, Typed
<1> QED BY <1>1, <1>2, EndProper DEF Return

(* What a lookup of an order answers: what was executed, or zero.           *)
LEMMA OrderAnswers ==
    ASSUME VenueTyped, NEW id \in OrderIds, NEW executed \in LookupOrder(id)
    PROVE  /\ executed \in Nat /\ executed <= orders[id].filled
           /\ executed = 0 \/ executed = orders[id].filled
BY DEF LookupOrder, Unanswered, ProvenFill, VenueTyped, Orders

(* A conditional order is proven only when it is there, active and exact.   *)
LEMMA AlgoAnswers ==
    /\ \A id, qty : LookupAlgo(id, qty) \subseteq BOOLEAN
    /\ \A id, qty : TRUE \in LookupAlgo(id, qty) => algos[id] = [qty |-> qty, status |-> "active"]
    /\ \A id : LookupCanceled(id) \subseteq BOOLEAN /\ LookupGone(id) \subseteq BOOLEAN
<1>1. ASSUME NEW P \in BOOLEAN
      PROVE  {P} \cup Unanswered(FALSE) \subseteq BOOLEAN
             /\ (TRUE \in {P} \cup Unanswered(FALSE) => P)
  BY DEF Unanswered
<1>2. ASSUME NEW id, NEW qty
      PROVE  /\ LookupAlgo(id, qty) \subseteq BOOLEAN
             /\ TRUE \in LookupAlgo(id, qty) => algos[id] = [qty |-> qty, status |-> "active"]
  <2>1. (algos[id] = [qty |-> qty, status |-> "active"]) \in BOOLEAN
    OBVIOUS
  <2> QED BY <1>1, <2>1 DEF LookupAlgo
<1>3. ASSUME NEW id PROVE LookupCanceled(id) \subseteq BOOLEAN
  <2>1. (algos[id].status = "canceled") \in BOOLEAN
    OBVIOUS
  <2> QED BY <1>1, <2>1 DEF LookupCanceled
<1>4. ASSUME NEW id PROVE LookupGone(id) \subseteq BOOLEAN
  <2>1. (algos[id].status \in {"none", "canceled"}) \in BOOLEAN
    OBVIOUS
  <2> QED BY <1>1, <2>1 DEF LookupGone
<1> QED BY <1>2, <1>3, <1>4

(* The operation a call belongs to.                                         *)
LEMMA Underway ==
    ASSUME Typed, NEW o \in Orchestrators, call[o].at # "none"
    PROVE  /\ Request(o) \in Requests
           /\ orch[o].pc \in {"effect", "recovering"}
           /\ call[o].at \in AwaitsOf(Request(o).kind)
           /\ call[o].qty \in Nat /\ call[o].payload \in Nat /\ call[o].ok \in BOOLEAN
           /\ call[o].at \in EntryAwaits => Request(o).kind = "protected_entry"
           /\ call[o].at \in RevisionAwaits \ CloseAwaits =>
                 Request(o).kind = "protection_revision"
           /\ call[o].at \in CloseAwaits \ RevisionAwaits =>
                 Request(o).kind = "owned_position_close"
           /\ call[o].at \in RevisionAwaits \cup CloseAwaits =>
                 Request(o).kind \in {"protection_revision", "owned_position_close"}
<1>1. /\ orch[o].pc \in {"effect", "recovering"} /\ call[o].at \in AwaitsOf(Request(o).kind)
      /\ call[o] \in Calls
  BY DEF Typed, CallsTyped, InPhase, Request
<1>2. Request(o) \in Requests
  BY <1>1 DEF Typed, OrchInv, MemoryAgrees, Request
<1>3. Request(o).kind \in {"protected_entry", "protection_revision", "owned_position_close"}
  BY <1>2, RequestKinds
<1>4. EntryAwaits \cap (RevisionAwaits \cup CloseAwaits) = {}
  BY DEF EntryAwaits, RevisionAwaits, CloseAwaits, NewStopAwaits, NewTargetAwaits, CleanupAwaits
<1>5. AwaitsOf(Request(o).kind) =
         IF Request(o).kind = "protected_entry" THEN EntryAwaits
         ELSE IF Request(o).kind = "protection_revision" THEN RevisionAwaits ELSE CloseAwaits
  BY DEF AwaitsOf
<1> QED BY <1>1, <1>2, <1>3, <1>4, <1>5 DEF Calls

(* What an entry's coordinator may send and look at.                        *)
LEMMA EntryAtWork ==
    ASSUME Typed, NEW o \in Orchestrators, call[o].at \in EntryAwaits
    PROVE  LET r == Request(o) IN
           /\ r \in Requests /\ r.kind = "protected_entry"
           /\ AwaitsOf(r.kind) = EntryAwaits /\ call[o].at # "none"
           /\ r.id \in EntryIds /\ r.qty \in Nat \ {0}
           /\ ClientId("gce", r.id) \in OrderIds /\ ClientId("gcf", r.id) \in OrderIds
           /\ ClientId("gcs", r.id) \in AlgoIds /\ ClientId("gct", r.id) \in AlgoIds
           /\ call[o].qty \in Nat /\ call[o].payload \in Nat
<1>1. call[o].at # "none"
  BY DEF EntryAwaits
<1> QED BY <1>1, Underway, RequestShapes, IdShapes, OwnedProtectionAssumption
        DEF AwaitsOf, Quantities

(* What a manager of an owned position may send and look at.                *)
LEMMA ManagementAtWork ==
    ASSUME Typed, NEW o \in Orchestrators, call[o].at \in RevisionAwaits \cup CloseAwaits
    PROVE  LET r == Request(o) IN
           /\ r \in Requests /\ call[o].at # "none"
           /\ r.current \in Ownerships
           /\ Current(o).qty \in Nat \ {0}
           /\ Current(o).stop \in StopIds /\ Current(o).stop \in AlgoIds
           /\ Current(o).target \in TargetIds /\ Current(o).target \in AlgoIds
           /\ \/ /\ r.kind = "protection_revision" /\ Revising(o)
                 /\ AwaitsOf(r.kind) = RevisionAwaits
                 /\ r.id \in RevisionIds
                 /\ ClientId("gcr", r.id) \in OrderIds
                 /\ ClientId("grs", r.id) \in AlgoIds /\ ClientId("grt", r.id) \in AlgoIds
                 /\ r.reduction \in Nat /\ Remaining(o) \in Nat \ {0}
              \/ /\ r.kind = "owned_position_close" /\ ~Revising(o)
                 /\ AwaitsOf(r.kind) = CloseAwaits
                 /\ r.id \in CloseIds
                 /\ ClientId("gpc", r.id) \in OrderIds
           /\ call[o].at \in RevisionAwaits \ CloseAwaits => Revising(o)
           /\ call[o].at \in CloseAwaits \ RevisionAwaits => ~Revising(o)
           /\ call[o].payload \in Nat /\ call[o].ok \in BOOLEAN
<1>1. call[o].at # "none"
  BY DEF RevisionAwaits, CloseAwaits, NewStopAwaits, NewTargetAwaits, CleanupAwaits
<1>2. /\ Request(o) \in Requests
      /\ Request(o).kind \in {"protection_revision", "owned_position_close"}
  BY <1>1, Underway
<1>3. Request(o).current \in Ownerships
  BY <1>2, RequestShapes
<1>4. /\ Current(o).qty \in Nat \ {0} /\ Current(o).stop \in StopIds
      /\ Current(o).target \in TargetIds
  BY <1>3, OwnershipShapes DEF Current
<1>5. CASE Request(o).kind = "protection_revision"
  <2>1. Remaining(o) \in Nat \ {0}
    BY <1>2, <1>4, <1>5, RequestShapes DEF Remaining, Current
  <2> QED BY <1>1, <1>2, <1>3, <1>4, <1>5, <2>1, Underway, RequestShapes, IdShapes
          DEF AwaitsOf, Revising
<1>6. CASE Request(o).kind = "owned_position_close"
  BY <1>1, <1>2, <1>3, <1>4, <1>6, Underway, RequestShapes, IdShapes DEF AwaitsOf, Revising
<1> QED BY <1>2, <1>5, <1>6

(* Only a target needs a stop. *)
LEMMA NeedNoStop ==
    /\ \A role, i, qty, reduceOnly : HasStop(Market(role, i, qty, reduceOnly))
    /\ \A id : HasStop(Cancel(id))
    /\ \A i, qty : HasStop(PlaceAlgo("gcs", i, qty)) /\ HasStop(PlaceAlgo("grs", i, qty))
BY DEF HasStop, Market, Cancel, PlaceAlgo, ClientId, TargetIds

(* A target is sent with its stop proven at the same quantity.              *)
LEMMA StopIsThere ==
    ASSUME NEW i, NEW qty
    PROVE  /\ TRUE \in LookupAlgo(ClientId("gcs", i), qty) => HasStop(PlaceAlgo("gct", i, qty))
           /\ TRUE \in LookupAlgo(ClientId("grs", i), qty) => HasStop(PlaceAlgo("grt", i, qty))
<1>1. /\ StopOf(ClientId("gct", i)) = ClientId("gcs", i)
      /\ StopOf(ClientId("grt", i)) = ClientId("grs", i)
  BY DEF StopOf, ClientId
<1>2. ASSUME NEW id, TRUE \in LookupAlgo(id, qty)
      PROVE  algos[id].status # "none" /\ algos[id].qty = qty
  <2>1. algos[id] = [qty |-> qty, status |-> "active"]
    BY <1>2, AlgoAnswers
  <2> QED BY <2>1
<1> QED BY <1>1, <1>2 DEF HasStop, PlaceAlgo

(* What the coordinator of an entry does.                                   *)
EntryWork(o) ==
    \/ EntrySubmitted(o) \/ EntryLookedUp(o) \/ StopSubmitted(o) \/ StopLookedUp(o)
    \/ TargetSubmitted(o) \/ TargetLookedUp(o) \/ FlattenSubmitted(o) \/ FlattenLookedUp(o)
    \/ ReconcileEntry(o) \/ ReconcileStop(o)

(* A flatten is sent.                                                       *)
LEMMA FlattenProper ==
    ASSUME Proper, NEW o \in Orchestrators, call[o].at \in EntryAwaits, UNCHANGED venue,
           NEW executed \in Nat, Flatten(o, executed)
    PROVE  Proper'
<1>1. /\ call[o].at # "none" /\ AwaitsOf(Request(o).kind) = EntryAwaits
      /\ ClientId("gcf", Request(o).id) \in OrderIds
  BY EntryAtWork DEF Proper
<1> DEFINE m == Market("gcf", Request(o).id, executed, TRUE)
<1>2. m \in Sendable /\ HasStop(m)
  BY <1>1, SendableShapes, NeedNoStop
<1>3. "flatten" \in EntryAwaits
  BY DEF EntryAwaits
<1>4. Send(o, "flatten", m, executed, FALSE)
  BY DEF Flatten
<1> HIDE DEF m
<1> QED BY <1>1, <1>2, <1>3, <1>4, SendProper

(* The executed quantity of an entry is acted on.                           *)
LEMMA AfterEntryProper ==
    ASSUME Proper, NEW o \in Orchestrators, call[o].at \in EntryAwaits, UNCHANGED venue,
           NEW executed \in Nat, AfterEntry(o, executed)
    PROVE  Proper'
<1>1. CASE executed = 0
  <2>1. Return(o, "entry_visibility_pending")
    BY <1>1, EntryAtWork DEF AfterEntry, Proper
  <2> QED BY <2>1, ReturnProper
<1>2. CASE executed # 0 /\ executed = Request(o).qty
  <2>1. /\ call[o].at # "none" /\ AwaitsOf(Request(o).kind) = EntryAwaits
        /\ ClientId("gcs", Request(o).id) \in AlgoIds
    BY EntryAtWork DEF Proper
  <2> DEFINE m == PlaceAlgo("gcs", Request(o).id, executed)
  <2>2. m \in Sendable /\ HasStop(m)
    BY <2>1, SendableShapes, NeedNoStop
  <2>3. "stop" \in EntryAwaits
    BY DEF EntryAwaits
  <2>4. Send(o, "stop", m, executed, FALSE)
    BY <1>2 DEF AfterEntry
  <2> HIDE DEF m
  <2> QED BY <2>1, <2>2, <2>3, <2>4, SendProper
<1>3. CASE executed # 0 /\ executed # Request(o).qty
  BY <1>3, FlattenProper DEF AfterEntry
<1> QED BY <1>1, <1>2, <1>3

(* Every step of an entry's coordinator keeps the types, and sends a target *)
(* only behind its stop.                                                    *)
LEMMA EntryWorkProper ==
    ASSUME Proper, NEW o \in Orchestrators, EntryWork(o)
    PROVE  Proper'
<1> DEFINE r == Request(o)
<1>1. UNCHANGED venue /\ call[o].at \in EntryAwaits
  BY DEF EntryWork, EntrySubmitted, EntryLookedUp, StopSubmitted, StopLookedUp, TargetSubmitted,
         TargetLookedUp, FlattenSubmitted, FlattenLookedUp, ReconcileEntry, ReconcileStop,
         Awaiting, EntryAwaits
<1>2. /\ call[o].at # "none" /\ AwaitsOf(r.kind) = EntryAwaits
      /\ ClientId("gce", r.id) \in OrderIds /\ ClientId("gct", r.id) \in AlgoIds
      /\ call[o].qty \in Nat /\ call[o].payload \in Nat
  BY <1>1, EntryAtWork DEF Proper
<1>3. ASSUME NEW at \in EntryAwaits, NEW qty \in Nat, Look(o, at, qty, FALSE) PROVE Proper'
  BY <1>1, <1>2, <1>3, LookProper
<1>4. ASSUME NEW result, Return(o, result) PROVE Proper'
  BY <1>1, <1>4, ReturnProper
<1>5. ASSUME NEW executed \in Nat, AfterEntry(o, executed) \/ Flatten(o, executed) PROVE Proper'
  BY <1>1, <1>5, AfterEntryProper, FlattenProper
<1>6. /\ {"entry_lookup", "stop_lookup", "target_lookup", "flatten_lookup", "re_stop",
          "re_flatten", "re_target", "target"} \subseteq EntryAwaits
  BY DEF EntryAwaits
<1>7. ASSUME NEW executed \in LookupOrder(ClientId("gce", r.id)) PROVE executed \in Nat
  BY <1>2, OrderAnswers DEF Proper, Typed
<1> HIDE DEF r
<1>8. CASE EntrySubmitted(o) \/ EntryLookedUp(o)
  BY <1>2, <1>3, <1>4, <1>5, <1>6, <1>7, <1>8 DEF EntrySubmitted, EntryLookedUp, r
<1>9. CASE StopSubmitted(o)
  BY <1>2, <1>3, <1>5, <1>6, <1>9 DEF StopSubmitted
<1>10. CASE StopLookedUp(o)
  <2> DEFINE m == PlaceAlgo("gct", r.id, call[o].qty)
  <2>1. PICK proven \in LookupAlgo(ClientId("gcs", r.id), call[o].qty) :
           IF proven THEN Send(o, "target", m, call[o].qty, FALSE) ELSE Flatten(o, call[o].qty)
    BY <1>10 DEF StopLookedUp, r
  <2>2. CASE proven
    <3>1. HasStop(m)
      BY <2>2, AlgoAnswers, StopIsThere
    <3>2. m \in Sendable
      BY <1>2, SendableShapes
    <3>3. Send(o, "target", m, call[o].qty, FALSE)
      BY <2>1, <2>2
    <3> HIDE DEF m
    <3> QED BY <1>1, <1>2, <1>6, <3>1, <3>2, <3>3, SendProper DEF r
  <2>3. CASE ~proven
    BY <1>2, <1>5, <2>1, <2>3
  <2> QED BY <2>2, <2>3
<1>11. CASE TargetSubmitted(o) \/ TargetLookedUp(o)
  BY <1>2, <1>3, <1>4, <1>6, <1>11 DEF TargetSubmitted, TargetLookedUp
<1>12. CASE FlattenSubmitted(o) \/ FlattenLookedUp(o)
  BY <1>2, <1>3, <1>4, <1>6, <1>12 DEF FlattenSubmitted, FlattenLookedUp
<1>13. CASE ReconcileEntry(o) \/ ReconcileStop(o)
  BY <1>2, <1>3, <1>4, <1>6, <1>7, <1>13 DEF ReconcileEntry, ReconcileStop, r
<1> QED BY <1>8, <1>9, <1>10, <1>11, <1>12, <1>13 DEF EntryWork

(* What the coordinators of a revision and of a close do.                   *)
ManagementWork(o) ==
    \/ CurrentStopLookedUp(o) \/ CurrentTargetLookedUp(o)
    \/ ReductionSubmitted(o) \/ ReductionLookedUp(o)
    \/ NewStopSubmitted(o) \/ NewStopLookedUp(o) \/ NewTargetSubmitted(o) \/ NewTargetLookedUp(o)
    \/ CloseSubmitted(o) \/ CloseLookedUp(o) \/ TargetCancelled(o) \/ StopCancelled(o)
    \/ ReconcileReduction(o) \/ ReconcileNewStop(o) \/ ReconcileNewTarget(o)
    \/ ReconcileClose(o) \/ ReconcileCleanup(o)

(* The replacement stop is sent.                                            *)
LEMMA NewStopProper ==
    ASSUME Proper, NEW o \in Orchestrators, call[o].at \in RevisionAwaits, UNCHANGED venue,
           Revising(o), NewStop(o)
    PROVE  Proper'
<1>1. /\ call[o].at # "none" /\ AwaitsOf(Request(o).kind) = RevisionAwaits
      /\ ClientId("grs", Request(o).id) \in AlgoIds /\ Remaining(o) \in Nat
  BY ManagementAtWork DEF Proper
<1> DEFINE m == PlaceAlgo("grs", Request(o).id, Remaining(o))
<1>2. m \in Sendable /\ HasStop(m)
  BY <1>1, SendableShapes, NeedNoStop
<1>3. "new_stop" \in RevisionAwaits
  BY DEF RevisionAwaits, NewStopAwaits
<1>4. Send(o, "new_stop", m, 0, FALSE)
  BY DEF NewStop
<1> HIDE DEF m
<1> QED BY <1>1, <1>2, <1>3, <1>4, SendProper

(* A cancellation of the current pair is sent.                              *)
LEMMA CancelProper ==
    ASSUME Proper, NEW o \in Orchestrators, call[o].at \in RevisionAwaits \cup CloseAwaits,
           UNCHANGED venue, NEW ok \in BOOLEAN,
           \/ CancelTarget(o)
           \/ Send(o, "cancel_stop", Cancel(Current(o).stop), 0, ok)
    PROVE  Proper'
<1>1. /\ call[o].at # "none" /\ AwaitsOf(Request(o).kind) \in {RevisionAwaits, CloseAwaits}
      /\ Current(o).stop \in AlgoIds /\ Current(o).target \in AlgoIds
  BY ManagementAtWork DEF Proper
<1>2. {"cancel_target", "cancel_stop"} \subseteq AwaitsOf(Request(o).kind)
  BY <1>1 DEF RevisionAwaits, CloseAwaits, CleanupAwaits
<1>3. ASSUME NEW id \in AlgoIds, NEW at \in {"cancel_target", "cancel_stop"}, NEW b \in BOOLEAN,
             Send(o, at, Cancel(id), 0, b)
      PROVE  Proper'
  <2>1. Cancel(id) \in Sendable /\ HasStop(Cancel(id)) /\ at \in AwaitsOf(Request(o).kind)
    BY <1>2, SendableShapes, NeedNoStop
  <2> QED BY <1>1, <1>3, <2>1, SendProper
<1> QED BY <1>1, <1>3 DEF CancelTarget

(* Every step of a manager keeps the types, and sends a target only behind  *)
(* its stop.                                                                *)
LEMMA ManagementWorkProper ==
    ASSUME Proper, NEW o \in Orchestrators, ManagementWork(o)
    PROVE  Proper'
<1> DEFINE r == Request(o)
           A == AwaitsOf(r.kind)
<1>1. UNCHANGED venue /\ call[o].at \in RevisionAwaits \cup CloseAwaits
  BY DEF ManagementWork, CurrentStopLookedUp, CurrentTargetLookedUp, ReductionSubmitted,
         ReductionLookedUp, NewStopSubmitted, NewStopLookedUp, NewTargetSubmitted,
         NewTargetLookedUp, CloseSubmitted, CloseLookedUp, TargetCancelled, StopCancelled,
         ReconcileReduction, ReconcileNewStop, ReconcileNewTarget, ReconcileClose,
         ReconcileCleanup, Awaiting, RevisionAwaits, CloseAwaits, NewStopAwaits,
         NewTargetAwaits, CleanupAwaits
<1>2. call[o].at # "none" /\ call[o].ok \in BOOLEAN
  BY <1>1, ManagementAtWork DEF Proper
<1>3. ASSUME NEW at \in A, NEW ok \in BOOLEAN, Look(o, at, 0, ok) PROVE Proper'
  BY <1>1, <1>2, <1>3, LookProper
<1>4. ASSUME NEW result, Return(o, result) PROVE Proper'
  BY <1>1, <1>4, ReturnProper
<1>5. ASSUME NEW ok, CleanedUp(o, ok) PROVE Proper'
  BY <1>4, <1>5 DEF CleanedUp
<1>6. {"current_target", "target_inspection", "stop_inspection", "re_target_gone", "re_stop_gone"}
         \subseteq A
  BY <1>1, ManagementAtWork DEF Proper, RevisionAwaits, CloseAwaits, CleanupAwaits
<1>7. ASSUME NEW ok \in BOOLEAN,
             CancelTarget(o) \/ Send(o, "cancel_stop", Cancel(Current(o).stop), 0, ok)
      PROVE  Proper'
  BY <1>1, <1>7, CancelProper
<1>8. \A id, qty : LookupAlgo(id, qty) \subseteq BOOLEAN
  BY AlgoAnswers
<1>9. \A id : LookupCanceled(id) \subseteq BOOLEAN /\ LookupGone(id) \subseteq BOOLEAN
  BY AlgoAnswers
<1>10. CASE CurrentStopLookedUp(o)
  BY <1>3, <1>6, <1>8, <1>10 DEF CurrentStopLookedUp
<1>11. CASE CurrentTargetLookedUp(o)
  <2>1. PICK proven \in LookupAlgo(Current(o).target, Current(o).qty) :
          CASE ~(call[o].ok /\ proven) ->
                  Return(o, IF Revising(o) THEN "current_protection_not_proven"
                            ELSE "owned_protection_not_proven")
            [] call[o].ok /\ proven /\ ~Revising(o) ->
                  Send(o, "close", Market("gpc", r.id, Current(o).qty, TRUE), 0, FALSE)
            [] OTHER ->
                  IF r.reduction = 0 THEN NewStop(o)
                  ELSE Send(o, "reduction", Market("gcr", r.id, r.reduction, TRUE), 0, FALSE)
    BY <1>11 DEF CurrentTargetLookedUp
  <2>2. CASE ~(call[o].ok /\ proven)
    BY <1>4, <2>1, <2>2
  <2>3. CASE call[o].ok /\ proven /\ ~Revising(o)
    <3> DEFINE m == Market("gpc", r.id, Current(o).qty, TRUE)
    <3>1. A = CloseAwaits /\ ClientId("gpc", r.id) \in OrderIds /\ Current(o).qty \in Nat
      BY <1>1, <2>3, ManagementAtWork DEF Proper, Revising
    <3>2. m \in Sendable /\ HasStop(m) /\ "close" \in A
      BY <3>1, SendableShapes, NeedNoStop DEF CloseAwaits
    <3>3. Send(o, "close", m, 0, FALSE)
      BY <2>1, <2>3
    <3> HIDE DEF m
    <3> QED BY <1>1, <1>2, <3>2, <3>3, SendProper
  <2>4. CASE call[o].ok /\ proven /\ Revising(o)
    <3>1. /\ A = RevisionAwaits /\ ClientId("gcr", r.id) \in OrderIds /\ r.reduction \in Nat
          /\ call[o].at \in RevisionAwaits
      BY <1>1, <2>4, ManagementAtWork, Underway DEF Proper, Revising
    <3>2. CASE r.reduction = 0
      BY <1>1, <2>1, <2>4, <3>1, <3>2, NewStopProper
    <3>3. CASE r.reduction # 0
      <4> DEFINE m == Market("gcr", r.id, r.reduction, TRUE)
      <4>1. m \in Sendable /\ HasStop(m) /\ "reduction" \in A
        BY <3>1, SendableShapes, NeedNoStop DEF RevisionAwaits
      <4>2. Send(o, "reduction", m, 0, FALSE)
        BY <2>1, <2>4, <3>3
      <4> HIDE DEF m
      <4> QED BY <1>1, <1>2, <4>1, <4>2, SendProper
    <3> QED BY <3>2, <3>3
  <2> QED BY <2>2, <2>3, <2>4
<1>12. ASSUME call[o].at \in RevisionAwaits \ CloseAwaits
       PROVE  /\ Revising(o) /\ A = RevisionAwaits /\ Remaining(o) \in Nat
              /\ ClientId("grt", r.id) \in AlgoIds
              /\ {"reduction_lookup", "new_stop_lookup", "new_target", "new_target_lookup",
                  "re_new_stop", "re_new_target"} \subseteq A
  BY <1>1, <1>12, ManagementAtWork DEF Proper, RevisionAwaits, NewStopAwaits, NewTargetAwaits
<1>13. ASSUME call[o].at \in CloseAwaits \ RevisionAwaits
       PROVE  "close_lookup" \in A
  BY <1>1, <1>13, ManagementAtWork DEF Proper, CloseAwaits
<1>14. /\ {"reduction", "reduction_lookup", "re_reduction", "new_stop", "new_stop_lookup",
           "re_new_stop", "new_target", "new_target_lookup", "re_new_target"}
             \subseteq RevisionAwaits \ CloseAwaits
       /\ {"close", "close_lookup", "re_close"} \subseteq CloseAwaits \ RevisionAwaits
  BY DEF RevisionAwaits, CloseAwaits, NewStopAwaits, NewTargetAwaits, CleanupAwaits
<1>15. ASSUME call[o].at \in RevisionAwaits \ CloseAwaits, NewStop(o) PROVE Proper'
  BY <1>1, <1>12, <1>15, NewStopProper
<1> HIDE DEF A, r
<1>16. CASE ReductionSubmitted(o) \/ ReductionLookedUp(o)
  BY <1>3, <1>4, <1>12, <1>14, <1>15, <1>16 DEF ReductionSubmitted, ReductionLookedUp, Awaiting
<1>17. CASE NewStopSubmitted(o)
  BY <1>3, <1>4, <1>12, <1>14, <1>17 DEF NewStopSubmitted, Awaiting
<1>18. CASE NewStopLookedUp(o)
  <2> DEFINE m == PlaceAlgo("grt", r.id, Remaining(o))
  <2>1. PICK proven \in LookupAlgo(ClientId("grs", r.id), Remaining(o)) :
           IF proven THEN Send(o, "new_target", m, 0, FALSE)
           ELSE Return(o, "replacement_stop_pending")
    BY <1>18 DEF NewStopLookedUp, r
  <2>2. CASE proven
    <3>1. HasStop(m)
      BY <1>8, <2>2, StopIsThere
    <3>2. m \in Sendable /\ "new_target" \in A
      BY <1>12, <1>14, <1>18, SendableShapes DEF NewStopLookedUp, Awaiting
    <3>3. Send(o, "new_target", m, 0, FALSE)
      BY <2>1, <2>2
    <3> HIDE DEF m
    <3> QED BY <1>1, <1>2, <3>1, <3>2, <3>3, SendProper DEF A, r
  <2>3. CASE ~proven
    BY <1>4, <2>1, <2>3
  <2> QED BY <2>2, <2>3
<1>19. CASE NewTargetSubmitted(o) \/ NewTargetLookedUp(o)
  BY <1>3, <1>4, <1>7, <1>12, <1>14, <1>19 DEF NewTargetSubmitted, NewTargetLookedUp, Awaiting
<1>20. CASE CloseSubmitted(o) \/ CloseLookedUp(o)
  BY <1>3, <1>4, <1>7, <1>13, <1>14, <1>20
     DEF CloseSubmitted, CloseLookedUp, AfterCloseLookup, Awaiting
<1>21. CASE TargetCancelled(o)
  BY <1>3, <1>6, <1>7, <1>9, <1>21 DEF TargetCancelled
<1>22. CASE StopCancelled(o)
  BY <1>2, <1>3, <1>5, <1>6, <1>9, <1>22 DEF StopCancelled
<1>23. CASE ReconcileReduction(o) \/ ReconcileNewStop(o) \/ ReconcileNewTarget(o)
  BY <1>3, <1>4, <1>6, <1>12, <1>14, <1>23
     DEF ReconcileReduction, ReconcileNewStop, ReconcileNewTarget, Awaiting
<1>24. CASE ReconcileClose(o) \/ ReconcileCleanup(o)
  BY <1>3, <1>4, <1>5, <1>6, <1>9, <1>24 DEF ReconcileClose, ReconcileCleanup
<1> QED BY <1>10, <1>11, <1>16, <1>17, <1>18, <1>19, <1>20, <1>21, <1>22, <1>23, <1>24
        DEF ManagementWork

(* The venue answers, or its answer is lost.                                *)
LEMMA AnswerProper ==
    ASSUME Proper, NEW o \in Orchestrators, VenueAccepts(o) \/ VenueRejects(o) \/ AnswerLost(o)
    PROVE  Proper'
<1>1. UNCHANGED orchVars
  BY DEF VenueAccepts, VenueRejects, AnswerLost
<1>2. OrchInv' /\ OthersKeep(o) /\ orch'[o] = orch[o]
  BY <1>1, NobodyMoves DEF Proper
<1>3. VenueTyped' /\ AlgosKept /\ net' \subseteq net
  <2>1. CASE VenueAccepts(o)
    BY <2>1, ExecutesTyped DEF VenueAccepts, Proper, Typed
  <2>2. CASE VenueRejects(o) \/ AnswerLost(o)
    BY <2>2 DEF VenueRejects, AnswerLost, venue, AlgosKept, VenueTyped, Proper, Typed
  <2> QED BY <2>1, <2>2
<1>4. TargetNeedsStop'
  <2>1. SUFFICES ASSUME NEW n \in net', n.type = "algo", n.id \in TargetIds
                 PROVE  algos'[StopOf(n.id)].status # "none" /\ algos'[StopOf(n.id)].qty = n.qty
    BY DEF TargetNeedsStop
  <2> QED BY <1>3, <2>1, StopOfTarget DEF AlgosKept, Proper, TargetNeedsStop
<1>5. ASSUME NEW answer \in Answers, NEW payload \in Nat,
             call' = [call EXCEPT ![o] = [call[o] EXCEPT !.answer = answer, !.payload = payload]]
      PROVE  CallsTyped'
  <2> DEFINE c == [call[o] EXCEPT !.answer = answer, !.payload = payload]
  <2>1. c \in Calls /\ c.at = call[o].at
    BY DEF Calls, Proper, Typed, CallsTyped
  <2>2. InPhase(orch'[o], c)
    BY <1>2, <2>1 DEF InPhase, Proper, Typed, CallsTyped
  <2> HIDE DEF c
  <2>3. call' = [call EXCEPT ![o] = c]
    BY <1>5 DEF c
  <2> QED BY <1>2, <2>1, <2>2, <2>3, CallMoves DEF Proper, Typed
<1>6. call \in [Orchestrators -> Calls]
  BY DEF Proper, Typed, CallsTyped
<1>7. CASE VenueAccepts(o)
  <2> DEFINE payload == Executed(call[o].sent)
  <2>1. payload \in Nat
    <3>1. call[o].sent \in Sendable
      BY <1>7 DEF VenueAccepts, Proper, Typed, VenueTyped
    <3> QED BY <1>3, <3>1, MutationShapes DEF Executed, ProvenFill, VenueTyped, Orders
  <2>2. call' = [call EXCEPT ![o].answer = "accepted", ![o].payload = payload]
    BY <1>7 DEF VenueAccepts
  <2> HIDE DEF payload
  <2>3. call' = [call EXCEPT ![o] = [call[o] EXCEPT !.answer = "accepted", !.payload = payload]]
    BY <1>6, <2>2 DEF Calls
  <2>4. "accepted" \in Answers
    BY DEF Answers
  <2> QED BY <1>2, <1>3, <1>4, <1>5, <2>1, <2>3, <2>4 DEF Proper, Typed
<1>8. ASSUME NEW answer \in Answers, call' = [call EXCEPT ![o].answer = answer]
      PROVE  Proper'
  <2>1. call[o].payload \in Nat
    BY <1>6 DEF Calls
  <2>2. call' = [call EXCEPT ![o] = [call[o] EXCEPT !.answer = answer,
                                                    !.payload = call[o].payload]]
    BY <1>6, <1>8 DEF Calls
  <2>3. CallsTyped'
    BY <1>5, <2>1, <2>2
  <2> QED BY <1>2, <1>3, <1>4, <2>3 DEF Proper, Typed
<1>9. CASE VenueRejects(o) \/ AnswerLost(o)
  BY <1>8, <1>9 DEF VenueRejects, AnswerLost, Answers
<1> QED BY <1>7, <1>9

(* The venue moves by itself.                                               *)
LEMMA VenueProper ==
    ASSUME Proper,
           \/ \E m \in net : ExecutesUnseen(m)
           \/ \E id \in AlgoIds : Trigger(id)
           \/ \E id \in OrderIds : FillsFurther(id) \/ Expires(id)
    PROVE  Proper'
<1>1. /\ VenueTyped' /\ AlgosKept /\ net' \subseteq net /\ UNCHANGED <<orchVars, call>>
  BY ExecutesTyped, VenueMovesTyped DEF ExecutesUnseen, Proper, Typed
<1>2. OrchInv'
  BY <1>1, NobodyMoves DEF Proper
<1>3. CallsTyped'
  BY <1>1 DEF Proper, Typed, CallsTyped, orchVars
<1>4. TargetNeedsStop'
  <2>1. SUFFICES ASSUME NEW n \in net', n.type = "algo", n.id \in TargetIds
                 PROVE  algos'[StopOf(n.id)].status # "none" /\ algos'[StopOf(n.id)].qty = n.qty
    BY DEF TargetNeedsStop
  <2> QED BY <1>1, <2>1, StopOfTarget DEF AlgosKept, Proper, TargetNeedsStop
<1> QED BY <1>1, <1>2, <1>3, <1>4 DEF Proper, Typed

(* An operation is submitted.                                               *)
LEMMA SubmitProper ==
    ASSUME Proper, NEW o \in Orchestrators, NEW r \in Requests, Submit(o, r)
    PROVE  Proper'
<1>1. OrchInv'
  BY ExecuteInv DEF Submit, Proper, Typed
<1>2. OthersKeep(o) /\ orch[o].pc = "idle"
  BY MoveKeepsOthers DEF Submit, Execute, Proper, Typed
<1>3. call[o].at = "none"
  BY <1>2 DEF Proper, Typed, CallsTyped, InPhase
<1>4. CallsTyped'
  BY <1>2, <1>3 DEF Submit, CallsTyped, InPhase, OthersKeep, Proper, Typed
<1>5. VenueTyped' /\ TargetNeedsStop'
  BY DEF Submit, venue, VenueTyped, TargetNeedsStop, Proper, Typed
<1> QED BY <1>1, <1>4, <1>5 DEF Proper, Typed

(* A fresh operation stages its request over the record everybody sees.     *)
LEMMA StagedFresh ==
    ASSUME OrchInv, NEW o \in Orchestrators, SaveStaged(o), VersionMatches(o)
    PROVE  /\ orch'[o].pc = "effect" /\ orch'[o].request = orch[o].request
           /\ orch[o].request \in Requests
           /\ StageAdmitted(store, orch[o].request)
           /\ store' = Staged(store, orch[o].request)
           /\ submitted' = [submitted EXCEPT ![orch[o].request.id] = @ + 1]
           /\ OthersKeep(o)
<1> DEFINE r == orch[o].request
           s == Staged(orch[o].state, r)
           op == [orch[o] EXCEPT !.pc = "effect", !.state = s, !.fresh = TRUE]
<1>1. orch[o] \in Operations
  BY DEF OrchInv, OrchTypeOK, Operations
<1>2. op.pc = "effect" /\ op.request = r
  BY <1>1 DEF Operations
<1>3. Saved(o, s, op) /\ submitted' = [submitted EXCEPT ![r.id] = @ + 1] /\ orch[o].pc = "staging"
  BY DEF SaveStaged
<1>4. r \in Requests /\ orch[o].state = store /\ StageAdmitted(store, r)
  BY <1>3 DEF OrchInv, MemoryAgrees, VersionMatches
<1> HIDE DEF op
<1>5. OthersKeep(o) /\ orch'[o] = op
  BY <1>3, SavedKeepsOthers
<1>6. store' = Staged(store, r)
  BY <1>3, <1>4 DEF Saved
<1> QED BY <1>2, <1>3, <1>4, <1>5, <1>6

(* An effect begins with its first call, or its operation ends without one. *)
LEMMA StartEffectProper ==
    ASSUME Proper, NEW o \in Orchestrators, StartEffect(o)
    PROVE  Proper'
<1> DEFINE r == Request(o)
           m == Market("gce", r.id, r.qty, FALSE)
           c == IF r.kind = "protected_entry"
                THEN [NoCall EXCEPT !.at = "entry", !.sent = m, !.answer = "waiting"]
                ELSE [NoCall EXCEPT !.at = "current_stop"]
<1>1. OrchInv'
  BY SaveStagedInv DEF StartEffect, Proper, Typed
<1>2. SaveStaged(o) /\ orch[o].pc = "staging" /\ UNCHANGED venue
  BY DEF StartEffect, SaveStaged
<1>3. OthersKeep(o)
  BY <1>2, SavedKeepsOthers, MoveKeepsOthers DEF SaveStaged, Proper, Typed
<1>4. r \in Requests
  BY <1>2 DEF Proper, Typed, OrchInv, MemoryAgrees, Request
<1>5. CASE orch'[o].pc # "effect"
  <2>1. call[o].at = "none" /\ UNCHANGED <<net, call>>
    BY <1>2, <1>5 DEF StartEffect, Proper, Typed, CallsTyped, InPhase
  <2>2. CallsTyped'
    BY <1>3, <2>1 DEF CallsTyped, InPhase, OthersKeep, Proper, Typed
  <2>3. VenueTyped' /\ TargetNeedsStop'
    BY <1>2, <2>1 DEF venue, VenueTyped, TargetNeedsStop, Proper, Typed
  <2> QED BY <1>1, <2>2, <2>3 DEF Proper, Typed
<1>6. CASE orch'[o].pc = "effect"
  <2>1. VersionMatches(o)
    BY <1>2, <1>6, MoveKeepsOthers DEF SaveStaged, Idle, Proper, Typed
  <2>2. orch'[o].request = r
    BY <1>2, <2>1, StagedFresh DEF Proper, Typed, Request
  <2>3. r.kind = "protected_entry" => m \in Sendable /\ HasStop(m)
    <3>1. r.kind = "protected_entry" => ClientId("gce", r.id) \in OrderIds /\ r.qty \in Nat
      BY <1>4, RequestShapes, IdShapes, OwnedProtectionAssumption DEF Quantities
    <3> HIDE DEF r
    <3> QED BY <3>1, SendableShapes, NeedNoStop
  <2>4. c \in Calls /\ c.at = IF r.kind = "protected_entry" THEN "entry" ELSE "current_stop"
    BY <2>3, NoCallTyped DEF Calls, Awaits, Answers
  <2>5. InPhase(orch'[o], c)
    <3>1. c.at \in AwaitsOf(r.kind)
      BY <1>4, <2>4, RequestKinds DEF AwaitsOf, EntryAwaits, RevisionAwaits, CloseAwaits
    <3> QED BY <1>6, <2>2, <3>1 DEF InPhase
  <2>6. /\ call' = [call EXCEPT ![o] = c]
        /\ net' = IF r.kind = "protected_entry" THEN net \cup {m} ELSE net
    BY <1>6 DEF StartEffect
  <2> HIDE DEF c, m, r
  <2>7. CallsTyped'
    BY <1>3, <2>4, <2>5, <2>6, CallMoves DEF Proper, Typed
  <2>8. VenueTyped'
    BY <1>2, <2>3, <2>6 DEF venue, VenueTyped, Proper, Typed
  <2>9. TargetNeedsStop'
    <3>1. CASE r.kind = "protected_entry"
      BY <1>2, <2>3, <2>6, <3>1, StopsKept DEF venue, AlgosKept, Proper
    <3>2. CASE r.kind # "protected_entry"
      BY <1>2, <2>6, <3>2 DEF venue, TargetNeedsStop, Proper
    <3> QED BY <3>1, <3>2
  <2> QED BY <1>1, <2>7, <2>8, <2>9 DEF Proper, Typed
<1> QED BY <1>5, <1>6

(* The pending request is looked up.                                        *)
LEMMA StartRecoveryProper ==
    ASSUME Proper, NEW o \in Orchestrators, StartRecovery(o)
    PROVE  Proper'
<1> DEFINE r == store.pending.request
           at == CASE r.kind = "protected_entry" -> "re_entry"
                   [] r.kind = "owned_position_close" -> "re_close"
                   [] OTHER -> IF r.reduction = 0 THEN "re_new_stop" ELSE "re_reduction"
           c == [NoCall EXCEPT !.at = at]
<1>1. OrchInv'
  BY BeginRecoveryInv DEF StartRecovery, Proper, Typed
<1>2. /\ OthersKeep(o) /\ store.pending # NONE
      /\ orch'[o] = [pc |-> "recovering", request |-> r, fresh |-> TRUE, state |-> store]
      /\ UNCHANGED <<store, submitted, venue, net>>
  BY MoveKeepsOthers DEF StartRecovery, BeginRecovery, Proper, Typed
<1>3. r \in Requests
  BY <1>2 DEF Proper, Typed, OrchInv, OrchTypeOK, Ledgers, Pendings
<1>4. at \in AwaitsOf(r.kind)
  BY <1>3, RequestKinds DEF AwaitsOf, EntryAwaits, RevisionAwaits, CloseAwaits, NewStopAwaits
<1>5. call' = [call EXCEPT ![o] = c]
  BY DEF StartRecovery
<1> HIDE DEF at
<1>6. c \in Calls /\ c.at = at
  BY <1>4, AwaitsTyped, NoCallTyped DEF Calls
<1>7. InPhase(orch'[o], c)
  BY <1>2, <1>4, <1>6 DEF InPhase
<1> HIDE DEF c
<1>8. CallsTyped'
  BY <1>2, <1>5, <1>6, <1>7, CallMoves DEF Proper, Typed
<1>9. VenueTyped' /\ TargetNeedsStop'
  BY <1>2 DEF venue, VenueTyped, TargetNeedsStop, Proper, Typed
<1> QED BY <1>1, <1>8, <1>9 DEF Proper, Typed

(* An operation is abandoned.                                               *)
LEMMA FailProper ==
    ASSUME Proper, NEW o \in Orchestrators, Fail(o)
    PROVE  Proper'
<1>1. OrchInv' /\ OthersKeep(o)
  BY AbandonInv, MoveKeepsOthers DEF Fail, Abandon, Proper, Typed
<1> QED BY <1>1, EndProper DEF Fail

(* Every step keeps the types, and every target in transit its stop.        *)
LEMMA ProperStep == Proper /\ [Next]_vars => Proper'
<1> SUFFICES ASSUME Proper, [Next]_vars PROVE Proper'
  OBVIOUS
<1>1. CASE UNCHANGED vars
  <2>1. OrchInv'
    BY <1>1, NobodyMoves DEF vars, orchVars, Proper
  <2> QED BY <1>1, <2>1 DEF vars, Proper, Typed, VenueTyped, CallsTyped, TargetNeedsStop
<1>2. CASE \E o \in Orchestrators :
              \/ \E r \in Requests : Submit(o, r)
              \/ StartEffect(o) \/ StartRecovery(o) \/ Fail(o)
              \/ VenueAccepts(o) \/ VenueRejects(o) \/ AnswerLost(o)
  BY <1>2, SubmitProper, StartEffectProper, StartRecoveryProper, FailProper, AnswerProper
<1>3. CASE \E o \in Orchestrators : Coordinate(o)
  BY <1>3, EntryWorkProper, ManagementWorkProper DEF Coordinate, EntryWork, ManagementWork
<1>4. CASE \/ \E m \in net : ExecutesUnseen(m)
           \/ \E id \in AlgoIds : Trigger(id)
           \/ \E id \in OrderIds : FillsFurther(id) \/ Expires(id)
  BY <1>4, VenueProper
<1> QED BY <1>1, <1>2, <1>3, <1>4 DEF Next

(* Nothing is called, and nothing travels, before the first operation.      *)
LEMMA ProperInit == Init => Proper
<1> SUFFICES ASSUME Init PROVE Proper
  OBVIOUS
<1>1. OrchInv
  BY OrchInitInv DEF Init
<1>2. VenueTyped /\ TargetNeedsStop
  BY DEF Init, VenueTyped, Orders, Algos, NoOrder, NoAlgo, TargetNeedsStop
<1>3. CallsTyped
  BY NoCallTyped DEF Init, CallsTyped, InPhase
<1> QED BY <1>1, <1>2, <1>3 DEF Proper, Typed

(* SC-002 of the mutation contract, whoever runs, fails or repeats what: a  *)
(* target is submitted only after its exact stop was proven.                *)
THEOREM TargetsHaveStops == Spec => []TargetNeedsStop
<1>1. Proper => TargetNeedsStop
  BY DEF Proper
<1> QED BY <1>1, ProperInit, ProperStep, PTL DEF Spec

-----------------------------------------------------------------------------
(* What is owned is covered.  The record is not enough to argue from: the   *)
(* invariant says what the venue may still do (the mutations in transit),   *)
(* what has been executed for the pending request, and what a coordinator   *)
(* has learnt so far if its request is still the pending one.               *)

Pending(r) == store.pending # NONE /\ store.pending.request = r

(* An intent whose effect began, and that is no longer open.                *)
Settled(i) == submitted[i] > 0 /\ (store.pending # NONE => store.pending.request.id # i)

Guarded(s) == pos = 0 \/ (algos[s].status = "active" /\ algos[s].qty >= pos)

Entry(r) == orders[ClientId("gce", r.id)]

FilledFor(role, r) == orders[ClientId(role, r.id)].filled

(* The pending revision of the current position has its new stop at work.   *)
Replacing ==
    \E r \in Requests :
        /\ Pending(r) /\ r.kind = "protection_revision" /\ store.current = r.current
        /\ Guarded(ClientId("grs", r.id))

(* The position is what the pending request has left of what it owned or    *)
(* bought.                                                                  *)
AccountedTo(r) ==
    /\ r.kind = "protected_entry" =>
          /\ pos + FilledFor("gcf", r) <= Entry(r).filled
          /\ Entry(r).qty \in {0, r.qty} /\ Entry(r).filled <= Entry(r).qty
    /\ r.kind = "protection_revision" => pos + FilledFor("gcr", r) <= r.current.qty
    /\ r.kind = "owned_position_close" => pos + FilledFor("gpc", r) <= r.current.qty

Accounted ==
    /\ store.current = NONE /\ store.pending = NONE => pos = 0
    /\ store.current # NONE => pos <= store.current.qty
    /\ \A r \in Requests : Pending(r) => AccountedTo(r)

(* The venue knows no order of an intent whose effect never began.          *)
Unsent == \A id \in OrderIds : submitted[id[2]] = 0 => orders[id] = NoOrder

(* What is in transit can only reduce, but for the one entry that is open.  *)
MarketOwned(m) ==
    /\ submitted[m.id[2]] > 0
    /\ m.reduceOnly = (m.id[1] # "gce")
    /\ ~m.reduceOnly =>
          \E r \in Requests :
              /\ Pending(r) /\ r.kind = "protected_entry"
              /\ m = Market("gce", r.id, r.qty, FALSE)
              /\ Entry(r).qty = 0

MarketsOwned == \A m \in net : m.type = "market" => MarketOwned(m)

(* A cancellation in transit takes away no stop that is needed.             *)
CancelSafe(s) ==
    /\ Settled(s[2])
    /\ store.current # NONE /\ store.current.stop = s => pos = 0 \/ Replacing

CancelsSafe == \A s \in StopIds : Cancel(s) \in net => CancelSafe(s)

Covered == store.current # NONE => Guarded(store.current.stop) \/ Replacing

(* The pending request manages the current position, or has replaced it.    *)
Manages(r) ==
    r.kind # "protected_entry" =>
        /\ Settled(r.current.stop[2])
        /\ store.current = r.current
              \/ (r.kind = "protection_revision" /\ store.current = Revised(r))

Owned ==
    /\ store.current # NONE => submitted[store.current.stop[2]] > 0
    /\ \A r \in Requests : Pending(r) => submitted[r.id] > 0 /\ Manages(r)

(* An operation at work: its request was staged, and is pending or over.    *)
OperationOwns(r) ==
    /\ submitted[r.id] > 0
    /\ store.pending # NONE /\ store.pending.request.id = r.id => Pending(r)
    /\ r.kind # "protected_entry" =>
          /\ Settled(r.current.stop[2])
          /\ store.current # NONE /\ store.current.stop = r.current.stop =>
                Pending(r) /\ store.current = r.current

(* What a coordinator of the pending request has learnt.                    *)
Knows(r, at, qty) ==
    /\ at \in EntryAwaits \ {"entry", "entry_lookup", "re_entry"} =>
          qty = Entry(r).filled /\ Entry(r).qty > 0
    /\ at \in {"target", "target_lookup", "re_target"} => Guarded(ClientId("gcs", r.id))
    /\ r.kind = "protection_revision" /\ at \in NewStopAwaits \cup NewTargetAwaits \cup CleanupAwaits =>
          pos <= r.current.qty - r.reduction
    /\ r.kind = "protection_revision" /\ at \in NewTargetAwaits \cup CleanupAwaits =>
          Guarded(ClientId("grs", r.id))
    /\ r.kind = "owned_position_close" /\ at \in CleanupAwaits => pos = 0

(* What the market order it sent last will report to it, or has reported.   *)
Reports(r, at, sent, payload) ==
    /\ at = "entry" =>
          /\ sent = Market("gce", r.id, r.qty, FALSE)
          /\ payload # 0 => payload = Entry(r).filled /\ Entry(r).qty > 0
    /\ at = "flatten" =>
          /\ sent.type = "market" /\ sent.id = ClientId("gcf", r.id)
          /\ pos + payload <= Entry(r).filled
    /\ at = "reduction" =>
          /\ sent.type = "market" /\ sent.id = ClientId("gcr", r.id)
          /\ pos + payload <= r.current.qty
    /\ at = "close" =>
          /\ sent.type = "market" /\ sent.id = ClientId("gpc", r.id)
          /\ pos + payload <= r.current.qty

Learnt(r, c) == Knows(r, c.at, c.qty) /\ Reports(r, c.at, c.sent, c.payload)

Operates(op, c) ==
    /\ op.pc \in {"effect", "recovering"} => OperationOwns(op.request)
    /\ c.at # "none" /\ Pending(op.request) => Learnt(op.request, c)

Operating == \A o \in Orchestrators : Operates(orch[o], call[o])

Account ==
    /\ Accounted /\ Unsent /\ MarketsOwned /\ CancelsSafe /\ Covered /\ Owned /\ Operating

(* An intent that is settled is not the pending one.                        *)
LEMMA SettledIsNotPending ==
    ASSUME NEW r, NEW i, Pending(r), Settled(i)
    PROVE  r.id # i
BY DEF Pending, Settled

(* The pending request is a valid one, over a record that fits it.          *)
LEMMA PendingShapes ==
    ASSUME OrchInv, store.pending # NONE
    PROVE  /\ store.pending.request \in Requests /\ Pending(store.pending.request)
           /\ store.pending.request.kind = "protected_entry" <=> store.current = NONE
BY DEF OrchInv, OrchTypeOK, Ledgers, Pendings, Pending

(* The current pointer, if any, is an ownership.                            *)
LEMMA CurrentShapes ==
    ASSUME OrchInv, store.current # NONE
    PROVE  /\ store.current \in Ownerships /\ store.current.qty \in Nat \ {0}
           /\ store.current.stop \in StopIds
BY OwnershipShapes DEF OrchInv, OrchTypeOK, Ledgers

(* The second part of an order's or a stop's id is the intent it is for.    *)
LEMMA IdIntents ==
    /\ \A id \in OrderIds \cup StopIds : id[2] \in Intents
    /\ \A id \in OrderIds : id[1] = "gce" => id[2] \in EntryIds /\ id = ClientId("gce", id[2])
BY DEF OrderIds, StopIds, Intents, ClientId

(* Quantities of orders and of requests are numbers.                        *)
LEMMA QuantityShapes ==
    ASSUME VenueTyped, NEW r \in Requests
    PROVE  /\ pos \in Nat
           /\ r.kind = "protected_entry" =>
                /\ r.qty \in Nat \ {0}
                /\ Entry(r).qty \in Nat /\ Entry(r).filled \in Nat /\ FilledFor("gcf", r) \in Nat
           /\ r.kind = "protection_revision" =>
                /\ r.current.qty \in Nat /\ r.reduction \in Nat /\ r.reduction < r.current.qty
                /\ FilledFor("gcr", r) \in Nat
           /\ r.kind = "owned_position_close" =>
                r.current.qty \in Nat /\ FilledFor("gpc", r) \in Nat
<1>1. ASSUME NEW id \in OrderIds PROVE orders[id].qty \in Nat /\ orders[id].filled \in Nat
  BY DEF VenueTyped, Orders
<1>2. CASE r.kind = "protected_entry"
  BY <1>1, <1>2, RequestShapes, IdShapes, OwnedProtectionAssumption
     DEF Entry, FilledFor, Quantities, VenueTyped
<1>3. CASE r.kind = "protection_revision"
  BY <1>1, <1>3, RequestShapes, OwnershipShapes, IdShapes DEF FilledFor, VenueTyped
<1>4. CASE r.kind = "owned_position_close"
  BY <1>1, <1>4, RequestShapes, OwnershipShapes, IdShapes DEF FilledFor, VenueTyped
<1> QED BY <1>2, <1>3, <1>4 DEF VenueTyped

-----------------------------------------------------------------------------
(* The venue moves. *)

(* The venue moves without buying: the position does not grow, what is      *)
(* executed for a reduction comes out of it, and only a cancellation in     *)
(* transit takes a stop away.                                               *)
Calm ==
    /\ UNCHANGED orchVars
    /\ pos' <= pos
    /\ net' \subseteq net
    /\ \A i \in EntryIds :
          /\ orders'[ClientId("gce", i)].qty = orders[ClientId("gce", i)].qty
          /\ orders'[ClientId("gce", i)].filled = orders[ClientId("gce", i)].filled
    /\ \A id \in OrderIds :
          id[1] # "gce" => pos' + orders'[id].filled <= pos + orders[id].filled
    /\ \A id \in OrderIds : submitted[id[2]] = 0 => orders'[id] = NoOrder
    /\ \A s \in StopIds : Guarded(s) => Guarded(s)' \/ Cancel(s) \in net

(* Nothing of the record depends on the venue.                              *)
LEMMA RecordStays ==
    ASSUME UNCHANGED orchVars
    PROVE  /\ \A r : Pending(r)' <=> Pending(r)
           /\ \A i : Settled(i)' <=> Settled(i)
           /\ \A r : Manages(r)' <=> Manages(r)
           /\ \A r : OperationOwns(r)' <=> OperationOwns(r)
           /\ Owned' <=> Owned
           /\ UNCHANGED <<store, orch, submitted>>
BY DEF orchVars, Pending, Settled, Manages, OperationOwns, Owned

(* What guards the pending request stays.                                   *)
LEMMA CalmGuards ==
    ASSUME Typed, Calm, CancelsSafe, NEW r \in Requests, Pending(r)
    PROVE  /\ r.kind = "protected_entry" /\ Guarded(ClientId("gcs", r.id)) =>
                 Guarded(ClientId("gcs", r.id))'
           /\ r.kind = "protection_revision" /\ Guarded(ClientId("grs", r.id)) =>
                 Guarded(ClientId("grs", r.id))'
<1>1. ASSUME NEW s \in StopIds, s[2] = r.id, Guarded(s) PROVE Guarded(s)'
  <2>1. ~Settled(s[2])
    BY <1>1, SettledIsNotPending
  <2> QED BY <1>1, <2>1 DEF Calm, CancelsSafe, CancelSafe
<1> QED BY <1>1, RequestShapes, IdShapes

(* A replacement at work stays at work.                                     *)
LEMMA CalmReplacing ==
    ASSUME Typed, Calm, CancelsSafe, Replacing
    PROVE  Replacing'
<1>1. PICK r \in Requests :
         /\ Pending(r) /\ r.kind = "protection_revision" /\ store.current = r.current
         /\ Guarded(ClientId("grs", r.id))
  BY DEF Replacing
<1>2. Guarded(ClientId("grs", r.id))'
  BY <1>1, CalmGuards
<1> QED BY <1>1, <1>2, RecordStays DEF Calm, Replacing

(* The account survives a calm venue.                                       *)
LEMMA CalmAccount ==
    ASSUME Typed, VenueTyped', Account, Calm
    PROVE  Accounted' /\ Unsent' /\ MarketsOwned' /\ CancelsSafe' /\ Covered' /\ Owned'
<1>1. /\ \A r : Pending(r)' <=> Pending(r)
      /\ \A i : Settled(i)' <=> Settled(i)
      /\ Owned' /\ UNCHANGED <<store, orch, submitted>>
  BY RecordStays DEF Calm, Account
<1>2. pos = 0 => pos' = 0
  BY DEF Calm, Typed, VenueTyped
<1>3. ASSUME NEW r \in Requests, AccountedTo(r) PROVE AccountedTo(r)'
  <2>1. CASE r.kind = "protected_entry"
    <3>1. /\ r.id \in EntryIds /\ ClientId("gcf", r.id) \in OrderIds
          /\ ClientId("gcf", r.id)[1] # "gce"
      BY <2>1, RequestShapes, IdShapes
    <3>2. Entry(r)'.qty = Entry(r).qty /\ Entry(r)'.filled = Entry(r).filled
      BY <3>1 DEF Calm, Entry
    <3>3. pos' + FilledFor("gcf", r)' <= pos + FilledFor("gcf", r)
      BY <3>1 DEF Calm, FilledFor
    <3>4. FilledFor("gcf", r)' \in Nat /\ pos' \in Nat
      BY <3>1 DEF FilledFor, VenueTyped, Orders
    <3> QED BY <1>3, <2>1, <3>2, <3>3, <3>4, QuantityShapes DEF AccountedTo, Typed
  <2>2. CASE r.kind = "protection_revision"
    <3>1. ClientId("gcr", r.id) \in OrderIds /\ ClientId("gcr", r.id)[1] # "gce"
      BY <2>2, RequestShapes, IdShapes
    <3> QED BY <1>3, <2>2, <3>1, QuantityShapes
            DEF AccountedTo, Calm, FilledFor, Typed, VenueTyped, Orders
  <2>3. CASE r.kind = "owned_position_close"
    <3>1. ClientId("gpc", r.id) \in OrderIds /\ ClientId("gpc", r.id)[1] # "gce"
      BY <2>3, RequestShapes, IdShapes
    <3> QED BY <1>3, <2>3, <3>1, QuantityShapes
            DEF AccountedTo, Calm, FilledFor, Typed, VenueTyped, Orders
  <2> QED BY <2>1, <2>2, <2>3, RequestKinds
<1>4. Accounted'
  <2>1. store.current # NONE => pos' <= store.current.qty
    BY CurrentShapes DEF Account, Accounted, Calm, Typed, VenueTyped
  <2>2. store.current = NONE /\ store.pending = NONE => pos' = 0
    BY <1>2 DEF Account, Accounted
  <2>3. ASSUME NEW r \in Requests, Pending(r) PROVE AccountedTo(r)'
    BY <1>3, <2>3 DEF Account, Accounted
  <2> QED BY <1>1, <2>1, <2>2, <2>3 DEF Accounted
<1>5. Unsent'
  BY <1>1 DEF Unsent, Calm
<1>6. MarketsOwned'
  <2>1. ASSUME NEW m \in net', m.type = "market" PROVE MarketOwned(m)'
    <3>1. MarketOwned(m)
      BY <2>1 DEF Calm, Account, MarketsOwned
    <3>2. ASSUME NEW r \in Requests, r.kind = "protected_entry" PROVE Entry(r)'.qty = Entry(r).qty
      BY <3>2, RequestShapes DEF Calm, Entry
    <3> QED BY <1>1, <3>1, <3>2 DEF MarketOwned
  <2> QED BY <2>1 DEF MarketsOwned
<1>7. CancelsSafe'
  <2>1. ASSUME NEW s \in StopIds, Cancel(s) \in net' PROVE CancelSafe(s)'
    <3>1. CancelSafe(s)
      BY <2>1 DEF Calm, Account, CancelsSafe
    <3> QED BY <1>1, <1>2, <3>1, CalmReplacing DEF CancelSafe, Account
  <2> QED BY <2>1 DEF CancelsSafe
<1>8. Covered'
  <2> SUFFICES ASSUME store.current # NONE PROVE Guarded(store.current.stop)' \/ Replacing'
    BY <1>1 DEF Covered
  <2>1. CASE Replacing
    BY <2>1, CalmReplacing DEF Account
  <2>2. CASE ~Replacing
    <3>1. Guarded(store.current.stop) /\ store.current.stop \in StopIds
      BY <2>2, CurrentShapes DEF Account, Covered, Typed
    <3>2. CASE Cancel(store.current.stop) \in net
      <4>1. pos' = 0
        BY <1>2, <2>2, <3>1, <3>2 DEF Account, CancelsSafe, CancelSafe
      <4> QED BY <4>1 DEF Guarded
    <3>3. CASE Cancel(store.current.stop) \notin net
      BY <1>1, <3>1, <3>3 DEF Calm
    <3> QED BY <3>2, <3>3
  <2> QED BY <2>1, <2>2
<1> QED BY <1>1, <1>4, <1>5, <1>6, <1>7, <1>8

(* What a coordinator knows stays true while the venue is calm.             *)
LEMMA CalmKnows ==
    ASSUME Typed, VenueTyped', Account, Calm, NEW r \in Requests, Pending(r),
           NEW at \in AwaitsOf(r.kind), NEW qty, Knows(r, at, qty)
    PROVE  Knows(r, at, qty)'
<1>1. pos \in Nat /\ pos' \in Nat /\ pos' <= pos
  BY DEF Typed, VenueTyped, Calm
<1>2. /\ r.kind = "protected_entry" /\ Guarded(ClientId("gcs", r.id)) =>
            Guarded(ClientId("gcs", r.id))'
      /\ r.kind = "protection_revision" /\ Guarded(ClientId("grs", r.id)) =>
            Guarded(ClientId("grs", r.id))'
  BY CalmGuards DEF Account
<1>3. r.kind = "protected_entry" =>
         Entry(r)'.qty = Entry(r).qty /\ Entry(r)'.filled = Entry(r).filled
  BY RequestShapes DEF Calm, Entry
<1>4. at \in EntryAwaits => r.kind = "protected_entry"
  BY DEF AwaitsOf, EntryAwaits, RevisionAwaits, CloseAwaits, NewStopAwaits, NewTargetAwaits,
         CleanupAwaits
<1>5. {"target", "target_lookup", "re_target"} \subseteq EntryAwaits
  BY DEF EntryAwaits
<1>6. /\ at \in EntryAwaits \ {"entry", "entry_lookup", "re_entry"} =>
            qty = Entry(r)'.filled /\ Entry(r)'.qty > 0
      /\ at \in {"target", "target_lookup", "re_target"} => Guarded(ClientId("gcs", r.id))'
  BY <1>2, <1>3, <1>4, <1>5 DEF Knows
<1>7. r.kind = "protection_revision" /\ at \in NewStopAwaits \cup NewTargetAwaits \cup CleanupAwaits =>
         pos' <= r.current.qty - r.reduction
  BY <1>1, QuantityShapes DEF Knows, Typed
<1>8. /\ r.kind = "protection_revision" /\ at \in NewTargetAwaits \cup CleanupAwaits =>
            Guarded(ClientId("grs", r.id))'
      /\ r.kind = "owned_position_close" /\ at \in CleanupAwaits => pos' = 0
  BY <1>1, <1>2 DEF Knows
<1> QED BY <1>6, <1>7, <1>8 DEF Knows

(* So do the reports it has.                                                *)
LEMMA CalmReports ==
    ASSUME Typed, VenueTyped', Account, Calm, NEW r \in Requests,
           NEW at \in AwaitsOf(r.kind), NEW sent, NEW payload \in Nat, Reports(r, at, sent, payload)
    PROVE  Reports(r, at, sent, payload)'
<1>1. pos \in Nat /\ pos' \in Nat /\ pos' <= pos
  BY DEF Typed, VenueTyped, Calm
<1>2. r.kind = "protected_entry" =>
         Entry(r)'.qty = Entry(r).qty /\ Entry(r)'.filled = Entry(r).filled
  BY RequestShapes DEF Calm, Entry
<1>3. /\ at \in {"entry", "flatten"} => r.kind = "protected_entry"
      /\ at = "reduction" => r.kind = "protection_revision"
      /\ at = "close" => r.kind = "owned_position_close"
  BY RequestKinds DEF AwaitsOf, EntryAwaits, RevisionAwaits, CloseAwaits, NewStopAwaits, NewTargetAwaits,
         CleanupAwaits
<1>4. at = "entry" =>
         /\ sent = Market("gce", r.id, r.qty, FALSE)
         /\ payload # 0 => payload = Entry(r)'.filled /\ Entry(r)'.qty > 0
  BY <1>2, <1>3 DEF Reports
<1>5. at = "flatten" =>
         /\ sent.type = "market" /\ sent.id = ClientId("gcf", r.id)
         /\ pos' + payload <= Entry(r)'.filled
  BY <1>1, <1>2, <1>3, QuantityShapes DEF Reports, Typed
<1>6. at = "reduction" =>
         /\ sent.type = "market" /\ sent.id = ClientId("gcr", r.id)
         /\ pos' + payload <= r.current.qty
  BY <1>1, <1>3, QuantityShapes DEF Reports, Typed
<1>7. at = "close" =>
         /\ sent.type = "market" /\ sent.id = ClientId("gpc", r.id)
         /\ pos' + payload <= r.current.qty
  BY <1>1, <1>3, QuantityShapes DEF Reports, Typed
<1> QED BY <1>4, <1>5, <1>6, <1>7 DEF Reports

(* A calm venue leaves an operation what it knows, whatever is reported to  *)
(* it.                                                                      *)
LEMMA CalmOperates ==
    ASSUME Typed, VenueTyped', Account, Calm, NEW q \in Orchestrators, NEW c \in Calls,
           call'[q] = c, c.at = call[q].at, c.qty = call[q].qty,
           c.at # "none" /\ Pending(orch[q].request) =>
               Reports(orch[q].request, c.at, c.sent, c.payload)'
    PROVE  Operates(orch[q], call[q])'
<1>1. UNCHANGED <<store, orch, submitted>>
  BY RecordStays DEF Calm
<1>2. PICK op : op = orch[q]
  OBVIOUS
<1>3. op = orch'[q]
  BY <1>1, <1>2
<1>4. Operates(op, call[q])
  BY <1>2 DEF Account, Operating
<1>5. op.pc \in {"effect", "recovering"} => OperationOwns(op.request)'
  BY <1>4, RecordStays DEF Calm, Operates
<1>6. ASSUME c.at # "none", Pending(op.request)'
      PROVE  Knows(op.request, c.at, c.qty)'
  <2>1. Pending(op.request) /\ Knows(op.request, c.at, c.qty)
    BY <1>4, <1>6, RecordStays DEF Calm, Operates, Learnt
  <2>2. op.request \in Requests /\ c.at \in AwaitsOf(op.request.kind)
    BY <1>2, <1>6, Underway DEF Request
  <2> QED BY <2>1, <2>2, CalmKnows
<1>7. c.at # "none" /\ Pending(op.request)' => Reports(op.request, c.at, c.sent, c.payload)'
  BY <1>1, <1>2, RecordStays DEF Calm
<1>8. Operates(op, c)'
  BY <1>5, <1>6, <1>7 DEF Operates, Learnt
<1> QED BY <1>3, <1>8

(* The venue executes what is no entry: it stays calm.                      *)
LEMMA CalmExecutes ==
    ASSUME Typed, Account, UNCHANGED orchVars, NEW m \in net, VenueExecutes(m),
           m.type = "market" => m.reduceOnly
    PROVE  Calm
<1>1. m \in Sendable /\ VenueTyped' /\ net' = net \ {m}
  BY ExecutesTyped DEF Typed, VenueTyped
<1>2. UNCHANGED <<store, orch, submitted>>
  BY DEF orchVars
<1>3. CASE m.type = "market"
  <2>1. /\ m.id \in OrderIds /\ m.qty \in Nat /\ m.reduceOnly
        /\ m.id[1] # "gce" /\ submitted[m.id[2]] > 0
    BY <1>1, <1>3, MutationShapes DEF Account, MarketsOwned, MarketOwned
  <2>2. PICK how \in Fills, n \in 0 .. MaxQuantity :
           /\ n <= Least(m.qty, pos)
           /\ orders' = [orders EXCEPT ![m.id] =
                             [qty |-> m.qty, filled |-> n, open |-> how \in {"stalled", "working"}]]
           /\ pos' = pos - n
    BY <1>3, <2>1 DEF VenueExecutes, MarketExecutes
  <2>3. algos' = algos
    BY <1>3 DEF VenueExecutes
  <2>4. n \in Nat /\ pos \in Nat /\ pos' \in Nat /\ pos' + n = pos /\ pos' <= pos
    BY <1>1, <2>2, OwnedProtectionAssumption DEF Typed, VenueTyped
  <2>5. /\ orders'[m.id].filled = n
        /\ \A id \in OrderIds : id # m.id => orders'[id] = orders[id]
    BY <2>1, <2>2 DEF Typed, VenueTyped
  <2>6. ASSUME NEW i \in EntryIds PROVE orders'[ClientId("gce", i)] = orders[ClientId("gce", i)]
    BY <2>1, <2>5, IdShapes
  <2>7. ASSUME NEW id \in OrderIds
        PROVE  /\ pos' + orders'[id].filled <= pos + orders[id].filled
               /\ submitted[id[2]] = 0 => orders'[id] = NoOrder
    <3>1. orders[id].filled \in Nat
      BY DEF Typed, VenueTyped, Orders
    <3>2. CASE id = m.id
      <4>1. orders'[id].filled = n /\ submitted[id[2]] # 0
        BY <2>1, <2>5, <3>2
      <4>2. pos <= pos + orders[id].filled
        BY <2>4, <3>1
      <4>3. pos' + orders'[id].filled = pos
        BY <2>4, <4>1
      <4> QED BY <4>1, <4>2, <4>3
    <3>3. CASE id # m.id
      BY <2>4, <2>5, <3>1, <3>3 DEF Account, Unsent
    <3> QED BY <3>2, <3>3
  <2>8. ASSUME NEW s \in StopIds, Guarded(s) PROVE Guarded(s)'
    <3>1. algos[s].qty \in Nat /\ pos' \in Nat
      BY <1>1, IdShapes DEF Typed, VenueTyped, Algos
    <3> QED BY <2>3, <2>4, <2>8, <3>1 DEF Guarded
  <2> QED BY <1>1, <2>4, <2>6, <2>7, <2>8 DEF Calm
<1>4. CASE m.type # "market"
  <2>1. UNCHANGED <<pos, orders>> /\ pos \in Nat
    BY <1>4 DEF VenueExecutes, Typed, VenueTyped
  <2>2. ASSUME NEW s \in StopIds, Guarded(s) PROVE Guarded(s)' \/ Cancel(s) \in net
    <3>1. s \in AlgoIds
      BY IdShapes
    <3>2. CASE m.type = "algo"
      <4>1. /\ algos[m.id].status = "none"
            /\ algos' = [algos EXCEPT ![m.id] = [qty |-> m.qty, status |-> "active"]]
        BY <3>2 DEF VenueExecutes, CanExecute
      <4>2. CASE s = m.id
        BY <2>1, <2>2, <4>1, <4>2 DEF Guarded
      <4>3. CASE s # m.id
        BY <2>1, <2>2, <3>1, <4>1, <4>3 DEF Guarded, Typed, VenueTyped
      <4> QED BY <4>2, <4>3
    <3>3. CASE m.type = "cancel"
      <4>1. algos' = [algos EXCEPT ![m.id].status = "canceled"]
        BY <3>3 DEF VenueExecutes
      <4>2. m = Cancel(m.id)
        BY <1>1, <3>3 DEF Sendable, Cancel
      <4>3. s # m.id => algos'[s] = algos[s]
        BY <3>1, <4>1 DEF Typed, VenueTyped
      <4> QED BY <2>1, <2>2, <4>2, <4>3 DEF Guarded
    <3> QED BY <1>1, <1>4, <3>2, <3>3, MutationShapes
  <2>3. ASSUME NEW id \in OrderIds PROVE submitted[id[2]] = 0 => orders'[id] = NoOrder
    BY <2>1 DEF Account, Unsent
  <2>4. ASSUME NEW id \in OrderIds PROVE pos' + orders'[id].filled <= pos + orders[id].filled
    BY <2>1 DEF Typed, VenueTyped, Orders
  <2> QED BY <1>1, <2>1, <2>2, <2>3, <2>4 DEF Calm
<1> QED BY <1>3, <1>4

(* A trigger takes the position with it; no entry fills after its answer.   *)
LEMMA CalmMoves ==
    ASSUME Typed, Account, "working" \notin Fills,
           \/ \E id \in AlgoIds : Trigger(id)
           \/ \E id \in OrderIds : FillsFurther(id) \/ Expires(id)
    PROVE  Calm
<1>1. VenueTyped' /\ UNCHANGED <<orchVars, net, call>>
  BY VenueMovesTyped DEF Typed
<1>2. pos \in Nat /\ pos' \in Nat
  BY <1>1 DEF Typed, VenueTyped
<1>3. UNCHANGED <<store, orch, submitted>>
  BY <1>1 DEF orchVars
<1>4. ASSUME NEW id \in OrderIds
      PROVE  /\ orders[id].filled \in Nat /\ orders[id].qty \in Nat
             /\ submitted[id[2]] = 0 => orders[id] = NoOrder
  BY DEF Typed, VenueTyped, Orders, Account, Unsent
<1>5. ASSUME NEW id \in AlgoIds, Trigger(id) PROVE Calm
  <2>1. /\ algos' = [algos EXCEPT ![id].status = "triggered"]
        /\ pos' = pos - Least(algos[id].qty, pos)
        /\ orders' = orders
    BY <1>5 DEF Trigger
  <2>2. algos[id].qty \in Nat
    BY DEF Typed, VenueTyped, Algos
  <2>3. pos' <= pos /\ (algos[id].qty >= pos => pos' = 0)
    BY <1>2, <2>1, <2>2 DEF Least
  <2>4. ASSUME NEW s \in StopIds, Guarded(s) PROVE Guarded(s)'
    <3>1. s \in AlgoIds /\ algos[s].qty \in Nat
      BY IdShapes DEF Typed, VenueTyped, Algos
    <3>2. CASE s = id
      BY <1>2, <2>3, <2>4, <3>2 DEF Guarded
    <3>3. CASE s # id
      <4>1. algos'[s] = algos[s]
        BY <2>1, <3>1, <3>3 DEF Typed, VenueTyped
      <4> QED BY <1>2, <2>3, <2>4, <3>1, <4>1 DEF Guarded
    <3> QED BY <3>2, <3>3
  <2>5. ASSUME NEW i \in OrderIds PROVE pos' + orders'[i].filled <= pos + orders[i].filled
    BY <1>2, <1>4, <2>1, <2>3
  <2> QED BY <1>1, <1>4, <2>1, <2>3, <2>4, <2>5 DEF Calm
<1>6. ASSUME pos' <= pos, algos' = algos, NEW s \in StopIds, Guarded(s) PROVE Guarded(s)'
  <2>1. algos[s].qty \in Nat
    BY IdShapes DEF Typed, VenueTyped, Algos
  <2> QED BY <1>2, <1>6, <2>1 DEF Guarded
<1>7. ASSUME NEW id \in OrderIds, FillsFurther(id) PROVE Calm
  <2>1. /\ id[1] # "gce" /\ orders[id].open /\ pos > 0 /\ algos' = algos
        /\ orders' = [orders EXCEPT ![id].filled = @ + 1] /\ pos' = pos - 1
    BY <1>7 DEF FillsFurther
  <2>2. /\ orders'[id].filled = orders[id].filled + 1
        /\ \A i \in OrderIds : i # id => orders'[i] = orders[i]
    BY <1>4, <2>1 DEF Typed, VenueTyped, Orders
  <2>3. submitted[id[2]] # 0
    BY <1>4, <2>1 DEF NoOrder
  <2>4. ASSUME NEW i \in EntryIds PROVE orders'[ClientId("gce", i)] = orders[ClientId("gce", i)]
    BY <2>1, <2>2, IdShapes
  <2>5. ASSUME NEW i \in OrderIds
        PROVE  /\ pos' + orders'[i].filled <= pos + orders[i].filled
               /\ submitted[i[2]] = 0 => orders'[i] = NoOrder
    <3>1. CASE i = id
      BY <1>2, <1>4, <2>1, <2>2, <2>3, <3>1
    <3>2. CASE i # id
      BY <1>2, <1>4, <2>1, <2>2, <3>2
    <3> QED BY <3>1, <3>2
  <2>6. pos' <= pos
    BY <1>2, <2>1
  <2> QED BY <1>1, <1>6, <2>1, <2>4, <2>5, <2>6 DEF Calm
<1>8. ASSUME NEW id \in OrderIds, Expires(id) PROVE Calm
  <2>1. /\ orders[id].open /\ pos' = pos /\ algos' = algos
        /\ orders' = [orders EXCEPT ![id].open = FALSE]
    BY <1>8 DEF Expires
  <2>2. ASSUME NEW i \in OrderIds
        PROVE  /\ orders'[i].filled = orders[i].filled /\ orders'[i].qty = orders[i].qty
               /\ i # id => orders'[i] = orders[i]
    BY <2>1 DEF Typed, VenueTyped, Orders
  <2>3. submitted[id[2]] # 0
    BY <1>4, <2>1 DEF NoOrder
  <2>4. ASSUME NEW i \in OrderIds
        PROVE  /\ pos' + orders'[i].filled <= pos + orders[i].filled
               /\ submitted[i[2]] = 0 => orders'[i] = NoOrder
    BY <1>2, <1>4, <2>1, <2>2, <2>3
  <2>5. pos' <= pos
    BY <1>2, <2>1
  <2> QED BY <1>1, <1>6, <2>1, <2>2, <2>4, <2>5, IdShapes DEF Calm
<1> QED BY <1>5, <1>7, <1>8

(* The open entry is executed: the venue held nothing before.               *)
LEMMA EntryExecutes ==
    ASSUME Typed, VenueTyped', Account, UNCHANGED orchVars, NEW m \in net, VenueExecutes(m),
           m.type = "market", ~m.reduceOnly,
           \A q \in Orchestrators :
               /\ call'[q].at = call[q].at /\ call'[q].qty = call[q].qty
               /\ call'[q].sent = call[q].sent
               /\ call'[q].payload \in {call[q].payload, ProvenFill(orders'[m.id])}
    PROVE  Account'
<1>1. PICK r \in Requests :
         /\ Pending(r) /\ r.kind = "protected_entry"
         /\ m = Market("gce", r.id, r.qty, FALSE) /\ Entry(r).qty = 0
  BY DEF Account, MarketsOwned, MarketOwned
<1>2. /\ \A q : Pending(q)' <=> Pending(q)
      /\ \A i : Settled(i)' <=> Settled(i)
      /\ \A q : OperationOwns(q)' <=> OperationOwns(q)
      /\ Owned' /\ UNCHANGED <<store, orch, submitted>>
  BY RecordStays DEF Account
<1>3. \A q : Pending(q) => q = r
  BY <1>1 DEF Pending
<1>4. store.current = NONE /\ store.pending # NONE
  BY <1>1, PendingShapes DEF Pending, Typed
<1>5. /\ r.qty \in Nat \ {0} /\ pos \in Nat /\ r.id \in EntryIds
      /\ Entry(r).filled \in Nat /\ FilledFor("gcf", r) \in Nat
  BY <1>1, QuantityShapes, RequestShapes DEF Typed
<1>6. AccountedTo(r)
  BY <1>1 DEF Account, Accounted
<1>7. Entry(r).filled <= 0 /\ pos + FilledFor("gcf", r) <= Entry(r).filled
  BY <1>1, <1>6 DEF AccountedTo
<1>8. pos = 0 /\ FilledFor("gcf", r) = 0
  BY <1>5, <1>7
<1>9. /\ m.id = ClientId("gce", r.id) /\ m.qty = r.qty /\ ClientId("gce", r.id) \in OrderIds
      /\ ClientId("gcf", r.id) \in OrderIds /\ ClientId("gcf", r.id) # m.id
  BY <1>1, <1>5, IdShapes DEF Market
<1>10. PICK how \in Fills, n \in 0 .. MaxQuantity :
          /\ n <= r.qty
          /\ orders' = [orders EXCEPT ![m.id] =
                            [qty |-> m.qty, filled |-> n, open |-> how \in {"stalled", "working"}]]
          /\ pos' = pos + n
  BY <1>9 DEF VenueExecutes, MarketExecutes
<1>11. algos' = algos /\ net' = net \ {m}
  BY DEF VenueExecutes
<1>12. n \in Nat /\ pos' = n
  BY <1>8, <1>10, OwnedProtectionAssumption
<1>13. /\ Entry(r)'.qty = r.qty /\ Entry(r)'.filled = n
       /\ \A id \in OrderIds : id # m.id => orders'[id] = orders[id]
  BY <1>9, <1>10 DEF Entry, Typed, VenueTyped
<1>14. FilledFor("gcf", r)' = 0
  BY <1>8, <1>9, <1>13 DEF FilledFor
<1>15. Accounted'
  <2>1. AccountedTo(r)'
    BY <1>1, <1>5, <1>10, <1>12, <1>13, <1>14 DEF AccountedTo
  <2> QED BY <1>2, <1>3, <1>4, <2>1 DEF Accounted
<1>16. Unsent'
  <2>1. MarketOwned(m)
    BY DEF Account, MarketsOwned
  <2>2. submitted[m.id[2]] > 0
    BY <2>1 DEF MarketOwned
  <2>3. submitted[m.id[2]] # 0
    BY <2>2
  <2> QED BY <1>2, <1>13, <2>3 DEF Account, Unsent
<1>17. MarketsOwned'
  <2> SUFFICES ASSUME NEW k \in net', k.type = "market" PROVE MarketOwned(k)'
    BY DEF MarketsOwned
  <2>1. k \in net /\ k # m /\ MarketOwned(k)
    BY <1>11 DEF Account, MarketsOwned
  <2>2. k.reduceOnly
    BY <1>1, <1>3, <2>1 DEF MarketOwned
  <2> QED BY <1>2, <2>1, <2>2 DEF MarketOwned
<1>18. CancelsSafe' /\ Covered'
  <2>1. ASSUME NEW s \in StopIds, Cancel(s) \in net' PROVE CancelSafe(s)'
    <3>1. Settled(s[2])
      BY <1>11, <2>1 DEF Account, CancelsSafe, CancelSafe
    <3> QED BY <1>2, <1>4, <3>1 DEF CancelSafe
  <2> QED BY <1>2, <1>4, <2>1 DEF CancelsSafe, Covered
<1>19. Operating'
  <2> SUFFICES ASSUME NEW q \in Orchestrators PROVE Operates(orch[q], call[q])'
    BY DEF Operating
  <2>1. PICK op : op = orch[q] /\ op = orch'[q]
    BY <1>2
  <2>2. PICK c : c = call'[q]
    OBVIOUS
  <2>3. Operates(op, call[q])
    BY <2>1 DEF Account, Operating
  <2>4. op.pc \in {"effect", "recovering"} => OperationOwns(op.request)'
    BY <1>2, <2>3 DEF Operates
  <2>5. ASSUME c.at # "none", Pending(op.request)'
        PROVE  Knows(op.request, c.at, c.qty)' /\ Reports(op.request, c.at, c.sent, c.payload)'
    <3>1. op.request = r /\ call[q].at = c.at /\ call[q].at # "none"
      BY <1>2, <1>3, <2>2, <2>5
    <3>2. /\ Knows(r, c.at, c.qty)
          /\ Reports(r, c.at, c.sent, call[q].payload)
          /\ c.payload \in {call[q].payload, ProvenFill(orders'[m.id])}
      BY <1>1, <2>2, <2>3, <3>1 DEF Operates, Learnt
    <3>3. c.at \in EntryAwaits
      BY <1>1, <2>1, <3>1, Underway DEF AwaitsOf, Request, Typed
    <3>4. c.at \in {"entry", "entry_lookup", "re_entry"}
      BY <1>1, <3>2, <3>3 DEF Knows
    <3>5. c.at = "entry" => c.payload \in {0, n}
      <4>1. c.at = "entry" => call[q].payload = 0
        BY <1>1, <3>2 DEF Reports
      <4>2. ProvenFill(orders'[m.id]) \in {0, n}
        BY <1>9, <1>13 DEF ProvenFill, Entry
      <4> QED BY <3>2, <4>1, <4>2
    <3>6. Knows(r, c.at, c.qty)'
      BY <1>1, <3>4 DEF Knows, NewStopAwaits, NewTargetAwaits, CleanupAwaits
    <3>7. Reports(r, c.at, c.sent, c.payload)'
      <4>1. c.at = "entry" => c.sent = Market("gce", r.id, r.qty, FALSE)
        BY <3>2 DEF Reports
      <4>2. c.at = "entry" /\ c.payload # 0 => c.payload = Entry(r)'.filled /\ Entry(r)'.qty > 0
        BY <1>5, <1>13, <3>5
      <4> QED BY <3>4, <4>1, <4>2 DEF Reports
    <3> QED BY <3>1, <3>6, <3>7
  <2>6. Operates(op, c)'
    BY <2>4, <2>5 DEF Operates, Learnt
  <2> QED BY <2>1, <2>2, <2>6
<1> QED BY <1>2, <1>15, <1>16, <1>17, <1>18, <1>19 DEF Account

(* A reduction reports no more than what it took from the position.         *)
LEMMA AcceptReports ==
    ASSUME Typed, VenueTyped', Accounted', NEW r \in Requests, Pending(r)',
           NEW at \in AwaitsOf(r.kind) \ {"entry"}, NEW sent, NEW payload,
           Reports(r, at, sent, payload), NEW reported, reported = Executed(sent)
    PROVE  Reports(r, at, sent, reported)'
<1>1. AccountedTo(r)'
  BY DEF Accounted
<1>2. /\ at = "flatten" => r.kind = "protected_entry"
      /\ at = "reduction" => r.kind = "protection_revision"
      /\ at = "close" => r.kind = "owned_position_close"
  BY RequestKinds DEF AwaitsOf, EntryAwaits, RevisionAwaits, CloseAwaits, NewStopAwaits,
         NewTargetAwaits, CleanupAwaits
<1>3. pos' \in Nat
  BY DEF VenueTyped
<1>4. ASSUME NEW role, ClientId(role, r.id) \in OrderIds,
             sent.type = "market", sent.id = ClientId(role, r.id)
      PROVE  reported \in Nat /\ FilledFor(role, r)' \in Nat /\ reported <= FilledFor(role, r)'
  <2>1. orders'[sent.id] \in Orders
    BY <1>4 DEF VenueTyped
  <2>2. reported = ProvenFill(orders'[sent.id])
    BY <1>4 DEF Executed
  <2>3. FilledFor(role, r)' = orders'[sent.id].filled
    BY <1>4 DEF FilledFor
  <2> QED BY <2>1, <2>2, <2>3 DEF ProvenFill, Orders
<1>5. CASE at = "flatten"
  <2>1. ClientId("gcf", r.id) \in OrderIds /\ r.kind = "protected_entry"
    BY <1>2, <1>5, RequestShapes, IdShapes
  <2>2. sent.type = "market" /\ sent.id = ClientId("gcf", r.id)
    BY <1>5 DEF Reports
  <2>3. Entry(r)'.filled \in Nat
    BY <2>1, RequestShapes, IdShapes DEF Entry, VenueTyped, Orders
  <2>4. pos' + FilledFor("gcf", r)' <= Entry(r)'.filled
    BY <1>1, <2>1 DEF AccountedTo
  <2>5. pos' + reported <= Entry(r)'.filled
    BY <1>3, <1>4, <2>1, <2>2, <2>3, <2>4
  <2> QED BY <1>5, <2>2, <2>5 DEF Reports
<1>6. CASE at = "reduction"
  <2>1. ClientId("gcr", r.id) \in OrderIds /\ r.kind = "protection_revision" /\ r.current.qty \in Nat
    BY <1>2, <1>6, RequestShapes, OwnershipShapes, IdShapes
  <2>2. sent.type = "market" /\ sent.id = ClientId("gcr", r.id)
    BY <1>6 DEF Reports
  <2>3. pos' + FilledFor("gcr", r)' <= r.current.qty
    BY <1>1, <2>1 DEF AccountedTo
  <2>4. pos' + reported <= r.current.qty
    BY <1>3, <1>4, <2>1, <2>2, <2>3
  <2> QED BY <1>6, <2>2, <2>4 DEF Reports
<1>7. CASE at = "close"
  <2>1. /\ ClientId("gpc", r.id) \in OrderIds /\ r.kind = "owned_position_close"
        /\ r.current.qty \in Nat
    BY <1>2, <1>7, RequestShapes, OwnershipShapes, IdShapes
  <2>2. sent.type = "market" /\ sent.id = ClientId("gpc", r.id)
    BY <1>7 DEF Reports
  <2>3. pos' + FilledFor("gpc", r)' <= r.current.qty
    BY <1>1, <2>1 DEF AccountedTo
  <2>4. pos' + reported <= r.current.qty
    BY <1>3, <1>4, <2>1, <2>2, <2>3
  <2> QED BY <1>7, <2>2, <2>4 DEF Reports
<1> QED BY <1>5, <1>6, <1>7 DEF Reports

(* Whatever the venue does, the account holds.                              *)
LEMMA VenueAccount ==
    ASSUME Typed, Typed', Account, "working" \notin Fills,
           \/ \E o \in Orchestrators : VenueAccepts(o) \/ VenueRejects(o) \/ AnswerLost(o)
           \/ \E m \in net : ExecutesUnseen(m)
           \/ \E id \in AlgoIds : Trigger(id)
           \/ \E id \in OrderIds : FillsFurther(id) \/ Expires(id)
    PROVE  Account'
<1>1. VenueTyped' /\ call' \in [Orchestrators -> Calls] /\ call \in [Orchestrators -> Calls]
  BY DEF Typed, CallsTyped
<1>2. ASSUME Calm,
             \A q \in Orchestrators :
                 /\ call'[q].at = call[q].at /\ call'[q].qty = call[q].qty
                 /\ call[q].at # "none" /\ Pending(orch[q].request) =>
                       Reports(orch[q].request, call[q].at, call[q].sent, call[q].payload)'
      PROVE  Account'
  <2>1. ASSUME NEW q \in Orchestrators PROVE Operates(orch[q], call[q])'
    <3>1. PICK c \in Calls : c = call'[q]
      BY <1>1
    <3> QED BY <1>1, <1>2, <3>1, CalmOperates
  <2>2. Operating'
    BY <2>1 DEF Operating
  <2> QED BY <1>1, <1>2, <2>2, CalmAccount DEF Account
<1>3. ASSUME NEW q \in Orchestrators, call[q].at # "none", Pending(orch[q].request)
      PROVE  /\ orch[q].request \in Requests
             /\ call[q].at \in AwaitsOf(orch[q].request.kind)
             /\ call[q].payload \in Nat
             /\ Reports(orch[q].request, call[q].at, call[q].sent, call[q].payload)
  BY <1>3, Underway DEF Account, Operating, Operates, Learnt, Request
<1>4. ASSUME Calm, NEW q \in Orchestrators, UNCHANGED orchVars,
             call[q].at # "none", Pending(orch[q].request),
             call'[q].at = call[q].at, call'[q].sent = call[q].sent,
             call'[q].payload = call[q].payload
      PROVE  Reports(orch[q].request, call[q].at, call[q].sent, call[q].payload)'
  <2>1. PICK r, at, sent, payload :
           /\ r = orch[q].request /\ at = call[q].at /\ sent = call[q].sent
           /\ payload = call[q].payload
    OBVIOUS
  <2>2. Reports(r, at, sent, payload)'
    BY <1>1, <1>3, <1>4, <2>1, CalmReports
  <2>3. r = orch'[q].request
    BY <1>4, <2>1 DEF orchVars
  <2> QED BY <1>4, <2>1, <2>2, <2>3
<1>5. ASSUME Calm, UNCHANGED orchVars,
             \A q \in Orchestrators :
                 /\ call'[q].at = call[q].at /\ call'[q].qty = call[q].qty
                 /\ call'[q].sent = call[q].sent /\ call'[q].payload = call[q].payload
      PROVE  Account'
  BY <1>2, <1>4, <1>5
<1>6. CASE \/ \E id \in AlgoIds : Trigger(id)
           \/ \E id \in OrderIds : FillsFurther(id) \/ Expires(id)
  <2>1. UNCHANGED <<orchVars, net, call>>
    BY <1>6, VenueMovesTyped DEF Typed
  <2> QED BY <1>5, <1>6, <2>1, CalmMoves
<1>7. CASE \E o \in Orchestrators : VenueRejects(o) \/ AnswerLost(o)
  <2>1. PICK o, answer :
           /\ o \in Orchestrators
           /\ call' = [call EXCEPT ![o].answer = answer]
           /\ UNCHANGED <<orchVars, venue>> /\ net' \subseteq net
    BY <1>7 DEF VenueRejects, AnswerLost
  <2>2. Calm
    <3>1. UNCHANGED <<store, orch, submitted, pos, orders, algos>>
      BY <2>1 DEF orchVars, venue
    <3>2. ASSUME NEW s, Guarded(s) PROVE Guarded(s)'
      BY <3>1, <3>2 DEF Guarded
    <3> QED BY <2>1, <3>1, <3>2 DEF Calm, Typed, VenueTyped, Orders, Account, Unsent
  <2> QED BY <1>1, <1>5, <2>1, <2>2 DEF Calls
<1>8. CASE \E m \in net : ExecutesUnseen(m)
  <2>1. PICK m \in net : VenueExecutes(m) /\ UNCHANGED <<orchVars, call>>
    BY <1>8 DEF ExecutesUnseen
  <2>2. CASE m.type = "market" => m.reduceOnly
    BY <1>5, <2>1, <2>2, CalmExecutes
  <2>3. CASE m.type = "market" /\ ~m.reduceOnly
    BY <1>1, <2>1, <2>3, EntryExecutes
  <2> QED BY <2>2, <2>3
<1>9. CASE \E o \in Orchestrators : VenueAccepts(o)
  <2>1. PICK o \in Orchestrators :
           /\ call[o].sent \in net /\ VenueExecutes(call[o].sent) /\ UNCHANGED orchVars
           /\ call' = [call EXCEPT ![o].answer = "accepted",
                                   ![o].payload = Executed(call[o].sent)]
    BY <1>9 DEF VenueAccepts
  <2>2. PICK m \in net : m = call[o].sent
    BY <2>1
  <2>3. /\ call'[o].payload = Executed(m)
        /\ \A q \in Orchestrators :
              /\ call'[q].at = call[q].at /\ call'[q].qty = call[q].qty
              /\ call'[q].sent = call[q].sent
              /\ q # o => call'[q].payload = call[q].payload
    BY <1>1, <2>1, <2>2 DEF Calls
  <2>4. CASE m.type = "market" /\ ~m.reduceOnly
    <3>1. Executed(m) = ProvenFill(orders'[m.id])
      BY <2>4 DEF Executed
    <3> QED BY <1>1, <2>1, <2>2, <2>3, <2>4, <3>1, EntryExecutes
  <2>5. CASE m.type = "market" => m.reduceOnly
    <3>1. Calm
      BY <2>1, <2>2, <2>5, CalmExecutes
    <3>2. ASSUME NEW q \in Orchestrators, call[q].at # "none", Pending(orch[q].request)
          PROVE  Reports(orch[q].request, call[q].at, call[q].sent, call[q].payload)'
      <4>1. CASE q # o
        BY <1>4, <2>1, <2>3, <3>1, <3>2, <4>1
      <4>2. CASE q = o
        <5>1. PICK r, at, payload :
                 r = orch[o].request /\ at = call[o].at /\ payload = call[o].payload
          OBVIOUS
        <5>2. PICK reported : reported = Executed(m)
          OBVIOUS
        <5>3. /\ r \in Requests /\ at \in AwaitsOf(r.kind) /\ Pending(r)
              /\ Reports(r, at, m, payload)
          BY <1>3, <2>2, <3>2, <4>2, <5>1
        <5>4. at # "entry"
          <6>1. at = "entry" => m.type = "market" /\ ~m.reduceOnly
            BY <5>3 DEF Reports, Market
          <6> QED BY <2>5, <6>1
        <5>5. Pending(r)' /\ Accounted'
          BY <1>1, <3>1, <5>3, CalmAccount, RecordStays DEF Calm
        <5>6. Reports(r, at, m, reported)'
          BY <1>1, <5>2, <5>3, <5>4, <5>5, AcceptReports
        <5>7. r = orch'[o].request
          BY <2>1, <5>1 DEF orchVars
        <5> QED BY <2>2, <2>3, <4>2, <5>1, <5>2, <5>6, <5>7
      <4> QED BY <4>1, <4>2
    <3> QED BY <1>2, <2>3, <3>1, <3>2
  <2> QED BY <2>4, <2>5
<1> QED BY <1>6, <1>7, <1>8, <1>9

-----------------------------------------------------------------------------
(* A process moves, and neither the record nor the venue does. *)

(* Everything the account says but for the calls stays as it is.            *)
LEMMA AllStays ==
    ASSUME UNCHANGED <<store, submitted, venue>>
    PROVE  /\ Accounted' <=> Accounted
           /\ Unsent' <=> Unsent
           /\ Covered' <=> Covered
           /\ Owned' <=> Owned
           /\ \A m : MarketOwned(m)' <=> MarketOwned(m)
           /\ \A s : CancelSafe(s)' <=> CancelSafe(s)
           /\ \A op, c : Operates(op, c)' <=> Operates(op, c)
<1>1. UNCHANGED <<store, submitted, pos, orders, algos>>
  BY DEF venue
<1>2. /\ \A r : Pending(r)' <=> Pending(r)
      /\ \A i : Settled(i)' <=> Settled(i)
      /\ \A s : Guarded(s)' <=> Guarded(s)
      /\ \A r : Entry(r)' = Entry(r)
      /\ \A role, r : FilledFor(role, r)' = FilledFor(role, r)
  BY <1>1 DEF Pending, Settled, Guarded, Entry, FilledFor
<1>3. Replacing' <=> Replacing
  BY <1>1, <1>2 DEF Replacing
<1>4. \A r : AccountedTo(r)' <=> AccountedTo(r)
  BY <1>1, <1>2 DEF AccountedTo
<1>5. \A r : Manages(r)' <=> Manages(r)
  BY <1>1, <1>2 DEF Manages
<1>6. \A r : OperationOwns(r)' <=> OperationOwns(r)
  BY <1>1, <1>2 DEF OperationOwns
<1>7. \A r, at, qty : Knows(r, at, qty)' <=> Knows(r, at, qty)
  BY <1>1, <1>2 DEF Knows
<1>8. \A r, at, sent, payload : Reports(r, at, sent, payload)' <=> Reports(r, at, sent, payload)
  <2> SUFFICES ASSUME NEW r, NEW at, NEW sent, NEW payload
               PROVE  Reports(r, at, sent, payload)' <=> Reports(r, at, sent, payload)
    OBVIOUS
  <2>1. pos' = pos /\ Entry(r)' = Entry(r)
    BY <1>1, <1>2
  <2>2. Reports(r, at, sent, payload) => Reports(r, at, sent, payload)'
    BY <2>1 DEF Reports
  <2>3. Reports(r, at, sent, payload)' => Reports(r, at, sent, payload)
    BY <2>1 DEF Reports
  <2> QED BY <2>2, <2>3
<1>9. \A op, c : Operates(op, c)' <=> Operates(op, c)
  BY <1>2, <1>6, <1>7, <1>8 DEF Operates, Learnt
<1>10. \A m : MarketOwned(m)' <=> MarketOwned(m)
  BY <1>1, <1>2 DEF MarketOwned
<1>11. \A s : CancelSafe(s)' <=> CancelSafe(s)
  BY <1>1, <1>2, <1>3 DEF CancelSafe
<1>12. (Accounted' <=> Accounted) /\ (Unsent' <=> Unsent)
  BY <1>1, <1>2, <1>4 DEF Accounted, Unsent
<1>13. (Covered' <=> Covered) /\ (Owned' <=> Owned)
  BY <1>1, <1>2, <1>3, <1>5 DEF Covered, Owned
<1> QED BY <1>9, <1>10, <1>11, <1>12, <1>13

(* One process moves to a call it may make; what it sends may be sent.      *)
LEMMA MoveAccount ==
    ASSUME Account, NEW o \in Orchestrators, UNCHANGED <<store, submitted, venue>>,
           OthersKeep(o), \A q \in Orchestrators \ {o} : call'[q] = call[q],
           NEW op, NEW c, op = orch'[o], c = call'[o], Operates(op, c),
           \A m \in net' \ net : m.type = "market" => MarketOwned(m),
           \A s \in StopIds : Cancel(s) \in net' \ net => CancelSafe(s)
    PROVE  Account'
<1>1. Accounted' /\ Unsent' /\ Covered' /\ Owned'
  BY AllStays DEF Account
<1>2. MarketsOwned'
  BY AllStays DEF Account, MarketsOwned
<1>3. CancelsSafe'
  BY AllStays DEF Account, CancelsSafe
<1>4. ASSUME NEW q \in Orchestrators PROVE Operates(orch[q], call[q])'
  <2>1. CASE q = o
    <3>1. Operates(op, c)'
      BY AllStays
    <3> QED BY <2>1, <3>1
  <2>2. CASE q # o
    <3>1. PICK p, d : p = orch'[q] /\ d = call'[q]
      OBVIOUS
    <3>2. p.pc = orch[q].pc /\ p.request = orch[q].request /\ d = call[q]
      BY <2>2, <3>1 DEF OthersKeep
    <3>3. Operates(orch[q], call[q])
      BY DEF Account, Operating
    <3>4. Operates(p, d)
      BY <3>2, <3>3 DEF Operates
    <3>5. Operates(p, d)'
      BY <3>4, AllStays
    <3> QED BY <3>1, <3>5
  <2> QED BY <2>1, <2>2
<1>5. Operating'
  BY <1>4 DEF Operating
<1> QED BY <1>1, <1>2, <1>3, <1>5 DEF Account

(* An operation underway owns its request.                                  *)
LEMMA UnderwayOwns ==
    ASSUME Typed, Account, NEW o \in Orchestrators, call[o].at # "none"
    PROVE  /\ OperationOwns(Request(o))
           /\ Pending(Request(o)) => Learnt(Request(o), call[o])
BY Underway DEF Account, Operating, Operates, Request

(* A mutation is sent: a reduction for its own request, a conditional       *)
(* order, or the cancellation of an order it has no more need of.           *)
LEMMA SendAccount ==
    ASSUME Typed, Account, NEW o \in Orchestrators, call[o].at # "none",
           NEW r \in Requests, r = Request(o),
           NEW at, NEW m \in Sendable, NEW qty, NEW ok,
           Send(o, at, m, qty, ok), UNCHANGED venue,
           m.type = "market" => m.id[2] = r.id /\ m.id[1] # "gce" /\ m.reduceOnly,
           m.type = "cancel" /\ m.id \in StopIds =>
               /\ r.kind # "protected_entry" /\ m.id = r.current.stop
               /\ Pending(r) =>
                     pos = 0 \/ (r.kind = "protection_revision" /\ Guarded(ClientId("grs", r.id))),
           Pending(r) => Knows(r, at, qty) /\ Reports(r, at, m, 0)
    PROVE  Account'
<1> DEFINE c == [at |-> at, sent |-> m, answer |-> "waiting", qty |-> qty, payload |-> 0,
                 ok |-> ok]
<1>1. /\ net' = net \cup {m} /\ call' = [call EXCEPT ![o] = c] /\ UNCHANGED orchVars
  BY DEF Send
<1>2. UNCHANGED <<store, orch, submitted>> /\ OthersKeep(o)
  BY <1>1 DEF orchVars, OthersKeep
<1>3. OperationOwns(r)
  BY UnderwayOwns
<1>4. c = call'[o] /\ \A q \in Orchestrators \ {o} : call'[q] = call[q]
  BY <1>1 DEF Typed, CallsTyped
<1>5. PICK op : op = orch'[o] /\ op.request = r
  BY <1>2 DEF Request
<1>6. Operates(op, c)
  BY <1>3, <1>5 DEF Operates, Learnt
<1>7. m.type = "market" => MarketOwned(m)
  <2>1. m.type = "market" => m.reduceOnly = TRUE
    BY MutationShapes
  <2> QED BY <1>3, <2>1 DEF MarketOwned, OperationOwns
<1>8. ASSUME NEW s \in StopIds, m = Cancel(s) PROVE CancelSafe(s)
  <2>1. /\ r.kind # "protected_entry" /\ s = r.current.stop
        /\ Pending(r) =>
              pos = 0 \/ (r.kind = "protection_revision" /\ Guarded(ClientId("grs", r.id)))
    BY <1>8, SendableShapes
  <2>2. /\ Settled(s[2])
        /\ store.current # NONE /\ store.current.stop = s => Pending(r) /\ store.current = r.current
    BY <1>3, <2>1 DEF OperationOwns
  <2> QED BY <2>1, <2>2 DEF CancelSafe, Replacing
<1> HIDE DEF c
<1>9. \A k \in net' \ net : k = m
  BY <1>1
<1>10. /\ \A k \in net' \ net : k.type = "market" => MarketOwned(k)
       /\ \A s \in StopIds : Cancel(s) \in net' \ net => CancelSafe(s)
  BY <1>7, <1>8, <1>9
<1> QED BY <1>2, <1>4, <1>5, <1>6, <1>10, MoveAccount

(* Something is looked up.                                                  *)
LEMMA LookAccount ==
    ASSUME Typed, Account, NEW o \in Orchestrators, call[o].at # "none",
           NEW r \in Requests, r = Request(o), NEW at, NEW qty, NEW ok,
           Look(o, at, qty, ok), UNCHANGED venue,
           at \notin {"entry", "flatten", "reduction", "close"},
           Pending(r) => Knows(r, at, qty)
    PROVE  Account'
<1> DEFINE c == [NoCall EXCEPT !.at = at, !.qty = qty, !.ok = ok]
<1>1. net' = net /\ call' = [call EXCEPT ![o] = c] /\ UNCHANGED orchVars
  BY DEF Look
<1>2. UNCHANGED <<store, orch, submitted>> /\ OthersKeep(o)
  BY <1>1 DEF orchVars, OthersKeep
<1>3. OperationOwns(r)
  BY UnderwayOwns
<1>4. c = call'[o] /\ \A q \in Orchestrators \ {o} : call'[q] = call[q]
  BY <1>1 DEF Typed, CallsTyped
<1>5. c.at = at /\ c.qty = qty
  BY DEF NoCall
<1>6. PICK op : op = orch'[o] /\ op.request = r
  BY <1>2 DEF Request
<1> HIDE DEF c
<1>7. Operates(op, c)
  BY <1>3, <1>5, <1>6 DEF Operates, Learnt, Reports
<1> QED BY <1>1, <1>2, <1>4, <1>6, <1>7, MoveAccount

(* An operation ends, and the record stays.                                 *)
LEMMA EndAccount ==
    ASSUME Typed, Account, NEW o \in Orchestrators, orch' = [orch EXCEPT ![o] = Idle],
           UNCHANGED <<store, submitted, venue, net>>, call' = [call EXCEPT ![o] = NoCall]
    PROVE  Account'
<1>1. OthersKeep(o) /\ orch'[o] = Idle
  BY MoveKeepsOthers DEF Typed
<1>2. NoCall = call'[o] /\ \A q \in Orchestrators \ {o} : call'[q] = call[q]
  BY DEF Typed, CallsTyped
<1>3. Operates(Idle, NoCall)
  BY NoCallTyped DEF Operates, Idle
<1> QED BY <1>1, <1>2, <1>3, MoveAccount

(* An operation is submitted.                                               *)
LEMMA SubmitAccount ==
    ASSUME Typed, Account, NEW o \in Orchestrators, NEW r \in Requests, Submit(o, r)
    PROVE  Account'
<1> DEFINE op == [pc |-> "staging", request |-> r, fresh |-> TRUE, state |-> store]
<1>1. /\ orch' = [orch EXCEPT ![o] = op] /\ UNCHANGED <<store, submitted, venue, net, call>>
      /\ orch[o].pc = "idle"
  BY DEF Submit, Execute
<1>2. OthersKeep(o) /\ orch'[o] = op
  BY <1>1, MoveKeepsOthers DEF Typed
<1>3. call[o].at = "none"
  BY <1>1 DEF Typed, CallsTyped, InPhase
<1>4. PICK c, p : c = call'[o] /\ p = orch'[o] /\ c.at = "none" /\ p.pc = "staging"
  BY <1>1, <1>2, <1>3
<1>5. Operates(p, c)
  BY <1>4 DEF Operates
<1> QED BY <1>1, <1>2, <1>4, <1>5, MoveAccount

(* A recovery takes over the pending request.                               *)
LEMMA StartRecoveryAccount ==
    ASSUME Typed, Account, NEW o \in Orchestrators, StartRecovery(o)
    PROVE  Account'
<1>1. PICK r : r = store.pending.request
  OBVIOUS
<1>2. /\ store.pending # NONE /\ UNCHANGED <<store, submitted, venue, net>>
      /\ orch' = [orch EXCEPT ![o] = [pc |-> "recovering", request |-> r, fresh |-> TRUE,
                                      state |-> store]]
  BY <1>1 DEF StartRecovery, BeginRecovery
<1>3. r \in Requests /\ Pending(r)
  BY <1>1, <1>2, PendingShapes DEF Typed
<1>4. PICK op : op = orch'[o] /\ op.request = r
  BY <1>2 DEF Typed, OrchInv, OrchTypeOK
<1>5. OthersKeep(o)
  BY <1>2, MoveKeepsOthers DEF Typed
<1>6. OperationOwns(r)
  <2>1. submitted[r.id] > 0 /\ Manages(r)
    BY <1>3 DEF Account, Owned
  <2>2. ASSUME r.kind # "protected_entry", store.current # NONE,
               store.current.stop = r.current.stop
        PROVE  store.current = r.current
    <3>1. r.kind = "protection_revision" => Revised(r).stop # r.current.stop
      BY <1>3, RequestShapes DEF Revised
    <3> QED BY <2>1, <2>2, <3>1 DEF Manages
  <2> QED BY <1>3, <2>1, <2>2 DEF OperationOwns, Manages
<1> DEFINE at == CASE r.kind = "protected_entry" -> "re_entry"
                   [] r.kind = "owned_position_close" -> "re_close"
                   [] OTHER -> IF r.reduction = 0 THEN "re_new_stop" ELSE "re_reduction"
           c == [NoCall EXCEPT !.at = at]
<1>7. call' = [call EXCEPT ![o] = c]
  BY <1>1 DEF StartRecovery
<1>8. c = call'[o] /\ \A q \in Orchestrators \ {o} : call'[q] = call[q]
  BY <1>7 DEF Typed, CallsTyped
<1>9. c.at = at
  BY DEF NoCall
<1>10. /\ at \in {"re_entry", "re_close", "re_new_stop", "re_reduction"}
       /\ at = "re_new_stop" /\ r.kind = "protection_revision" => r.reduction = 0
  BY DEF NoCall
<1> HIDE DEF c, at
<1>11. Knows(r, c.at, c.qty)
  <2>1. r.kind = "protection_revision" => pos <= r.current.qty
    <3>1. AccountedTo(r)
      BY <1>3 DEF Account, Accounted
    <3> QED BY <1>3, <3>1, QuantityShapes DEF AccountedTo, Typed
  <2>2. at \notin {"stop", "stop_lookup", "target", "target_lookup", "flatten", "flatten_lookup",
                   "re_stop", "re_target", "re_flatten"}
    BY <1>10
  <2>3. r.kind = "protection_revision" /\ at = "re_new_stop" => pos <= r.current.qty - r.reduction
    BY <1>3, <1>10, <2>1, QuantityShapes DEF Typed
  <2> QED BY <1>9, <1>10, <2>2, <2>3
          DEF Knows, EntryAwaits, NewStopAwaits, NewTargetAwaits, CleanupAwaits
<1>12. Reports(r, c.at, c.sent, c.payload)
  BY <1>9, <1>10 DEF Reports
<1>13. Operates(op, c)
  BY <1>4, <1>6, <1>11, <1>12 DEF Operates, Learnt
<1> QED BY <1>2, <1>4, <1>5, <1>8, <1>13, MoveAccount

-----------------------------------------------------------------------------
(* The record moves.                                                       *)

(* What the venue holds means the same under another record.                *)
LEMMA VenueStays ==
    ASSUME UNCHANGED venue
    PROVE  /\ UNCHANGED <<pos, orders, algos>>
           /\ \A s : Guarded(s)' <=> Guarded(s)
           /\ \A r : Entry(r)' = Entry(r)
           /\ \A r : AccountedTo(r)' <=> AccountedTo(r)
           /\ \A r, c : Learnt(r, c)' <=> Learnt(r, c)
<1>1. UNCHANGED <<pos, orders, algos>>
  BY DEF venue
<1>2. /\ \A s : Guarded(s)' <=> Guarded(s)
      /\ \A r : Entry(r)' = Entry(r)
      /\ \A role, r : FilledFor(role, r)' = FilledFor(role, r)
  BY <1>1 DEF Guarded, Entry, FilledFor
<1>3. \A r : AccountedTo(r)' <=> AccountedTo(r)
  BY <1>1, <1>2 DEF AccountedTo
<1>4. ASSUME NEW r, NEW c PROVE Learnt(r, c)' <=> Learnt(r, c)
  <2>1. pos' = pos /\ Entry(r)' = Entry(r)
    BY <1>1, <1>2
  <2>2. Knows(r, c.at, c.qty)' <=> Knows(r, c.at, c.qty)
    BY <1>2, <2>1 DEF Knows
  <2>3. Reports(r, c.at, c.sent, c.payload) => Reports(r, c.at, c.sent, c.payload)'
    BY <2>1 DEF Reports
  <2>4. Reports(r, c.at, c.sent, c.payload)' => Reports(r, c.at, c.sent, c.payload)
    BY <2>1 DEF Reports
  <2> QED BY <2>2, <2>3, <2>4 DEF Learnt
<1> QED BY <1>1, <1>2, <1>3, <1>4

(* A result is applied: what is pending afterwards was pending before, and  *)
(* what was settled is settled.                                             *)
LEMMA AppliedFrame ==
    ASSUME NEW r, Pending(r), UNCHANGED submitted,
           store'.pending # NONE => store'.pending.request = r
    PROVE  /\ \A q : Pending(q)' => q = r /\ Pending(q)
           /\ \A i : Settled(i) => Settled(i)'
BY DEF Pending, Settled

(* The operation that applied it has ended; the others are as they were.    *)
LEMMA AppliedOperates ==
    ASSUME Account, NEW o \in Orchestrators, OthersKeep(o), orch'[o] = Idle, call'[o] = NoCall,
           \A q \in Orchestrators \ {o} : call'[q] = call[q],
           NEW r, Pending(r), UNCHANGED <<submitted, venue>>,
           store'.pending # NONE => store'.pending.request = r,
           \A q : OperationOwns(q) => OperationOwns(q)'
    PROVE  Operating'
<1> SUFFICES ASSUME NEW q \in Orchestrators PROVE Operates(orch[q], call[q])'
  BY DEF Operating
<1>1. PICK p, d : p = orch'[q] /\ d = call'[q]
  OBVIOUS
<1>2. CASE q = o
  <2>1. d.at = "none" /\ p.pc = "idle"
    BY <1>1, <1>2, NoCallTyped DEF Idle
  <2>2. Operates(p, d)'
    BY <2>1 DEF Operates
  <2> QED BY <1>1, <2>2
<1>3. CASE q # o
  <2>1. p.pc = orch[q].pc /\ p.request = orch[q].request /\ d = call[q]
    BY <1>1, <1>3 DEF OthersKeep
  <2>2. Operates(orch[q], call[q])
    BY DEF Account, Operating
  <2>3. /\ p.pc \in {"effect", "recovering"} => OperationOwns(p.request)
        /\ d.at # "none" /\ Pending(p.request) => Learnt(p.request, d)
    BY <2>1, <2>2 DEF Operates
  <2>4. Pending(p.request)' => Pending(p.request)
    BY AppliedFrame
  <2>5. Operates(p, d)'
    BY <2>3, <2>4, VenueStays DEF Operates
  <2> QED BY <1>1, <2>5
<1> QED BY <1>2, <1>3

(* A result leaves the request open, and the pointer where it was.          *)
LEMMA KeptAccount ==
    ASSUME Account, NEW o \in Orchestrators, OthersKeep(o), orch'[o] = Idle, call'[o] = NoCall,
           \A q \in Orchestrators \ {o} : call'[q] = call[q],
           NEW r, Pending(r), UNCHANGED <<submitted, venue, net>>,
           store'.current = store.current, store'.pending # NONE, store'.pending.request = r
    PROVE  Account'
<1>1. /\ \A q : Pending(q)' <=> Pending(q)
      /\ \A i : Settled(i)' <=> Settled(i)
  BY DEF Pending, Settled
<1>2. store.pending # NONE /\ store.pending.request = r
  BY DEF Pending
<1>3. Replacing' <=> Replacing
  BY <1>1, VenueStays DEF Replacing
<1>4. Accounted'
  BY <1>1, <1>2, VenueStays DEF Account, Accounted
<1>5. Unsent' /\ MarketsOwned'
  BY <1>1, VenueStays DEF Account, Unsent, MarketsOwned, MarketOwned
<1>6. CancelsSafe' /\ Covered'
  BY <1>1, <1>3, VenueStays DEF Account, CancelsSafe, CancelSafe, Covered
<1>7. Owned'
  <2>1. \A q : Manages(q)' <=> Manages(q)
    BY <1>1 DEF Manages
  <2> QED BY <1>1, <2>1 DEF Account, Owned
<1>8. \A q : OperationOwns(q) => OperationOwns(q)'
  BY <1>1, <1>2 DEF OperationOwns
<1>9. Operating'
  BY <1>8, AppliedOperates
<1> QED BY <1>4, <1>5, <1>6, <1>7, <1>9 DEF Account

(* A result replaces the pointer: by one that the request itself has        *)
(* protected, or by none once the position is gone.                         *)
LEMMA ReplacedAccount ==
    ASSUME Account, NEW o \in Orchestrators, OthersKeep(o), orch'[o] = Idle, call'[o] = NoCall,
           \A q \in Orchestrators \ {o} : call'[q] = call[q],
           NEW r \in Requests, Pending(r), UNCHANGED <<submitted, venue, net>>,
           store'.pending # NONE =>
               /\ store'.pending.request = r
               /\ r.kind = "protection_revision" /\ store'.current = Revised(r),
           r.kind = "protected_entry" => Entry(r).qty # 0,
           IF store'.current = NONE THEN pos = 0
           ELSE /\ store'.current.stop[2] = r.id
                /\ pos <= store'.current.qty
                /\ Guarded(store'.current.stop),
           store'.current = NONE => store'.pending = NONE
    PROVE  Account'
<1>1. /\ \A q : Pending(q)' => q = r /\ Pending(q)
      /\ \A i : Settled(i) => Settled(i)'
  BY AppliedFrame
<1>2. \A q : Pending(q) => q = r
  BY DEF Pending
<1>3. submitted[r.id] > 0 /\ Manages(r)
  BY DEF Account, Owned
<1>4. Accounted'
  BY <1>1, VenueStays DEF Account, Accounted
<1>5. Unsent'
  BY VenueStays DEF Account, Unsent
<1>6. MarketsOwned'
  <2> SUFFICES ASSUME NEW m \in net, m.type = "market" PROVE MarketOwned(m)'
    BY DEF MarketsOwned
  <2>1. MarketOwned(m)
    BY DEF Account, MarketsOwned
  <2>2. m.reduceOnly
    BY <1>2, <2>1 DEF MarketOwned
  <2> QED BY <2>1, <2>2 DEF MarketOwned
<1>7. CancelsSafe'
  <2> SUFFICES ASSUME NEW s \in StopIds, Cancel(s) \in net PROVE CancelSafe(s)'
    BY DEF CancelsSafe
  <2>1. Settled(s[2])
    BY DEF Account, CancelsSafe, CancelSafe
  <2>2. s[2] # r.id
    BY <2>1, SettledIsNotPending
  <2>3. store'.current # NONE => store'.current.stop # s
    BY <2>2
  <2> QED BY <1>1, <2>1, <2>3 DEF CancelSafe
<1>8. Covered'
  <2>1. PICK c : c = store'.current
    OBVIOUS
  <2>2. c # NONE => Guarded(c.stop)'
    BY <2>1, VenueStays
  <2> QED BY <2>1, <2>2 DEF Covered
<1>9. Owned'
  <2>1. store'.current # NONE => submitted'[store'.current.stop[2]] > 0
    BY <1>3
  <2>2. ASSUME NEW q \in Requests, Pending(q)' PROVE submitted'[q.id] > 0 /\ Manages(q)'
    <3>1. q = r /\ store'.pending # NONE
      BY <1>1, <2>2 DEF Pending
    <3> QED BY <1>1, <1>3, <3>1 DEF Manages
  <2> QED BY <2>1, <2>2 DEF Owned
<1>10. ASSUME NEW q, OperationOwns(q) PROVE OperationOwns(q)'
  <2>1. submitted'[q.id] > 0
    BY <1>10 DEF OperationOwns
  <2>2. store'.pending # NONE /\ store'.pending.request.id = q.id => Pending(q)'
    BY <1>10 DEF OperationOwns, Pending
  <2>3. ASSUME q.kind # "protected_entry"
        PROVE  /\ Settled(q.current.stop[2])'
               /\ ~(store'.current # NONE /\ store'.current.stop = q.current.stop)
    <3>1. Settled(q.current.stop[2])
      BY <1>10, <2>3 DEF OperationOwns
    <3>2. q.current.stop[2] # r.id
      BY <3>1, SettledIsNotPending
    <3> QED BY <1>1, <3>1, <3>2
  <2> QED BY <2>1, <2>2, <2>3 DEF OperationOwns
<1>11. Operating'
  BY <1>10, AppliedOperates
<1> QED BY <1>4, <1>5, <1>6, <1>7, <1>8, <1>9, <1>11 DEF Account

(* What a coordinator must have learnt for a result that moves the pointer. *)
Justified(r, result) ==
    /\ result = "open_protected" => Entry(r).qty > 0 /\ Guarded(ClientId("gcs", r.id))
    /\ result = "emergency_flatten_confirmed" => Entry(r).qty > 0 /\ pos = 0
    /\ result \in {"revision_protected", "revision_protected_cleanup_pending"} =>
          pos <= r.current.qty - r.reduction /\ Guarded(ClientId("grs", r.id))
    /\ result = "closed" => pos = 0

(* A return changes the record only by a result of the pending request.     *)
LEMMA ReturnApplies ==
    ASSUME Typed, NEW o \in Orchestrators, call[o].at # "none",
           NEW r \in Requests, r = Request(o), NEW result, Return(o, result)
    PROVE  \/ orch' = [orch EXCEPT ![o] = Idle] /\ UNCHANGED store
           \/ /\ Pending(r) /\ result \in Results(r.kind) \ Rejections
              /\ store' = Applied(store, r, result)
<1>1. orch[o].pc \in {"effect", "recovering"}
  BY Underway
<1>2. PICK op : op = orch[o] /\ op.request = r
  BY DEF Request
<1>3. /\ result \in Results(r.kind)
      /\ IF ApplyAdmitted(op.state, r, result, TRUE) /\ VersionMatches(o)
         THEN Saved(o, Applied(op.state, r, result), Idle)
         ELSE orch' = [orch EXCEPT ![o] = Idle] /\ UNCHANGED store
  BY <1>2 DEF Return, EffectReturns
<1>4. CASE ~(ApplyAdmitted(op.state, r, result, TRUE) /\ VersionMatches(o))
  BY <1>3, <1>4
<1>5. CASE ApplyAdmitted(op.state, r, result, TRUE) /\ VersionMatches(o)
  <2>1. op.state = store /\ store.pending # NONE /\ store.pending.request = r
    BY <1>1, <1>2, <1>5 DEF Typed, OrchInv, MemoryAgrees, VersionMatches
  <2>2. result \notin Rejections
    BY <1>5, <2>1 DEF ApplyAdmitted
  <2>3. store' = Applied(store, r, result)
    BY <1>3, <1>5, <2>1 DEF Saved
  <2> QED BY <1>3, <2>1, <2>2, <2>3 DEF Pending
<1> QED BY <1>4, <1>5

(* What each result makes of the record.                                    *)
LEMMA AppliedShapes ==
    ASSUME OrchInv, NEW r \in Requests, Pending(r), NEW result \in Results(r.kind) \ Rejections,
           store' = Applied(store, r, result)
    PROVE  \/ /\ store'.current = store.current
              /\ store'.pending # NONE /\ store'.pending.request = r
           \/ /\ r.kind = "protected_entry" /\ result = "open_protected"
              /\ store'.current = OwnedBy(r) /\ store'.pending = NONE
           \/ /\ r.kind = "protected_entry" /\ result = "emergency_flatten_confirmed"
              /\ store'.current = NONE /\ store'.pending = NONE
           \/ /\ r.kind = "protection_revision" /\ result = "revision_protected"
              /\ store'.current = Revised(r) /\ store'.pending = NONE
           \/ /\ r.kind = "protection_revision" /\ result = "revision_protected_cleanup_pending"
              /\ store'.current = Revised(r)
              /\ store'.pending # NONE /\ store'.pending.request = r
           \/ /\ r.kind = "owned_position_close" /\ result = "closed"
              /\ store'.current = NONE /\ store'.pending = NONE
<1>1. r.kind = "protected_entry" <=> store.current = NONE
  BY PendingShapes DEF Pending
<1>2. ASSUME NEW c, result \in Unresolved(r.kind), store' = KeptOpen(c, r, result)
      PROVE  store'.current = c /\ store'.pending # NONE /\ store'.pending.request = r
  <2>1. [request |-> r, state |-> result] \in Pendings
    BY <1>2, RequestKinds DEF Pendings, Unresolved
  <2>2. [request |-> r, state |-> result] # NONE
    BY <2>1, NoneAssumption
  <2> QED BY <1>2, <2>2 DEF KeptOpen
<1>3. CASE r.kind = "protected_entry"
  <2>1. store' = AppliedEntry(store, r, result)
    BY <1>3 DEF Applied
  <2>2. result \in Unresolved(r.kind) \cup {"emergency_flatten_confirmed", "open_protected"}
    BY <1>3 DEF Results, Rejections
  <2>3. CASE result = "open_protected"
    BY <1>3, <2>1, <2>3 DEF AppliedEntry
  <2>4. CASE result = "emergency_flatten_confirmed"
    BY <1>3, <2>1, <2>4 DEF AppliedEntry, EmptyLedger
  <2>5. CASE result \in Unresolved(r.kind)
    <3>1. result \notin {"open_protected", "rejected_before_exposure",
                         "emergency_flatten_confirmed"}
      BY <1>3, <2>5 DEF Unresolved
    <3>2. store' = KeptOpen(store.current, r, result)
      BY <1>1, <1>3, <2>1, <3>1 DEF AppliedEntry
    <3> QED BY <1>2, <2>5, <3>2
  <2> QED BY <2>2, <2>3, <2>4, <2>5
<1>4. CASE r.kind = "protection_revision"
  <2>1. store' = AppliedRevision(store, r, result)
    BY <1>4 DEF Applied
  <2>2. result \in Unresolved(r.kind) \cup {"revision_protected"}
    BY <1>4 DEF Results, Rejections
  <2>3. CASE result = "revision_protected"
    BY <1>4, <2>1, <2>3 DEF AppliedRevision
  <2>4. CASE result = "revision_protected_cleanup_pending"
    <3>1. result \in Unresolved(r.kind)
      BY <1>4, <2>4 DEF Unresolved
    <3>2. store' = KeptOpen(Revised(r), r, result)
      BY <2>1, <2>4 DEF AppliedRevision
    <3> QED BY <1>2, <1>4, <2>4, <3>1, <3>2
  <2>5. CASE result \in Unresolved(r.kind) \ {"revision_protected_cleanup_pending"}
    <3>1. result \notin {"revision_protected", "reduction_rejected"}
      BY <1>4, <2>5 DEF Unresolved
    <3>2. store' = KeptOpen(store.current, r, result)
      BY <2>1, <2>5, <3>1 DEF AppliedRevision
    <3> QED BY <1>2, <2>5, <3>2
  <2> QED BY <2>2, <2>3, <2>4, <2>5
<1>5. CASE r.kind = "owned_position_close"
  <2>1. store' = AppliedClose(store, r, result)
    BY <1>5 DEF Applied
  <2>2. result \in Unresolved(r.kind) \cup {"closed"} /\ "closed" \notin Unresolved(r.kind)
    BY <1>5 DEF Results, Unresolved
  <2>3. CASE result = "closed"
    BY <1>5, <2>1, <2>3 DEF AppliedClose, EmptyLedger
  <2>4. CASE result \in Unresolved(r.kind)
    <3>1. store' = KeptOpen(store.current, r, result)
      BY <2>1, <2>2, <2>4 DEF AppliedClose
    <3> QED BY <1>2, <2>4, <3>1
  <2> QED BY <2>2, <2>3, <2>4
<1> QED BY <1>3, <1>4, <1>5, RequestKinds

(* An effect returns a result its coordinator has the evidence for.         *)
LEMMA ReturnAccount ==
    ASSUME Typed, Account, NEW o \in Orchestrators, call[o].at # "none",
           NEW r \in Requests, r = Request(o), NEW result, Return(o, result), UNCHANGED venue,
           Pending(r) => Justified(r, result)
    PROVE  Account'
<1>1. UNCHANGED <<submitted, net>> /\ call' = [call EXCEPT ![o] = NoCall]
  BY DEF Return, EffectReturns
<1>2. CASE orch' = [orch EXCEPT ![o] = Idle] /\ UNCHANGED store
  BY <1>1, <1>2, EndAccount
<1>3. CASE /\ Pending(r) /\ result \in Results(r.kind) \ Rejections
           /\ store' = Applied(store, r, result)
  <2>1. OthersKeep(o) /\ orch'[o] = Idle
    BY ReturnKeepsOthers DEF Typed
  <2>2. call'[o] = NoCall /\ \A q \in Orchestrators \ {o} : call'[q] = call[q]
    BY <1>1 DEF Typed, CallsTyped
  <2>3. AccountedTo(r) /\ Justified(r, result)
    BY <1>3 DEF Account, Accounted
  <2>4. CASE store'.current = store.current /\ store'.pending # NONE /\ store'.pending.request = r
    BY <1>1, <1>3, <2>1, <2>2, <2>4, KeptAccount
  <2>5. CASE /\ r.kind = "protected_entry" /\ result = "open_protected"
             /\ store'.current = OwnedBy(r) /\ store'.pending = NONE
    <3>1. Entry(r).qty > 0 /\ Guarded(ClientId("gcs", r.id)) /\ pos <= r.qty
      BY <2>3, <2>5, QuantityShapes DEF Justified, AccountedTo, Typed
    <3>2. /\ OwnedBy(r).stop = ClientId("gcs", r.id) /\ OwnedBy(r).qty = r.qty
          /\ OwnedBy(r).stop[2] = r.id
      BY IdShapes DEF OwnedBy
    <3>3. OwnedBy(r) # NONE
      BY <2>5, EntryOwned, NoneAssumption
    <3>4. Entry(r).qty # 0
      BY <3>1
    <3> QED BY <1>1, <1>3, <2>1, <2>2, <2>5, <3>1, <3>2, <3>3, <3>4, ReplacedAccount
  <2>6. CASE /\ r.kind = "protected_entry" /\ result = "emergency_flatten_confirmed"
             /\ store'.current = NONE /\ store'.pending = NONE
    <3>1. Entry(r).qty # 0 /\ pos = 0
      BY <2>3, <2>6 DEF Justified
    <3> QED BY <1>1, <1>3, <2>1, <2>2, <2>6, <3>1, ReplacedAccount
  <2>7. CASE /\ r.kind = "protection_revision"
             /\ result \in {"revision_protected", "revision_protected_cleanup_pending"}
             /\ store'.current = Revised(r)
             /\ store'.pending # NONE => store'.pending.request = r
    <3>1. pos <= r.current.qty - r.reduction /\ Guarded(ClientId("grs", r.id))
      BY <2>3, <2>7 DEF Justified
    <3>2. /\ Revised(r).stop = ClientId("grs", r.id)
          /\ Revised(r).qty = r.current.qty - r.reduction
          /\ Revised(r).stop[2] = r.id
      BY IdShapes DEF Revised
    <3>3. Revised(r) # NONE
      BY <2>7, RevisedOwned, NoneAssumption
    <3> QED BY <1>1, <1>3, <2>1, <2>2, <2>7, <3>1, <3>2, <3>3, ReplacedAccount
  <2>8. CASE /\ r.kind = "owned_position_close" /\ result = "closed"
             /\ store'.current = NONE /\ store'.pending = NONE
    <3>1. pos = 0
      BY <2>3, <2>8 DEF Justified
    <3> QED BY <1>1, <1>3, <2>1, <2>2, <2>8, <3>1, ReplacedAccount
  <2> QED BY <1>3, <2>4, <2>5, <2>6, <2>7, <2>8, AppliedShapes DEF Typed
<1> QED BY <1>2, <1>3, ReturnApplies

(* A fresh operation stages an intent whose effect never began, over a      *)
(* settled record: nothing is staged twice.                                 *)
LEMMA StagedAnew ==
    ASSUME Typed, Account, Unsubmitted, NEW o \in Orchestrators,
           SaveStaged(o), VersionMatches(o), NEW r, r = orch[o].request
    PROVE  /\ r \in Requests /\ submitted[r.id] = 0 /\ store.pending = NONE
           /\ store.current = IF r.kind = "protected_entry" THEN NONE ELSE r.current
           /\ store'.current = store.current
           /\ store'.pending # NONE /\ store'.pending.request = r
           /\ submitted'[r.id] > 0
           /\ \A i \in Intents \ {r.id} : submitted'[i] = submitted[i]
<1>1. /\ r \in Requests /\ StageAdmitted(store, r) /\ store' = Staged(store, r)
      /\ submitted' = [submitted EXCEPT ![r.id] = @ + 1]
  BY StagedFresh DEF Typed
<1>2. r.id \in Intents
  BY <1>1, RequestIntents
<1>3. submitted[r.id] = 0
  BY DEF Unsubmitted, SaveStaged, VersionMatches
<1>4. store.pending = NONE
  <2>1. store.pending # NONE => Pending(r)
    BY <1>1 DEF StageAdmitted, TransitionAvailable, Pending
  <2> QED BY <1>1, <1>3, <2>1 DEF Account, Owned
<1>5. store.current = IF r.kind = "protected_entry" THEN NONE ELSE r.current
  BY <1>1, <1>4 DEF StageAdmitted
<1>6. [request |-> r, state |-> "intent_persisted"] # NONE
  <2>1. [request |-> r, state |-> "intent_persisted"] \in Pendings
    BY <1>1 DEF Pendings
  <2> QED BY <2>1, NoneAssumption
<1>7. store'.current = store.current /\ store'.pending # NONE /\ store'.pending.request = r
  BY <1>1, <1>4, <1>6 DEF Staged
<1>8. submitted'[r.id] > 0 /\ \A i \in Intents \ {r.id} : submitted'[i] = submitted[i]
  BY <1>1, <1>2, <1>3 DEF Typed, OrchInv, OrchTypeOK
<1> QED BY <1>1, <1>3, <1>4, <1>5, <1>7, <1>8

(* A new request is staged, and its first call is made.                     *)
LEMMA StageAccount ==
    ASSUME Typed, Account, NEW o \in Orchestrators, OthersKeep(o), UNCHANGED venue,
           NEW r \in Requests, submitted[r.id] = 0, store.pending = NONE,
           store.current = IF r.kind = "protected_entry" THEN NONE ELSE r.current,
           store'.current = store.current,
           store'.pending # NONE, store'.pending.request = r,
           submitted'[r.id] > 0, \A i \in Intents \ {r.id} : submitted'[i] = submitted[i],
           orch'[o].request = r,
           NEW c, c = call'[o], \A q \in Orchestrators \ {o} : call'[q] = call[q],
           NEW m, m = Market("gce", r.id, r.qty, FALSE),
           IF r.kind = "protected_entry"
           THEN c.at = "entry" /\ c.sent = m /\ c.payload = 0 /\ net' = net \cup {m}
           ELSE c.at = "current_stop" /\ net' = net
    PROVE  Account'
<1>1. (\A q : Pending(q)' <=> q = r) /\ (\A q : ~Pending(q))
  BY DEF Pending
<1>2. r.id \in Intents /\ (r.kind # "protected_entry" => r.current \in Ownerships)
  BY RequestIntents, RequestShapes, RequestKinds
<1>3. ASSUME NEW i \in Intents
      PROVE  /\ submitted[i] > 0 => submitted'[i] > 0 /\ i # r.id
             /\ submitted'[i] = 0 => submitted[i] = 0
             /\ Settled(i) => Settled(i)'
  <2>1. submitted[i] > 0 => submitted'[i] > 0 /\ i # r.id
    OBVIOUS
  <2> QED BY <2>1 DEF Settled
<1>4. ~Replacing
  BY <1>1 DEF Replacing
<1>5. r.kind # "protected_entry" =>
         /\ store.current # NONE /\ r.current.stop[2] \in Intents
         /\ Settled(r.current.stop[2]) /\ Settled(r.current.stop[2])'
  <2> SUFFICES ASSUME r.kind # "protected_entry"
               PROVE  /\ store.current # NONE /\ r.current.stop[2] \in Intents
                      /\ Settled(r.current.stop[2]) /\ Settled(r.current.stop[2])'
    OBVIOUS
  <2>1. store.current = r.current /\ store.current # NONE
    BY <1>2, NoneAssumption
  <2>2. r.current.stop[2] \in Intents
    BY <1>2, OwnershipShapes, IdIntents
  <2>3. submitted[r.current.stop[2]] > 0
    BY <2>1 DEF Account, Owned
  <2>4. Settled(r.current.stop[2])
    BY <2>3 DEF Settled
  <2> QED BY <1>3, <2>1, <2>2, <2>4
<1>6. Accounted'
  <2>1. AccountedTo(r)
    <3>1. CASE r.kind = "protected_entry"
      <4>1. Entry(r) = NoOrder /\ FilledFor("gcf", r) = 0
        BY <3>1, RequestShapes, IdShapes DEF Account, Unsent, Entry, FilledFor, NoOrder
      <4>2. pos = 0
        BY <3>1 DEF Account, Accounted
      <4> QED BY <3>1, <4>1, <4>2 DEF AccountedTo, NoOrder
    <3>2. CASE r.kind = "protection_revision"
      <4>1. FilledFor("gcr", r) = 0
        BY <3>2, RequestShapes, IdShapes DEF Account, Unsent, FilledFor, NoOrder
      <4>2. pos <= r.current.qty
        BY <1>5, <3>2 DEF Account, Accounted
      <4> QED BY <3>2, <4>1, <4>2, QuantityShapes DEF AccountedTo, Typed
    <3>3. CASE r.kind = "owned_position_close"
      <4>1. FilledFor("gpc", r) = 0
        BY <3>3, RequestShapes, IdShapes DEF Account, Unsent, FilledFor, NoOrder
      <4>2. pos <= r.current.qty
        BY <1>5, <3>3 DEF Account, Accounted
      <4> QED BY <3>3, <4>1, <4>2, QuantityShapes DEF AccountedTo, Typed
    <3> QED BY <3>1, <3>2, <3>3, RequestKinds
  <2>2. AccountedTo(r)'
    BY <2>1, VenueStays
  <2> QED BY <1>1, <2>2, VenueStays DEF Account, Accounted
<1>7. Unsent'
  BY <1>3, IdIntents, VenueStays DEF Account, Unsent
<1>8. MarketsOwned'
  <2>1. ASSUME NEW k \in net, k.type = "market" PROVE MarketOwned(k)'
    <3>1. MarketOwned(k) /\ k.id[2] \in Intents
      BY <2>1, MutationShapes, IdIntents DEF Account, MarketsOwned, Typed, VenueTyped
    <3>2. k.reduceOnly
      BY <1>1, <3>1 DEF MarketOwned
    <3> QED BY <1>3, <3>1, <3>2 DEF MarketOwned
  <2>2. ASSUME r.kind = "protected_entry" PROVE MarketOwned(m)'
    <3>1. m.id[1] = "gce" /\ m.id[2] = r.id /\ m.reduceOnly = FALSE
      BY DEF Market, ClientId
    <3>2. Entry(r).qty = 0
      BY <2>2, RequestShapes, IdShapes DEF Account, Unsent, Entry, NoOrder
    <3>3. Entry(r)' = Entry(r)
      BY VenueStays
    <3>4. /\ Pending(r)' /\ r.kind = "protected_entry"
          /\ m = Market("gce", r.id, r.qty, FALSE) /\ Entry(r)'.qty = 0
      BY <1>1, <2>2, <3>2, <3>3
    <3>5. submitted'[m.id[2]] > 0
      BY <3>1
    <3> QED BY <3>1, <3>4, <3>5 DEF MarketOwned
  <2>3. net' \subseteq net \/ (r.kind = "protected_entry" /\ net' = net \cup {m})
    OBVIOUS
  <2> QED BY <2>1, <2>2, <2>3 DEF MarketsOwned
<1>9. CancelsSafe'
  <2> SUFFICES ASSUME NEW s \in StopIds, Cancel(s) \in net' PROVE CancelSafe(s)'
    BY DEF CancelsSafe
  <2>1. Cancel(s).type = "cancel" /\ m.type = "market"
    BY DEF Cancel, Market
  <2>2. Cancel(s) \in net
    BY <2>1
  <2>3. CancelSafe(s) /\ s[2] \in Intents
    BY <2>2, IdIntents DEF Account, CancelsSafe
  <2> QED BY <1>3, <1>4, <2>3, VenueStays DEF CancelSafe
<1>10. Covered'
  BY <1>4, VenueStays DEF Account, Covered
<1>11. Owned'
  <2>1. store'.current # NONE => submitted'[store'.current.stop[2]] > 0
    <3>1. store.current # NONE => store.current.stop[2] \in Intents
      BY CurrentShapes, IdIntents DEF Typed
    <3> QED BY <1>3, <3>1 DEF Account, Owned
  <2>2. Manages(r)'
    BY <1>5 DEF Manages
  <2> QED BY <1>1, <2>1, <2>2 DEF Owned
<1>12. ASSUME NEW q \in Orchestrators PROVE Operates(orch[q], call[q])'
  <2>1. PICK p, d : p = orch'[q] /\ d = call'[q]
    OBVIOUS
  <2>2. CASE q = o
    <3>1. p.request = r /\ d = c
      BY <2>1, <2>2
    <3>2. OperationOwns(r)'
      BY <1>1, <1>5 DEF OperationOwns
    <3>3. Learnt(r, c)
      <4>1. r.kind = "protected_entry" => c.at = "entry" /\ c.sent = m /\ c.payload = 0
        OBVIOUS
      <4>2. c.at \in {"entry", "current_stop"} /\ (c.at = "entry" => c.sent = m /\ c.payload = 0)
        OBVIOUS
      <4>3. Knows(r, c.at, c.qty)
        BY <4>2 DEF Knows, EntryAwaits, NewStopAwaits, NewTargetAwaits, CleanupAwaits
      <4>4. Reports(r, c.at, c.sent, c.payload)
        BY <4>2 DEF Reports
      <4> QED BY <4>3, <4>4 DEF Learnt
    <3>4. Learnt(r, c)'
      BY <3>3, VenueStays
    <3>5. Operates(p, d)'
      BY <3>1, <3>2, <3>4 DEF Operates
    <3> QED BY <2>1, <3>5
  <2>3. CASE q # o
    <3>1. p.pc = orch[q].pc /\ p.request = orch[q].request /\ d = call[q]
      BY <2>1, <2>3 DEF OthersKeep
    <3>2. /\ p.pc \in {"effect", "recovering"} => OperationOwns(p.request) /\ p.request \in Requests
          /\ d.at # "none" => p.pc \in {"effect", "recovering"}
      BY <3>1 DEF Account, Operating, Operates, Typed, CallsTyped, InPhase, OrchInv, MemoryAgrees
    <3>3. ASSUME NEW z \in Requests, OperationOwns(z) PROVE z # r /\ OperationOwns(z)'
      <4>1. z.id \in Intents /\ z.id # r.id /\ submitted'[z.id] > 0
        BY <1>3, <3>3, RequestIntents DEF OperationOwns
      <4>2. ASSUME z.kind # "protected_entry"
            PROVE  /\ Settled(z.current.stop[2])'
                   /\ ~(store'.current # NONE /\ store'.current.stop = z.current.stop)
        <5>1. Settled(z.current.stop[2]) /\ z.current.stop[2] \in Intents
          BY <3>3, <4>2, RequestShapes, RequestKinds, OwnershipShapes, IdIntents DEF OperationOwns
        <5>2. ~(store.current # NONE /\ store.current.stop = z.current.stop)
          BY <1>1, <3>3, <4>2 DEF OperationOwns
        <5> QED BY <1>3, <5>1, <5>2
      <4> QED BY <4>1, <4>2 DEF OperationOwns
    <3>4. p.pc \in {"effect", "recovering"} => OperationOwns(p.request)' /\ p.request # r
      BY <3>2, <3>3
    <3>5. d.at # "none" => ~Pending(p.request)'
      BY <1>1, <3>2, <3>4
    <3>6. Operates(p, d)'
      BY <3>4, <3>5 DEF Operates
    <3> QED BY <2>1, <3>6
  <2> QED BY <2>2, <2>3
<1>13. Operating'
  BY <1>12 DEF Operating
<1> QED BY <1>6, <1>7, <1>8, <1>9, <1>10, <1>11, <1>13 DEF Account

(* An effect begins, or its operation ends without one.                     *)
LEMMA StartEffectAccount ==
    ASSUME Typed, Account, Unsubmitted, NEW o \in Orchestrators, StartEffect(o)
    PROVE  Account'
<1>1. SaveStaged(o) /\ UNCHANGED venue /\ call[o].at = "none"
  BY DEF StartEffect, SaveStaged, Typed, CallsTyped, InPhase
<1>2. CASE ~VersionMatches(o)
  <2>1. orch' = [orch EXCEPT ![o] = Idle] /\ UNCHANGED <<store, submitted>>
    BY <1>1, <1>2 DEF SaveStaged
  <2>2. OthersKeep(o) /\ orch'[o] = Idle
    BY <2>1, MoveKeepsOthers DEF Typed
  <2>3. UNCHANGED <<net, call>>
    BY <2>2 DEF StartEffect, Idle
  <2>4. PICK c : c = call'[o] /\ c.at = "none"
    BY <1>1, <2>3
  <2>5. Operates(Idle, c)
    BY <2>4 DEF Operates, Idle
  <2> QED BY <1>1, <2>1, <2>2, <2>3, <2>4, <2>5, MoveAccount
<1>3. CASE VersionMatches(o)
  <2>1. PICK r : r = orch[o].request
    OBVIOUS
  <2>2. /\ r \in Requests /\ submitted[r.id] = 0 /\ store.pending = NONE
        /\ store.current = IF r.kind = "protected_entry" THEN NONE ELSE r.current
        /\ store'.current = store.current
        /\ store'.pending # NONE /\ store'.pending.request = r
        /\ submitted'[r.id] > 0
        /\ \A i \in Intents \ {r.id} : submitted'[i] = submitted[i]
    BY <1>1, <1>3, <2>1, StagedAnew
  <2>3. orch'[o].pc = "effect" /\ orch'[o].request = r /\ OthersKeep(o)
    BY <1>1, <1>3, <2>1, StagedFresh DEF Typed
  <2> DEFINE m == Market("gce", r.id, r.qty, FALSE)
             c == IF r.kind = "protected_entry"
                  THEN [NoCall EXCEPT !.at = "entry", !.sent = m, !.answer = "waiting"]
                  ELSE [NoCall EXCEPT !.at = "current_stop"]
  <2>4. /\ call' = [call EXCEPT ![o] = c]
        /\ net' = IF r.kind = "protected_entry" THEN net \cup {m} ELSE net
    BY <2>1, <2>3 DEF StartEffect, Request
  <2>5. IF r.kind = "protected_entry" THEN c.at = "entry" /\ c.sent = m /\ c.payload = 0
        ELSE c.at = "current_stop"
    BY DEF NoCall
  <2> HIDE DEF c, m
  <2>6. c = call'[o] /\ \A q \in Orchestrators \ {o} : call'[q] = call[q]
    BY <2>4 DEF Typed, CallsTyped
  <2>7. m = Market("gce", r.id, r.qty, FALSE)
    BY DEF m
  <2>8. IF r.kind = "protected_entry"
        THEN c.at = "entry" /\ c.sent = m /\ c.payload = 0 /\ net' = net \cup {m}
        ELSE c.at = "current_stop" /\ net' = net
    BY <2>4, <2>5
  <2> QED BY <1>1, <2>2, <2>3, <2>6, <2>7, <2>8, StageAccount
<1> QED BY <1>2, <1>3

(* An operation is abandoned.                                               *)
LEMMA FailAccount ==
    ASSUME Typed, Account, NEW o \in Orchestrators, Fail(o)
    PROVE  Account'
<1>1. /\ orch' = [orch EXCEPT ![o] = Idle] /\ call' = [call EXCEPT ![o] = NoCall]
      /\ UNCHANGED <<store, submitted, venue, net>>
  BY DEF Fail, Abandon
<1> QED BY <1>1, EndAccount

-----------------------------------------------------------------------------
(* The coordinator of an entry at work. *)

(* What it may rely on while its request is the pending one.                *)
LEMMA EntryFacts ==
    ASSUME Typed, Account, NEW o \in Orchestrators, call[o].at \in EntryAwaits,
           NEW r \in Requests, r = Request(o), Pending(r)
    PROVE  /\ pos + FilledFor("gcf", r) <= Entry(r).filled /\ pos <= Entry(r).filled
           /\ Entry(r).filled <= Entry(r).qty
           /\ pos \in Nat /\ Entry(r).filled \in Nat /\ Entry(r).qty \in Nat
           /\ FilledFor("gcf", r) \in Nat
           /\ Knows(r, call[o].at, call[o].qty)
           /\ Reports(r, call[o].at, call[o].sent, call[o].payload)
<1>1. r.kind = "protected_entry" /\ call[o].at # "none"
  BY EntryAtWork
<1>2. Learnt(r, call[o]) /\ AccountedTo(r)
  BY <1>1, UnderwayOwns DEF Account, Accounted
<1>3. /\ pos \in Nat /\ Entry(r).filled \in Nat /\ Entry(r).qty \in Nat
      /\ FilledFor("gcf", r) \in Nat
  BY <1>1, QuantityShapes DEF Typed
<1>4. /\ pos + FilledFor("gcf", r) <= Entry(r).filled
      /\ Entry(r).filled <= Entry(r).qty
  BY <1>1, <1>2 DEF AccountedTo
<1>5. pos <= Entry(r).filled
  BY <1>3, <1>4
<1> QED BY <1>2, <1>3, <1>4, <1>5 DEF Learnt

(* What it must know for its next call.                                     *)
LEMMA EntryKnows ==
    ASSUME NEW r, r.kind = "protected_entry", NEW at, NEW qty,
           at \notin {"entry", "entry_lookup", "re_entry"} =>
               qty = Entry(r).filled /\ Entry(r).qty > 0,
           at \in {"target", "target_lookup", "re_target"} => Guarded(ClientId("gcs", r.id))
    PROVE  Knows(r, at, qty)
BY DEF Knows, EntryAwaits

(* What was executed is flattened.                                          *)
LEMMA FlattenAccount ==
    ASSUME Typed, Account, NEW o \in Orchestrators, call[o].at \in EntryAwaits, UNCHANGED venue,
           NEW r \in Requests, r = Request(o), NEW executed \in Nat, Flatten(o, executed),
           Pending(r) => executed = Entry(r).filled /\ Entry(r).qty > 0
    PROVE  Account'
<1> DEFINE m == Market("gcf", r.id, executed, TRUE)
<1>1. /\ call[o].at # "none" /\ r.kind = "protected_entry"
      /\ ClientId("gcf", r.id) \in OrderIds
  BY EntryAtWork
<1>2. /\ m \in Sendable /\ m.type = "market" /\ m.id = ClientId("gcf", r.id)
      /\ m.id[1] = "gcf" /\ m.id[2] = r.id /\ m.reduceOnly = TRUE
  BY <1>1, SendableShapes DEF Market, ClientId
<1>3. Send(o, "flatten", m, executed, FALSE)
  BY DEF Flatten
<1> HIDE DEF m
<1>4. Pending(r) => Knows(r, "flatten", executed) /\ Reports(r, "flatten", m, 0)
  <2> SUFFICES ASSUME Pending(r) PROVE Knows(r, "flatten", executed) /\ Reports(r, "flatten", m, 0)
    OBVIOUS
  <2>1. Knows(r, "flatten", executed)
    BY <1>1, EntryKnows
  <2>2. pos + 0 <= Entry(r).filled
    BY EntryFacts
  <2>3. Reports(r, "flatten", m, 0)
    BY <1>2, <2>2 DEF Reports
  <2> QED BY <2>1, <2>3
<1> QED BY <1>1, <1>2, <1>3, <1>4, SendAccount

(* The entry was executed, in full or in part, or is not visible.           *)
LEMMA AfterEntryAccount ==
    ASSUME Typed, Account, NEW o \in Orchestrators, call[o].at \in EntryAwaits, UNCHANGED venue,
           NEW r \in Requests, r = Request(o), NEW executed \in Nat, AfterEntry(o, executed),
           Pending(r) /\ executed # 0 => executed = Entry(r).filled /\ Entry(r).qty > 0
    PROVE  Account'
<1>1. /\ call[o].at # "none" /\ r.kind = "protected_entry" /\ r.qty # 0
      /\ ClientId("gcs", r.id) \in AlgoIds
  BY EntryAtWork
<1>2. CASE executed = 0
  <2>1. Return(o, "entry_visibility_pending")
    BY <1>1, <1>2 DEF AfterEntry
  <2>2. Justified(r, "entry_visibility_pending")
    BY DEF Justified
  <2> QED BY <1>1, <2>1, <2>2, ReturnAccount
<1>3. CASE executed # 0 /\ executed = r.qty
  <2> DEFINE m == PlaceAlgo("gcs", r.id, executed)
  <2>1. Send(o, "stop", m, executed, FALSE)
    BY <1>3 DEF AfterEntry
  <2>2. m \in Sendable /\ m.type = "algo"
    BY <1>1, SendableShapes DEF PlaceAlgo
  <2> HIDE DEF m
  <2>3. Pending(r) => Knows(r, "stop", executed) /\ Reports(r, "stop", m, 0)
    BY <1>1, <1>3, EntryKnows DEF Reports
  <2>4. m.type # "market" /\ m.type # "cancel"
    BY <2>2
  <2> QED BY <1>1, <2>1, <2>2, <2>3, <2>4, SendAccount
<1>4. CASE executed # 0 /\ executed # r.qty
  <2>1. Flatten(o, executed)
    BY <1>4 DEF AfterEntry
  <2> QED BY <1>4, <2>1, FlattenAccount
<1> QED BY <1>2, <1>3, <1>4

(* Every step of an entry's coordinator keeps the account.                  *)
LEMMA EntryWorkAccount ==
    ASSUME Typed, Account, NEW o \in Orchestrators, EntryWork(o)
    PROVE  Account'
<1> DEFINE at == call[o].at
           qty == call[o].qty
           payload == call[o].payload
<1>1. UNCHANGED venue /\ at \in EntryAwaits
  BY DEF EntryWork, EntrySubmitted, EntryLookedUp, StopSubmitted, StopLookedUp, TargetSubmitted,
         TargetLookedUp, FlattenSubmitted, FlattenLookedUp, ReconcileEntry, ReconcileStop,
         Awaiting, EntryAwaits
<1>2. PICK r \in Requests : r = Request(o)
  BY <1>1, EntryAtWork
<1>3. /\ at # "none" /\ r.kind = "protected_entry" /\ qty \in Nat /\ payload \in Nat
      /\ ClientId("gce", r.id) \in OrderIds /\ ClientId("gcf", r.id) \in OrderIds
      /\ ClientId("gct", r.id) \in AlgoIds
  BY <1>1, <1>2, EntryAtWork
<1>4. Pending(r) =>
         /\ pos + FilledFor("gcf", r) <= Entry(r).filled /\ pos <= Entry(r).filled
         /\ Entry(r).filled <= Entry(r).qty
         /\ pos \in Nat /\ Entry(r).filled \in Nat /\ Entry(r).qty \in Nat
         /\ FilledFor("gcf", r) \in Nat
         /\ Knows(r, at, qty) /\ Reports(r, at, call[o].sent, payload)
  BY <1>1, <1>2, EntryFacts
<1>5. Pending(r) /\ at \notin {"entry", "entry_lookup", "re_entry"} =>
         qty = Entry(r).filled /\ Entry(r).qty > 0
  BY <1>1, <1>4 DEF Knows
<1>6. Pending(r) /\ at \in {"target", "target_lookup", "re_target"} =>
         Guarded(ClientId("gcs", r.id))
  BY <1>4 DEF Knows
<1>7. ASSUME NEW result, Return(o, result),
             Pending(r) => Justified(r, result)
      PROVE  Account'
  BY <1>1, <1>2, <1>3, <1>7, ReturnAccount
<1>8. ASSUME NEW next \in EntryAwaits \ {"entry", "flatten"}, NEW n \in Nat,
             Look(o, next, n, FALSE),
             Pending(r) /\ next # "entry_lookup" => n = Entry(r).filled /\ Entry(r).qty > 0,
             Pending(r) /\ next \in {"target_lookup", "re_target", "target"} =>
                 Guarded(ClientId("gcs", r.id))
      PROVE  Account'
  <2>1. Pending(r) => Knows(r, next, n)
    BY <1>3, <1>8, EntryKnows
  <2>2. next \notin {"entry", "flatten", "reduction", "close"}
    BY <1>8 DEF EntryAwaits
  <2> QED BY <1>1, <1>2, <1>3, <1>8, <2>1, <2>2, LookAccount
<1>9. {"entry_lookup", "stop_lookup", "target_lookup", "flatten_lookup", "re_stop",
       "re_flatten", "re_target"} \subseteq EntryAwaits \ {"entry", "flatten"}
  BY DEF EntryAwaits
<1>10. ASSUME NEW executed \in LookupOrder(ClientId("gce", r.id))
       PROVE  /\ executed \in Nat
              /\ Pending(r) /\ executed # 0 => executed = Entry(r).filled /\ Entry(r).qty > 0
  <2>1. executed \in Nat /\ (executed = 0 \/ executed = Entry(r).filled)
    BY <1>3, OrderAnswers DEF Typed, Entry
  <2> QED BY <1>4, <2>1
<1>11. \A result \in {"entry_visibility_pending", "rejected_before_exposure",
                      "open_protected_target_pending", "emergency_flatten_pending"} :
          Justified(r, result)
  BY DEF Justified
<1>12. TRUE \in LookupAlgo(ClientId("gcs", r.id), qty) /\ Pending(r)
          /\ at \notin {"entry", "entry_lookup", "re_entry"} =>
             Guarded(ClientId("gcs", r.id))
  <2>1. TRUE \in LookupAlgo(ClientId("gcs", r.id), qty) =>
           algos[ClientId("gcs", r.id)] = [qty |-> qty, status |-> "active"]
    BY AlgoAnswers
  <2> QED BY <1>4, <1>5, <2>1 DEF Guarded
<1>13. \A id, n : LookupAlgo(id, n) \subseteq BOOLEAN
  BY AlgoAnswers
<1>14. CASE EntrySubmitted(o)
  <2>1. at = "entry"
    BY <1>14 DEF EntrySubmitted, Awaiting
  <2>2. Pending(r) /\ payload # 0 => payload = Entry(r).filled /\ Entry(r).qty > 0
    BY <1>4, <2>1 DEF Reports
  <2>3. \/ Return(o, "rejected_before_exposure")
        \/ AfterEntry(o, payload)
        \/ Look(o, "entry_lookup", 0, FALSE)
    BY <1>14 DEF EntrySubmitted
  <2>4. CASE AfterEntry(o, payload)
    BY <1>1, <1>2, <1>3, <2>2, <2>4, AfterEntryAccount
  <2> HIDE DEF at, qty, payload
  <2> QED BY <1>7, <1>8, <1>9, <1>11, <2>3, <2>4
<1>15. CASE EntryLookedUp(o)
  <2>1. PICK executed \in LookupOrder(ClientId("gce", r.id)) : AfterEntry(o, executed)
    BY <1>2, <1>15 DEF EntryLookedUp
  <2> QED BY <1>1, <1>2, <1>10, <2>1, AfterEntryAccount
<1>16. ASSUME Flatten(o, qty), at \notin {"entry", "entry_lookup", "re_entry"} PROVE Account'
  BY <1>1, <1>2, <1>3, <1>5, <1>16, FlattenAccount
<1>17. CASE StopSubmitted(o)
  <2>1. at = "stop" /\ (Flatten(o, qty) \/ Look(o, "stop_lookup", qty, FALSE))
    BY <1>17 DEF StopSubmitted, Awaiting
  <2> HIDE DEF at, qty
  <2> QED BY <1>3, <1>5, <1>8, <1>9, <1>16, <2>1
<1>18. CASE StopLookedUp(o)
  <2> DEFINE m == PlaceAlgo("gct", r.id, qty)
  <2>1. PICK proven \in LookupAlgo(ClientId("gcs", r.id), qty) :
           IF proven THEN Send(o, "target", m, qty, FALSE) ELSE Flatten(o, qty)
    BY <1>2, <1>18 DEF StopLookedUp
  <2>2. at = "stop_lookup"
    BY <1>18 DEF StopLookedUp, Awaiting
  <2>3. CASE proven
    <3>1. Send(o, "target", m, qty, FALSE)
      BY <2>1, <2>3
    <3>2. m \in Sendable /\ m.type = "algo"
      BY <1>3, SendableShapes DEF PlaceAlgo
    <3>3. TRUE \in LookupAlgo(ClientId("gcs", r.id), qty)
      BY <1>13, <2>3
    <3> HIDE DEF m
    <3>4. Pending(r) => Knows(r, "target", qty) /\ Reports(r, "target", m, 0)
      BY <1>3, <1>5, <1>12, <2>2, <3>3, EntryKnows DEF Reports
    <3>5. m.type # "market" /\ m.type # "cancel"
      BY <3>2
    <3> QED BY <1>1, <1>2, <1>3, <3>1, <3>2, <3>4, <3>5, SendAccount
  <2>4. CASE ~proven
    BY <1>16, <2>1, <2>2, <2>4
  <2> QED BY <2>3, <2>4
<1>19. CASE TargetSubmitted(o)
  <2>1. /\ at = "target"
        /\ \/ Return(o, "open_protected_target_pending")
           \/ Look(o, "target_lookup", qty, FALSE)
    BY <1>19 DEF TargetSubmitted, Awaiting
  <2> HIDE DEF at, qty
  <2> QED BY <1>3, <1>5, <1>6, <1>7, <1>8, <1>9, <1>11, <2>1
<1>20. CASE TargetLookedUp(o)
  <2>1. /\ at \in {"target_lookup", "re_target"}
        /\ Return(o, "open_protected") \/ Return(o, "open_protected_target_pending")
    BY <1>20 DEF TargetLookedUp
  <2>2. Pending(r) => Justified(r, "open_protected")
    BY <1>5, <1>6, <2>1 DEF Justified
  <2> QED BY <1>7, <1>11, <2>1, <2>2
<1>21. CASE FlattenSubmitted(o)
  <2>1. /\ at = "flatten"
        /\ \/ Return(o, "emergency_flatten_pending")
           \/ payload = qty /\ Return(o, "emergency_flatten_confirmed")
           \/ Look(o, "flatten_lookup", qty, FALSE)
    BY <1>21 DEF FlattenSubmitted, Awaiting
  <2>2. Pending(r) /\ payload = qty => pos = 0
    <3>1. Pending(r) => pos + payload <= Entry(r).filled
      BY <1>4, <2>1 DEF Reports
    <3> HIDE DEF at, qty, payload
    <3> QED BY <1>3, <1>4, <1>5, <2>1, <3>1
  <2>3. Pending(r) /\ payload = qty => Justified(r, "emergency_flatten_confirmed")
    BY <1>5, <2>1, <2>2 DEF Justified
  <2> HIDE DEF at, qty, payload
  <2> QED BY <1>3, <1>5, <1>7, <1>8, <1>9, <1>11, <2>1, <2>3
<1>22. CASE FlattenLookedUp(o)
  <2>1. at \in {"flatten_lookup", "re_flatten"}
    BY <1>22 DEF FlattenLookedUp
  <2>2. PICK executed \in LookupOrder(ClientId("gcf", r.id)) :
           \/ executed = qty /\ Return(o, "emergency_flatten_confirmed")
           \/ Return(o, "emergency_flatten_pending")
    BY <1>2, <1>22 DEF FlattenLookedUp, FlattenProven
  <2>3. executed \in Nat /\ executed <= FilledFor("gcf", r)
    BY <1>3, OrderAnswers DEF Typed, FilledFor
  <2>4. Pending(r) /\ executed = qty => pos = 0 /\ Entry(r).qty > 0
    <3> HIDE DEF at, qty, payload
    <3> QED BY <1>3, <1>4, <1>5, <2>1, <2>3
  <2>5. Pending(r) /\ executed = qty => Justified(r, "emergency_flatten_confirmed")
    BY <2>4 DEF Justified
  <2> QED BY <1>7, <1>11, <2>2, <2>5
<1>23. CASE ReconcileEntry(o)
  <2>1. PICK executed \in LookupOrder(ClientId("gce", r.id)) :
           \/ executed = 0 /\ Return(o, "entry_visibility_pending")
           \/ executed # 0 /\ Look(o, "re_stop", executed, FALSE)
           \/ executed # 0 /\ Look(o, "re_flatten", executed, FALSE)
    <3>1. r.qty # 0
      BY <1>1, <1>2, EntryAtWork
    <3> QED BY <1>2, <1>23, <3>1 DEF ReconcileEntry
  <2> QED BY <1>7, <1>8, <1>9, <1>10, <1>11, <2>1
<1>24. CASE ReconcileStop(o)
  <2>1. at = "re_stop"
    BY <1>24 DEF ReconcileStop, Awaiting
  <2>2. PICK proven \in LookupAlgo(ClientId("gcs", r.id), qty) :
           IF proven THEN Look(o, "re_target", qty, FALSE) ELSE Look(o, "re_flatten", qty, FALSE)
    BY <1>2, <1>24 DEF ReconcileStop
  <2>3. CASE proven
    <3>1. TRUE \in LookupAlgo(ClientId("gcs", r.id), qty)
      BY <1>13, <2>3
    <3> HIDE DEF at, qty, payload
    <3> QED BY <1>3, <1>5, <1>8, <1>9, <1>12, <2>1, <2>2, <2>3, <3>1
  <2>4. CASE ~proven
    <3> HIDE DEF at, qty, payload
    <3> QED BY <1>3, <1>5, <1>8, <1>9, <2>1, <2>2, <2>4
  <2> QED BY <2>3, <2>4
<1> QED BY <1>14, <1>15, <1>17, <1>18, <1>19, <1>20, <1>21, <1>22, <1>23, <1>24 DEF EntryWork

-----------------------------------------------------------------------------
(* The coordinators of a revision and of a close at work. *)

(* The pair the request found is no longer needed.                          *)
Relieved(r) ==
    /\ r.kind = "protection_revision" =>
          pos <= r.current.qty - r.reduction /\ Guarded(ClientId("grs", r.id))
    /\ r.kind = "owned_position_close" => pos = 0

(* What they may rely on while their request is the pending one.            *)
LEMMA ManagementFacts ==
    ASSUME Typed, Account, NEW o \in Orchestrators, call[o].at \in RevisionAwaits \cup CloseAwaits,
           NEW r \in Requests, r = Request(o), Pending(r)
    PROVE  /\ pos \in Nat /\ r.current.qty \in Nat /\ pos <= r.current.qty
           /\ r.kind = "protection_revision" =>
                 /\ r.reduction \in Nat /\ FilledFor("gcr", r) \in Nat
                 /\ pos + FilledFor("gcr", r) <= r.current.qty
           /\ r.kind = "owned_position_close" =>
                 /\ FilledFor("gpc", r) \in Nat
                 /\ pos + FilledFor("gpc", r) <= r.current.qty
           /\ Knows(r, call[o].at, call[o].qty)
           /\ Reports(r, call[o].at, call[o].sent, call[o].payload)
<1>1. call[o].at # "none" /\ r.kind \in {"protection_revision", "owned_position_close"}
  BY ManagementAtWork
<1>2. Learnt(r, call[o]) /\ AccountedTo(r)
  BY <1>1, UnderwayOwns DEF Account, Accounted
<1>3. CASE r.kind = "protection_revision"
  <2>1. /\ pos \in Nat /\ r.current.qty \in Nat /\ r.reduction \in Nat
        /\ FilledFor("gcr", r) \in Nat
    BY <1>3, QuantityShapes DEF Typed
  <2>2. pos + FilledFor("gcr", r) <= r.current.qty
    BY <1>2, <1>3 DEF AccountedTo
  <2>3. pos <= r.current.qty
    BY <2>1, <2>2
  <2> QED BY <1>2, <1>3, <2>1, <2>2, <2>3 DEF Learnt
<1>4. CASE r.kind = "owned_position_close"
  <2>1. pos \in Nat /\ r.current.qty \in Nat /\ FilledFor("gpc", r) \in Nat
    BY <1>4, QuantityShapes DEF Typed
  <2>2. pos + FilledFor("gpc", r) <= r.current.qty
    BY <1>2, <1>4 DEF AccountedTo
  <2>3. pos <= r.current.qty
    BY <2>1, <2>2
  <2> QED BY <1>2, <1>4, <2>1, <2>2, <2>3 DEF Learnt
<1> QED BY <1>1, <1>3, <1>4

(* What they must know for their next call.                                 *)
LEMMA ManagementKnows ==
    ASSUME NEW r, NEW at, NEW qty, at \in RevisionAwaits \cup CloseAwaits,
           r.kind = "protection_revision" /\ at \in NewStopAwaits \cup NewTargetAwaits =>
               pos <= r.current.qty - r.reduction,
           r.kind = "protection_revision" /\ at \in NewTargetAwaits =>
               Guarded(ClientId("grs", r.id)),
           at \in CleanupAwaits => Relieved(r)
    PROVE  Knows(r, at, qty)
<1>1. at \notin EntryAwaits
  BY DEF EntryAwaits, RevisionAwaits, CloseAwaits, NewStopAwaits, NewTargetAwaits, CleanupAwaits
<1>2. at \notin {"target", "target_lookup", "re_target"}
  BY <1>1 DEF EntryAwaits
<1> QED BY <1>1, <1>2 DEF Knows, Relieved

(* The replacement stop is sent: no more is left than it will protect.      *)
LEMMA NewStopAccount ==
    ASSUME Typed, Account, NEW o \in Orchestrators, call[o].at \in RevisionAwaits, UNCHANGED venue,
           NEW r \in Requests, r = Request(o), r.kind = "protection_revision", NewStop(o),
           Pending(r) => pos <= r.current.qty - r.reduction
    PROVE  Account'
<1> DEFINE m == PlaceAlgo("grs", r.id, Remaining(o))
<1>1. /\ call[o].at # "none" /\ ClientId("grs", r.id) \in AlgoIds /\ Remaining(o) \in Nat
  BY ManagementAtWork
<1>2. m \in Sendable /\ m.type = "algo"
  BY <1>1, SendableShapes DEF PlaceAlgo
<1>3. Send(o, "new_stop", m, 0, FALSE)
  BY DEF NewStop
<1> HIDE DEF m
<1>4. "new_stop" \in RevisionAwaits \cup CloseAwaits /\ "new_stop" \notin NewTargetAwaits
      /\ "new_stop" \notin CleanupAwaits
  BY DEF RevisionAwaits, NewStopAwaits, NewTargetAwaits, CleanupAwaits
<1>5. Pending(r) => Knows(r, "new_stop", 0) /\ Reports(r, "new_stop", m, 0)
  BY <1>4, ManagementKnows DEF Reports
<1>6. m.type # "market" /\ m.type # "cancel"
  BY <1>2
<1> QED BY <1>1, <1>2, <1>3, <1>5, <1>6, SendAccount

(* A cancellation of the pair that is no longer needed is sent.             *)
LEMMA CancelAccount ==
    ASSUME Typed, Account, NEW o \in Orchestrators, call[o].at \in RevisionAwaits \cup CloseAwaits,
           UNCHANGED venue, NEW r \in Requests, r = Request(o), NEW ok,
           \/ CancelTarget(o)
           \/ Send(o, "cancel_stop", Cancel(Current(o).stop), 0, ok),
           Pending(r) => Relieved(r)
    PROVE  Account'
<1>1. /\ call[o].at # "none" /\ r.kind \in {"protection_revision", "owned_position_close"}
      /\ r.current.stop \in AlgoIds /\ r.current.target \in AlgoIds
      /\ r.current.target \in TargetIds
      /\ Current(o) = r.current
  BY ManagementAtWork DEF Current
<1>2. Pending(r) => pos = 0 \/ (r.kind = "protection_revision" /\ Guarded(ClientId("grs", r.id)))
  BY <1>1 DEF Relieved
<1>3. r.current.target \notin StopIds
  BY <1>1 DEF TargetIds, StopIds
<1>4. ASSUME NEW id, id \in {r.current.stop, r.current.target},
             NEW at \in {"cancel_target", "cancel_stop"}, NEW b, Send(o, at, Cancel(id), 0, b)
      PROVE  Account'
  <2>1. PICK m : m = Cancel(id)
    OBVIOUS
  <2>2. m \in Sendable /\ m.type = "cancel" /\ m.id = id
    BY <1>1, <1>4, <2>1, SendableShapes
  <2>3. at \in RevisionAwaits \cup CloseAwaits
        /\ at \notin NewStopAwaits \cup NewTargetAwaits
    BY DEF RevisionAwaits, NewStopAwaits, NewTargetAwaits, CleanupAwaits
  <2>4. Pending(r) => Knows(r, at, 0)
    BY <2>3, ManagementKnows
  <2>5. Reports(r, at, m, 0)
    BY DEF Reports
  <2>6. m.type # "market" /\ r.kind # "protected_entry"
    BY <1>1, <2>2
  <2>7. m.id \in StopIds => m.id = r.current.stop
    BY <1>3, <1>4, <2>2
  <2> QED BY <1>1, <1>2, <1>4, <2>1, <2>2, <2>4, <2>5, <2>6, <2>7, SendAccount
<1> QED BY <1>1, <1>4 DEF CancelTarget

(* A reduction or a close is sent for no more than the position.            *)
LEMMA ReduceAccount ==
    ASSUME Typed, Account, NEW o \in Orchestrators, call[o].at \in RevisionAwaits \cup CloseAwaits,
           UNCHANGED venue, NEW r \in Requests, r = Request(o), NEW qty \in Nat,
           \/ /\ r.kind = "protection_revision"
              /\ Send(o, "reduction", Market("gcr", r.id, qty, TRUE), 0, FALSE)
           \/ /\ r.kind = "owned_position_close"
              /\ Send(o, "close", Market("gpc", r.id, qty, TRUE), 0, FALSE)
    PROVE  Account'
<1>1. PICK role, at :
         /\ \/ r.kind = "protection_revision" /\ role = "gcr" /\ at = "reduction"
            \/ r.kind = "owned_position_close" /\ role = "gpc" /\ at = "close"
         /\ Send(o, at, Market(role, r.id, qty, TRUE), 0, FALSE)
  OBVIOUS
<1>2. PICK m : m = Market(role, r.id, qty, TRUE)
  OBVIOUS
<1>3. call[o].at # "none" /\ ClientId(role, r.id) \in OrderIds
  BY <1>1, ManagementAtWork
<1>4. /\ m \in Sendable /\ m.type = "market" /\ m.id = ClientId(role, r.id)
      /\ m.id[1] = role /\ m.id[2] = r.id /\ m.reduceOnly = TRUE
  BY <1>2, <1>3, SendableShapes DEF Market, ClientId
<1>5. Pending(r) => Knows(r, at, 0) /\ Reports(r, at, m, 0)
  <2>1. Pending(r) => pos + 0 <= r.current.qty
    BY ManagementFacts
  <2>2. /\ at \in RevisionAwaits \cup CloseAwaits
        /\ at \notin NewStopAwaits \cup NewTargetAwaits \cup CleanupAwaits
    BY <1>1 DEF RevisionAwaits, CloseAwaits, NewStopAwaits, NewTargetAwaits, CleanupAwaits
  <2>3. Knows(r, at, 0)
    BY <2>2, ManagementKnows
  <2>4. Pending(r) => Reports(r, at, m, 0)
    BY <1>1, <1>4, <2>1 DEF Reports
  <2> QED BY <2>3, <2>4
<1>6. role # "gce"
  BY <1>1
<1> QED BY <1>1, <1>2, <1>3, <1>4, <1>5, <1>6, SendAccount

(* A manager reports what it has cleaned up.                                *)
LEMMA CleanedUpAccount ==
    ASSUME Typed, Account, NEW o \in Orchestrators, call[o].at \in RevisionAwaits \cup CloseAwaits,
           UNCHANGED venue, NEW r \in Requests, r = Request(o), NEW complete \in BOOLEAN,
           CleanedUp(o, complete), Pending(r) => Relieved(r)
    PROVE  Account'
<1>1. call[o].at # "none" /\ r.kind \in {"protection_revision", "owned_position_close"}
  BY ManagementAtWork
<1>2. PICK result :
         /\ Return(o, result)
         /\ \/ /\ r.kind = "protection_revision"
               /\ result \in {"revision_protected", "revision_protected_cleanup_pending"}
            \/ r.kind = "owned_position_close" /\ result \in {"closed", "closed_cleanup_pending"}
  BY <1>1 DEF CleanedUp, Revising
<1>3. Pending(r) => Justified(r, result)
  BY <1>2 DEF Relieved, Justified
<1> QED BY <1>1, <1>2, <1>3, ReturnAccount

(* Every step of a manager keeps the account.                               *)
LEMMA ManagementWorkAccount ==
    ASSUME Typed, Account, NEW o \in Orchestrators, ManagementWork(o)
    PROVE  Account'
<1> DEFINE at == call[o].at
           payload == call[o].payload
           A == RevisionAwaits \cup CloseAwaits
<1>1. UNCHANGED venue /\ at \in A
  BY DEF ManagementWork, CurrentStopLookedUp, CurrentTargetLookedUp, ReductionSubmitted,
         ReductionLookedUp, NewStopSubmitted, NewStopLookedUp, NewTargetSubmitted,
         NewTargetLookedUp, CloseSubmitted, CloseLookedUp, TargetCancelled, StopCancelled,
         ReconcileReduction, ReconcileNewStop, ReconcileNewTarget, ReconcileClose,
         ReconcileCleanup, Awaiting, RevisionAwaits, CloseAwaits, NewStopAwaits,
         NewTargetAwaits, CleanupAwaits
<1>2. PICK r \in Requests : r = Request(o)
  BY <1>1, ManagementAtWork
<1>3. /\ at # "none" /\ call[o].ok \in BOOLEAN /\ payload \in Nat
      /\ Current(o) = r.current /\ r.current.qty \in Nat
      /\ r.kind \in {"protection_revision", "owned_position_close"}
      /\ Revising(o) <=> r.kind = "protection_revision"
  BY <1>1, <1>2, ManagementAtWork DEF Current
<1>4. r.kind = "protection_revision" =>
         /\ r.reduction \in Nat /\ Remaining(o) = r.current.qty - r.reduction
         /\ Remaining(o) \in Nat
         /\ ClientId("gcr", r.id) \in OrderIds /\ ClientId("grt", r.id) \in AlgoIds
  BY <1>1, <1>2, ManagementAtWork DEF Remaining, Current
<1>5. r.kind = "owned_position_close" => ClientId("gpc", r.id) \in OrderIds
  BY <1>1, <1>2, ManagementAtWork
<1>6. Pending(r) =>
         /\ pos \in Nat /\ pos <= r.current.qty
         /\ r.kind = "protection_revision" =>
               FilledFor("gcr", r) \in Nat /\ pos + FilledFor("gcr", r) <= r.current.qty
         /\ r.kind = "owned_position_close" =>
               FilledFor("gpc", r) \in Nat /\ pos + FilledFor("gpc", r) <= r.current.qty
         /\ Knows(r, at, call[o].qty) /\ Reports(r, at, call[o].sent, payload)
  BY <1>1, <1>2, ManagementFacts
<1>7. Pending(r) /\ r.kind = "protection_revision" /\ at \in NewStopAwaits \cup NewTargetAwaits =>
         pos <= r.current.qty - r.reduction
  BY <1>6 DEF Knows
<1>8. Pending(r) /\ r.kind = "protection_revision" /\ at \in NewTargetAwaits =>
         Guarded(ClientId("grs", r.id))
  BY <1>6 DEF Knows
<1>9. Pending(r) /\ at \in CleanupAwaits => Relieved(r)
  BY <1>6 DEF Knows, Relieved
<1>10. at \in RevisionAwaits \ CloseAwaits => r.kind = "protection_revision"
  BY <1>2, <1>3, Underway
<1>11. at \in CloseAwaits \ RevisionAwaits => r.kind = "owned_position_close"
  BY <1>2, <1>3, Underway
<1>12. /\ {"reduction", "reduction_lookup", "re_reduction"} \subseteq RevisionAwaits \ CloseAwaits
       /\ NewStopAwaits \subseteq RevisionAwaits \ CloseAwaits
       /\ NewTargetAwaits \subseteq RevisionAwaits \ CloseAwaits
       /\ {"close", "close_lookup", "re_close"} \subseteq CloseAwaits \ RevisionAwaits
       /\ CleanupAwaits \subseteq A
  BY DEF RevisionAwaits, CloseAwaits, NewStopAwaits, NewTargetAwaits, CleanupAwaits
<1>13. ASSUME NEW result, Return(o, result),
              Pending(r) => Justified(r, result)
       PROVE  Account'
  BY <1>1, <1>2, <1>3, <1>13, ReturnAccount
<1>14. \A result \in {"current_protection_not_proven", "owned_protection_not_proven",
                      "reduction_rejected", "reduction_visibility_pending",
                      "replacement_stop_pending", "replacement_target_pending",
                      "close_visibility_pending"} : Justified(r, result)
  BY DEF Justified
<1>15. ASSUME NEW next \in A \ {"reduction", "close"}, NEW ok, Look(o, next, 0, ok),
              Pending(r) /\ r.kind = "protection_revision"
                 /\ next \in NewStopAwaits \cup NewTargetAwaits =>
                  pos <= r.current.qty - r.reduction,
              Pending(r) /\ r.kind = "protection_revision" /\ next \in NewTargetAwaits =>
                  Guarded(ClientId("grs", r.id)),
              Pending(r) /\ next \in CleanupAwaits => Relieved(r)
       PROVE  Account'
  <2>1. Pending(r) => Knows(r, next, 0)
    BY <1>15, ManagementKnows
  <2>2. next \notin {"entry", "flatten", "reduction", "close"}
    BY <1>15 DEF RevisionAwaits, CloseAwaits, NewStopAwaits, NewTargetAwaits, CleanupAwaits
  <2> HIDE DEF at
  <2> QED BY <1>1, <1>2, <1>3, <1>15, <2>1, <2>2, LookAccount DEF at
<1>16. ASSUME NewStop(o), at \in RevisionAwaits, r.kind = "protection_revision",
              Pending(r) => pos <= r.current.qty - r.reduction
       PROVE  Account'
  BY <1>1, <1>2, <1>16, NewStopAccount
<1>17. ASSUME NEW ok,
              CancelTarget(o) \/ Send(o, "cancel_stop", Cancel(Current(o).stop), 0, ok),
              Pending(r) => Relieved(r)
       PROVE  Account'
  BY <1>1, <1>2, <1>17, CancelAccount
<1>18. ASSUME NEW complete \in BOOLEAN, CleanedUp(o, complete), Pending(r) => Relieved(r)
       PROVE  Account'
  BY <1>1, <1>2, <1>18, CleanedUpAccount
<1>19. \A id, n : LookupAlgo(id, n) \subseteq BOOLEAN
  BY AlgoAnswers
<1>20. \A id : LookupCanceled(id) \subseteq BOOLEAN /\ LookupGone(id) \subseteq BOOLEAN
  BY AlgoAnswers
<1>21. r.kind = "protection_revision" /\ TRUE \in LookupAlgo(ClientId("grs", r.id), Remaining(o))
          /\ Pending(r) /\ at \in NewStopAwaits =>
             Guarded(ClientId("grs", r.id))
  <2>1. TRUE \in LookupAlgo(ClientId("grs", r.id), Remaining(o)) =>
           algos[ClientId("grs", r.id)] = [qty |-> Remaining(o), status |-> "active"]
    BY AlgoAnswers
  <2> QED BY <1>4, <1>7, <2>1 DEF Guarded
<1>22. ASSUME r.kind = "protection_revision",
              NEW executed \in LookupOrder(ClientId("gcr", r.id)), executed = r.reduction
       PROVE  Pending(r) => pos <= r.current.qty - r.reduction
  <2>1. executed \in Nat /\ executed <= FilledFor("gcr", r)
    BY <1>4, <1>22, OrderAnswers DEF Typed, FilledFor
  <2> HIDE DEF at, payload
  <2> QED BY <1>3, <1>4, <1>6, <1>22, <2>1
<1>23. ASSUME r.kind = "owned_position_close",
              NEW executed \in LookupOrder(ClientId("gpc", r.id)), executed = r.current.qty
       PROVE  Pending(r) => Relieved(r)
  <2>1. executed \in Nat /\ executed <= FilledFor("gpc", r)
    BY <1>5, <1>23, OrderAnswers DEF Typed, FilledFor
  <2>2. Pending(r) => pos = 0
    <3> HIDE DEF at, payload
    <3> QED BY <1>3, <1>6, <1>23, <2>1
  <2> QED BY <1>23, <2>2 DEF Relieved
<1>24. CASE CurrentStopLookedUp(o)
  <2>1. PICK proven : Look(o, "current_target", 0, proven)
    BY <1>24 DEF CurrentStopLookedUp
  <2>2. /\ "current_target" \in A \ {"reduction", "close"}
        /\ "current_target" \notin NewStopAwaits \cup NewTargetAwaits \cup CleanupAwaits
    BY DEF RevisionAwaits, NewStopAwaits, NewTargetAwaits, CleanupAwaits
  <2> QED BY <1>15, <2>1, <2>2
<1>25. CASE CurrentTargetLookedUp(o)
  <2>1. at = "current_target"
    BY <1>25 DEF CurrentTargetLookedUp, Awaiting
  <2>2. \/ Return(o, "current_protection_not_proven")
        \/ Return(o, "owned_protection_not_proven")
        \/ ~Revising(o) /\ Send(o, "close", Market("gpc", r.id, r.current.qty, TRUE), 0, FALSE)
        \/ Revising(o) /\ r.reduction = 0 /\ NewStop(o)
        \/ Revising(o) /\ Send(o, "reduction", Market("gcr", r.id, r.reduction, TRUE), 0, FALSE)
    BY <1>2, <1>3, <1>19, <1>25 DEF CurrentTargetLookedUp
  <2>3. CASE ~Revising(o) /\ Send(o, "close", Market("gpc", r.id, r.current.qty, TRUE), 0, FALSE)
    BY <1>1, <1>2, <1>3, <2>3, ReduceAccount
  <2>4. CASE Revising(o) /\ r.reduction = 0 /\ NewStop(o)
    <3>1. at \in RevisionAwaits
      BY <2>1 DEF RevisionAwaits
    <3>2. Pending(r) => pos <= r.current.qty - r.reduction
      BY <1>3, <1>6, <2>4
    <3> QED BY <1>3, <1>16, <2>4, <3>1, <3>2
  <2>5. CASE Revising(o) /\ Send(o, "reduction", Market("gcr", r.id, r.reduction, TRUE), 0, FALSE)
    BY <1>1, <1>2, <1>3, <1>4, <2>5, ReduceAccount
  <2> QED BY <1>13, <1>14, <2>2, <2>3, <2>4, <2>5
<1>26. "reduction_lookup" \in A \ {"reduction", "close"}
       /\ "reduction_lookup" \notin NewStopAwaits \cup NewTargetAwaits \cup CleanupAwaits
  BY DEF RevisionAwaits, NewStopAwaits, NewTargetAwaits, CleanupAwaits
<1>27. CASE ReductionSubmitted(o)
  <2>1. /\ at = "reduction"
        /\ \/ Return(o, "reduction_rejected")
           \/ payload = r.reduction /\ NewStop(o)
           \/ Look(o, "reduction_lookup", 0, FALSE)
    BY <1>2, <1>27 DEF ReductionSubmitted, Awaiting
  <2>2. r.kind = "protection_revision" /\ at \in RevisionAwaits
    BY <1>10, <1>12, <2>1
  <2>3. Pending(r) /\ payload = r.reduction => pos <= r.current.qty - r.reduction
    <3>1. Pending(r) => pos + payload <= r.current.qty
      BY <1>6, <2>1 DEF Reports
    <3> HIDE DEF at, payload
    <3> QED BY <1>3, <1>4, <1>6, <2>2, <3>1
  <2> HIDE DEF at, payload, A
  <2> QED BY <1>13, <1>14, <1>15, <1>16, <1>26, <2>1, <2>2, <2>3
<1>28. CASE ReductionLookedUp(o)
  <2>1. at = "reduction_lookup"
    BY <1>28 DEF ReductionLookedUp, Awaiting
  <2>2. PICK executed \in LookupOrder(ClientId("gcr", r.id)) :
           \/ executed = r.reduction /\ NewStop(o)
           \/ Return(o, "reduction_visibility_pending")
    BY <1>2, <1>28 DEF ReductionLookedUp
  <2>3. r.kind = "protection_revision" /\ at \in RevisionAwaits
    BY <1>10, <1>12, <2>1
  <2> HIDE DEF at, payload, A
  <2> QED BY <1>13, <1>14, <1>16, <1>22, <2>2, <2>3
<1>29. CASE NewStopSubmitted(o)
  <2>1. /\ at = "new_stop"
        /\ Return(o, "replacement_stop_pending") \/ Look(o, "new_stop_lookup", 0, FALSE)
    BY <1>29 DEF NewStopSubmitted, Awaiting
  <2>2. /\ at \in NewStopAwaits /\ "new_stop_lookup" \in A \ {"reduction", "close"}
        /\ "new_stop_lookup" \notin NewTargetAwaits \cup CleanupAwaits
    BY <2>1 DEF RevisionAwaits, NewStopAwaits, NewTargetAwaits, CleanupAwaits
  <2> HIDE DEF at, payload, A
  <2> QED BY <1>7, <1>13, <1>14, <1>15, <2>1, <2>2
<1>30. CASE NewStopLookedUp(o)
  <2> DEFINE m == PlaceAlgo("grt", r.id, Remaining(o))
  <2>1. at = "new_stop_lookup" /\ at \in NewStopAwaits
    BY <1>30 DEF NewStopLookedUp, Awaiting, NewStopAwaits
  <2>2. r.kind = "protection_revision"
    BY <1>10, <1>12, <2>1
  <2>3. PICK proven \in LookupAlgo(ClientId("grs", r.id), Remaining(o)) :
           IF proven THEN Send(o, "new_target", m, 0, FALSE)
           ELSE Return(o, "replacement_stop_pending")
    BY <1>2, <1>30 DEF NewStopLookedUp
  <2>4. CASE proven
    <3>1. Send(o, "new_target", m, 0, FALSE)
      BY <2>3, <2>4
    <3>2. m \in Sendable /\ m.type = "algo"
      BY <1>4, <2>2, SendableShapes DEF PlaceAlgo
    <3>3. TRUE \in LookupAlgo(ClientId("grs", r.id), Remaining(o))
      BY <1>19, <2>4
    <3> HIDE DEF m
    <3>4. "new_target" \in RevisionAwaits \cup CloseAwaits /\ "new_target" \notin CleanupAwaits
      BY DEF RevisionAwaits, NewTargetAwaits, CleanupAwaits
    <3>5. Pending(r) => Knows(r, "new_target", 0)
      BY <1>7, <1>21, <2>1, <2>2, <3>3, <3>4, ManagementKnows
    <3>6. Reports(r, "new_target", m, 0)
      BY DEF Reports
    <3>7. m.type # "market" /\ m.type # "cancel"
      BY <3>2
    <3> QED BY <1>1, <1>2, <1>3, <3>1, <3>2, <3>5, <3>6, <3>7, SendAccount
  <2>5. CASE ~proven
    BY <1>13, <1>14, <2>3, <2>5
  <2> QED BY <2>4, <2>5
<1>31. CASE NewTargetSubmitted(o)
  <2>1. /\ at = "new_target"
        /\ Return(o, "replacement_target_pending") \/ Look(o, "new_target_lookup", 0, FALSE)
    BY <1>31 DEF NewTargetSubmitted, Awaiting
  <2>2. /\ at \in NewTargetAwaits /\ "new_target_lookup" \in A \ {"reduction", "close"}
        /\ "new_target_lookup" \notin CleanupAwaits
    BY <2>1 DEF RevisionAwaits, NewTargetAwaits, CleanupAwaits
  <2> HIDE DEF at, payload, A
  <2> QED BY <1>7, <1>8, <1>13, <1>14, <1>15, <2>1, <2>2
<1>32. Pending(r) /\ at \in NewTargetAwaits => Relieved(r)
  <2>1. at \in NewTargetAwaits => r.kind = "protection_revision"
    BY <1>10, <1>12
  <2> HIDE DEF at
  <2> QED BY <1>7, <1>8, <2>1 DEF Relieved
<1>33. CASE NewTargetLookedUp(o)
  <2>1. at \in NewTargetAwaits
    BY <1>33 DEF NewTargetLookedUp, Awaiting, NewTargetAwaits
  <2>2. CancelTarget(o) \/ Return(o, "replacement_target_pending")
    BY <1>33 DEF NewTargetLookedUp
  <2> HIDE DEF at
  <2> QED BY <1>13, <1>14, <1>17, <1>32, <2>1, <2>2
<1>34. CASE CloseSubmitted(o)
  <2>1. /\ at = "close"
        /\ \/ Return(o, "close_visibility_pending")
           \/ payload = r.current.qty /\ CancelTarget(o)
           \/ Look(o, "close_lookup", 0, FALSE)
    BY <1>3, <1>34 DEF CloseSubmitted, Awaiting
  <2>2. r.kind = "owned_position_close"
    BY <1>11, <1>12, <2>1
  <2>3. Pending(r) /\ payload = r.current.qty => Relieved(r)
    <3>1. Pending(r) => pos + payload <= r.current.qty
      BY <1>6, <2>1 DEF Reports
    <3>2. Pending(r) /\ payload = r.current.qty => pos = 0
      <4> HIDE DEF at, payload
      <4> QED BY <1>3, <1>6, <3>1
    <3> QED BY <2>2, <3>2 DEF Relieved
  <2>4. /\ "close_lookup" \in A \ {"reduction", "close"}
        /\ "close_lookup" \notin NewStopAwaits \cup NewTargetAwaits \cup CleanupAwaits
    BY DEF CloseAwaits, NewStopAwaits, NewTargetAwaits, CleanupAwaits
  <2> HIDE DEF at, payload, A
  <2> QED BY <1>13, <1>14, <1>15, <1>17, <2>1, <2>3, <2>4
<1>35. CASE CloseLookedUp(o)
  <2>1. at = "close_lookup"
    BY <1>35 DEF CloseLookedUp, Awaiting
  <2>2. PICK executed \in LookupOrder(ClientId("gpc", r.id)) :
           \/ executed = r.current.qty /\ CancelTarget(o)
           \/ Return(o, "close_visibility_pending")
    BY <1>2, <1>3, <1>35 DEF CloseLookedUp, AfterCloseLookup
  <2>3. r.kind = "owned_position_close"
    BY <1>11, <1>12, <2>1
  <2> HIDE DEF at, payload, A
  <2> QED BY <1>13, <1>14, <1>17, <1>23, <2>2, <2>3
<1>36. {"target_inspection", "stop_inspection", "re_target_gone", "re_stop_gone"}
          \subseteq (A \ {"reduction", "close"}) \ (NewStopAwaits \cup NewTargetAwaits)
  BY DEF CloseAwaits, NewStopAwaits, NewTargetAwaits, CleanupAwaits
<1>37. CASE TargetCancelled(o)
  <2>1. at \in CleanupAwaits
    BY <1>37 DEF TargetCancelled, Awaiting, CleanupAwaits
  <2>2. PICK ok : \/ Send(o, "cancel_stop", Cancel(Current(o).stop), 0, ok)
                  \/ Look(o, "target_inspection", 0, ok)
    BY <1>37 DEF TargetCancelled
  <2> HIDE DEF at, A
  <2> QED BY <1>9, <1>15, <1>17, <1>36, <2>1, <2>2
<1>38. CASE StopCancelled(o)
  <2>1. at \in CleanupAwaits
    BY <1>38 DEF StopCancelled, Awaiting, CleanupAwaits
  <2>2. \/ CleanedUp(o, call[o].ok)
        \/ Look(o, "stop_inspection", 0, call[o].ok)
        \/ \E gone \in LookupCanceled(Current(o).stop) : CleanedUp(o, call[o].ok /\ gone)
    BY <1>38 DEF StopCancelled
  <2>3. CASE CleanedUp(o, call[o].ok) \/ Look(o, "stop_inspection", 0, call[o].ok)
    <3> HIDE DEF at, A
    <3> QED BY <1>3, <1>9, <1>15, <1>18, <1>36, <2>1, <2>3
  <2>4. CASE \E gone \in LookupCanceled(Current(o).stop) : CleanedUp(o, call[o].ok /\ gone)
    <3>1. PICK complete \in BOOLEAN : CleanedUp(o, complete)
      BY <1>20, <2>4
    <3> HIDE DEF at, A
    <3> QED BY <1>9, <1>18, <2>1, <3>1
  <2> QED BY <2>2, <2>3, <2>4
<1>39. {"re_new_stop", "re_new_target"} \subseteq (A \ {"reduction", "close"}) \ CleanupAwaits
       /\ "re_new_stop" \in NewStopAwaits \ NewTargetAwaits
  BY DEF RevisionAwaits, NewStopAwaits, NewTargetAwaits, CleanupAwaits
<1>40. CASE ReconcileReduction(o)
  <2>1. at = "re_reduction"
    BY <1>40 DEF ReconcileReduction, Awaiting
  <2>2. PICK executed \in LookupOrder(ClientId("gcr", r.id)) :
           \/ executed = r.reduction /\ Look(o, "re_new_stop", 0, FALSE)
           \/ Return(o, "reduction_visibility_pending")
    BY <1>2, <1>40 DEF ReconcileReduction
  <2>3. r.kind = "protection_revision"
    BY <1>10, <1>12, <2>1
  <2> HIDE DEF at, payload, A
  <2> QED BY <1>13, <1>14, <1>15, <1>22, <1>39, <2>2, <2>3
<1>41. CASE ReconcileNewStop(o)
  <2>1. at \in NewStopAwaits
    BY <1>41 DEF ReconcileNewStop, Awaiting, NewStopAwaits
  <2>2. PICK proven \in LookupAlgo(ClientId("grs", r.id), Remaining(o)) :
           \/ proven /\ Look(o, "re_new_target", 0, FALSE)
           \/ Return(o, "replacement_stop_pending")
    BY <1>2, <1>41 DEF ReconcileNewStop
  <2>3. proven => TRUE \in LookupAlgo(ClientId("grs", r.id), Remaining(o))
    BY <1>19
  <2>4. r.kind = "protection_revision"
    BY <1>10, <1>12, <2>1
  <2> HIDE DEF at, payload, A
  <2> QED BY <1>7, <1>13, <1>14, <1>15, <1>21, <1>39, <2>1, <2>2, <2>3, <2>4
<1>42. CASE ReconcileNewTarget(o)
  <2>1. at \in NewTargetAwaits
    BY <1>42 DEF ReconcileNewTarget, Awaiting, NewTargetAwaits
  <2>2. Look(o, "re_target_gone", 0, FALSE) \/ Return(o, "replacement_target_pending")
    BY <1>42 DEF ReconcileNewTarget
  <2> HIDE DEF at, payload, A
  <2> QED BY <1>13, <1>14, <1>15, <1>32, <1>36, <2>1, <2>2
<1>43. CASE ReconcileClose(o)
  <2>1. at = "re_close"
    BY <1>43 DEF ReconcileClose, Awaiting
  <2>2. PICK executed \in LookupOrder(ClientId("gpc", r.id)) :
           \/ executed = r.current.qty /\ Look(o, "re_target_gone", 0, FALSE)
           \/ Return(o, "close_visibility_pending")
    BY <1>2, <1>3, <1>43 DEF ReconcileClose
  <2>3. r.kind = "owned_position_close"
    BY <1>11, <1>12, <2>1
  <2> HIDE DEF at, payload, A
  <2> QED BY <1>13, <1>14, <1>15, <1>23, <1>36, <2>2, <2>3
<1>44. CASE ReconcileCleanup(o)
  <2>1. at \in CleanupAwaits
    BY <1>44 DEF ReconcileCleanup, Awaiting, CleanupAwaits
  <2>2. \/ \E ok : Look(o, "re_stop_gone", 0, ok)
        \/ \E gone \in LookupGone(Current(o).stop) : CleanedUp(o, call[o].ok /\ gone)
    BY <1>44 DEF ReconcileCleanup
  <2>3. CASE \E ok : Look(o, "re_stop_gone", 0, ok)
    <3> HIDE DEF at, A
    <3> QED BY <1>9, <1>15, <1>36, <2>1, <2>3
  <2>4. CASE \E gone \in LookupGone(Current(o).stop) : CleanedUp(o, call[o].ok /\ gone)
    <3>1. PICK complete \in BOOLEAN : CleanedUp(o, complete)
      BY <1>20, <2>4
    <3> HIDE DEF at, A
    <3> QED BY <1>9, <1>18, <2>1, <3>1
  <2> QED BY <2>2, <2>3, <2>4
<1> QED BY <1>24, <1>25, <1>27, <1>28, <1>29, <1>30, <1>31, <1>33, <1>34, <1>35, <1>37, <1>38,
           <1>40, <1>41, <1>42, <1>43, <1>44
        DEF ManagementWork

-----------------------------------------------------------------------------
(* The account as an invariant. *)

(* Nothing is owned, and nothing known, before the first operation.         *)
LEMMA AccountInit == Init => Proper /\ Unsubmitted /\ Account
<1> SUFFICES ASSUME Init PROVE Proper /\ Unsubmitted /\ Account
  OBVIOUS
<1>1. /\ store.current = NONE /\ store.pending = NONE /\ pos = 0 /\ net = {}
      /\ submitted = [i \in Intents |-> 0]
      /\ \A o \in Orchestrators : orch[o].pc = "idle" /\ call[o].at = "none"
  BY NoCallTyped DEF Init, OrchInit, EmptyLedger, Idle
<1>2. \A r : ~Pending(r)
  BY <1>1 DEF Pending
<1>3. Accounted /\ MarketsOwned /\ CancelsSafe /\ Covered /\ Owned
  BY <1>1, <1>2 DEF Accounted, MarketsOwned, CancelsSafe, Covered, Owned
<1>4. Unsent
  BY DEF Init, Unsent
<1>5. Operating
  BY <1>1 DEF Operating, Operates
<1>6. Unsubmitted
  BY <1>1 DEF Unsubmitted, SubmittedOnce
<1> QED BY <1>3, <1>4, <1>5, <1>6, ProperInit DEF Account

(* Nothing happens.                                                         *)
LEMMA IdleAccount ==
    ASSUME Account, UNCHANGED vars
    PROVE  Account'
<1>1. UNCHANGED <<store, submitted, venue, orch, call, net>>
  BY DEF vars, venue
<1>2. Accounted' /\ Unsent' /\ Covered' /\ Owned' /\ MarketsOwned' /\ CancelsSafe'
  BY <1>1, AllStays DEF Account, MarketsOwned, CancelsSafe
<1>3. ASSUME NEW q \in Orchestrators PROVE Operates(orch[q], call[q])'
  <2>1. PICK p, d : p = orch'[q] /\ d = call'[q]
    OBVIOUS
  <2>2. Operates(p, d)
    BY <1>1, <2>1 DEF Account, Operating
  <2>3. Operates(p, d)'
    BY <1>1, <2>2, AllStays
  <2> QED BY <2>1, <2>3
<1> QED BY <1>2, <1>3 DEF Account, Operating

(* Every step keeps the account, if callers do not submit an intent again   *)
(* and an entry's rest does not stay at work in the market.                 *)
LEMMA AccountStep ==
    ASSUME ~Resubmission, "working" \notin Fills,
           Proper, Unsubmitted, Account, [Next]_vars
    PROVE  Proper' /\ Unsubmitted' /\ Account'
<1>1. Proper' /\ Typed /\ Typed'
  BY ProperStep DEF Proper
<1>2. Unsubmitted'
  BY ExecutionStep, UnsubmittedStep DEF Proper, Typed
<1> SUFFICES Account'
  BY <1>1, <1>2
<1>3. CASE UNCHANGED vars
  BY <1>3, IdleAccount
<1>4. CASE \E o \in Orchestrators :
              \/ \E r \in Requests : Submit(o, r)
              \/ StartEffect(o) \/ StartRecovery(o) \/ Fail(o)
  BY <1>1, <1>4, SubmitAccount, StartEffectAccount, StartRecoveryAccount, FailAccount
<1>5. CASE \E o \in Orchestrators : Coordinate(o)
  BY <1>1, <1>5, EntryWorkAccount, ManagementWorkAccount DEF Coordinate, EntryWork, ManagementWork
<1>6. CASE \/ \E o \in Orchestrators : VenueAccepts(o) \/ VenueRejects(o) \/ AnswerLost(o)
           \/ \E m \in net : ExecutesUnseen(m)
           \/ \E id \in AlgoIds : Trigger(id)
           \/ \E id \in OrderIds : FillsFurther(id) \/ Expires(id)
  BY <1>1, <1>6, VenueAccount
<1> QED BY <1>3, <1>4, <1>5, <1>6 DEF Next

(* A settled record explains the exposure: whatever was lost, executed      *)
(* late, abandoned or recovered, and by however many processes, with        *)
(* nothing pending the venue holds no more than the current pointer says,   *)
(* and no entry is in transit.                                              *)
THEOREM ExposureAlwaysOwned ==
    ~Resubmission /\ "working" \notin Fills => (Spec => []ExposureIsOwned)
<1> SUFFICES ASSUME ~Resubmission, "working" \notin Fills PROVE Spec => []ExposureIsOwned
  OBVIOUS
<1>1. Proper /\ Unsubmitted /\ Account /\ [Next]_vars => (Proper /\ Unsubmitted /\ Account)'
  BY AccountStep
<1>2. Proper /\ Account => ExposureIsOwned
  <2> SUFFICES ASSUME Proper, Account, store.pending = NONE
               PROVE  /\ pos <= OwnedQuantity
                      /\ \A m \in net : m.type = "market" => m.reduceOnly
    BY DEF ExposureIsOwned
  <2>1. pos <= OwnedQuantity
    BY DEF Account, Accounted, OwnedQuantity
  <2>2. ASSUME NEW m \in net, m.type = "market" PROVE m.reduceOnly
    <3>1. MarketOwned(m)
      BY <2>2 DEF Account, MarketsOwned
    <3> QED BY <3>1 DEF MarketOwned, Pending
  <2> QED BY <2>1, <2>2
<1> QED BY <1>1, <1>2, AccountInit, PTL DEF Spec

(* The kernel's central promise: a position the record calls owned has an   *)
(* active stop of at least its size.  No revision, close, crash, recovery   *)
(* or answer that comes late takes the last one away.                       *)
THEOREM OwnedIsAlwaysCovered ==
    ~Resubmission /\ "working" \notin Fills => (Spec => []OwnedPositionIsCovered)
<1> SUFFICES ASSUME ~Resubmission, "working" \notin Fills PROVE Spec => []OwnedPositionIsCovered
  OBVIOUS
<1>1. Proper /\ Unsubmitted /\ Account /\ [Next]_vars => (Proper /\ Unsubmitted /\ Account)'
  BY AccountStep
<1>2. Proper /\ Account => OwnedPositionIsCovered
  <2> SUFFICES ASSUME Proper, Account, store.current # NONE, pos > 0
               PROVE  \E id \in StopIds : ActiveStop(id, pos)
    BY DEF OwnedPositionIsCovered
  <2>1. ASSUME NEW s, Guarded(s) PROVE ActiveStop(s, pos)
    BY <2>1 DEF Guarded, ActiveStop
  <2>2. CASE Guarded(store.current.stop)
    BY <2>1, <2>2, CurrentShapes DEF Proper, Typed
  <2>3. CASE Replacing
    <3>1. PICK r \in Requests : r.kind = "protection_revision" /\ Guarded(ClientId("grs", r.id))
      BY <2>3 DEF Replacing
    <3>2. ClientId("grs", r.id) \in StopIds
      BY <3>1, RequestShapes, IdShapes
    <3> QED BY <2>1, <3>1, <3>2
  <2> QED BY <2>2, <2>3 DEF Account, Covered
<1> QED BY <1>1, <1>2, AccountInit, PTL DEF Spec

=============================================================================
