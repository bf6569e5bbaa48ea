--------------------------- MODULE TestnetExecution ---------------------------
(***************************************************************************)
(* The Testnet execution kernel at work: orchestrators run the entry and   *)
(* the revision coordinators (protection-coordinator.ts,                   *)
(* protection-revision.ts) through the mutation client                     *)
(* (mutation-client.ts) against a venue.                                   *)
(*                                                                         *)
(* A coordinator is a sequence of awaited calls; `call` is its memory, and *)
(* call[o].at names the call it awaits.  A mutation travels in `net`: the  *)
(* venue may execute it before, after or without its answer being seen.  A *)
(* lookup is answered with what the venue holds, or not at all.  The venue *)
(* is external: it is what the coordinators read its answers to mean.      *)
(***************************************************************************)
EXTENDS TestnetOrchestrator

CONSTANTS Fills,    \* how a market order may execute
          Faults    \* what may go wrong between the kernel and the venue

ASSUME ExecutionAssumption ==
    /\ Fills \subseteq {"full", "partial", "stalled", "working"}
    /\ Faults \subseteq {"ambiguous", "rejected", "unavailable", "abandoned"}

VARIABLES
    pos,          \* venue: the position, in quantity steps on the side of the entries
    orders,       \* venue: ordinary orders by client id
    algos,        \* venue: conditional orders by client id
    net,          \* mutations the venue has neither executed nor rejected
    call          \* per orchestrator, the coordinator's memory

venue == <<pos, orders, algos>>
vars == <<store, orch, submitted, pos, orders, algos, net, call>>

OrderIds ==
    {"gce", "gcf"} \X EntryIds \cup {"gcr"} \X RevisionIds \cup {"gpc"} \X CloseIds

AlgoIds == StopIds \cup TargetIds

Mutations ==
    [type : {"market"}, id : OrderIds, qty : Quantities, reduceOnly : BOOLEAN]
    \cup [type : {"algo"}, id : AlgoIds, qty : Quantities]
    \cup [type : {"cancel"}, id : AlgoIds]

Awaits ==
    {"none", "entry", "entry_lookup", "stop", "stop_lookup", "target", "target_lookup",
     "flatten", "flatten_lookup", "current_stop", "current_target", "reduction",
     "reduction_lookup", "new_stop", "new_stop_lookup", "new_target",
     "new_target_lookup", "close", "close_lookup", "cancel_target", "target_inspection",
     "cancel_stop", "stop_inspection", "re_entry", "re_stop", "re_target", "re_flatten",
     "re_reduction", "re_new_stop", "re_new_target", "re_close", "re_target_gone",
     "re_stop_gone"}

Answers == {"none", "waiting", "accepted", "rejected", "ambiguous"}

NoOrder == [qty |-> 0, filled |-> 0, open |-> FALSE]

NoAlgo == [qty |-> 0, status |-> "none"]

(* qty: the executed entry quantity proven so far; payload: the executed    *)
(* quantity an accepted market order reports; ok: whether the proofs or the *)
(* cleanups seen so far are complete.                                       *)
NoCall == [at |-> "none", sent |-> NONE, answer |-> "none", qty |-> 0, payload |-> 0,
           ok |-> FALSE]

(* Mutations can be submitted again, so an entry may execute more than once. *)
TypeOK ==
    /\ OrchTypeOK
    /\ pos \in 0 .. 2 * MaxQuantity
    /\ orders \in [OrderIds -> [qty : 0 .. MaxQuantity, filled : 0 .. MaxQuantity, open : BOOLEAN]]
    /\ algos \in [AlgoIds -> [qty : 0 .. MaxQuantity,
                              status : {"none", "active", "canceled", "triggered"}]]
    /\ net \subseteq Mutations
    /\ call \in [Orchestrators ->
                    [at : Awaits, sent : Mutations \cup {NONE}, answer : Answers,
                     qty : 0 .. MaxQuantity, payload : 0 .. MaxQuantity, ok : BOOLEAN]]
    /\ \A o \in Orchestrators :
          orch[o].pc \in {"effect", "recovering"} <=> call[o].at # "none"

Init ==
    /\ OrchInit
    /\ pos = 0
    /\ orders = [i \in OrderIds |-> NoOrder]
    /\ algos = [i \in AlgoIds |-> NoAlgo]
    /\ net = {}
    /\ call = [o \in Orchestrators |-> NoCall]

-----------------------------------------------------------------------------
(* The venue (external). *)

Least(a, b) == IF a <= b THEN a ELSE b

(* A market order executes in full, or in part; the rest expires at once,   *)
(* or stays open until it fills or expires.  What is open of a reduction    *)
(* may always fill, what is open of an entry only if it is "working".       *)
(* Reduce-only orders never take more than the position.                    *)
MarketExecutes(m) ==
    LET available == IF m.reduceOnly THEN Least(m.qty, pos) ELSE m.qty
    IN  \E how \in Fills, n \in 0 .. MaxQuantity :
            /\ n <= available
            /\ how = "full" <=> n = available
            /\ orders' = [orders EXCEPT ![m.id] =
                             [qty |-> m.qty, filled |-> n, open |-> how \in {"stalled", "working"}]]
            /\ pos' = IF m.reduceOnly THEN pos - n ELSE pos + n

CanExecute(m) ==
    CASE m.type = "market" -> ~orders[m.id].open /\ (m.reduceOnly => pos > 0)
      [] m.type = "algo" -> algos[m.id].status = "none"
      [] OTHER -> algos[m.id].status = "active"

VenueExecutes(m) ==
    /\ CanExecute(m)
    /\ net' = net \ {m}
    /\ CASE m.type = "market" -> MarketExecutes(m) /\ UNCHANGED algos
         [] m.type = "algo" ->
               /\ algos' = [algos EXCEPT ![m.id] = [qty |-> m.qty, status |-> "active"]]
               /\ UNCHANGED <<pos, orders>>
         [] OTHER ->
               /\ algos' = [algos EXCEPT ![m.id].status = "canceled"]
               /\ UNCHANGED <<pos, orders>>

(* A stop or a target is reached: reduce-only, at most the position. *)
Trigger(id) ==
    /\ algos[id].status = "active"
    /\ algos' = [algos EXCEPT ![id].status = "triggered"]
    /\ pos' = pos - Least(algos[id].qty, pos)
    /\ UNCHANGED <<orchVars, orders, net, call>>

(* The rest of an open market order fills, or expires. *)
FillsFurther(id) ==
    /\ id[1] = "gce" => "working" \in Fills
    /\ orders[id].open /\ orders[id].filled < orders[id].qty
    /\ id[1] # "gce" => pos > 0
    /\ orders' = [orders EXCEPT ![id].filled = @ + 1]
    /\ pos' = IF id[1] = "gce" THEN pos + 1 ELSE pos - 1
    /\ UNCHANGED <<orchVars, algos, net, call>>

Expires(id) ==
    /\ orders[id].open
    /\ orders' = [orders EXCEPT ![id].open = FALSE]
    /\ UNCHANGED <<orchVars, pos, algos, net, call>>

(* The executed quantity an order's payload proves: proveOrdinaryFill knows *)
(* the statuses FILLED and PARTIALLY_FILLED only.                           *)
ProvenFill(order) ==
    IF order.filled = order.qty \/ order.open THEN order.filled ELSE 0

Unanswered(none) == IF "unavailable" \in Faults THEN {none} ELSE {}

LookupOrder(id) == {ProvenFill(orders[id])} \cup Unanswered(0)

(* Mutant: a conditional order is taken as proven without its lookup. *)
ProofAssumed(id, qty) == {TRUE}

(* proveAlgoOrder: active, with the exact quantity. *)
LookupAlgo(id, qty) ==
    {algos[id] = [qty |-> qty, status |-> "active"]} \cup Unanswered(FALSE)

-----------------------------------------------------------------------------
(* Mutations in transit (mutation-client.ts). *)

Executed(m) == IF m.type = "market" THEN ProvenFill(orders'[m.id]) ELSE 0

VenueAccepts(o) ==
    /\ call[o].answer = "waiting"
    /\ call[o].sent \in net
    /\ VenueExecutes(call[o].sent)
    /\ call' = [call EXCEPT ![o].answer = "accepted", ![o].payload = Executed(call[o].sent)]
    /\ UNCHANGED orchVars

VenueRejects(o) ==
    /\ call[o].answer = "waiting"
    /\ call[o].sent \in net
    /\ "rejected" \in Faults \/ ~CanExecute(call[o].sent)
    /\ net' = net \ {call[o].sent}
    /\ call' = [call EXCEPT ![o].answer = "rejected"]
    /\ UNCHANGED <<orchVars, venue>>

(* Network error, timeout, 408 or an unknown 503: the mutation may have     *)
(* been executed, may be executed later, or never.                          *)
AnswerLost(o) ==
    /\ "ambiguous" \in Faults
    /\ call[o].answer = "waiting"
    /\ call' = [call EXCEPT ![o].answer = "ambiguous"]
    /\ UNCHANGED <<orchVars, venue, net>>

ExecutesUnseen(m) ==
    /\ Faults \cap {"ambiguous", "abandoned"} # {}
    /\ m \in net
    /\ VenueExecutes(m)
    /\ UNCHANGED <<orchVars, call>>

-----------------------------------------------------------------------------
(* Awaiting and returning. *)

Send(o, at, m, qty, ok) ==
    /\ net' = net \cup {m}
    /\ call' = [call EXCEPT ![o] = [at |-> at, sent |-> m, answer |-> "waiting",
                                    qty |-> qty, payload |-> 0, ok |-> ok]]
    /\ UNCHANGED orchVars

Look(o, at, qty, ok) ==
    /\ call' = [call EXCEPT ![o] = [NoCall EXCEPT !.at = at, !.qty = qty, !.ok = ok]]
    /\ UNCHANGED <<orchVars, net>>

Return(o, result) ==
    /\ EffectReturns(o, result, TRUE)
    /\ call' = [call EXCEPT ![o] = NoCall]
    /\ UNCHANGED net

Awaiting(o, at) == call[o].at = at /\ call[o].answer # "waiting" /\ UNCHANGED venue

Request(o) == orch[o].request

Market(role, id, qty, reduceOnly) ==
    [type |-> "market", id |-> ClientId(role, id), qty |-> qty, reduceOnly |-> reduceOnly]

PlaceAlgo(role, id, qty) == [type |-> "algo", id |-> ClientId(role, id), qty |-> qty]

Cancel(id) == [type |-> "cancel", id |-> id]

-----------------------------------------------------------------------------
(* createProtectedEntry *)

Flatten(o, executed) ==
    Send(o, "flatten", Market("gcf", Request(o).id, executed, TRUE), executed, FALSE)

AfterEntry(o, executed) ==
    CASE executed = 0 -> Return(o, "entry_visibility_pending")
      [] executed = Request(o).qty ->
            Send(o, "stop", PlaceAlgo("gcs", Request(o).id, executed), executed, FALSE)
      [] OTHER -> Flatten(o, executed)

EntrySubmitted(o) ==
    /\ Awaiting(o, "entry")
    /\ CASE call[o].answer = "rejected" -> Return(o, "rejected_before_exposure")
         [] call[o].payload > 0 -> AfterEntry(o, call[o].payload)
         [] OTHER -> Look(o, "entry_lookup", 0, FALSE)

EntryLookedUp(o) ==
    /\ Awaiting(o, "entry_lookup")
    /\ \E executed \in LookupOrder(ClientId("gce", Request(o).id)) : AfterEntry(o, executed)

StopSubmitted(o) ==
    /\ Awaiting(o, "stop")
    /\ IF call[o].answer = "rejected" THEN Flatten(o, call[o].qty)
       ELSE Look(o, "stop_lookup", call[o].qty, FALSE)

(* The target is submitted only after the stop was proven. *)
StopLookedUp(o) ==
    /\ Awaiting(o, "stop_lookup")
    /\ \E proven \in LookupAlgo(ClientId("gcs", Request(o).id), call[o].qty) :
          IF proven THEN Send(o, "target", PlaceAlgo("gct", Request(o).id, call[o].qty),
                              call[o].qty, FALSE)
          ELSE Flatten(o, call[o].qty)

TargetSubmitted(o) ==
    /\ Awaiting(o, "target")
    /\ IF call[o].answer = "rejected" THEN Return(o, "open_protected_target_pending")
       ELSE Look(o, "target_lookup", call[o].qty, FALSE)

TargetLookedUp(o) ==
    /\ call[o].at \in {"target_lookup", "re_target"}
    /\ Awaiting(o, call[o].at)
    /\ \E proven \in LookupAlgo(ClientId("gct", Request(o).id), call[o].qty) :
          Return(o, IF proven THEN "open_protected" ELSE "open_protected_target_pending")

FlattenSubmitted(o) ==
    /\ Awaiting(o, "flatten")
    /\ CASE call[o].answer = "rejected" -> Return(o, "emergency_flatten_pending")
         [] call[o].payload = call[o].qty -> Return(o, "emergency_flatten_confirmed")
         [] OTHER -> Look(o, "flatten_lookup", call[o].qty, FALSE)

(* Mutant: a flatten that executed in part counts as proven. *)
FlattenProvenPartly(executed, qty) == executed > 0

FlattenProven(executed, qty) == executed = qty

FlattenLookedUp(o) ==
    /\ call[o].at \in {"flatten_lookup", "re_flatten"}
    /\ Awaiting(o, call[o].at)
    /\ \E executed \in LookupOrder(ClientId("gcf", Request(o).id)) :
          Return(o, IF FlattenProven(executed, call[o].qty) THEN "emergency_flatten_confirmed"
                    ELSE "emergency_flatten_pending")

(* reconcileProtectedEntry: lookups only. *)
ReconcileEntry(o) ==
    /\ Awaiting(o, "re_entry")
    /\ \E executed \in LookupOrder(ClientId("gce", Request(o).id)) :
          CASE executed = 0 -> Return(o, "entry_visibility_pending")
            [] executed = Request(o).qty -> Look(o, "re_stop", executed, FALSE)
            [] OTHER -> Look(o, "re_flatten", executed, FALSE)

ReconcileStop(o) ==
    /\ Awaiting(o, "re_stop")
    /\ \E proven \in LookupAlgo(ClientId("gcs", Request(o).id), call[o].qty) :
          Look(o, IF proven THEN "re_target" ELSE "re_flatten", call[o].qty, FALSE)

-----------------------------------------------------------------------------
(* revise and closeOwnedProtection: the current pair is proven first. *)

Current(o) == Request(o).current

Revising(o) == Request(o).kind = "protection_revision"

Remaining(o) == Current(o).qty - Request(o).reduction

CurrentStopLookedUp(o) ==
    /\ Awaiting(o, "current_stop")
    /\ \E proven \in LookupAlgo(Current(o).stop, Current(o).qty) :
          Look(o, "current_target", 0, proven)

NewStop(o) == Send(o, "new_stop", PlaceAlgo("grs", Request(o).id, Remaining(o)), 0, FALSE)

CurrentTargetLookedUp(o) ==
    /\ Awaiting(o, "current_target")
    /\ \E proven \in LookupAlgo(Current(o).target, Current(o).qty) :
          CASE ~(call[o].ok /\ proven) ->
                  Return(o, IF Revising(o) THEN "current_protection_not_proven"
                            ELSE "owned_protection_not_proven")
            [] call[o].ok /\ proven /\ ~Revising(o) ->
                  Send(o, "close", Market("gpc", Request(o).id, Current(o).qty, TRUE), 0, FALSE)
            [] OTHER ->
                  IF Request(o).reduction = 0 THEN NewStop(o)
                  ELSE Send(o, "reduction",
                            Market("gcr", Request(o).id, Request(o).reduction, TRUE), 0, FALSE)

ReductionSubmitted(o) ==
    /\ Awaiting(o, "reduction")
    /\ CASE call[o].answer = "rejected" -> Return(o, "reduction_rejected")
         [] call[o].payload = Request(o).reduction -> NewStop(o)
         [] OTHER -> Look(o, "reduction_lookup", 0, FALSE)

ReductionLookedUp(o) ==
    /\ Awaiting(o, "reduction_lookup")
    /\ \E executed \in LookupOrder(ClientId("gcr", Request(o).id)) :
          IF executed = Request(o).reduction THEN NewStop(o)
          ELSE Return(o, "reduction_visibility_pending")

NewStopSubmitted(o) ==
    /\ Awaiting(o, "new_stop")
    /\ IF call[o].answer = "rejected" THEN Return(o, "replacement_stop_pending")
       ELSE Look(o, "new_stop_lookup", 0, FALSE)

NewStopLookedUp(o) ==
    /\ Awaiting(o, "new_stop_lookup")
    /\ \E proven \in LookupAlgo(ClientId("grs", Request(o).id), Remaining(o)) :
          IF proven THEN Send(o, "new_target", PlaceAlgo("grt", Request(o).id, Remaining(o)),
                              0, FALSE)
          ELSE Return(o, "replacement_stop_pending")

NewTargetSubmitted(o) ==
    /\ Awaiting(o, "new_target")
    /\ IF call[o].answer = "rejected" THEN Return(o, "replacement_target_pending")
       ELSE Look(o, "new_target_lookup", 0, FALSE)

(* The old pair is cancelled, target first, only once the new one is proven. *)
CancelTarget(o) == Send(o, "cancel_target", Cancel(Current(o).target), 0, FALSE)

NewTargetLookedUp(o) ==
    /\ Awaiting(o, "new_target_lookup")
    /\ \E proven \in LookupAlgo(ClientId("grt", Request(o).id), Remaining(o)) :
          IF proven THEN CancelTarget(o) ELSE Return(o, "replacement_target_pending")

CloseSubmitted(o) ==
    /\ Awaiting(o, "close")
    /\ CASE call[o].answer = "rejected" -> Return(o, "close_visibility_pending")
         [] call[o].payload = Current(o).qty -> CancelTarget(o)
         [] OTHER -> Look(o, "close_lookup", 0, FALSE)

(* Mutant: protection is cancelled although the close is not proven. *)
AfterCloseLookupHasty(o, executed) == CancelTarget(o)

AfterCloseLookup(o, executed) ==
    IF executed = Current(o).qty THEN CancelTarget(o) ELSE Return(o, "close_visibility_pending")

CloseLookedUp(o) ==
    /\ Awaiting(o, "close_lookup")
    /\ \E executed \in LookupOrder(ClientId("gpc", Request(o).id)) : AfterCloseLookup(o, executed)

CleanedUp(o, complete) ==
    Return(o, CASE Revising(o) /\ complete -> "revision_protected"
                [] Revising(o) /\ ~complete -> "revision_protected_cleanup_pending"
                [] ~Revising(o) /\ complete -> "closed"
                [] OTHER -> "closed_cleanup_pending")

(* cancelOwnedAlgo: an order that was proven active and is now absent is    *)
(* not accepted as cancelled.                                               *)
LookupCanceled(id) == {algos[id].status = "canceled"} \cup Unanswered(FALSE)

TargetCancelled(o) ==
    \/ /\ Awaiting(o, "cancel_target")
       /\ IF call[o].answer = "accepted"
          THEN Send(o, "cancel_stop", Cancel(Current(o).stop), 0, TRUE)
          ELSE Look(o, "target_inspection", 0, FALSE)
    \/ /\ Awaiting(o, "target_inspection")
       /\ \E gone \in LookupCanceled(Current(o).target) :
             Send(o, "cancel_stop", Cancel(Current(o).stop), 0, gone)

(* Mutant: the answer of an inspected cancellation is never awaited. *)
StopCancelledStuck(o) ==
    /\ Awaiting(o, "cancel_stop")
    /\ IF call[o].answer = "accepted" THEN CleanedUp(o, call[o].ok)
       ELSE Look(o, "stop_inspection", 0, call[o].ok)

StopCancelled(o) ==
    \/ /\ Awaiting(o, "cancel_stop")
       /\ IF call[o].answer = "accepted" THEN CleanedUp(o, call[o].ok)
          ELSE Look(o, "stop_inspection", 0, call[o].ok)
    \/ /\ Awaiting(o, "stop_inspection")
       /\ \E gone \in LookupCanceled(Current(o).stop) : CleanedUp(o, call[o].ok /\ gone)

(* reconcile and reconcileOwnedProtectionClose: lookups only; an order the  *)
(* venue does not know counts as gone.                                      *)
LookupGone(id) == {algos[id].status \in {"none", "canceled"}} \cup Unanswered(FALSE)

ReconcileReduction(o) ==
    /\ Awaiting(o, "re_reduction")
    /\ \E executed \in LookupOrder(ClientId("gcr", Request(o).id)) :
          IF executed = Request(o).reduction THEN Look(o, "re_new_stop", 0, FALSE)
          ELSE Return(o, "reduction_visibility_pending")

ReconcileNewStop(o) ==
    /\ Awaiting(o, "re_new_stop")
    /\ \E proven \in LookupAlgo(ClientId("grs", Request(o).id), Remaining(o)) :
          IF proven THEN Look(o, "re_new_target", 0, FALSE)
          ELSE Return(o, "replacement_stop_pending")

ReconcileNewTarget(o) ==
    /\ Awaiting(o, "re_new_target")
    /\ \E proven \in LookupAlgo(ClientId("grt", Request(o).id), Remaining(o)) :
          IF proven THEN Look(o, "re_target_gone", 0, FALSE)
          ELSE Return(o, "replacement_target_pending")

ReconcileClose(o) ==
    /\ Awaiting(o, "re_close")
    /\ \E executed \in LookupOrder(ClientId("gpc", Request(o).id)) :
          IF executed = Current(o).qty THEN Look(o, "re_target_gone", 0, FALSE)
          ELSE Return(o, "close_visibility_pending")

ReconcileCleanup(o) ==
    \/ /\ Awaiting(o, "re_target_gone")
       /\ \E gone \in LookupGone(Current(o).target) : Look(o, "re_stop_gone", 0, gone)
    \/ /\ Awaiting(o, "re_stop_gone")
       /\ \E gone \in LookupGone(Current(o).stop) : CleanedUp(o, call[o].ok /\ gone)

-----------------------------------------------------------------------------
(* Operations start and end. *)

Submit(o, r) == Execute(o, r) /\ UNCHANGED <<venue, net, call>>

(* The staged record is saved, and only then is the first call made. *)
StartEffect(o) ==
    /\ SaveStaged(o)
    /\ UNCHANGED venue
    /\ IF orch'[o].pc # "effect" THEN UNCHANGED <<net, call>>
       ELSE IF Request(o).kind = "protected_entry"
       THEN LET m == Market("gce", Request(o).id, Request(o).qty, FALSE)
            IN  /\ net' = net \cup {m}
                /\ call' = [call EXCEPT ![o] = [NoCall EXCEPT !.at = "entry", !.sent = m,
                                                              !.answer = "waiting"]]
       ELSE /\ call' = [call EXCEPT ![o] = [NoCall EXCEPT !.at = "current_stop"]]
            /\ UNCHANGED net

StartRecovery(o) ==
    /\ BeginRecovery(o)
    /\ call' = [call EXCEPT ![o] = [NoCall EXCEPT !.at =
                   LET r == store.pending.request
                   IN  CASE r.kind = "protected_entry" -> "re_entry"
                         [] r.kind = "owned_position_close" -> "re_close"
                         [] OTHER -> IF r.reduction = 0 THEN "re_new_stop"
                                     ELSE "re_reduction"]]
    /\ UNCHANGED <<venue, net>>

Fail(o) ==
    /\ "abandoned" \in Faults
    /\ Abandon(o)
    /\ call' = [call EXCEPT ![o] = NoCall]
    /\ UNCHANGED <<venue, net>>

Coordinate(o) ==
    \/ EntrySubmitted(o) \/ EntryLookedUp(o) \/ StopSubmitted(o) \/ StopLookedUp(o)
    \/ TargetSubmitted(o) \/ TargetLookedUp(o) \/ FlattenSubmitted(o) \/ FlattenLookedUp(o)
    \/ ReconcileEntry(o) \/ ReconcileStop(o)
    \/ CurrentStopLookedUp(o) \/ CurrentTargetLookedUp(o)
    \/ ReductionSubmitted(o) \/ ReductionLookedUp(o)
    \/ NewStopSubmitted(o) \/ NewStopLookedUp(o) \/ NewTargetSubmitted(o) \/ NewTargetLookedUp(o)
    \/ CloseSubmitted(o) \/ CloseLookedUp(o) \/ TargetCancelled(o) \/ StopCancelled(o)
    \/ ReconcileReduction(o) \/ ReconcileNewStop(o) \/ ReconcileNewTarget(o)
    \/ ReconcileClose(o) \/ ReconcileCleanup(o)

Next ==
    \/ \E o \in Orchestrators :
          \/ \E r \in Requests : Submit(o, r)
          \/ StartEffect(o) \/ StartRecovery(o) \/ Fail(o)
          \/ Coordinate(o)
          \/ VenueAccepts(o) \/ VenueRejects(o) \/ AnswerLost(o)
    \/ \E m \in net : ExecutesUnseen(m)
    \/ \E id \in AlgoIds : Trigger(id)
    \/ \E id \in OrderIds : FillsFurther(id) \/ Expires(id)

Spec == Init /\ [][Next]_vars

(* Awaited calls end: the transport aborts each after timeoutMs, and what   *)
(* follows an await runs.  Nothing obliges the venue or an operator.        *)
FairSpec ==
    /\ Spec
    /\ \A o \in Orchestrators :
          /\ WF_vars(StartEffect(o))
          /\ WF_vars(Coordinate(o))
          /\ WF_vars(VenueAccepts(o) \/ VenueRejects(o) \/ AnswerLost(o))

-----------------------------------------------------------------------------
(* Properties. *)

ActiveStop(id, qty) == algos[id].status = "active" /\ algos[id].qty >= qty

OwnedQuantity == IF store.current = NONE THEN 0 ELSE store.current.qty

(* A settled record explains the exposure: with nothing pending, the venue  *)
(* holds no more than the current pointer says, and no entry is still in    *)
(* transit that could add to it.                                            *)
ExposureIsOwned ==
    store.pending = NONE =>
        /\ pos <= OwnedQuantity
        /\ \A m \in net : m.type = "market" => m.reduceOnly

(* The kernel's central promise: whatever has been lost, delayed, rejected  *)
(* or abandoned, a position the record calls owned has an active stop of at *)
(* least its size; a revision or a close never removes the old one early.   *)
OwnedPositionIsCovered ==
    store.current # NONE /\ pos > 0 => \E id \in StopIds : ActiveStop(id, pos)

(* SC-002 of the mutation contract: a target is submitted only after its    *)
(* exact stop was proven.                                                   *)
StopOf(target) == ClientId(IF target[1] = "gct" THEN "gcs" ELSE "grs", target[2])

TargetNeedsStop ==
    \A m \in net : m.type = "algo" /\ m.id \in TargetIds =>
        algos[StopOf(m.id)].status # "none" /\ algos[StopOf(m.id)].qty = m.qty

(* No coordinator waits for ever: whatever the venue answers, and whatever  *)
(* is lost, an operation that began ends, and the in-process guard is free  *)
(* for the next one.                                                        *)
OperationsEnd == \A o \in Orchestrators : orch[o].pc # "idle" ~> orch[o].pc = "idle"

(* "Every filled quantity is protected or explicitly flattening"            *)
(* (operations/ontology.md): when no operation is under way and nothing is  *)
(* in transit, an exposure has its stop, or the record is flattening it.    *)
FillsAreProtected ==
    (\A o \in Orchestrators : orch[o].pc = "idle") /\ net = {} /\ pos > 0 =>
        \/ \E id \in StopIds : ActiveStop(id, pos)
        \/ store.pending # NONE /\ store.pending.state = "emergency_flatten_pending"

(* "Classify terminal rejection separately from nonterminal ambiguity"      *)
(* (T004 of the mutation tasks): an entry the venue rejected, with nothing  *)
(* ambiguous about it, leaves nothing to reconcile.                         *)
RejectionEndsTheEntry ==
    [][\A o \in Orchestrators :
          call[o].at = "entry" /\ call[o].answer = "rejected" /\ orch[o].fresh
              /\ call'[o].at = "none" /\ "abandoned" \notin Faults
          => store'.pending = NONE]_vars

=============================================================================
