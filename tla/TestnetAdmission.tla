--------------------------- MODULE TestnetAdmission ---------------------------
(***************************************************************************)
(* From observations to an effect: an operator compiles a context into an  *)
(* entry plan, or an ownership binding into a management plan              *)
(* (execution-context.ts, entry-plan.ts, owned-protection-state.ts,        *)
(* management-plan.ts), has a permit issued for it (testnet-authority.ts)  *)
(* and hands both to the orchestrator (testnet-orchestrator.ts), which     *)
(* checks them once more, stages the request and invokes the effect.       *)
(*                                                                         *)
(* Each of them is a frozen value with the time of its making, and time    *)
(* passes between the steps.  A blocked one is of no use to the next step  *)
(* and is not kept.  What the observations are made of is left to the      *)
(* lanes' models; here they are inputs with a time of their own, and only  *)
(* the conditions that later steps build on are spelled out: each of the   *)
(* other blockers (schema, symbol, mode, permissions, a crossed book)      *)
(* keeps an artifact from being ready.                                     *)
(***************************************************************************)
EXTENDS OwnedProtection, ManagementPlan

CONSTANTS
    Observed,           \* the accounts that contexts may show
    Proposals,          \* the geometries the model may propose
    Days,               \* the daily states the planner may be given
    OtherQuantities,    \* entries of other processes
    ShownHoldings,      \* what account and market may say of an owned position
    NextProtections,    \* the stops and targets an operator may ask for
    ReductionChoices,   \* requested reductions in basis points; 0 is none
    CompileAge,         \* contextMaxAgeMs, bindingMaxAgeMs, dailyMaxAgeMs
    ProofAge,           \* proofMaxAgeMs of the issuer and of the orchestrator
    MarketAge,          \* depth, market, protection and evidence maximum ages
    ReconciliationAge,  \* private_reconciliation_max_age_ms
    PreflightAge,       \* preflight_max_age_ms
    PermitLife,         \* lifetimeMs
    Tolerance,          \* future_tolerance_ms
    MaxTime,            \* bound: the clock
    MaxTransitions      \* bound: transition_sequence

ASSUME AdmissionAssumption ==
    /\ Observed \subseteq Accounts /\ Proposals \subseteq Geometries /\ Days \subseteq DailyFacts
    /\ ShownHoldings \subseteq Holdings /\ NextProtections \subseteq Protections
    /\ ReductionChoices \subseteq 0 .. Bps - 1 /\ OtherQuantities \subseteq Quantities
    /\ {CompileAge, ProofAge, MarketAge, ReconciliationAge, PreflightAge, PermitLife,
        Tolerance, MaxTime, MaxTransitions} \subseteq Nat

VARIABLES
    now,          \* the clock
    ledger,       \* the durable ownership record
    sequence,     \* its transition_sequence
    context,      \* the last ready execution context
    binding,      \* the last ready ownership binding
    plan,         \* the last ready entry or management plan
    permit,       \* the last permit
    invoked       \* history: the effect that the last step invoked, if any

vars == <<now, ledger, sequence, context, binding, plan, permit, invoked>>

record == <<ledger, sequence>>

Init ==
    /\ now = 0
    /\ ledger = EmptyLedger /\ sequence = 0
    /\ context = NONE /\ binding = NONE /\ plan = NONE /\ permit = NONE
    /\ invoked = NONE

(* Times an observation may carry; the venue's clock may be ahead. *)
Times == 0 .. MaxTime + Tolerance

FreshFact(t, age) == t <= now + Tolerance /\ now - t <= age

(* Mutant: an artifact's age is not checked. *)
FreshForever(t, age) == t <= now

Fresh(t, age) == t <= now /\ now - t <= age

-----------------------------------------------------------------------------
(* compileBinanceUsdmExecutionContext: the private account was reconciled, *)
(* the market and the preflight observed recently enough, and nothing is   *)
(* held or ordered.                                                        *)
CompileContext(account, reconciled, market, preflight, flat) ==
    /\ FreshFact(reconciled, ReconciliationAge)
    /\ FreshFact(market, MarketAge)
    /\ FreshFact(preflight, PreflightAge)
    /\ account.bid < account.ask
    /\ flat
    /\ context' = [at |-> now, account |-> account, reconciled |-> reconciled]
    /\ invoked' = NONE
    /\ UNCHANGED <<now, record, binding, plan, permit>>

(* compileBinanceUsdmProtectedEntryPlan *)
CompileEntryPlan(id, g, daily, dailyAt) ==
    /\ context # NONE
    /\ Fresh(context.at, CompileAge)
    /\ Fresh(dailyAt, CompileAge)
    /\ EntryAdmitted(context.account, daily, g)
    /\ plan' = [kind |-> "protected_entry", at |-> now, reconciled |-> context.reconciled,
                account |-> context.account, daily |-> daily, geometry |-> g,
                request |-> [kind |-> "protected_entry", id |-> id,
                             qty |-> Sized(context.account, g).qty]]
    /\ invoked' = NONE
    /\ UNCHANGED <<now, record, context, binding, permit>>

(* compileBinanceUsdmOwnedProtectionBinding: a settled record whose         *)
(* position the account shows in its size, under its exact stop and target. *)
CompileBinding(reconciled, protection, native, covered) ==
    /\ FreshFact(reconciled, ReconciliationAge)
    /\ FreshFact(protection, MarketAge)
    /\ ledger.pending = NONE
    /\ ledger.current # NONE
    /\ native = ledger.current.qty
    /\ covered
    /\ binding' = [at |-> now, protection |-> protection, ledger |-> ledger, sequence |-> sequence]
    /\ invoked' = NONE
    /\ UNCHANGED <<now, record, context, plan, permit>>

(* compileBinanceUsdmProtectionManagementPlan.  The record knows prices by  *)
(* the ids of its stop and target; what they are comes with the holding.    *)
CompileManagementPlan(id, bps, next, holding, daily, native, evidenceAt, dailyAt) ==
    LET current == binding.ledger.current
        request == [kind |-> "protection_revision", id |-> id, current |-> current,
                    reduction |-> ReductionOf(current.qty, bps)]
    IN  /\ binding # NONE
        /\ Fresh(binding.at, CompileAge)
        /\ Fresh(evidenceAt, MarketAge)
        /\ Fresh(dailyAt, CompileAge)
        /\ native = current.qty
        /\ RevisionAdmitted(holding, current.qty, bps, next, daily)
        /\ RevisionValid(request)
        /\ plan' = [kind |-> "protection_revision", at |-> now,
                    protection |-> binding.protection,
                    ledger |-> binding.ledger, sequence |-> binding.sequence,
                    holding |-> holding, next |-> next, daily |-> daily,
                    request |-> request]
        /\ invoked' = NONE
        /\ UNCHANGED <<now, record, context, binding, permit>>

-----------------------------------------------------------------------------
(* Permits: bound to the very proof (its hash), its intent and quantity. *)
Issue(proof, id, qty) ==
    /\ Fresh(proof.at, ProofAge)
    /\ permit' = [proof |-> proof, id |-> id, qty |-> qty, issued |-> now]
    /\ invoked' = NONE
    /\ UNCHANGED <<now, record, context, binding, plan>>

(* issueProtectedEntry, issueProtectionRevision *)
IssueForPlan ==
    /\ plan # NONE
    /\ Issue(plan, plan.request.id,
             IF plan.kind = "protected_entry" THEN plan.request.qty
             ELSE plan.request.current.qty)

(* issueOwnedPositionClose *)
IssueForClose(id) ==
    /\ binding # NONE
    /\ Issue(binding, id, binding.ledger.current.qty)

PermitValid(proof, id, qty) ==
    /\ permit # NONE
    /\ permit.proof = proof
    /\ permit.id = id
    /\ qty <= permit.qty
    /\ permit.issued <= now /\ now < permit.issued + PermitLife

-----------------------------------------------------------------------------
(* The orchestrator. *)

(* A request staged before is taken as it is, and its effect invoked again. *)
Invoke(proof, r) ==
    /\ StageAdmitted(ledger, r)
    /\ ledger' = Staged(ledger, r)
    /\ sequence' = IF ledger.pending = NONE THEN sequence + 1 ELSE sequence
    /\ sequence' <= MaxTransitions
    /\ invoked' = [at |-> now, proof |-> proof, request |-> r, ledger |-> ledger,
                   sequence |-> sequence]
    /\ UNCHANGED <<now, context, binding, plan, permit>>

(* executeProtectedEntry *)
ExecuteEntry ==
    /\ plan # NONE
    /\ plan.kind = "protected_entry"
    /\ Fresh(plan.at, ProofAge)
    /\ PermitValid(plan, plan.request.id, plan.request.qty)
    /\ Invoke(plan, plan.request)

(* Mutant: the record is only compared by what staging needs. *)
StateUnchecked(proof) == TRUE

(* The record is the one the proof was compiled from. *)
StateMatches(proof) == ledger = proof.ledger /\ sequence = proof.sequence

(* executeProtectionRevision *)
ExecuteRevision ==
    /\ plan # NONE
    /\ plan.kind = "protection_revision"
    /\ Fresh(plan.at, ProofAge)
    /\ PermitValid(plan, plan.request.id, plan.request.current.qty)
    /\ StateMatches(plan)
    /\ Invoke(plan, plan.request)

(* executeOwnedPositionClose *)
ExecuteClose(id) ==
    /\ binding # NONE
    /\ Fresh(binding.at, ProofAge)
    /\ PermitValid(binding, id, binding.ledger.current.qty)
    /\ StateMatches(binding)
    /\ Invoke(binding, [kind |-> "owned_position_close", id |-> id,
                        current |-> binding.ledger.current])

(* An effect's or a recovery's result is applied, by this process or by     *)
(* another (TestnetOrchestrator).                                           *)
ResultApplied(result, proven) ==
    /\ ledger.pending # NONE
    /\ sequence < MaxTransitions
    /\ result \in Results(ledger.pending.request.kind)
    /\ ApplyAdmitted(ledger, ledger.pending.request, result, proven)
    /\ ledger' = Applied(ledger, ledger.pending.request, result)
    /\ sequence' = sequence + 1
    /\ invoked' = NONE
    /\ UNCHANGED <<now, context, binding, plan, permit>>

(* Another process stages a request of its own. *)
StagedElsewhere(r) ==
    /\ ledger.pending = NONE
    /\ sequence < MaxTransitions
    /\ StageAdmitted(ledger, r)
    /\ ledger' = Staged(ledger, r)
    /\ sequence' = sequence + 1
    /\ invoked' = NONE
    /\ UNCHANGED <<now, context, binding, plan, permit>>

Tick ==
    /\ now < MaxTime
    /\ now' = now + 1
    /\ invoked' = NONE
    /\ UNCHANGED <<record, context, binding, plan, permit>>

(* The account shows the owned position, another, or none. *)
NativeSizes ==
    IF ledger.current = NONE THEN {0} ELSE {0, ledger.current.qty, ledger.current.qty + 1}

Next ==
    \/ Tick
    \/ \E account \in Observed, reconciled, market, preflight \in Times, flat \in BOOLEAN :
          CompileContext(account, reconciled, market, preflight, flat)
    \/ \E id \in EntryIds, g \in Proposals, daily \in Days, dailyAt \in Times :
          CompileEntryPlan(id, g, daily, dailyAt)
    \/ \E reconciled, protection \in Times, native \in NativeSizes, covered \in BOOLEAN :
          CompileBinding(reconciled, protection, native, covered)
    \/ \E id \in RevisionIds, bps \in ReductionChoices, next \in NextProtections,
          holding \in ShownHoldings, daily \in Days, native \in NativeSizes,
          evidenceAt, dailyAt \in Times :
          CompileManagementPlan(id, bps, next, holding, daily, native, evidenceAt, dailyAt)
    \/ IssueForPlan
    \/ \E id \in CloseIds : IssueForClose(id) \/ ExecuteClose(id)
    \/ ExecuteEntry \/ ExecuteRevision
    \/ \E kind \in {"protected_entry", "protection_revision", "owned_position_close"} :
          \E result \in Results(kind), proven \in BOOLEAN : ResultApplied(result, proven)
    \/ \E id \in EntryIds, qty \in OtherQuantities :
          StagedElsewhere([kind |-> "protected_entry", id |-> id, qty |-> qty])
    \/ /\ ledger.current # NONE
       /\ \E id \in CloseIds :
             StagedElsewhere([kind |-> "owned_position_close", id |-> id,
                              current |-> ledger.current])

Spec == Init /\ [][Next]_vars

-----------------------------------------------------------------------------
(* Properties. *)

(* Ages add up along the chain and never further, however long a caller     *)
(* waits between its steps and however long the permit lives: an entry is   *)
(* submitted on an account that was reconciled within its own limit and one *)
(* limit for each proof in between.                                         *)
EntryRestsOnFreshFacts ==
    invoked # NONE /\ invoked.request.kind = "protected_entry" =>
        invoked.at - invoked.proof.reconciled <= ReconciliationAge + CompileAge + ProofAge

(* A revision or a close acts on the very record its proof was compiled     *)
(* from: nothing was staged, applied or left open since, so it is never a   *)
(* blind retry; and the stop and target it builds on were seen recently.    *)
ManagementSeesItsRecord ==
    invoked # NONE /\ invoked.request.kind # "protected_entry" =>
        /\ invoked.ledger.pending = NONE
        /\ invoked.ledger.current = invoked.request.current
        /\ invoked.sequence = invoked.proof.sequence
        /\ invoked.at - invoked.proof.protection <= MarketAge + CompileAge + ProofAge

(* FR-005 of the entry plan, with every rounding undone: what an entry      *)
(* really loses at its stop, with the costs the policy and the venue        *)
(* charge, exceeds neither the share of the pot it may risk, nor the open   *)
(* risk allowed, and keeps the account above the daily boundary and floor.  *)
(* Amounts are multiplied by the scales instead of divided.                 *)
StopLossScaled(account, g, qty) ==
    LET price == EntryPrice(account, g.side)
    IN  qty * (Distance(price, g.stop) * Bps + price * CostBps(account))

LossIsBudgeted ==
    plan # NONE /\ plan.kind = "protected_entry" =>
        LET loss == StopLossScaled(plan.account, plan.geometry, plan.request.qty)
            unit == QuantityScale * Bps
        IN  /\ loss <= unit * RiskBudget(plan.account, plan.geometry)
            /\ loss < unit * (plan.account.equity - EntryBoundary(plan.daily))
            /\ loss <= unit * (plan.account.equity - EntryFloor(plan.account, plan.daily))

(* What is left, with every rounding undone, once a quantity has left at a  *)
(* price; the wallet is given in the same scale.                            *)
LeftScaled(holding, wallet, exit, qty) ==
    wallet + qty * (Gain(holding.side, holding.entry, exit) * Bps - exit * CostBps(holding))

ProtectionKept(h, qty, reduction, next, daily) ==
    LET unit == QuantityScale * Bps
        before == LeftScaled(h, unit * h.wallet, h.stop, qty)
        wallet == LeftScaled(h, unit * h.wallet, ExecutablePrice(h), reduction)
        after == LeftScaled(h, wallet, next.stop, qty - reduction)
        equity == wallet + (qty - reduction) * Gain(h.side, h.entry, h.mark) * Bps
        current == CurrentProtected(h, qty)
        projected == Projection(h, qty, reduction, next)
    IN  /\ after > before - 2 * unit - QuantityScale * CostBps(h)
        /\ after > unit * EntryBoundary(daily)
        /\ after >= unit * RevisionFloor(daily, current, projected.protected)
        /\ equity - after < unit * (MaximumOpenRisk(projected.equity) + 1)

(* FR-009 of the management plan, with every rounding undone: what the      *)
(* account is worth once the revised position has left at its next stop is  *)
(* above the daily boundary and not below the floor, also when part of it   *)
(* leaves at the top of the book first; the open risk exceeds the policy's  *)
(* by less than a cent; and the protection is weaker than the present one   *)
(* by no more than the roundings of one exit can hide, two cents and the    *)
(* costs of one.                                                            *)
RevisionKeepsProtection ==
    plan # NONE /\ plan.kind = "protection_revision" =>
        ProtectionKept(plan.holding, plan.request.current.qty, plan.request.reduction,
                       plan.next, plan.daily)

=============================================================================
