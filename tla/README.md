# Formal models of glitch-crypto

TLA+ models of the trading gateway in `src/`, the TLC configurations that check
them, and proofs that TLAPS checks. Paths below are relative to the repository.
`PROJECT.json` maps every definition to the lines it models and lists runs,
mutants, hazards, findings and theorems.

Contents: [the system](#the-system) · [modules](#modules) ·
[runs](#runs) · [fairness](#fairness) · [proofs](#proofs) ·
[findings](#findings) · [abstractions](#abstractions) · [plan](#plan)

## The system

The gateway receives trading intents from an agent and gives it packets
describing the market and the account. It has a paper engine, a runtime that
runs that engine on live market data, and a kernel for bounded orders on the
Binance USD-M testnet that nothing but an operator can call.

| Component | State it keeps | Operations | Interacts with |
|---|---|---|---|
| Paper trading engine (`src/core/trading-engine.ts`) | all of it in SQLite: settings, account, one position, trades, intents with receipts, daily state | submit an intent (8 actions), mark update, start, stop, flatten, policy, mode, reads that write the daily row | risk engine at every step; HTTP API and shadow engine call it |
| Risk engine, policy, money (`src/core/risk-engine.ts`, `src/domain/`) | the daily row: anchor, high-water mark, floor | snapshot, sizing, validation | paper engine; the entry plan repeats its arithmetic for the testnet |
| Store (`src/storage/database.ts`) | tables, `runtime_state` rows with a version | transactions, compare-and-set | engine, orchestrators |
| Shadow runtime and engine (`src/runtime/`) | the decision event on offer, review clocks, packet bindings (memory) | evidence, evaluation, packet, intent, acknowledgement, shutdown | lanes, opportunity engine, paper engine |
| Opportunity engine, price context (`src/runtime/`) | windows of prices | records, snapshot | shadow runtime |
| Public depth lane, order book (`public-stream-lane.ts`, `order-book.ts`) | connection epoch and state, buffer, price levels | start, stop, socket events, snapshot, restart | venue's WebSocket and REST, evidence |
| Private account lane, account state, listen key (`private-stream-lane.ts`, `private-state.ts`, `listen-key-client.ts`) | the session and its key, event buffer, account | start, stop, create, keep alive, close, reconcile, events, restart | venue, evidence |
| Stream supervisor (`stream-supervisor.ts`) | both lanes | start, stop | lanes |
| Stream evidence, replay (`stream-evidence.ts`, `stream-replay.ts`) | a journal of two files; a session and its sequence number | append, rotate, read, replay | lanes, market recorder, shadow runtime |
| Market recorder and verification (`market-stream-recorder.ts`, `market-evidence.ts`) | a market socket, the latest trade and mark | start, stop, socket events, restart; verify a capture | venue, evidence |
| Compilers (`execution-context.ts`, `entry-plan.ts`, `management-plan.ts`) | none: frozen values with the time of their making | context, entry plan, management plan | lanes' views, ownership record |
| Permits (`testnet-authority.ts`) | none | issue for an entry, a revision, a close | orchestrator |
| Ownership ledger (`owned-protection-state.ts`) | the current position with its stop and target, the pending transition | stage, apply, validate, bind | orchestrator, compilers |
| Orchestrator (`testnet-orchestrator.ts`) | one operation in progress per process; the ledger in the store | entry, revision, close, recovery | store, effects |
| Coordinators, effects, mutation client (`protection-coordinator.ts`, `protection-revision.ts`, `testnet-effects.ts`, `mutation-client.ts`) | local variables across awaits | submit, look up, prove, flatten, cancel, reconcile | venue |
| API, configuration, command lines, read-only client, preflight | none that is checked here | I/O | the above |

Where it is hard:

- **Paper engine.** It is synchronous, but a request is several transactions; the
  process may stop between them, and the client submits the intent again. Money
  is split by rounding; limits hold on snapshots taken before or after a change.
- **Shadow runtime.** An intent arrives long after the packet it answers; in
  between the event expires, is withdrawn or replaced, the market goes stale,
  the position closes by itself, the process restarts.
- **Lanes.** Everything is a callback after an await. A snapshot, a frame being
  decoded or a key being created may belong to a connection that is gone.
- **Testnet kernel.** Mutations are lost, ambiguous, late, rejected; lookups do
  not answer; two processes share one record; processes stop anywhere. At no
  time may a position be without its stop, exposure without an owner, or an
  order submitted twice.
- **Admission.** Context, plan, permit and execution happen at different times,
  each checked against the one before only; their amounts are rounded step by step.
- **Evidence.** The journal is rotated in three file operations, between which
  the process may stop and another may read. A frame decoded late is recorded
  among the records of the next connection. A replay has only the records.

What makes each correct, and where it is stated:

| Component | Properties |
|---|---|
| Paper engine | `MoneyConserved`, `ReceiptMatchesEffect`, `ReceiptStable`, `ProtectionBracketsMark`, `StopHasReceipt`, `AmendmentCommitsWhole`, `PlannedLossHolds`, `DayRatchet`, `LossBoundaryEnforced` |
| Shadow runtime | `EventUsedOnce`, `CandidateMeansFlat`, `ExposureUsesEvent`, `ReviewsKeepCadence`, `HealthyMarketIsReviewed` |
| Public lane and its replay | `BookIsTrue`, `BookNeverGoesBack`, `LaneRecovers`, `ReplayMirrorsBook`, `ReplayIsTrue` |
| Private lane and its replay | `RunningIsReconciled`, `KeyIsAccounted`, `SessionKeepsKey`, `StopLeavesNothing`, `LaneRecovers`, `StreamLossIsNoticed`, `ReplayMirrorsAccount` |
| Journal, market recorder | `JournalKeepsTheLatest`, `AcceptedIsFaithful`, `SummariesAreOwn` |
| Ledger and orchestrator | `SingleWriter`, `PointerFollowsRequest`, `SubmittedOnce` |
| Coordinators | `ExposureIsOwned`, `OwnedPositionIsCovered`, `TargetNeedsStop`, `OperationsEnd` |
| Admission | `EntryRestsOnFreshFacts`, `ManagementSeesItsRecord`, `LossIsBudgeted`, `RevisionKeepsProtection` |

## Modules

```
Money <- RiskEngine <- PaperEngine <- MCPaperEngine, PaperEngineProofs
                    <- EntryPlan <- ManagementPlan -.
OwnedProtection <---------------------------------- TestnetAdmission <- MC..., ...Proofs
OwnedProtection <- Ownership  (abstract: one writer)
                <- TestnetOrchestrator (implements Ownership) <- ...Proofs
                     <- TestnetExecution (its effects) <- MC..., ...Proofs
OrderBook <- PublicLane <- PublicReplay <- PublicReplayProofs
PrivateLane <- PrivateReplay <- PrivateLaneProofs
EvidenceJournal <- MarketEvidence -.<- MarketEvidenceProofs
ShadowRuntime <--------------------- MCShadowRuntime
              <- ShadowRuntimeProofs
```

**Money, RiskEngine.** Integer arithmetic with the rounding of each JavaScript
operator, the risk snapshot and the sizing of an entry, as operators.

**PaperEngine.** The variables are the tables, plus `pc`, `current`, `outcome`:
the next statement of the request being served and what it holds in memory.
Each committed statement or transaction is one action (`ClaimIntent`, the eight
actions on an intent, `SettleIntent`, `FinalizeIntent`; `SetMark`,
`TriggerProtection`, `GuardRisk`; `FlattenAll`, `CloseForFlatten`; ...). `Crash`
may happen between any two: it drops the memory, keeps the tables, and runs what
the constructor runs. Resubmission of an intent is another `ClaimIntent`.
A moved stop is judged only after it was written, so its transaction is modelled
statement by statement: `WriteStop`, `JudgeStop` (the snapshot, which writes the
daily row), then `CommitStop` or `RollBackStop`. `before` is what a rollback
restores, by the code or because the process ended; the other transactions
check nothing after their first write and are one action each.

**OwnedProtection, Ownership.** The ledger's records, its admission of a stage
and of a result, and what each does to the pointer. `Ownership` is the abstract
specification: one record, staged and advanced by nobody in particular.

**TestnetOrchestrator.** Several processes, each at most in one operation
(`exclusive`), load, stage by compare-and-set, run an effect that may answer
anything its type allows, apply and save. `Abandon` is an exception or a stopped
process. Versions only grow, so a version is modelled by what an operation can
learn from it: whether anyone saved since it loaded.

**TestnetExecution.** The effects themselves: the entry, revision and close
coordinators and their reconciliations, one action per await, against a venue
with a position, orders, conditional orders and mutations under way. A mutation
may be executed and answered, rejected, or answered by a timeout and executed
later or never. Lookups tell the truth or fail. The module is built on the
orchestrator's actions: each effect ends in one of the answers they allow.

**EntryPlan, ManagementPlan, TestnetAdmission.** Sizing of a testnet entry; the
projections of a revision: what the account is worth once the position has left
at its present stop, and at its next one, part of it perhaps at the top of the
book before; then the chain
context → plan → permit → effect, and binding → plan → permit → effect, as
actions of an operator at any distance in time over a record that other
processes use too.

**OrderBook, PublicLane; PrivateLane.** A lane and the venue it talks to. An
epoch is not a counter: a new connection drops the callbacks that would be
ignored and renames those that still act.

**PublicReplay, PrivateReplay.** A lane and, beside it, the replay of what it
has recorded so far: each action adds what its records make of the replayed book
or account. A handler records within its turn, so nothing comes between. It
records a message before it parses, checks or applies it, so the journal also
holds what the lane refused: a message that does not parse, or that the account
state refuses, makes the replay throw (`Threw`) if the replay gets to it, and a
depth message of another symbol, which the lane refuses, is ingested by the
replay (`Foreign`).

**EvidenceJournal, MarketEvidence.** The sink's file operations one by one, a
process that may end at each (a part of a line stays behind), the next process
on the same files, and a reader in another process whose four calls fall
anywhere between. Above it the market recorder, which writes, and the
verification (`Accepted`) of what a read returns.

**ShadowRuntime.** Evidence, evaluation, packets, bindings, intents and the
clock. A tick is the evaluation interval; times are ages and remaining
lifetimes, so nothing grows and the state space is finite without a bound on
time. The paper engine appears as its control flag, its position and its rows.

The modules `MC...` give values to constants; the other runs need none beyond
their cfg. Two also choose among behaviours, to keep each within reach of TLC:
`MCPaperEngine` explores every intent on one day, and fewer intents over days
and policies (`oneDay`); `MCShadowRuntime` explores the runtime and the captures
of the market stream, which share no state, one at a time (`moves`).

The type invariants of the lanes, the runtime and the coordinators are there to
be read; those of the paper engine and of the orchestrator are proved.

## Runs

All passing runs explore their whole state space.

| Run | Shows | Bounds, and why they are enough |
|---|---|---|
| `paper_engine` | every intent action, mark, control, resubmission, conflicting body and one stop of the process at any statement, those inside the transaction of a stop amendment included, keep the books, the receipts, the protection and the planned loss; ratchets and the loss boundary hold across policies and a change of day | two entries of opposite sides, stop amendments (some refused, also where the refused snapshot has raised the floor), target, reduction, hold, exit; three prices reach stop, target and neither; one crash: it may fall between any two statements, and the invariant proved below covers any number; one other policy, with a lower lock and a stressed exit that alone reaches the boundary; a second day may begin in the middle of a request |
| `testnet_writers` | two processes and one record: no intent submitted twice, refinement of one writer, the pointer | two entries, a revision, a close, quantity 2, so that a reduction leaves something; effects answer anything |
| `testnet_processes` | exposure is owned, an owned position is covered, targets follow stops, with every fault | two interchangeable processes (symmetry), one intent of each kind |
| `testnet_ends` | every operation ends, whatever the venue answers | one process; entries may fill after their answer |
| `testnet_admission` | what reaches an effect is fresh, of its record, and within budget; a revision keeps the protection | a tick is one age limit; ages 1 (reconciliation 0), permits live 2, time 3: every artifact can outlive each of its limits; steps 4 and 6 make the common step 12; positions of both sides, revisions with and without a reduction, a stop that may be loosened only with a reduction and one that follows the market |
| `streams_public` | a ready book is the venue's; a running lane is synchronised, never goes back, and comes back; the replay is its book, also from the middle of a rotated journal, unless a late foreign message was recorded | three updates on two levels: one before, at and after a snapshot; two faults; restarts unbounded |
| `streams_private` | a running lane holds the venue's account, keys are neither forgotten nor closed under a session, stop leaves nothing, the lane recovers; the replay is its account, and throws exactly when the account refused something | one start, three account changes, two faults (a refused event or snapshot is one), a buffer of two, so that it overflows |
| `shadow_runtime` | an event authorises one intent, candidates mean flat, exposure uses its event, reviews keep their interval and come; two files hold the latest records; an accepted capture is complete and in order | two intents; an event outlives the review interval and not the cooldown, as configured by default; two bindings, so that one is evicted. Two faults and a few connections and frames; a file that two messages fill, that a stop rotates and that an error overfills, so that a rotation follows any handler |
| `testnet_rejected`, `testnet_resubmit`, `testnet_partial`, `private_restart` | violations, see [findings](#findings) | the least that shows each |

Deadlock is not checked where a behaviour may end: a bound on submissions, time
or faults is used up, or a record is left pending for an operator. The paper
engine and the shadow runtime never stop and are checked for deadlock.

Each property of a passing run has a mutant in `PROJECT.json`: a definition
replaced by a plausible mistake (an operator preceded by a comment "Mutant"),
under which the property fails in that run.

## Fairness

- `paper_engine`: a request in progress goes on (`WF` of `Continue`; the code is
  synchronous), and marks keep coming (`SF` of `SetMark`: the venue sends them;
  the engine may be busy when one comes, which is why it is strong). No intent,
  control or restart is owed.
- `testnet_ends`: an awaited call ends, by an answer or by the transport's
  `AbortController` timeout, and the code after an await runs. The venue owes
  nothing, operators and recoveries owe nothing.
- Lanes: timers fire, dispatched events are delivered, awaited promises settle
  (both REST clients abort), sockets open or fail. Losing, changing and starting
  owe nothing.
- Shadow runtime: only the clock goes on. Records need not come; the property
  speaks of times when evidence is good. The captures need no fairness.

## Proofs

Each holds for every value of the constants that satisfies the named
assumptions (`...Assumption`, evaluated by TLC in the runs).

**PaperEngineProofs.** `EngineInv` = types, one position of positive quantity,
conserved money, `ReceiptMatchesEffect`, `RequestInProgress` and
`AmendmentInProgress`. `RequestInProgress` is what makes receipts inductive: it
says where the request being served stands with its row and its effect, so a
crash at any statement leaves a row that knows the truth.
`AmendmentInProgress` says what the transaction of a stop amendment would
restore: the one position with its old stop, and the old row. Conservation is proved for any rounding: a reduction moves the
rounded share of the fee from the position to the trade, and that they add up
does not depend on the share. From it: `TypeCorrect`, `MoneyIsConserved`,
`OneOpenPosition`, `ReceiptsAreTruthful`, `ReceiptsAreStable`, and
`DayNeverGivesBack` (`DayRatchet`).

`ProtectionAlwaysBrackets` goes through whatever can change a position or the
mark: each compares the new stop, target or entry with the mark, a mark that was
stored and not yet compared is excepted until `TriggerProtection` has run, and a
stop of the process in between changes neither.

`StopsHaveReceipts` and `AmendmentsCommitWhole` follow the stop of a position
through the store: it comes from an entry or a committed amendment, whose
journal entry is in the same transaction, and arrives with the row that was
judged; `RollBackStop` and `Crash` restore what `AmendmentInProgress` remembers.

`PlannedLossesHold` redoes the sizing in rounded quotients: what an entry takes
from the protected equity is its fee, the move to its stop and its exit's
reserve, each rounded once more than in the plan. `Roundings` says how much that
comes to, and the theorem is about every policy whose estimate covers the exit
(`PlansTheExit`).

**TestnetOrchestratorProofs.** `OrchInv` = types and `MemoryAgrees`: what an
operation remembers is what is stored as long as nobody saved since it loaded.
So each save is one step of `Ownership`: `SharedRecordHasOneWriter`, for any
number of processes and crashes. `PointerAlwaysFollows` adds that a pending
revision is one of the current position or has replaced it
(`RevisionOfCurrent`). `NoIntentIsSubmittedTwice` adds `Unsubmitted` and assumes
`~Resubmission`, which [the second finding](#findings) shows to be necessary.

**TestnetExecutionProofs.** The coordinators are built on the orchestrator's
actions (lemma `ExecutionIsOrchestrated`, which holds by how the module is
built), so the record of whole executions is that of one writer as well
(`ExecutionHasOneWriter`).

`TargetsHaveStops` holds whoever runs, repeats or fails: what sends a target has
looked its stop up, and an order that the venue knows is never forgotten.

`ExposureAlwaysOwned` and `OwnedIsAlwaysCovered` rest on the inductive invariant
`Proper /\ Unsubmitted /\ Account`. Neither property is inductive: between the
mutations of one operation the record says nothing of what the venue holds.
`Account` says it instead, in parts: `Accounted` (the position is what the
pending request left of what it owned or bought, order by order), `Unsent` (an
effect that never began has no order), `MarketsOwned` and `CancelsSafe` (of each
mutation under way, what it may still do), `Covered` and `Owned` (the stop of
the record, or of the revision that is replacing it), and `Operating`: what each
coordinator has learnt at each await is true, and stays true while the other
process, late mutations and triggers act. The proof goes through the actions of
the venue, of the entry, of the revision, of the close and of the
reconciliations one by one. Two hypotheses are needed, each for a reason
told [below](#findings): `~Resubmission` (a second submission would void what
was accounted to the first) and `"working" \notin Fills` (an order that fills
after its answer was taken as final is owned by nobody).

**TestnetAdmissionProofs.** `AdmissionInv` says of each artifact how old its
facts were when it was made and, of a plan, its record and its budget. Ages then
add up: an entry reaches the venue at most
`ReconciliationAge + CompileAge + ProofAge` after the reconciliation, however
long permits live (`EntriesRestOnFreshFacts`); management acts on the record it
was planned on (`ManagementActsOnItsRecord`). `LossesAreBudgeted` undoes every
rounding of the sizing: lemmas on quotients rounded up show that the planned
loss covers what the entry loses at its stop, and that the common step of
policy and venue exists.

`RevisionsKeepProtection` does the same for the management plan: each of the four
roundings of an exit errs to the side of caution by less than a cent, or by less
than a cent's costs, and the errors of two exits do not add up to more than
`RevisionKeepsProtection` allows.

**PrivateLaneProofs.** `SessionInv` = types, `AwaitedIsWanted` (what acts on the
lane when its promise settles belongs to a wanted lane), `StopLeavesNothing` and
`KeyIsAccounted`. From it `StoppedLaneIsQuiet` and `ListenKeyIsAccounted`. With one start
(`MaxStarts = 1`), `OneStartInv` and `ConnectionInv` say that creation, session,
cleanup and backoff exclude each other: `OneSessionAtATime` (`SessionKeepsKey`)
and, as the records then follow the session, `ReplayReproducesAccount`: the
replay is the lane's account until the record at which that account refused a
snapshot or an event, and throws there and nowhere else. (Only a refused
event makes a fold over the buffer refuse: the lemma `Unrefused`, by induction
over its length.) With two starts both theorems fail by [the last finding](#findings).

`RunningLaneIsReconciled` has `MaxStarts = 1` too. `AccountInv` splits the venue's
account into what the lane holds and what is in its buffer or on the wire: each
part is held at its newest version, or an event with a newer one is still to
come, also for the parts of a snapshot that is being read. Draining the
buffer is a fold; the account is compared before and after it by induction over
its length.

**PublicReplayProofs.** `ReplayReproducesBook`: each step changes the book and the
replay in the same way, or loses the reader's synchronisation, or leaves a
foreign message in the replay alone, which is then not followed until the next
backoff or connecting.

That the book is right is a theorem too. `BookInv` says that whatever may still
reach the book was cut from the venue's history: diffs on the wire and in
decoding, the buffer, a snapshot that is asked for or answered (`LaneInv`). Then
a delta is applied only where it leaves nothing out, whatever was lost
before, and a book that calls itself ready is the venue's at the update it names
(`RunningBookIsTrue`); it never goes back while the lane runs
(`RunningBookAdvances`). A snapshot applied to a buffer is a fold over the
buffered diffs (`ApplyBuffered`), handled by induction over the number of
diffs. `ReplayInv` says the same of the replay, which may begin anywhere in the
records (`ReplayedBookIsTrue`).

**MarketEvidenceProofs.** `JournalAlwaysKeepsTheLatest`: backup and file are a
suffix of the pieces written. `AcceptedReadsAreComplete`: from the moment the
reader has looked for the files, what it holds is a run of consecutive pieces,
or has a repetition or a gap that the verification sees in the numbers.
`SummariesStayOwn`: what is decoded is of the connection it was received on.
`AcceptedReadsAreFaithful` adds `ConnectionsInv`: between the lines of two
connections of a session a number went to a "backoff". The line itself may be
lost or rotated away, so the invariant is about the number: no line that is on
the disk, in the outbox or with the reader has it and is anything else. A
capture without a "backoff" and without a gap is then of one connection.

**ShadowRuntimeProofs.** `OfferInv`: an event on offer is unused, one used is
withdrawn or expired, a candidate means flat. From it `EventsAreUsedOnce`,
`CandidatesAreFlat`, `ExposureAlwaysUsesEvent`. `ReviewsAlwaysKeepCadence`: within
one life of the process the runtime's own clocks (`waited`) are the time since
the last event of each type, which is kept as history (`offered`).

Of the properties of the passing runs, only the liveness properties are left to
TLC alone (`LossBoundaryEnforced`, `OperationsEnd`, `LaneRecovers`,
`StreamLossIsNoticed`, `HealthyMarketIsReviewed`): the prover has no `ENABLED`. For
every other one there is a theorem, for the hypotheses named here.

## Findings

Four runs look for a violation and find it.

1. `testnet_rejected` (`RejectionEndsTheEntry`). The coordinator tells a
   rejected entry from an ambiguous one, but the ledger throws for
   `rejected_before_exposure` (`owned-protection-state.ts:250`): the entry stays
   pending for good, and nothing else can be staged.
2. `testnet_resubmit` (`SubmittedOnce`). A plan handed in again while its outcome
   is open is staged as it is (`owned-protection-state.ts:142`) and its mutating
   effect is invoked again (`testnet-orchestrator.ts:134`). Entry plans are not
   compared with the record, unlike revisions and closes; only the age of the
   plan limits this.
3. `testnet_partial` (`FillsAreProtected`). `proveOrdinaryFill` accepts FILLED and
   PARTIALLY_FILLED (`protection-coordinator.ts:613`). A market entry that
   executed in part and expired is never proven, and the executed part has no
   stop and no flatten (`operations/ontology.md:211`: "every filled quantity is
   protected or explicitly flattening").
4. `private_restart` (`LaneRecovers`). `stop()` during a backoff leaves
   `restartPending` set; after the next `start()` the lane cannot restart.

Observations without a run of their own:

- PARTIALLY_FILLED is taken as final: what fills later is not covered. The runs
  on exposure and cover exclude entries that fill after their answer
  (`Fills` without `"working"`); `testnet_ends` includes them, and
  `FillsAreProtected` fails for them as well.
- A stop whose POST was ambiguous may become live after the emergency flatten;
  nothing cancels it. A triggered stop leaves a record that only a failing close
  could clear.
- The paper entry is sized with one cost rate (`risk-engine.ts:157`) and its open
  risk measured with another: with a stressed exit above half the round trip,
  which a policy may have, an entry can be below its floor at once.
  `PlannedLossHolds` is about the policies that have not.
- A resubmitted paper intent that took effect before a crash is answered
  `rejected` with a request to reconcile (`trading-engine.ts:242`).
- An `ENTER` bound to the review event of a position is admitted once that
  position has closed, until the next evaluation.
- An entry charges exit costs on the entry's notional, the management plan on
  the stop's: for a short the first is the smaller.
- `private_reconciliation_max_age_ms` is 60 s, and a lane reconciles only when it
  connects: a healthy lane blocks new contexts a minute later.
- A frame of the market recorder that is decoded after its connection was
  replaced becomes the latest of the new one, although
  `docs/BINANCE_MARKET_EVIDENCE.md` says that a connection "cannot borrow
  readiness from a prior connection": `SummariesAreOwn` allows for that case and
  no other.
- A frame is recorded before it is parsed, checked or applied. A replay that meets
  a malformed depth frame, or an account event or snapshot that the lane
  refused, throws, also for what came before and after it; an account event that
  a restart dropped from the buffer before it was applied does no harm. A late
  depth frame of another symbol, which the lane refuses
  (`public-stream-lane.ts:244`), is ingested by the replay: such a journal
  does not replay to the lane's book (FR-B009), which `ReplayMirrorsBook` and
  `ReplayIsTrue` except. A line torn by a crash makes every read throw until it is rotated away.
- The reports hash the files again after they were verified
  (`market-evidence.ts:291`): the hash is of what they hold then.
- A permit lives 30 s, its proof is good for one: the permit's lifetime never
  matters in the default configuration.

## Abstractions

- Amounts are integers of small scale; `Bps` and the scales are constants, and
  the theorems hold for all of them. JavaScript's safe-integer checks, which
  throw, are left out.
- Client ids are pairs of a prefix and an intent; hashes are the value itself.
- Time is left to the caller in the orchestrator and is a tick in
  `TestnetAdmission`. Ages of market and preflight facts are checked there but
  not recorded; the other blockers (schema, symbol, mode, permissions) only keep
  an artifact from being ready.
- Within `testnet_admission` the clock of the venue is not ahead
  (`Tolerance = 0`); the theorems cover every tolerance.
- The venue executes a timed-out mutation at any later time, which includes
  everything `recvWindow` allows. Reduce-only orders never exceed the position.
- Frames of the private lane are text, which decodes within its turn; frames of
  the public lane and of the market stream may be Blobs. The lanes' evidence
  sinks succeed. A malformed record may make the market recorder's fail; a file
  operation that fails is a process that ends there.
- In a capture the number of a frame stands for its times and ids, a line has a
  size by its kind, and an empty file is none. Wall clock times are left out:
  only the monotonic clock orders records. The numbers of a replay's records
  are not checked by the replay, nor modelled in it.
- `streams_private` has one start, because of the last finding.
- Of the private account there are two parts with versions; events carry a
  part's new version, snapshots read one part after the other. An event or a
  snapshot may be refused after some of it was written: that part is then of
  version 0, which the venue never has. A replay that throws has no result.

Not modelled: formatting and parsing, hashes and redaction, the verifiers of
public and private captures beyond the contiguity they share with that of the
market, the supervisor (it starts and stops two lanes that share nothing), the
opportunity engine's statistics, read-only queries, preflight, command lines.
They keep no state that the properties above speak of.

## Plan

In the order in which the modules were written, the most important behaviour of
the system first:

1. Paper engine with crashes, and its invariant — done.
2. Ledger, abstract ownership, orchestrators, refinement — done.
3. Coordinators against the venue — done.
4. Lanes, order book and account, session proofs — done.
5. Shadow runtime with proofs — done.
6. Admission with times and sizing, with proofs — done.
7. Management plan, with the theorem on its rounding — done.
8. Replay of both lanes, with proofs — done.
9. Journal, market recorder and verification, with proofs — done.
10. Proofs of what the runs had shown: the accounting of whole executions, the
    book and the account of a running lane, the paper engine's protection and
    planned loss, the review cadence, accepted captures — done.

Left:

- **Successive positions** after a flatten, with the ids left over from the
  first: a stop whose POST was ambiguous may act on the next position.
- **Verification of public captures**, which replays the frames against the
  snapshots as the lane did.
- **Proofs**: `RunningLaneIsReconciled` and `SessionKeepsKey` for any number of
  starts between which no backoff is interrupted, which is what the last finding
  leaves.
