---------------------------- MODULE PaperEngine ----------------------------
(***************************************************************************)
(* The paper gateway: TradingEngine (src/core/trading-engine.ts) over the  *)
(* SQLite store (src/storage/database.ts) and the paper venue.             *)
(*                                                                         *)
(* The engine is synchronous, so requests do not interleave; but each      *)
(* request is a sequence of separately committed statements, and the       *)
(* process may stop between any two of them.  `pc` names the next          *)
(* statement of the request being served; a crash loses pc, current and    *)
(* outcome and keeps every table, as it was when the transaction in        *)
(* progress, if there is one, began.                                       *)
(***************************************************************************)
EXTENDS RiskEngine, FiniteSets

CONSTANTS IntentIds,       \* intent UUIDs
          Intents,         \* the strict intents that callers may submit
          Prices,          \* mark prices, in cents
          PolicyChoices,   \* the policies an operator may set
          InitialPolicy,
          InitialBalance,
          InitialMark,
          Modes,           \* the gateway modes an operator or a restart sets
          MaxDay,          \* bound: the last UTC day of a behaviour
          MaxCrashes,      \* bound: process stops in a behaviour
          NONE

GatewayModes == {"disabled", "shadow", "armed"}

EntryActions == {"ENTER_LONG", "ENTER_SHORT"}

Actions == EntryActions \cup
    {"HOLD", "NOTHING", "MOVE_STOP", "MOVE_TARGET", "REDUCE", "EXIT"}

(* A parsed intent.  `tranche` is the id of the entry that opened it (the  *)
(* tranche id is TR-<intent id>) or NONE; `known` says whether account and *)
(* instrument are the engine's own; fields an action lacks are ignored.    *)
IntentBodies ==
    [id : IntentIds, action : Actions, tranche : IntentIds \cup {NONE},
     known : BOOLEAN, stop : Int, target : Int, riskBps : Int,
     leverage : Int, pct : 1 .. 99]

ASSUME EngineAssumption ==
    /\ Intents \subseteq IntentBodies
    /\ Prices \subseteq Nat \ {0}
    /\ InitialMark \in Prices
    /\ InitialBalance \in Int
    /\ PolicyChoices \subseteq Policies
    /\ InitialPolicy \in Policies
    /\ Modes \subseteq GatewayModes
    /\ MaxDay \in Nat
    /\ MaxCrashes \in Nat
    /\ NONE \notin IntentIds
    /\ NONE \notin Intents

Accepted == {"observed", "open_protected", "managed", "reduced_protected", "closed"}
Terminal == Accepted \cup {"rejected"}

VARIABLES
    running, mode, policy,       \* the settings row
    account,                     \* the account row: balance and mark price
    daily,                       \* the newest daily_state row
    positions,                   \* the positions table
    realized,                    \* net_pnl_cents summed over the trades table
    intents,                     \* the intents table
    effects,                     \* per intent id, position changes journaled for it
    today,                       \* the UTC day of the clock
    pc, current, outcome,        \* the request in progress (memory)
    unchecked,                   \* history: a mark is stored and no stop was checked against it
    before,                      \* what SQLite restores of the open transaction, or NONE
    crashes                      \* bound on crashes

settings == <<running, mode, policy>>
book == <<account, positions, realized>>
ledger == <<intents, effects>>
memory == <<pc, current, outcome>>
vars == <<running, mode, policy, account, daily, positions, realized, intents,
          effects, today, pc, current, outcome, unchecked, before, crashes>>

Stages == {"idle", "claimed", "stop_written", "stop_judged", "settle_intent",
           "finalize", "settle", "mark_set", "mark_checked", "flattening"}

(* moveStop is between BEGIN and COMMIT or ROLLBACK. *)
InTransaction == pc \in {"stop_written", "stop_judged"}

Positions ==
    [tranche : IntentIds, side : Sides, qty : Int, entry : Int, stop : Int,
     target : Int, fee : Int]

DailyRows == [day : Int, start : Int, high : Int, floor : Int]

Tables == [positions : SUBSET Positions, daily : DailyRows]

(* The tables as a restart would find them. *)
StoredPositions == IF InTransaction THEN before.positions ELSE positions

StoredDaily == IF InTransaction THEN before.daily ELSE daily

SettingsOK == running \in BOOLEAN /\ mode \in GatewayModes /\ policy \in Policies

BookOK ==
    /\ account \in [balance : Int, mark : Nat \ {0}]
    /\ positions \subseteq Positions
    /\ realized \in Int

LedgerOK ==
    /\ intents \in [IntentIds -> [state : Terminal \cup {"absent", "received"},
                                  body : Intents \cup {NONE}]]
    /\ effects \in [IntentIds -> Nat]

MemoryOK ==
    /\ pc \in Stages
    /\ current \in Intents \cup {NONE}
    /\ outcome \in Terminal \cup {"none"}

ClockOK ==
    daily \in DailyRows /\ today \in Nat /\ unchecked \in BOOLEAN /\ crashes \in Nat

JournalOK == before \in Tables \cup {NONE}

TypeOK == SettingsOK /\ BookOK /\ LedgerOK /\ MemoryOK /\ ClockOK /\ JournalOK

-----------------------------------------------------------------------------
(* initializeDefaults: a fresh store is stopped and in shadow mode; the     *)
(* engine's constructor takes the first snapshot.                           *)
Init ==
    /\ running = FALSE
    /\ mode = "shadow"
    /\ policy = InitialPolicy
    /\ account = [balance |-> InitialBalance, mark |-> InitialMark]
    /\ positions = {}
    /\ daily = [day |-> 0, start |-> InitialBalance, high |-> InitialBalance,
                floor |-> NoFloor]
    /\ realized = 0
    /\ intents = [i \in IntentIds |-> [state |-> "absent", body |-> NONE]]
    /\ effects = [i \in IntentIds |-> 0]
    /\ today = 0
    /\ pc = "idle" /\ current = NONE /\ outcome = "none"
    /\ unchecked = FALSE
    /\ before = NONE
    /\ crashes = 0

Risk == Snapshot(today, daily, account, positions, policy)

TakeSnapshot == daily' = Risk.daily

-----------------------------------------------------------------------------
(* Position changes shared by several requests. *)

(* closeQuantity: the part of the entry fee that goes with the quantity *)
FeeShare(p, qty) == RoundDiv(p.fee * qty, p.qty)

ExitFee(exit, qty) == ApplyBps(Notional(exit, qty), HalfCostBps(policy))

(* What the trade row records and what the account receives are computed   *)
(* apart: the account paid the entry fee when the position was opened.     *)
TradeNet(p, qty, exit) ==
    Pnl(p.side, p.entry, exit, qty) - FeeShare(p, qty) - ExitFee(exit, qty)

AccountCredit(p, qty, exit) ==
    Pnl(p.side, p.entry, exit, qty) - ExitFee(exit, qty)

(* Mutant: the whole entry fee stays with what remains. *)
SurvivorWholeFee(p, qty) == [p EXCEPT !.qty = @ - qty]

Survivor(p, qty) ==
    [tranche |-> p.tranche, side |-> p.side, entry |-> p.entry, stop |-> p.stop,
     target |-> p.target, qty |-> p.qty - qty, fee |-> p.fee - FeeShare(p, qty)]

(* The transaction of closeQuantity: account, position and trade together. *)
CloseQuantity(p, qty, exit) ==
    /\ account' = [account EXCEPT !.balance = @ + AccountCredit(p, qty, exit)]
    /\ positions' = IF qty = p.qty THEN positions \ {p}
                    ELSE (positions \ {p}) \cup {Survivor(p, qty)}
    /\ realized' = realized + TradeNet(p, qty, exit)

Crossed(p, price) ==
    IF p.side = "LONG" THEN price <= p.stop ELSE price >= p.stop

TargetReached(p, price) ==
    IF p.side = "LONG" THEN price >= p.target ELSE price <= p.target

-----------------------------------------------------------------------------
(* POST /intent *)

(* Mutant: a claimed row without a receipt is executed again. *)
AnswerToRetried(b) ==
    IF intents[b.id].state \in {"absent", "received"} THEN "none"
    ELSE IF intents[b.id].body # b THEN "conflict" ELSE intents[b.id].state

(* Mutant: another body under a stored id replaces it. *)
AnswerToReplaced(b) ==
    IF intents[b.id].state = "absent" \/ intents[b.id].body # b THEN "none"
    ELSE intents[b.id].state

(* What a submission of b is answered without executing anything: a stored  *)
(* receipt is replayed, another body under the id is a conflict, and a      *)
(* claimed row without a receipt (a request that did not finish) is         *)
(* answered as rejected, to be reconciled.                                  *)
AnswerTo(b) ==
    LET row == intents[b.id]
    IN  IF row.state = "absent" THEN "none"
        ELSE IF row.body # b THEN "conflict"
        ELSE IF row.state = "received" THEN "rejected"
        ELSE row.state

(* claimIntent commits the row before anything is executed. *)
ClaimIntent(b) ==
    /\ pc = "idle"
    /\ AnswerTo(b) = "none"
    /\ intents' = [intents EXCEPT ![b.id] = [state |-> "received", body |-> b]]
    /\ pc' = "claimed"
    /\ current' = b
    /\ UNCHANGED <<settings, book, effects, daily, today, outcome, unchecked, before, crashes>>

Finishing(next, state) ==
    /\ pc' = next
    /\ outcome' = state

Count(id) == effects' = [effects EXCEPT ![id] = @ + 1]

PositionOf(tranche) == {p \in positions : p.tranche = tranche}

EntrySide(b) == IF b.action = "ENTER_LONG" THEN "LONG" ELSE "SHORT"

(* The checks of enter() that precede its first risk snapshot. *)
EntryGate == running /\ mode # "disabled" /\ positions = {}

Sizing(b) == EntrySizing(Risk, policy, account.mark, b.stop, b.riskBps, b.leverage)

EntryAdmitted(b) ==
    /\ b.known
    /\ EntryGate
    /\ NewExposureAllowed(Risk)
    /\ StopSideValid(EntrySide(b), account.mark, b.stop)
    /\ TargetSideValid(EntrySide(b), account.mark, b.target)
    /\ SizingAdmitted(Risk, policy, Sizing(b))

Opened(b) ==
    [tranche |-> b.id, side |-> EntrySide(b), qty |-> Sizing(b).qty,
     entry |-> account.mark, stop |-> b.stop, target |-> b.target,
     fee |-> ApplyBps(Sizing(b).notional, HalfCostBps(policy))]

Enter ==
    /\ pc = "claimed"
    /\ current.action \in EntryActions
    /\ EntryAdmitted(current)
    /\ TakeSnapshot
    /\ account' = [account EXCEPT !.balance = @ - Opened(current).fee]
    /\ positions' = positions \cup {Opened(current)}
    /\ Count(current.id)
    /\ Finishing("settle_intent", "open_protected")
    /\ UNCHANGED <<settings, realized, intents, today, current, unchecked, before, crashes>>

(* HOLD (of an open tranche, if it names one) and NOTHING record only. *)
ObservationAdmitted(b) ==
    /\ b.known
    /\ b.action \in {"HOLD", "NOTHING"}
    /\ (b.action = "HOLD" /\ b.tranche # NONE) => PositionOf(b.tranche) # {}

RecordObservation ==
    /\ pc = "claimed"
    /\ ObservationAdmitted(current)
    /\ Finishing("finalize", "observed")
    /\ UNCHANGED <<settings, book, ledger, daily, today, current, unchecked, before, crashes>>

WithStop(p, stop) == (positions \ {p}) \cup {[p EXCEPT !.stop = stop]}

(* moveStop, statement by statement: the transaction begins and the new     *)
(* stop is written, ...                                                     *)
WriteStop ==
    /\ pc = "claimed"
    /\ current.action = "MOVE_STOP"
    /\ current.known
    /\ \E p \in PositionOf(current.tranche) :
          /\ StopSideValid(p.side, account.mark, current.stop)
          /\ positions' = WithStop(p, current.stop)
    /\ before' = [positions |-> positions, daily |-> daily]
    /\ pc' = "stop_written"
    /\ UNCHANGED <<settings, account, realized, ledger, daily, today, current, outcome,
                   unchecked, crashes>>

(* ... the risk snapshot sees the new stop and writes its row, and its      *)
(* reasons are judged, ...                                                  *)
JudgeStop ==
    /\ pc = "stop_written"
    /\ TakeSnapshot
    /\ Finishing("stop_judged", IF ExposureRestricted(Risk) THEN "rejected" ELSE "managed")
    /\ UNCHANGED <<settings, book, ledger, today, current, unchecked, before, crashes>>

(* ... and stop and row are committed, with the journal entry, ...          *)
CommitStop ==
    /\ pc = "stop_judged"
    /\ outcome = "managed"
    /\ Count(current.id)
    /\ before' = NONE
    /\ pc' = "finalize"
    /\ UNCHANGED <<settings, book, intents, daily, today, current, outcome, unchecked, crashes>>

(* Mutant: the row of the refused amendment stays. *)
RestoredStopOnly ==
    /\ positions' = before.positions
    /\ UNCHANGED daily

(* Mutant: the stop of the refused amendment stays. *)
RestoredRowOnly ==
    /\ UNCHANGED positions
    /\ daily' = before.daily

(* What ROLLBACK, or SQLite when it opens the store again, undoes. *)
Restored ==
    /\ positions' = before.positions
    /\ daily' = before.daily

(* ... or the error of the refusal rolls both back. *)
RollBackStop ==
    /\ pc = "stop_judged"
    /\ outcome = "rejected"
    /\ Restored
    /\ before' = NONE
    /\ pc' = "finalize"
    /\ UNCHANGED <<settings, account, realized, ledger, today, current, outcome, unchecked,
                   crashes>>

MoveTarget ==
    /\ pc = "claimed"
    /\ current.action = "MOVE_TARGET"
    /\ current.known
    /\ \E p \in PositionOf(current.tranche) :
          /\ TargetSideValid(p.side, account.mark, current.target)
          /\ positions' = (positions \ {p}) \cup {[p EXCEPT !.target = current.target]}
    /\ Count(current.id)
    /\ Finishing("finalize", "managed")
    /\ UNCHANGED <<settings, account, realized, intents, daily, today, current, unchecked, before, crashes>>

ReducedQuantity(b, p) == RoundDownToStep((p.qty * b.pct) \div 100, policy.step)

ReductionAdmitted(b, p) ==
    /\ ReducedQuantity(b, p) > 0
    /\ ReducedQuantity(b, p) < p.qty
    /\ p.qty - ReducedQuantity(b, p) >= policy.step

Reduce ==
    /\ pc = "claimed"
    /\ current.action = "REDUCE"
    /\ current.known
    /\ \E p \in PositionOf(current.tranche) :
          /\ ReductionAdmitted(current, p)
          /\ CloseQuantity(p, ReducedQuantity(current, p), account.mark)
    /\ Count(current.id)
    /\ Finishing("settle_intent", "reduced_protected")
    /\ UNCHANGED <<settings, intents, daily, today, current, unchecked, before, crashes>>

Exit ==
    /\ pc = "claimed"
    /\ current.action = "EXIT"
    /\ current.known
    /\ \E p \in PositionOf(current.tranche) : CloseQuantity(p, p.qty, account.mark)
    /\ Count(current.id)
    /\ Finishing("settle_intent", "closed")
    /\ UNCHANGED <<settings, intents, daily, today, current, unchecked, before, crashes>>

(* executeIntent raised an error before it wrote anything but a snapshot: a *)
(* refused entry keeps the one it took, if any.                             *)
Executable(b) ==
    CASE b.action \in EntryActions -> EntryAdmitted(b)
      [] b.action \in {"HOLD", "NOTHING"} -> ObservationAdmitted(b)
      [] OTHER -> /\ b.known
                  /\ \E p \in PositionOf(b.tranche) :
                        CASE b.action = "MOVE_STOP" ->
                                StopSideValid(p.side, account.mark, b.stop)
                          [] b.action = "MOVE_TARGET" ->
                                TargetSideValid(p.side, account.mark, b.target)
                          [] b.action = "REDUCE" -> ReductionAdmitted(b, p)
                          [] OTHER -> TRUE

RejectIntent ==
    /\ pc = "claimed"
    /\ ~Executable(current)
    /\ IF current.action \in EntryActions /\ current.known /\ EntryGate
       THEN TakeSnapshot
       ELSE UNCHANGED daily
    /\ Finishing("finalize", "rejected")
    /\ UNCHANGED <<settings, book, ledger, today, current, unchecked, before, crashes>>

(* The snapshot enter() and closeQuantity take after their transaction. *)
SettleIntent ==
    /\ pc = "settle_intent"
    /\ TakeSnapshot
    /\ pc' = "finalize"
    /\ UNCHANGED <<settings, book, ledger, today, current, outcome, unchecked, before, crashes>>

FinalizeIntent ==
    /\ pc = "finalize"
    /\ intents' = [intents EXCEPT ![current.id].state = outcome]
    /\ pc' = "idle" /\ current' = NONE /\ outcome' = "none"
    /\ UNCHANGED <<settings, book, effects, daily, today, unchecked, before, crashes>>

-----------------------------------------------------------------------------
(* Mark prices and the operator's controls. *)

(* updatePaperMark, statement by statement: the mark is stored, ... *)
SetMark(price) ==
    /\ pc = "idle"
    /\ account' = [account EXCEPT !.mark = price]
    /\ unchecked' = TRUE
    /\ pc' = "mark_set"
    /\ UNCHANGED <<settings, positions, realized, ledger, daily, today, current, outcome,
                   before, crashes>>

(* ... a position whose stop or target it reaches is closed, at the mark or *)
(* at the target, ...                                                       *)
TriggerProtection ==
    /\ pc = "mark_set"
    /\ \/ \E p \in positions :
             \/ Crossed(p, account.mark) /\ CloseQuantity(p, p.qty, account.mark)
             \/ /\ ~Crossed(p, account.mark)
                /\ TargetReached(p, account.mark)
                /\ CloseQuantity(p, p.qty, p.target)
       \/ /\ \A p \in positions : ~Crossed(p, account.mark)
                                  /\ ~TargetReached(p, account.mark)
          /\ UNCHANGED book
    /\ unchecked' = FALSE
    /\ pc' = "mark_checked"
    /\ UNCHANGED <<settings, ledger, daily, today, current, outcome, before, crashes>>

(* Mutant: only the profit floor flattens. *)
MustFlattenFloorOnly == positions # {} /\ Risk.floorUnprotected

(* ... and what remains open is flattened at the loss boundary or below the *)
(* floor.  flattenAll stops the runtime first.                              *)
MustFlatten == positions # {} /\ (Risk.lossReached \/ Risk.floorUnprotected)

GuardRisk ==
    /\ pc = "mark_checked"
    /\ TakeSnapshot
    /\ running' = (running /\ ~MustFlatten)
    /\ pc' = IF MustFlatten THEN "flattening" ELSE "idle"
    /\ UNCHANGED <<mode, policy, book, ledger, today, current, outcome, unchecked, before, crashes>>

FlattenAll ==
    /\ pc = "idle"
    /\ running' = FALSE
    /\ pc' = "flattening"
    /\ UNCHANGED <<mode, policy, book, ledger, daily, today, current, outcome, unchecked, before, crashes>>

CloseForFlatten ==
    /\ pc = "flattening"
    /\ IF positions = {} THEN UNCHANGED book
       ELSE \E p \in positions : CloseQuantity(p, p.qty, account.mark)
    /\ pc' = "settle"
    /\ UNCHANGED <<settings, ledger, daily, today, current, outcome, unchecked, before, crashes>>

(* start, stop, the mode route and updatePolicy end by a snapshot. *)
Start ==
    /\ pc = "idle"
    /\ mode # "disabled"
    /\ running' = TRUE
    /\ pc' = "settle"
    /\ UNCHANGED <<mode, policy, book, ledger, daily, today, current, outcome, unchecked, before, crashes>>

Stop ==
    /\ pc = "idle"
    /\ running' = FALSE
    /\ pc' = "settle"
    /\ UNCHANGED <<mode, policy, book, ledger, daily, today, current, outcome, unchecked, before, crashes>>

SetMode(m) ==
    /\ pc = "idle"
    /\ mode' = m
    /\ pc' = "settle"
    /\ UNCHANGED <<running, policy, book, ledger, daily, today, current, outcome, unchecked, before, crashes>>

UpdatePolicy(p) ==
    /\ pc = "idle"
    /\ ValidPolicy(p)
    /\ p.step = policy.step /\ p.minNotional = policy.minNotional  \* not patchable
    /\ policy' = p
    /\ pc' = "settle"
    /\ UNCHANGED <<running, mode, book, ledger, daily, today, current, outcome, unchecked, before, crashes>>

Settle ==
    /\ pc = "settle"
    /\ TakeSnapshot
    /\ pc' = "idle"
    /\ UNCHANGED <<settings, book, ledger, today, current, outcome, unchecked, before, crashes>>

(* GET /state, /health, /packet, /performance: each writes the daily row. *)
Observe ==
    /\ pc = "idle"
    /\ TakeSnapshot
    /\ UNCHANGED <<settings, book, ledger, today, memory, unchecked, before, crashes>>

-----------------------------------------------------------------------------
(* The environment. *)

NextDay ==
    /\ today < MaxDay
    /\ today' = today + 1
    /\ UNCHANGED <<settings, book, ledger, daily, memory, unchecked, before, crashes>>

(* The process stops between two statements and is started again: the       *)
(* gateway mode comes from the configuration, a transaction that was open   *)
(* is undone, the constructor takes a snapshot, everything else is as it    *)
(* was stored.                                                              *)
Crash ==
    /\ crashes < MaxCrashes
    /\ crashes' = crashes + 1
    /\ mode' \in Modes
    /\ positions' = StoredPositions
    /\ daily' = Snapshot(today, StoredDaily, account, StoredPositions, policy).daily
    /\ pc' = "idle" /\ current' = NONE /\ outcome' = "none" /\ before' = NONE
    /\ UNCHANGED <<running, policy, account, realized, ledger, today, unchecked>>

ExecuteIntent ==
    \/ Enter \/ RecordObservation \/ WriteStop \/ MoveTarget \/ Reduce \/ Exit
    \/ RejectIntent

Continue ==
    \/ ExecuteIntent \/ JudgeStop \/ CommitStop \/ RollBackStop
    \/ SettleIntent \/ FinalizeIntent
    \/ TriggerProtection \/ GuardRisk \/ CloseForFlatten \/ Settle

Next ==
    \/ \E b \in Intents : ClaimIntent(b)
    \/ \E price \in Prices : SetMark(price)
    \/ FlattenAll \/ Start \/ Stop \/ Observe
    \/ \E m \in Modes : SetMode(m)
    \/ \E p \in PolicyChoices : UpdatePolicy(p)
    \/ Continue
    \/ NextDay
    \/ Crash

Spec == Init /\ [][Next]_vars

(* A request in progress runs to its end, and the market keeps sending     *)
(* marks; no request is owed to the engine.                                *)
Fairness ==
    /\ WF_vars(Continue)
    /\ SF_vars(\E price \in Prices : SetMark(price))

-----------------------------------------------------------------------------
(* Properties. *)

(* Every cent is accounted for: the balance is the initial balance plus the *)
(* net result of every recorded trade, less the entry fee still carried by  *)
(* the open position.  closeQuantity computes account and trade apart and   *)
(* splits the fee with a rounding at each partial reduction.                *)
MoneyConserved ==
    /\ positions = {} => account.balance = InitialBalance + realized
    /\ \A p \in positions : account.balance = InitialBalance + realized - p.fee

(* "initial_scope_allows_one_open_position": whatever is retried, crashed   *)
(* or reopened, at most one position is open, and it has a quantity.        *)
OnePosition ==
    /\ \A p, q \in positions : p = q
    /\ \A p \in positions : p.qty > 0

(* An intent changes positions at most once, however often it is submitted  *)
(* and wherever the process stopped; a stored receipt tells the truth: a    *)
(* rejected intent changed nothing, an accepted change happened once.       *)
ReceiptMatchesEffect ==
    \A i \in IntentIds :
        /\ effects[i] <= 1
        /\ intents[i].state \in {"absent", "rejected", "observed"} => effects[i] = 0
        /\ intents[i].state \in Accepted \ {"observed"} => effects[i] = 1

(* Once every stored mark has been checked, the open position lies strictly *)
(* between its stop and its target: no entry, amendment or reduction can    *)
(* leave a position that native protection would already have closed, nor   *)
(* the undoing of an amendment.                                             *)
ProtectionBracketsMark ==
    ~unchecked => \A p \in positions \cup StoredPositions :
                      ~Crossed(p, account.mark) /\ ~TargetReached(p, account.mark)

Serving == {"claimed", "stop_written", "stop_judged", "settle_intent", "finalize"}

(* Where the request in progress stands with its row and its effect: what   *)
(* makes ReceiptMatchesEffect inductive.                                    *)
RequestInProgress ==
    /\ pc \in Serving =>
          /\ current \in Intents
          /\ intents[current.id] = [state |-> "received", body |-> current]
    /\ pc \in {"claimed", "stop_written", "stop_judged"} => effects[current.id] = 0
    /\ pc \in {"settle_intent", "finalize"} =>
          /\ outcome \in Terminal
          /\ effects[current.id] = IF outcome \in {"rejected", "observed"} THEN 0 ELSE 1

(* Where the amendment in progress stands with what it may have to undo:    *)
(* one position differs, in its stop; the row is the snapshot of the new    *)
(* stop and its judgement is remembered.                                    *)
AmendmentInProgress ==
    /\ ~InTransaction => before = NONE
    /\ InTransaction =>
          /\ before \in Tables
          /\ current.action = "MOVE_STOP"
          /\ \E p \in Positions :
                /\ p.tranche = current.tranche
                /\ before.positions = {p}
                /\ positions = {[p EXCEPT !.stop = current.stop]}
    /\ pc = "stop_written" => daily = before.daily
    /\ pc = "stop_judged" =>
          LET judged == Snapshot(daily.day, before.daily, account, positions, policy)
          IN  /\ daily = judged.daily
              /\ outcome \in {"managed", "rejected"}
              /\ outcome = "managed" => ~ExposureRestricted(judged)

(* Within a UTC day the anchor of the daily objective is fixed and what the *)
(* day has earned is never given back: neither the high-water mark nor the  *)
(* profit floor falls, across policy changes, closes and restarts.          *)
DayRatchet ==
    [][StoredDaily'.day = StoredDaily.day =>
          /\ StoredDaily'.start = StoredDaily.start
          /\ StoredDaily'.high >= StoredDaily.high
          /\ StoredDaily'.floor >= StoredDaily.floor]_vars

(* A body or receipt once stored under an intent id is never replaced.      *)
ReceiptStable ==
    [][\A i \in IntentIds :
          /\ intents[i].state # "absent" => intents'[i].body = intents[i].body
          /\ intents[i].state \in Terminal => intents'[i] = intents[i]]_vars

(* Body i set the stop of position p: it opened p, or moved its stop, and   *)
(* its change is journaled.                                                 *)
SetsStop(i, p) ==
    /\ intents[i].body \in Intents
    /\ intents[i].body.stop = p.stop
    /\ effects[i] = 1
    /\ \/ i = p.tranche
       \/ intents[i].body.action = "MOVE_STOP" /\ intents[i].body.tranche = p.tranche

(* The stop the store holds is one that an executed intent asked for: a     *)
(* refused amendment, or one whose transaction the process did not finish,  *)
(* never leaves its stop behind, though moveStop writes it before it is     *)
(* judged.                                                                  *)
StopHasReceipt == \A p \in StoredPositions : \E i \in IntentIds : SetsStop(i, p)

(* What a step adds to the store is whole: a row is the snapshot of the     *)
(* stored positions, before or after the step, and a stop that changes      *)
(* under an open position comes with the row of its own snapshot, which     *)
(* found it within the limits.  A refusal, whose snapshot may have raised   *)
(* the floor, leaves no row.                                                *)
AmendmentCommitsWhole ==
    [][LET Judged(ps) == Snapshot(StoredDaily'.day, StoredDaily, account, ps, policy)
       IN  /\ StoredDaily' # StoredDaily =>
                 \E ps \in {StoredPositions, StoredPositions'} : StoredDaily' = Judged(ps).daily
           /\ \A p \in StoredPositions, q \in StoredPositions' :
                 p.tranche = q.tranche /\ p.stop # q.stop =>
                     /\ StoredDaily' = Judged(StoredPositions').daily
                     /\ ~ExposureRestricted(Judged(StoredPositions'))]_vars

(* Sizing plans the loss of an entry with the round-trip estimate, and the  *)
(* next snapshot measures it with half of that as a fee and a stressed exit *)
(* of its own.  Where the estimate covers both, as in the default policy,   *)
(* what was admitted is what is at risk, but for the roundings: two cents,  *)
(* or more for a short whose stop is above three times the price; so an     *)
(* entry oversteps the boundary or the floor by as much at most.            *)
PlansTheExit == HalfCostBps(policy) + policy.stressedBps <= policy.roundTripBps

Roundings(price, stop) == 1 + CeilDiv(Distance(price, stop), 2 * price)

PlannedLossHolds ==
    [][Enter /\ PlansTheExit =>
          Risk.protectedEquity
              - Snapshot(today, daily', account', positions', policy).protectedEquity
            <= Sizing(current).plannedLoss + Roundings(account.mark, current.stop)]_vars

(* The daily loss boundary is a hard one: an open position whose protected  *)
(* equity has reached it is closed, or the market leaves the boundary, even *)
(* if the process stopped between storing a mark and acting on it.          *)
LossBoundaryEnforced ==
    (positions # {} /\ Risk.lossReached) ~> (positions = {} \/ ~Risk.lossReached)

=============================================================================
