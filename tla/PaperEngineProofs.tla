------------------------- MODULE PaperEngineProofs -------------------------
(***************************************************************************)
(* What PaperEngine keeps for every value of its constants.  EngineInv is   *)
(* inductive: the books (types, one position, conserved money), the         *)
(* receipts, RequestInProgress, which ties the request being served to its  *)
(* row, and AmendmentInProgress, which ties the transaction of moveStop to  *)
(* the tables it would restore.  The action properties follow from it.      *)
(***************************************************************************)
EXTENDS PaperEngine, TLAPS

-----------------------------------------------------------------------------
(* Integer arithmetic stays in the integers. *)

(* Math.round of a quotient is an integer. *)
LEMMA RoundDivInt ==
    ASSUME NEW n \in Int, NEW d \in Nat \ {0}
    PROVE  RoundDiv(n, d) \in Int
BY DEF RoundDiv

(* Math.ceil of a quotient is an integer. *)
LEMMA CeilDivInt ==
    ASSUME NEW n \in Int, NEW d \in Nat \ {0}
    PROVE  CeilDiv(n, d) \in Int
BY DEF CeilDiv

(* A division that comes out even is not disturbed by the rounding. *)
LEMMA RoundDivExact ==
    ASSUME NEW n \in Int, NEW d \in Nat \ {0}
    PROVE  RoundDiv(n * d, d) = n
<1>1. 2 * (n * d) + d = (2 * d) * n + d  OBVIOUS
<1>2. ((2 * d) * n + d) \div (2 * d) = n  OBVIOUS
<1>3. QED BY <1>1, <1>2 DEF RoundDiv

(* applyBps of integers is an integer. *)
LEMMA ApplyBpsInt ==
    ASSUME NEW v \in Int, NEW b \in Int
    PROVE  ApplyBps(v, b) \in Int
BY RoundDivInt, ScalesAssumption DEF ApplyBps

(* notionalCents of integers is an integer. *)
LEMMA NotionalInt ==
    ASSUME NEW v \in Int, NEW b \in Int
    PROVE  Notional(v, b) \in Int
BY RoundDivInt, ScalesAssumption DEF Notional

(* pnlCents of integers is an integer. *)
LEMMA PnlInt ==
    ASSUME NEW side, NEW a \in Int, NEW b \in Int, NEW q \in Int
    PROVE  Pnl(side, a, b, q) \in Int
BY RoundDivInt, ScalesAssumption DEF Pnl

(* roundDownToStep of integers is an integer. *)
LEMMA StepInt ==
    ASSUME NEW v \in Int, NEW s \in Nat \ {0}
    PROVE  RoundDownToStep(v, s) \in Int
BY DEF RoundDownToStep

(* The position the sums are taken over is one of the open ones. *)
LEMMA HeldPosition ==
    ASSUME NEW ps \in SUBSET Positions, ps # {}
    PROVE  Held(ps) \in ps /\ Held(ps) \in Positions
BY DEF Held

(* Equity is an integer number of cents. *)
LEMMA EquityInt ==
    ASSUME NEW acc \in [balance : Int, mark : Int], NEW ps \in SUBSET Positions
    PROVE  Equity(acc, ps) \in Int
<1>1. CASE ps = {}
  BY <1>1 DEF Equity
<1>2. CASE ps # {}
  <2> DEFINE p == Held(ps)
  <2>1. p.entry \in Int /\ p.qty \in Int /\ acc.mark \in Int /\ acc.balance \in Int
    BY <1>2, HeldPosition DEF Positions
  <2>2. Pnl(p.side, p.entry, acc.mark, p.qty) \in Int
    BY <2>1, PnlInt
  <2>3. QED BY <1>2, <2>1, <2>2 DEF Equity
<1>3. QED BY <1>1, <1>2

(* The usable pot is an integer number of cents. *)
LEMMA PotInt ==
    ASSUME NEW e \in Int, NEW pol \in Policies
    PROVE  UsablePot(e, pol) \in Int
BY DEF UsablePot, Smaller, Policies

(* The risk snapshot writes a well-formed daily row. *)
LEMMA SnapshotRow ==
    ASSUME NEW day \in Int, NEW row \in DailyRows,
           NEW acc \in [balance : Int, mark : Int],
           NEW ps \in SUBSET Positions, NEW pol \in Policies
    PROVE  Snapshot(day, row, acc, ps, pol).daily \in DailyRows
<1> DEFINE eq == Equity(acc, ps)
           risk == OpenRisk(acc, ps, pol)
           start == DailyRow(row, day, eq)
<1>1. ps # {} => Held(ps) \in Positions
  BY HeldPosition
<1>2. eq \in Int
  BY EquityInt
<1>3. risk \in Int
  <2>1. CASE ps = {}
    BY <2>1 DEF OpenRisk
  <2>2. CASE ps # {}
    <3> DEFINE p == Held(ps)
               d == Larger(0, IF p.side = "LONG" THEN acc.mark - p.stop
                              ELSE p.stop - acc.mark)
    <3>1. d * p.qty \in Int /\ acc.mark \in Int /\ p.qty \in Int
      BY <1>1, <2>2 DEF Positions, Larger
    <3>2. RoundDiv(d * p.qty, QuantityScale) \in Int
      BY <3>1, RoundDivInt, ScalesAssumption
    <3>3. ApplyBps(Notional(acc.mark, p.qty), pol.stressedBps) \in Int
      BY <3>1, NotionalInt, ApplyBpsInt DEF Policies
    <3>4. QED
      BY <2>2, <3>2, <3>3 DEF OpenRisk
  <2>3. QED BY <2>1, <2>2
<1>4. start \in DailyRows
  BY <1>2 DEF DailyRow, DailyRows, NoFloor
<1> DEFINE target == start.start + ApplyBps(UsablePot(start.start, pol), pol.lockBps)
           floor == ActiveFloor(start, eq - risk, target)
<1>5. target \in Int
  <2>1. start.start \in Int /\ pol.lockBps \in Int
    BY <1>4 DEF DailyRows, Policies
  <2>2. UsablePot(start.start, pol) \in Int
    BY <2>1, PotInt
  <2>3. ApplyBps(UsablePot(start.start, pol), pol.lockBps) \in Int
    BY <2>1, <2>2, ApplyBpsInt
  <2>4. QED BY <2>1, <2>3
<1>6. floor \in Int
  BY <1>2, <1>3, <1>4, <1>5 DEF ActiveFloor, Larger, DailyRows
<1>7. [day |-> start.day, start |-> start.start,
          high |-> Larger(start.high, eq), floor |-> floor] \in DailyRows
  BY <1>2, <1>4, <1>6 DEF DailyRows, Larger
<1>8. Snapshot(day, row, acc, ps, pol).daily
        = [day |-> start.day, start |-> start.start,
          high |-> Larger(start.high, eq), floor |-> floor]
  BY DEF Snapshot
<1>9. QED BY <1>7, <1>8

(* Where a row of the same day exists, the snapshot keeps its anchor and    *)
(* never lowers its high-water mark or its floor.                           *)
LEMMA SnapshotRatchet ==
    ASSUME NEW day \in Int, NEW row \in DailyRows,
           NEW acc \in [balance : Int, mark : Int],
           NEW ps \in SUBSET Positions, NEW pol \in Policies,
           Snapshot(day, row, acc, ps, pol).daily.day = row.day
    PROVE  LET new == Snapshot(day, row, acc, ps, pol).daily
           IN  new.start = row.start /\ new.high >= row.high /\ new.floor >= row.floor
<1> DEFINE eq == Equity(acc, ps)
           start == DailyRow(row, day, eq)
           target == start.start + ApplyBps(UsablePot(start.start, pol), pol.lockBps)
           floor == ActiveFloor(start, eq - OpenRisk(acc, ps, pol), target)
           new == Snapshot(day, row, acc, ps, pol).daily
<1>1. new = [day |-> start.day, start |-> start.start,
          high |-> Larger(start.high, eq), floor |-> floor]
  BY DEF Snapshot
<1>2. start.day = day
  BY DEF DailyRow
<1>3. new \in DailyRows
  BY SnapshotRow
<1>4. new.day = start.day /\ new.start = start.start
      /\ new.high = Larger(start.high, eq) /\ new.floor = floor
  BY <1>1
<1>5. start = row
  BY <1>2, <1>4 DEF DailyRow
<1>6. Larger(row.high, eq) \in Int /\ floor \in Int
  BY <1>3, <1>4, <1>5 DEF DailyRows
<1>7. Equity(acc, ps) \in Int
  BY EquityInt
<1>8. row.high \in Int /\ row.floor \in Int /\ target \in Int
  <2>1. row.high \in Int /\ row.floor \in Int /\ start.start \in Int /\ pol.lockBps \in Int
    BY <1>5 DEF DailyRows, Policies
  <2>2. UsablePot(start.start, pol) \in Int
    BY <2>1, PotInt
  <2>3. ApplyBps(UsablePot(start.start, pol), pol.lockBps) \in Int
    BY <2>1, <2>2, ApplyBpsInt
  <2>4. QED BY <2>1, <2>3
<1>9. Larger(row.high, eq) >= row.high
  BY <1>7, <1>8 DEF Larger
<1>10. floor >= row.floor
  BY <1>5, <1>8 DEF Larger, ActiveFloor
<1>11. QED
  BY <1>4, <1>5, <1>9, <1>10

-----------------------------------------------------------------------------
(* closeQuantity and entry, as functions of one position. *)

(* The fees are integers, and trade and account differ by the entry fee's share. *)
LEMMA FeesInt ==
    ASSUME TypeOK, NEW p \in Positions, p.qty > 0, NEW q \in Int, NEW x \in Int
    PROVE  /\ FeeShare(p, q) \in Int
           /\ ExitFee(x, q) \in Int
           /\ AccountCredit(p, q, x) \in Int
           /\ TradeNet(p, q, x) = AccountCredit(p, q, x) - FeeShare(p, q)
<1>1. p.fee * q \in Int /\ p.qty \in Nat \ {0} /\ p.entry \in Int
  BY DEF Positions
<1>2. FeeShare(p, q) \in Int
  BY <1>1, RoundDivInt DEF FeeShare
<1>3. HalfCostBps(policy) \in Int
  BY CeilDivInt DEF TypeOK, SettingsOK, BookOK, ClockOK, Policies, HalfCostBps
<1>4. ExitFee(x, q) \in Int
  BY <1>3, NotionalInt, ApplyBpsInt DEF ExitFee
<1>5. Pnl(p.side, p.entry, x, q) \in Int
  BY <1>1, PnlInt
<1>6. QED
  BY <1>2, <1>4, <1>5 DEF AccountCredit, TradeNet

(* A full close takes the whole entry fee with it, whatever rounding the    *)
(* earlier reductions did.                                                  *)
LEMMA FullCloseTakesFee ==
    ASSUME NEW p \in Positions, p.qty > 0
    PROVE  FeeShare(p, p.qty) = p.fee
BY RoundDivExact DEF FeeShare, Positions

(* The books of the engine: well-typed, one position, conserved money. *)
Books == TypeOK /\ OnePosition /\ MoneyConserved

(* closeQuantity, whole or partial, keeps the books. *)
LEMMA CloseKeepsBooks ==
    ASSUME Books, NEW p \in positions, NEW q \in Int, NEW x \in Int,
           q = p.qty \/ q < p.qty, CloseQuantity(p, q, x)
    PROVE  /\ account' \in [balance : Int, mark : Nat \ {0}]
           /\ positions' \subseteq Positions
           /\ realized' \in Int
           /\ OnePosition'
           /\ MoneyConserved'
<1> USE DEF Books
<1>1. positions = {p} /\ p \in Positions /\ p.qty > 0
  BY DEF OnePosition, TypeOK, SettingsOK, BookOK, ClockOK
<1>2. /\ account.balance \in Int /\ realized \in Int /\ InitialBalance \in Int
      /\ p.fee \in Int /\ p.qty \in Int
      /\ account.balance = InitialBalance + realized - p.fee
  BY <1>1, EngineAssumption DEF TypeOK, SettingsOK, BookOK, ClockOK, MoneyConserved, Positions
<1>3. /\ FeeShare(p, q) \in Int
      /\ AccountCredit(p, q, x) \in Int
      /\ TradeNet(p, q, x) = AccountCredit(p, q, x) - FeeShare(p, q)
  BY <1>1, FeesInt
<1>4. account' = [account EXCEPT !.balance = account.balance + AccountCredit(p, q, x)]
      /\ realized' = realized + AccountCredit(p, q, x) - FeeShare(p, q)
  BY <1>2, <1>3 DEF CloseQuantity
<1>5. account' \in [balance : Int, mark : Nat \ {0}] /\ realized' \in Int
      /\ account'.balance = account.balance + AccountCredit(p, q, x)
  BY <1>2, <1>3, <1>4 DEF TypeOK, SettingsOK, BookOK, ClockOK
<1>6. CASE q = p.qty
  <2>1. positions' = {}
    BY <1>1, <1>6 DEF CloseQuantity
  <2>2. FeeShare(p, q) = p.fee
    BY <1>1, <1>6, FullCloseTakesFee
  <2>3. QED
    BY <1>2, <1>3, <1>4, <1>5, <2>1, <2>2 DEF OnePosition, MoneyConserved
<1>7. CASE q < p.qty
  <2> DEFINE s == Survivor(p, q)
  <2>1. positions' = {s}
    BY <1>1, <1>2, <1>7 DEF CloseQuantity
  <2>2. s \in Positions /\ s.qty = p.qty - q /\ s.fee = p.fee - FeeShare(p, q)
    BY <1>1, <1>2, <1>3 DEF Survivor, Positions
  <2>3. QED
    BY <1>2, <1>3, <1>4, <1>5, <1>7, <2>1, <2>2 DEF OnePosition, MoneyConserved
<1>8. QED BY <1>6, <1>7

(* The row a snapshot would store is a daily row. *)
LEMMA RiskRow == TypeOK => Risk.daily \in DailyRows
BY SnapshotRow DEF TypeOK, SettingsOK, BookOK, ClockOK, Risk

(* The usable pot of a snapshot is an integer. *)
LEMMA RiskPot == TypeOK => Risk.pot \in Int
BY EquityInt, PotInt DEF TypeOK, SettingsOK, BookOK, ClockOK, Risk, Snapshot

(* An admitted sizing is a whole number of units. *)
LEMMA SizingInt ==
    ASSUME NEW snap, snap.pot \in Int, NEW pol \in Policies, NEW price \in Nat \ {0},
           NEW stop \in Int, NEW riskBps \in Int, NEW leverage \in Int,
           EntrySizing(snap, pol, price, stop, riskBps, leverage).positive
    PROVE  /\ EntrySizing(snap, pol, price, stop, riskBps, leverage).qty \in Int
           /\ EntrySizing(snap, pol, price, stop, riskBps, leverage).notional \in Int
<1> DEFINE lossBps == LossBps(price, stop, pol)
           risk == Smaller(IF riskBps = Unset THEN pol.tradeRiskBps ELSE riskBps,
                           pol.tradeRiskBps)
           lever == Smaller(IF leverage = Unset THEN pol.maxLeverage ELSE leverage,
                            pol.maxLeverage)
           byRisk == (ApplyBps(snap.pot, risk) * Bps) \div lossBps
           byMargin == Larger(0, snap.pot) * lever
           raw == (Smaller(byRisk, byMargin) * QuantityScale) \div price
           qty == RoundDownToStep(raw, pol.step)
           sizing == EntrySizing(snap, pol, price, stop, riskBps, leverage)
<1>1. lossBps > 0 /\ sizing.qty = qty /\ sizing.notional = Notional(price, qty)
  BY DEF EntrySizing
<1>2. lossBps \in Int
  <2>1. Distance(price, stop) * Bps \in Int
    BY ScalesAssumption DEF Distance
  <2>2. QED BY <2>1, CeilDivInt DEF LossBps, Policies
<1>3. risk \in Int /\ lever \in Int
  BY DEF Smaller, Policies
<1> HIDE DEF lossBps, risk, lever
<1>4. ApplyBps(snap.pot, risk) * Bps \in Int
  <2>1. ApplyBps(snap.pot, risk) \in Int
    BY <1>3, ApplyBpsInt
  <2>2. QED BY <2>1, ScalesAssumption
<1>5. byRisk \in Int
  BY <1>1, <1>2, <1>4
<1>6. byMargin \in Int
  BY <1>3 DEF Larger
<1> HIDE DEF byRisk, byMargin
<1>7. Smaller(byRisk, byMargin) * QuantityScale \in Int
  BY <1>5, <1>6, ScalesAssumption DEF Smaller
<1>8. raw \in Int
  BY <1>7
<1> HIDE DEF raw
<1>9. qty \in Int
  BY <1>8, StepInt DEF Policies
<1>10. QED BY <1>1, <1>9, NotionalInt

(* The inductive invariant. *)
EngineInv ==
    Books /\ RequestInProgress /\ ReceiptMatchesEffect /\ AmendmentInProgress

(* A fresh store satisfies the invariant. *)
LEMMA InitEstablishes == Init => EngineInv
<1> SUFFICES ASSUME Init PROVE EngineInv
  OBVIOUS
<1> USE EngineAssumption DEF Init
<1>1. SettingsOK
  <2>1. running \in BOOLEAN
    BY Zenon
  <2>2. QED BY <2>1 DEF SettingsOK, GatewayModes
<1>2. BookOK
  BY DEF BookOK
<1>3. LedgerOK
  BY DEF LedgerOK
<1>4. MemoryOK
  BY DEF MemoryOK, Stages
<1>5. ClockOK
  <2>1. unchecked \in BOOLEAN
    BY Zenon
  <2>2. daily \in DailyRows
    BY DEF DailyRows, NoFloor
  <2>3. QED BY <2>1, <2>2 DEF ClockOK
<1>6. OnePosition /\ MoneyConserved
  BY DEF OnePosition, MoneyConserved
<1>7. RequestInProgress /\ ReceiptMatchesEffect
  BY DEF RequestInProgress, Serving, ReceiptMatchesEffect, Accepted
<1>8. JournalOK /\ AmendmentInProgress
  BY DEF JournalOK, AmendmentInProgress, InTransaction
<1>9. QED
  BY <1>1, <1>2, <1>3, <1>4, <1>5, <1>6, <1>7, <1>8 DEF EngineInv, Books, TypeOK

(* The entry: no position is open, the fee leaves the account and is        *)
(* carried by the new position.                                             *)
LEMMA EntryKeepsBooks ==
    ASSUME Books, current \in Intents, Enter
    PROVE  /\ account' \in [balance : Int, mark : Nat \ {0}]
           /\ positions' \subseteq Positions
           /\ OnePosition'
           /\ MoneyConserved'
<1> USE DEF Books
<1> DEFINE o == Opened(current)
<1>1. /\ positions = {}
      /\ account' = [account EXCEPT !.balance = account.balance - o.fee]
      /\ positions' = {o}
      /\ realized' = realized
  BY DEF Enter, EntryAdmitted, EntryGate
<1>2. /\ current \in IntentBodies
      /\ account.balance \in Int /\ account.mark \in Nat \ {0}
      /\ realized \in Int /\ InitialBalance \in Int
      /\ policy \in Policies
  BY EngineAssumption DEF TypeOK, SettingsOK, BookOK, ClockOK
<1>3. Sizing(current).qty > 0 /\ Sizing(current).positive
  BY DEF Enter, EntryAdmitted, SizingAdmitted
<1>4. current.stop \in Int /\ current.target \in Int /\ current.riskBps \in Int
      /\ current.leverage \in Int /\ current.id \in IntentIds
  BY <1>2 DEF IntentBodies
<1>5. Sizing(current).qty \in Int /\ Sizing(current).notional \in Int
  BY <1>2, <1>3, <1>4, RiskPot, SizingInt DEF Sizing
<1>6. ApplyBps(Sizing(current).notional, HalfCostBps(policy)) \in Int
  <2>1. HalfCostBps(policy) \in Int
    BY <1>2, CeilDivInt DEF HalfCostBps, Policies
  <2>2. QED BY <1>5, <2>1, ApplyBpsInt
<1>7. o \in Positions /\ o.qty = Sizing(current).qty /\ o.fee \in Int
  BY <1>2, <1>4, <1>5, <1>6 DEF Opened, Positions, EntrySide, Sides
<1> HIDE DEF o
<1>8. account' \in [balance : Int, mark : Nat \ {0}]
      /\ account'.balance = account.balance - o.fee
  BY <1>1, <1>2, <1>7 DEF TypeOK, SettingsOK, BookOK, ClockOK
<1>9. account.balance = InitialBalance + realized
  BY <1>1 DEF MoneyConserved
<1>10. QED
  BY <1>1, <1>2, <1>3, <1>7, <1>8, <1>9 DEF OnePosition, MoneyConserved

-----------------------------------------------------------------------------
(* Steps that leave a part of the state alone. *)

(* A step that leaves the account, the positions and the trades alone. *)
LEMMA BookFrame ==
    ASSUME Books, UNCHANGED book
    PROVE  BookOK' /\ OnePosition' /\ MoneyConserved'
BY DEF Books, TypeOK, BookOK, OnePosition, MoneyConserved, book

(* A step that leaves the settings row alone. *)
LEMMA SettingsFrame ==
    ASSUME SettingsOK, UNCHANGED settings
    PROVE  SettingsOK'
BY Zenon DEF SettingsOK, settings

Requests == LedgerOK /\ MemoryOK /\ RequestInProgress /\ ReceiptMatchesEffect

(* No intent is being served after the step. *)
LEMMA QuietStep ==
    ASSUME Requests, UNCHANGED ledger,
           current' \in Intents \cup {NONE}, outcome' \in Terminal \cup {"none"},
           pc' \in {"idle", "settle", "mark_set", "mark_checked", "flattening"}
    PROVE  Requests'
BY DEF Requests, LedgerOK, MemoryOK, RequestInProgress, Serving, ReceiptMatchesEffect, ledger,
       Stages

(* A step that leaves the intents table and the request in progress alone. *)
LEMMA RequestFrame ==
    ASSUME Requests, UNCHANGED <<ledger, memory>>
    PROVE  Requests'
BY DEF Requests, LedgerOK, MemoryOK, RequestInProgress, Serving, ReceiptMatchesEffect, ledger,
       memory

(* The row a snapshot stores is well-formed. *)
LEMMA ClockStep ==
    ASSUME TypeOK, UNCHANGED daily \/ TakeSnapshot, today' \in Nat,
           unchecked' \in BOOLEAN, crashes' \in Nat
    PROVE  ClockOK'
BY RiskRow DEF TypeOK, ClockOK, TakeSnapshot

-----------------------------------------------------------------------------
(* The intent in progress. *)

(* A claimed intent has no effect yet: its row was absent. *)
LEMMA ClaimStep ==
    ASSUME Requests, NEW b \in Intents, ClaimIntent(b)
    PROVE  Requests'
<1>1. b.id \in IntentIds /\ current' = b /\ pc' = "claimed" /\ outcome' = outcome
  BY EngineAssumption DEF ClaimIntent, IntentBodies
<1>2. intents[b.id].state = "absent" /\ effects[b.id] = 0 /\ effects' = effects
  BY <1>1 DEF ClaimIntent, AnswerTo, Requests, ReceiptMatchesEffect, LedgerOK,
                Terminal, Accepted
<1>3. intents' = [intents EXCEPT ![b.id] = [state |-> "received", body |-> b]]
  BY DEF ClaimIntent
<1>4. LedgerOK' /\ MemoryOK'
  BY <1>1, <1>2, <1>3 DEF Requests, LedgerOK, MemoryOK, Stages
<1>5. RequestInProgress'
  BY <1>1, <1>2, <1>3 DEF Requests, LedgerOK, RequestInProgress, Serving
<1>6. ReceiptMatchesEffect'
  BY <1>1, <1>2, <1>3 DEF Requests, LedgerOK, ReceiptMatchesEffect, Accepted
<1>7. QED BY <1>4, <1>5, <1>6 DEF Requests

(* An executed intent counts its effect once; nothing else does. *)
LEMMA EffectStep ==
    ASSUME Requests, pc \in {"claimed", "stop_judged"}, intents' = intents, current' = current,
           NEW state \in Accepted \ {"observed"}, Count(current.id),
           NEW next \in {"settle_intent", "finalize"}, Finishing(next, state)
    PROVE  Requests'
<1>1. current \in Intents /\ current.id \in IntentIds /\ effects[current.id] = 0
      /\ intents[current.id].state = "received"
  BY EngineAssumption DEF Requests, RequestInProgress, Serving, IntentBodies
<1>2. effects' = [effects EXCEPT ![current.id] = 1]
  BY <1>1 DEF Count, Requests, LedgerOK
<1>3. LedgerOK' /\ MemoryOK'
  BY <1>1, <1>2 DEF Requests, LedgerOK, MemoryOK, Finishing, Stages, Terminal
<1>4. RequestInProgress'
  BY <1>1, <1>2 DEF Requests, LedgerOK, RequestInProgress, Serving, Finishing, Terminal, Accepted
<1>5. ReceiptMatchesEffect'
  BY <1>1, <1>2 DEF Requests, LedgerOK, ReceiptMatchesEffect, Accepted
<1>6. QED BY <1>3, <1>4, <1>5 DEF Requests

(* An observation or a refusal changes no position. *)
LEMMA NoEffectStep ==
    ASSUME Requests, pc \in {"claimed", "stop_judged"}, UNCHANGED ledger, current' = current,
           NEW state \in {"observed", "rejected"}, Finishing("finalize", state)
    PROVE  Requests'
BY DEF Requests, LedgerOK, MemoryOK, RequestInProgress, Serving, ReceiptMatchesEffect, Finishing,
       ledger, Stages, Terminal, Accepted

(* Inside the transaction of moveStop nothing is journaled yet.             *)
LEMMA InsideStep ==
    ASSUME Requests, pc \in {"claimed", "stop_written"}, pc' \in {"stop_written", "stop_judged"},
           UNCHANGED ledger, current' = current, outcome' \in Terminal \cup {"none"}
    PROVE  Requests'
BY DEF Requests, LedgerOK, MemoryOK, RequestInProgress, Serving, ReceiptMatchesEffect,
       ledger, Stages

(* The closing snapshot leaves the outcome as it was. *)
LEMMA SettleIntentStep ==
    ASSUME Requests, SettleIntent
    PROVE  Requests'
BY DEF Requests, LedgerOK, MemoryOK, RequestInProgress, Serving, ReceiptMatchesEffect,
       SettleIntent, ledger, Stages

(* The stored receipt is the outcome of the request. *)
LEMMA FinalizeStep ==
    ASSUME Requests, FinalizeIntent
    PROVE  Requests'
<1>1. /\ current \in Intents /\ current.id \in IntentIds
      /\ outcome \in Terminal
      /\ effects[current.id] = IF outcome \in {"rejected", "observed"} THEN 0 ELSE 1
  BY EngineAssumption DEF FinalizeIntent, Requests, RequestInProgress, Serving, IntentBodies
<1>2. /\ intents' = [intents EXCEPT ![current.id].state = outcome]
      /\ effects' = effects /\ pc' = "idle" /\ current' = NONE /\ outcome' = "none"
  BY DEF FinalizeIntent
<1>3. LedgerOK' /\ MemoryOK' /\ RequestInProgress'
  BY <1>1, <1>2 DEF Requests, LedgerOK, MemoryOK, RequestInProgress, Serving, Stages
<1>4. ReceiptMatchesEffect'
  BY <1>1, <1>2 DEF Requests, LedgerOK, ReceiptMatchesEffect, Accepted, Terminal
<1>5. QED BY <1>3, <1>4 DEF Requests

(* An amendment replaces the open position by one with the same quantity    *)
(* and fee.                                                                 *)
LEMMA AmendKeepsBooks ==
    ASSUME Books, NEW p \in positions, NEW r \in Positions, r.qty = p.qty, r.fee = p.fee,
           positions' = (positions \ {p}) \cup {r}, UNCHANGED <<account, realized>>
    PROVE  BookOK' /\ OnePosition' /\ MoneyConserved'
<1>1. positions = {p} /\ positions' = {r} /\ p.qty > 0
  BY DEF Books, OnePosition
<1>2. QED
  BY <1>1 DEF Books, TypeOK, BookOK, OnePosition, MoneyConserved

-----------------------------------------------------------------------------
(* The transaction of moveStop. *)

Amending == JournalOK /\ AmendmentInProgress

(* Outside the transaction the tables are what is stored.                   *)
LEMMA Outside ==
    ASSUME ~InTransaction
    PROVE  StoredPositions = positions /\ StoredDaily = daily
BY DEF StoredPositions, StoredDaily

(* Rolling back, by the code or by a restart, gives the position its stop   *)
(* again and changes nothing else about it.                                 *)
LEMMA UndoKeepsBooks ==
    ASSUME Books, AmendmentInProgress, InTransaction, positions' = before.positions,
           UNCHANGED <<account, realized>>
    PROVE  BookOK' /\ OnePosition' /\ MoneyConserved'
<1>1. PICK p \in Positions : before.positions = {p}
                            /\ positions = {[p EXCEPT !.stop = current.stop]}
  BY DEF AmendmentInProgress
<1> DEFINE r == [p EXCEPT !.stop = current.stop]
<1>2. r.qty = p.qty /\ r.fee = p.fee
  BY DEF Positions
<1> HIDE DEF r
<1>3. positions = {r} /\ positions' = {p}
  BY <1>1 DEF r
<1>4. QED
  BY <1>2, <1>3 DEF Books, TypeOK, BookOK, OnePosition, MoneyConserved

(* The snapshot a restart takes over the stored tables writes a row.        *)
LEMMA StoredRow ==
    ASSUME TypeOK, AmendmentInProgress
    PROVE  /\ StoredPositions \in SUBSET Positions
           /\ StoredDaily \in DailyRows
           /\ Snapshot(today, StoredDaily, account, StoredPositions, policy).daily \in DailyRows
<1>1. StoredPositions \in SUBSET Positions /\ StoredDaily \in DailyRows
  BY DEF StoredPositions, StoredDaily, AmendmentInProgress, Tables, TypeOK, BookOK, ClockOK
<1>2. QED
  BY <1>1, SnapshotRow DEF TypeOK, SettingsOK, BookOK, ClockOK

(* What the step of an amendment leaves for the next one.                   *)
LEMMA WriteStopStep ==
    ASSUME Books, Requests, Amending, WriteStop
    PROVE  Amending'
<1>1. PICK p \in positions : p.tranche = current.tranche /\ positions' = WithStop(p, current.stop)
  BY DEF WriteStop, PositionOf
<1>2. positions = {p} /\ p \in Positions
  BY DEF Books, TypeOK, BookOK, OnePosition
<1>3. positions' = {[p EXCEPT !.stop = current.stop]}
  BY <1>1, <1>2 DEF WithStop
<1>4. /\ before' = [positions |-> positions, daily |-> daily]
      /\ daily' = daily /\ current' = current /\ pc' = "stop_written"
      /\ current.action = "MOVE_STOP"
  BY DEF WriteStop
<1>5. before' \in Tables /\ before'.positions = {p} /\ before'.daily = daily'
  BY <1>2, <1>4 DEF Books, TypeOK, BookOK, ClockOK, Tables
<1>6. JournalOK'
  BY <1>5 DEF JournalOK
<1>7. AmendmentInProgress'
  BY <1>1, <1>2, <1>3, <1>4, <1>5 DEF AmendmentInProgress, InTransaction
<1>8. QED BY <1>6, <1>7 DEF Amending

(* The row a snapshot stores is dated today.                                *)
LEMMA SnapshotDay ==
    ASSUME NEW day, NEW row, NEW acc, NEW ps, NEW pol
    PROVE  Snapshot(day, row, acc, ps, pol).daily.day = day
BY DEF Snapshot, DailyRow

(* The judgement is the one of the row that is written.                     *)
LEMMA JudgeStopStep ==
    ASSUME Books, Amending, JudgeStop
    PROVE  Amending'
<1>1. /\ pc = "stop_written" /\ pc' = "stop_judged" /\ before' = before
      /\ UNCHANGED <<account, positions, policy, current>>
      /\ daily' = Risk.daily
      /\ outcome' = IF ExposureRestricted(Risk) THEN "rejected" ELSE "managed"
  BY DEF JudgeStop, TakeSnapshot, Finishing, book, settings
<1>2. InTransaction /\ before.daily = daily
  BY <1>1 DEF InTransaction, Amending, AmendmentInProgress
<1>3. Snapshot(daily'.day, before.daily, account, positions, policy) = Risk
  BY <1>1, <1>2, SnapshotDay DEF Risk
<1>4. \E p \in Positions : /\ p.tranche = current.tranche
                          /\ before.positions = {p}
                          /\ positions = {[p EXCEPT !.stop = current.stop]}
  BY <1>2 DEF Amending, AmendmentInProgress
<1>5. before \in Tables /\ current.action = "MOVE_STOP"
  BY <1>2 DEF Amending, AmendmentInProgress
<1>6. Snapshot(daily.day, before.daily, account, positions, policy)' = Risk
  BY <1>1, <1>3
<1>7. JournalOK'
  BY <1>1 DEF Amending, JournalOK
<1>8. /\ daily' = Risk.daily
      /\ outcome' \in {"managed", "rejected"}
      /\ outcome' = "managed" => ~ExposureRestricted(Risk)
  BY <1>1
<1> HIDE DEF Risk
<1>9. AmendmentInProgress'
  BY <1>1, <1>4, <1>5, <1>6, <1>8 DEF AmendmentInProgress, InTransaction
<1>10. QED BY <1>7, <1>9 DEF Amending

(* Every step leaves the amendment in progress, if any, where it stands.    *)
LEMMA AmendingStep ==
    ASSUME Books, Requests, Amending, [Next]_vars
    PROVE  Amending'
<1>1. CASE WriteStop
  BY <1>1, WriteStopStep
<1>2. CASE JudgeStop
  BY <1>2, JudgeStopStep
<1>3. CASE ~InTransaction' /\ before' = NONE
  BY <1>3 DEF Amending, JournalOK, AmendmentInProgress, InTransaction
<1>4. CASE UNCHANGED <<settings, book, daily, memory, before>>
  BY <1>4 DEF Amending, JournalOK, AmendmentInProgress, InTransaction, settings, book, memory
<1>5. CASE ~InTransaction /\ ~InTransaction' /\ before' = before
  BY <1>3, <1>5 DEF Amending, AmendmentInProgress
<1>6. QED
  BY <1>1, <1>2, <1>3, <1>4, <1>5
     DEF Next, Continue, ExecuteIntent, ClaimIntent, SetMark, FlattenAll, Start, Stop, Observe,
         SetMode, UpdatePolicy, Enter, RecordObservation, MoveTarget, Reduce, Exit, RejectIntent,
         CommitStop, RollBackStop, SettleIntent, FinalizeIntent, TriggerProtection, GuardRisk,
         CloseForFlatten, Settle, NextDay, Crash, Finishing, InTransaction, vars, settings, book,
         memory

-----------------------------------------------------------------------------
(* Every step of the engine, of its environment and of a crash keeps EngineInv. *)
LEMMA StepPreserves == EngineInv /\ [Next]_vars => EngineInv'
<1> SUFFICES ASSUME EngineInv, [Next]_vars PROVE EngineInv'
  OBVIOUS
<1> DEFINE Goal == /\ SettingsOK'
                   /\ BookOK' /\ OnePosition' /\ MoneyConserved'
                   /\ Requests'
                   /\ ClockOK'
<1>1. Goal => EngineInv'
  <2>1. Amending'
    BY AmendingStep DEF EngineInv, Amending, Requests, Books, TypeOK
  <2>2. QED BY <2>1 DEF EngineInv, Books, TypeOK, Requests, Amending
<1>2. /\ Books /\ AmendmentInProgress /\ TypeOK /\ Requests /\ SettingsOK /\ OnePosition /\ MoneyConserved
      /\ today \in Nat /\ unchecked \in BOOLEAN /\ crashes \in Nat
      /\ running \in BOOLEAN /\ current \in Intents \cup {NONE}
      /\ outcome \in Terminal \cup {"none"}
  BY DEF EngineInv, Books, TypeOK, SettingsOK, MemoryOK, ClockOK, Requests
<1>3. CASE \E b \in Intents : ClaimIntent(b)
  <2>1. SettingsOK'
    BY <1>2, <1>3, SettingsFrame DEF ClaimIntent
  <2>2. BookOK' /\ OnePosition' /\ MoneyConserved'
    BY <1>2, <1>3, BookFrame DEF ClaimIntent
  <2>3. Requests'
    BY <1>2, <1>3, ClaimStep
  <2>4. ClockOK'
    BY <1>2, <1>3, ClockStep DEF ClaimIntent
  <2>5. QED BY <1>1, <2>1, <2>2, <2>3, <2>4
<1>4. CASE \E price \in Prices : SetMark(price)
  <2>1. SettingsOK'
    BY <1>2, <1>4, SettingsFrame DEF SetMark
  <2>2. BookOK' /\ OnePosition' /\ MoneyConserved'
    <3>1. PICK price \in Prices : SetMark(price)
      BY <1>4
    <3>2. account' = [account EXCEPT !.mark = price] /\ price \in Nat \ {0}
          /\ positions' = positions /\ realized' = realized
      BY <3>1, EngineAssumption DEF SetMark
    <3>3. account'.balance = account.balance
      BY <1>2, <3>2 DEF TypeOK, BookOK
    <3>4. QED
      BY <1>2, <3>2, <3>3 DEF TypeOK, BookOK, OnePosition, MoneyConserved
  <2>3. Requests'
    BY <1>2, <1>4, QuietStep DEF SetMark
  <2>4. ClockOK'
    BY <1>2, <1>4, ClockStep DEF SetMark
  <2>5. QED BY <1>1, <2>1, <2>2, <2>3, <2>4
<1>5. CASE FlattenAll
  <2>1. SettingsOK'
    <3>1. running' \in BOOLEAN /\ mode' = mode /\ policy' = policy
      BY <1>5, Zenon DEF FlattenAll
    <3>2. QED BY <1>2, <3>1 DEF SettingsOK
  <2>2. BookOK' /\ OnePosition' /\ MoneyConserved'
    BY <1>2, <1>5, BookFrame DEF FlattenAll
  <2>3. Requests'
    BY <1>2, <1>5, QuietStep DEF FlattenAll
  <2>4. ClockOK'
    BY <1>2, <1>5, ClockStep DEF FlattenAll
  <2>5. QED BY <1>1, <2>1, <2>2, <2>3, <2>4
<1>6. CASE Start
  <2>1. SettingsOK'
    <3>1. running' \in BOOLEAN /\ mode' = mode /\ policy' = policy
      BY <1>6, Zenon DEF Start
    <3>2. QED BY <1>2, <3>1 DEF SettingsOK
  <2>2. BookOK' /\ OnePosition' /\ MoneyConserved'
    BY <1>2, <1>6, BookFrame DEF Start
  <2>3. Requests'
    BY <1>2, <1>6, QuietStep DEF Start
  <2>4. ClockOK'
    BY <1>2, <1>6, ClockStep DEF Start
  <2>5. QED BY <1>1, <2>1, <2>2, <2>3, <2>4
<1>7. CASE Stop
  <2>1. SettingsOK'
    <3>1. running' \in BOOLEAN /\ mode' = mode /\ policy' = policy
      BY <1>7, Zenon DEF Stop
    <3>2. QED BY <1>2, <3>1 DEF SettingsOK
  <2>2. BookOK' /\ OnePosition' /\ MoneyConserved'
    BY <1>2, <1>7, BookFrame DEF Stop
  <2>3. Requests'
    BY <1>2, <1>7, QuietStep DEF Stop
  <2>4. ClockOK'
    BY <1>2, <1>7, ClockStep DEF Stop
  <2>5. QED BY <1>1, <2>1, <2>2, <2>3, <2>4
<1>8. CASE Observe
  <2>1. SettingsOK'
    BY <1>2, <1>8, SettingsFrame DEF Observe
  <2>2. BookOK' /\ OnePosition' /\ MoneyConserved'
    BY <1>2, <1>8, BookFrame DEF Observe
  <2>3. Requests'
    BY <1>2, <1>8, RequestFrame DEF Observe
  <2>4. ClockOK'
    BY <1>2, <1>8, ClockStep DEF Observe
  <2>5. QED BY <1>1, <2>1, <2>2, <2>3, <2>4
<1>9. CASE \E m \in Modes : SetMode(m)
  <2>1. SettingsOK'
    <3>1. running' = running /\ mode' \in GatewayModes /\ policy' = policy
      BY <1>9, EngineAssumption DEF SetMode
    <3>2. QED BY <1>2, <3>1 DEF SettingsOK
  <2>2. BookOK' /\ OnePosition' /\ MoneyConserved'
    BY <1>2, <1>9, BookFrame DEF SetMode
  <2>3. Requests'
    BY <1>2, <1>9, QuietStep DEF SetMode
  <2>4. ClockOK'
    BY <1>2, <1>9, ClockStep DEF SetMode
  <2>5. QED BY <1>1, <2>1, <2>2, <2>3, <2>4
<1>10. CASE \E p \in PolicyChoices : UpdatePolicy(p)
  <2>1. SettingsOK'
    <3>1. running' = running /\ mode' = mode /\ policy' \in Policies
      BY <1>10, EngineAssumption DEF UpdatePolicy
    <3>2. QED BY <1>2, <3>1 DEF SettingsOK
  <2>2. BookOK' /\ OnePosition' /\ MoneyConserved'
    BY <1>2, <1>10, BookFrame DEF UpdatePolicy
  <2>3. Requests'
    BY <1>2, <1>10, QuietStep DEF UpdatePolicy
  <2>4. ClockOK'
    BY <1>2, <1>10, ClockStep DEF UpdatePolicy
  <2>5. QED BY <1>1, <2>1, <2>2, <2>3, <2>4
<1>11. CASE Enter
  <2>1. SettingsOK'
    BY <1>2, <1>11, SettingsFrame DEF Enter
  <2>2. BookOK' /\ OnePosition' /\ MoneyConserved'
    <3>1. current \in Intents
      BY <1>2, <1>11 DEF Enter, Requests, RequestInProgress, Serving
    <3>2. realized' = realized
      BY <1>11 DEF Enter
    <3>3. QED
      BY <1>2, <1>11, <3>1, <3>2, EntryKeepsBooks DEF TypeOK, BookOK
  <2>3. Requests'
    BY <1>2, <1>11, EffectStep DEF Enter, Accepted
  <2>4. ClockOK'
    BY <1>2, <1>11, ClockStep DEF Enter
  <2>5. QED BY <1>1, <2>1, <2>2, <2>3, <2>4
<1>12. CASE RecordObservation
  <2>1. SettingsOK'
    BY <1>2, <1>12, SettingsFrame DEF RecordObservation
  <2>2. BookOK' /\ OnePosition' /\ MoneyConserved'
    BY <1>2, <1>12, BookFrame DEF RecordObservation
  <2>3. Requests'
    BY <1>2, <1>12, NoEffectStep DEF RecordObservation
  <2>4. ClockOK'
    BY <1>2, <1>12, ClockStep DEF RecordObservation
  <2>5. QED BY <1>1, <2>1, <2>2, <2>3, <2>4
<1>13. CASE WriteStop
  <2>1. SettingsOK'
    BY <1>2, <1>13, SettingsFrame DEF WriteStop
  <2>2. BookOK' /\ OnePosition' /\ MoneyConserved'
    <3>1. PICK p \in positions : positions' = (positions \ {p}) \cup {[p EXCEPT !.stop = current.stop]}
      BY <1>13 DEF WriteStop, PositionOf, WithStop
    <3>2. current.stop \in Int /\ p \in Positions
      <4>1. current \in IntentBodies
        BY <1>2, <1>13, EngineAssumption DEF WriteStop, Requests, RequestInProgress, Serving
      <4>2. QED BY <1>2, <4>1 DEF IntentBodies, TypeOK, BookOK
    <3>3. [p EXCEPT !.stop = current.stop] \in Positions
      BY <3>2 DEF Positions
    <3>4. [p EXCEPT !.stop = current.stop].qty = p.qty /\ [p EXCEPT !.stop = current.stop].fee = p.fee
      BY <3>2 DEF Positions
    <3>5. UNCHANGED <<account, realized>>
      BY <1>13 DEF WriteStop
    <3>6. QED
      BY <1>2, <3>1, <3>3, <3>4, <3>5, AmendKeepsBooks
  <2>3. Requests'
    BY <1>2, <1>13, InsideStep DEF WriteStop
  <2>4. ClockOK'
    BY <1>2, <1>13, ClockStep DEF WriteStop
  <2>5. QED BY <1>1, <2>1, <2>2, <2>3, <2>4
<1>14. CASE JudgeStop
  <2>1. SettingsOK'
    BY <1>2, <1>14, SettingsFrame DEF JudgeStop
  <2>2. BookOK' /\ OnePosition' /\ MoneyConserved'
    BY <1>2, <1>14, BookFrame DEF JudgeStop
  <2>3. Requests'
    <3>1. outcome' \in Terminal
      BY <1>14 DEF JudgeStop, Finishing, Terminal, Accepted
    <3>2. QED BY <1>2, <1>14, <3>1, InsideStep DEF JudgeStop, Finishing
  <2>4. ClockOK'
    BY <1>2, <1>14, ClockStep DEF JudgeStop
  <2>5. QED BY <1>1, <2>1, <2>2, <2>3, <2>4
<1>15. CASE CommitStop
  <2>1. SettingsOK'
    BY <1>2, <1>15, SettingsFrame DEF CommitStop
  <2>2. BookOK' /\ OnePosition' /\ MoneyConserved'
    BY <1>2, <1>15, BookFrame DEF CommitStop
  <2>3. Requests'
    <3>1. Finishing("finalize", "managed")
      BY <1>15 DEF CommitStop, Finishing
    <3>2. QED BY <1>2, <1>15, <3>1, EffectStep DEF CommitStop, Accepted
  <2>4. ClockOK'
    BY <1>2, <1>15, ClockStep DEF CommitStop
  <2>5. QED BY <1>1, <2>1, <2>2, <2>3, <2>4
<1>16. CASE RollBackStop
  <2>1. SettingsOK'
    BY <1>2, <1>16, SettingsFrame DEF RollBackStop
  <2>2. BookOK' /\ OnePosition' /\ MoneyConserved'
    BY <1>2, <1>16, UndoKeepsBooks DEF RollBackStop, Restored, InTransaction
  <2>3. Requests'
    <3>1. Finishing("finalize", "rejected")
      BY <1>16 DEF RollBackStop, Finishing
    <3>2. QED BY <1>2, <1>16, <3>1, NoEffectStep DEF RollBackStop
  <2>4. ClockOK'
    <3>1. daily' = StoredDaily
      BY <1>16 DEF RollBackStop, Restored, StoredDaily, InTransaction
    <3>2. QED BY <1>2, <1>16, <3>1, StoredRow DEF RollBackStop, ClockOK
  <2>5. QED BY <1>1, <2>1, <2>2, <2>3, <2>4
<1>17. CASE MoveTarget
  <2>1. SettingsOK'
    BY <1>2, <1>17, SettingsFrame DEF MoveTarget
  <2>2. BookOK' /\ OnePosition' /\ MoneyConserved'
    <3>1. PICK p \in positions : positions' = (positions \ {p}) \cup {[p EXCEPT !.target = current.target]}
      BY <1>17 DEF MoveTarget, PositionOf
    <3>2. current.target \in Int /\ p \in Positions
      <4>1. current \in IntentBodies
        BY <1>2, <1>17, EngineAssumption DEF MoveTarget, Requests, RequestInProgress, Serving
      <4>2. QED BY <1>2, <4>1 DEF IntentBodies, TypeOK, BookOK
    <3>3. [p EXCEPT !.target = current.target] \in Positions
      BY <3>2 DEF Positions
    <3>4. [p EXCEPT !.target = current.target].qty = p.qty /\ [p EXCEPT !.target = current.target].fee = p.fee
      BY <3>2 DEF Positions
    <3>5. UNCHANGED <<account, realized>>
      BY <1>17 DEF MoveTarget
    <3>6. QED
      BY <1>2, <3>1, <3>3, <3>4, <3>5, AmendKeepsBooks
  <2>3. Requests'
    BY <1>2, <1>17, EffectStep DEF MoveTarget, Accepted
  <2>4. ClockOK'
    BY <1>2, <1>17, ClockStep DEF MoveTarget
  <2>5. QED BY <1>1, <2>1, <2>2, <2>3, <2>4
<1>18. CASE Reduce
  <2>1. SettingsOK'
    BY <1>2, <1>18, SettingsFrame DEF Reduce
  <2>2. BookOK' /\ OnePosition' /\ MoneyConserved'
    <3>1. PICK p \in positions : ReductionAdmitted(current, p)
                               /\ CloseQuantity(p, ReducedQuantity(current, p), account.mark)
      BY <1>18 DEF Reduce, PositionOf
    <3>2. p.qty \in Int /\ account.mark \in Int
      BY <1>2 DEF TypeOK, BookOK, Positions
    <3>3. ReducedQuantity(current, p) \in Int
      <4>1. current \in IntentBodies
        BY <1>2, <1>18, EngineAssumption DEF Reduce, Requests, RequestInProgress, Serving
      <4>2. (p.qty * current.pct) \div 100 \in Int
        BY <3>2, <4>1 DEF IntentBodies
      <4>3. QED BY <1>2, <4>2, StepInt DEF ReducedQuantity, SettingsOK, Policies
    <3>4. QED
      BY <1>2, <3>1, <3>2, <3>3, CloseKeepsBooks DEF ReductionAdmitted, BookOK
  <2>3. Requests'
    BY <1>2, <1>18, EffectStep DEF Reduce, Accepted
  <2>4. ClockOK'
    BY <1>2, <1>18, ClockStep DEF Reduce
  <2>5. QED BY <1>1, <2>1, <2>2, <2>3, <2>4
<1>19. CASE Exit
  <2>1. SettingsOK'
    BY <1>2, <1>19, SettingsFrame DEF Exit
  <2>2. BookOK' /\ OnePosition' /\ MoneyConserved'
    <3>1. PICK p \in positions : CloseQuantity(p, p.qty, account.mark)
      BY <1>19 DEF Exit, PositionOf
    <3>2. p.qty \in Int /\ account.mark \in Int
      BY <1>2 DEF TypeOK, BookOK, Positions
    <3>3. QED
      BY <1>2, <3>1, <3>2, CloseKeepsBooks DEF BookOK
  <2>3. Requests'
    BY <1>2, <1>19, EffectStep DEF Exit, Accepted
  <2>4. ClockOK'
    BY <1>2, <1>19, ClockStep DEF Exit
  <2>5. QED BY <1>1, <2>1, <2>2, <2>3, <2>4
<1>20. CASE RejectIntent
  <2>1. SettingsOK'
    BY <1>2, <1>20, SettingsFrame DEF RejectIntent
  <2>2. BookOK' /\ OnePosition' /\ MoneyConserved'
    BY <1>2, <1>20, BookFrame DEF RejectIntent
  <2>3. Requests'
    BY <1>2, <1>20, NoEffectStep DEF RejectIntent
  <2>4. ClockOK'
    BY <1>2, <1>20, ClockStep DEF RejectIntent
  <2>5. QED BY <1>1, <2>1, <2>2, <2>3, <2>4
<1>21. CASE SettleIntent
  <2>1. SettingsOK'
    BY <1>2, <1>21, SettingsFrame DEF SettleIntent
  <2>2. BookOK' /\ OnePosition' /\ MoneyConserved'
    BY <1>2, <1>21, BookFrame DEF SettleIntent
  <2>3. Requests'
    BY <1>2, <1>21, SettleIntentStep
  <2>4. ClockOK'
    BY <1>2, <1>21, ClockStep DEF SettleIntent
  <2>5. QED BY <1>1, <2>1, <2>2, <2>3, <2>4
<1>22. CASE FinalizeIntent
  <2>1. SettingsOK'
    BY <1>2, <1>22, SettingsFrame DEF FinalizeIntent
  <2>2. BookOK' /\ OnePosition' /\ MoneyConserved'
    BY <1>2, <1>22, BookFrame DEF FinalizeIntent
  <2>3. Requests'
    BY <1>2, <1>22, FinalizeStep
  <2>4. ClockOK'
    BY <1>2, <1>22, ClockStep DEF FinalizeIntent
  <2>5. QED BY <1>1, <2>1, <2>2, <2>3, <2>4
<1>23. CASE TriggerProtection
  <2>1. SettingsOK'
    BY <1>2, <1>23, SettingsFrame DEF TriggerProtection
  <2>2. BookOK' /\ OnePosition' /\ MoneyConserved'
    <3>1. CASE UNCHANGED book
      BY <1>2, <3>1, BookFrame
    <3>2. CASE \E p \in positions, x \in {account.mark} \cup {p2.target : p2 \in positions} :
                  CloseQuantity(p, p.qty, x)
      <4>1. PICK p \in positions, x \in {account.mark} \cup {p2.target : p2 \in positions} :
               CloseQuantity(p, p.qty, x)
        BY <3>2
      <4>2. p.qty \in Int /\ x \in Int
        BY <1>2 DEF TypeOK, BookOK, Positions
      <4>3. QED
        BY <1>2, <4>1, <4>2, CloseKeepsBooks DEF BookOK
    <3>3. QED
      BY <1>23, <3>1, <3>2 DEF TriggerProtection
  <2>3. Requests'
    BY <1>2, <1>23, QuietStep DEF TriggerProtection
  <2>4. ClockOK'
    BY <1>2, <1>23, ClockStep DEF TriggerProtection
  <2>5. QED BY <1>1, <2>1, <2>2, <2>3, <2>4
<1>24. CASE GuardRisk
  <2>1. SettingsOK'
    <3>1. running' \in BOOLEAN /\ mode' = mode /\ policy' = policy
      BY <1>24, Zenon DEF GuardRisk
    <3>2. QED BY <1>2, <3>1 DEF SettingsOK
  <2>2. BookOK' /\ OnePosition' /\ MoneyConserved'
    BY <1>2, <1>24, BookFrame DEF GuardRisk
  <2>3. Requests'
    BY <1>2, <1>24, QuietStep DEF GuardRisk
  <2>4. ClockOK'
    BY <1>2, <1>24, ClockStep DEF GuardRisk
  <2>5. QED BY <1>1, <2>1, <2>2, <2>3, <2>4
<1>25. CASE CloseForFlatten
  <2>1. SettingsOK'
    BY <1>2, <1>25, SettingsFrame DEF CloseForFlatten
  <2>2. BookOK' /\ OnePosition' /\ MoneyConserved'
    <3>1. CASE UNCHANGED book
      BY <1>2, <3>1, BookFrame
    <3>2. CASE \E p \in positions : CloseQuantity(p, p.qty, account.mark)
      <4>1. PICK p \in positions : CloseQuantity(p, p.qty, account.mark)
        BY <3>2
      <4>2. p.qty \in Int /\ account.mark \in Int
        BY <1>2 DEF TypeOK, BookOK, Positions
      <4>3. QED
        BY <1>2, <4>1, <4>2, CloseKeepsBooks DEF BookOK
    <3>3. QED
      BY <1>25, <3>1, <3>2 DEF CloseForFlatten
  <2>3. Requests'
    BY <1>2, <1>25, QuietStep DEF CloseForFlatten
  <2>4. ClockOK'
    BY <1>2, <1>25, ClockStep DEF CloseForFlatten
  <2>5. QED BY <1>1, <2>1, <2>2, <2>3, <2>4
<1>26. CASE Settle
  <2>1. SettingsOK'
    BY <1>2, <1>26, SettingsFrame DEF Settle
  <2>2. BookOK' /\ OnePosition' /\ MoneyConserved'
    BY <1>2, <1>26, BookFrame DEF Settle
  <2>3. Requests'
    BY <1>2, <1>26, QuietStep DEF Settle
  <2>4. ClockOK'
    BY <1>2, <1>26, ClockStep DEF Settle
  <2>5. QED BY <1>1, <2>1, <2>2, <2>3, <2>4
<1>27. CASE NextDay
  <2>1. SettingsOK'
    BY <1>2, <1>27, SettingsFrame DEF NextDay
  <2>2. BookOK' /\ OnePosition' /\ MoneyConserved'
    BY <1>2, <1>27, BookFrame DEF NextDay
  <2>3. Requests'
    BY <1>2, <1>27, RequestFrame DEF NextDay
  <2>4. ClockOK'
    BY <1>2, <1>27, ClockStep DEF NextDay
  <2>5. QED BY <1>1, <2>1, <2>2, <2>3, <2>4
<1>28. CASE Crash
  <2>1. SettingsOK'
    <3>1. running' = running /\ mode' \in GatewayModes /\ policy' = policy
      BY <1>28, EngineAssumption DEF Crash
    <3>2. QED BY <1>2, <3>1 DEF SettingsOK
  <2>2. BookOK' /\ OnePosition' /\ MoneyConserved'
    <3>1. CASE InTransaction
      BY <1>2, <1>28, <3>1, UndoKeepsBooks DEF Crash, StoredPositions
    <3>2. CASE ~InTransaction
      BY <1>2, <1>28, <3>2, BookFrame DEF Crash, StoredPositions, book
    <3>3. QED BY <3>1, <3>2
  <2>3. Requests'
    BY <1>2, <1>28, QuietStep DEF Crash
  <2>4. ClockOK'
    <3>1. daily' \in DailyRows
      BY <1>2, <1>28, StoredRow DEF Crash
    <3>2. today' = today /\ unchecked' = unchecked /\ crashes' \in Nat
      BY <1>2, <1>28 DEF Crash
    <3>3. QED BY <1>2, <3>1, <3>2 DEF ClockOK
  <2>5. QED BY <1>1, <2>1, <2>2, <2>3, <2>4
<1>29. CASE UNCHANGED vars
  <2>1. SettingsOK'
    BY <1>2, <1>29, SettingsFrame DEF vars, settings
  <2>2. BookOK' /\ OnePosition' /\ MoneyConserved'
    BY <1>2, <1>29, BookFrame DEF vars, book
  <2>3. Requests'
    BY <1>2, <1>29, RequestFrame DEF vars, ledger, memory
  <2>4. ClockOK'
    BY <1>2, <1>29, ClockStep DEF vars
  <2>5. QED BY <1>1, <2>1, <2>2, <2>3, <2>4
<1>30. QED
  BY <1>3, <1>4, <1>5, <1>6, <1>7, <1>8, <1>9, <1>10, <1>11, <1>12, <1>13, <1>14,
     <1>15, <1>16, <1>17, <1>18, <1>19, <1>20, <1>21, <1>22, <1>23, <1>24, <1>25,
     <1>26, <1>27, <1>28, <1>29
     DEF Next, Continue, ExecuteIntent

(* Types, one position, conserved money, receipts that tell the truth: for  *)
(* every set of intents, prices and policies, every scale and every number  *)
(* of crashes.                                                              *)
THEOREM EngineInvariant == Spec => []EngineInv
<1>1. Init => EngineInv
  BY InitEstablishes
<1>2. EngineInv /\ [Next]_vars => EngineInv'
  BY StepPreserves
<1>3. QED
  BY <1>1, <1>2, PTL DEF Spec

-----------------------------------------------------------------------------
(* The checked properties, for every value of the constants. *)

(* Every table and the memory of a request keep their types. *)
THEOREM TypeCorrect == Spec => []TypeOK
BY EngineInvariant, PTL DEF EngineInv, Books

(* No order of entries, reductions, closes, policy changes and restarts     *)
(* creates or loses a cent, whatever the fees round to.                     *)
THEOREM MoneyIsConserved == Spec => []MoneyConserved
BY EngineInvariant, PTL DEF EngineInv, Books

(* At most one position is ever open, and it is not empty. *)
THEOREM OneOpenPosition == Spec => []OnePosition
BY EngineInvariant, PTL DEF EngineInv, Books

(* An intent takes effect at most once, and its stored receipt says so. *)
THEOREM ReceiptsAreTruthful == Spec => []ReceiptMatchesEffect
BY EngineInvariant, PTL DEF EngineInv

(* What is stored under an intent id stays: the body of a row, and a receipt. *)
LEMMA RowsStay ==
    ASSUME EngineInv, [Next]_vars
    PROVE  \A i \in IntentIds :
              /\ intents[i].state # "absent" => intents'[i].body = intents[i].body
              /\ intents[i].state \in Terminal => intents'[i] = intents[i]
<1>1. /\ \A i \in IntentIds : intents[i] \in [state : Terminal \cup {"absent", "received"},
                                                body : Intents \cup {NONE}]
      /\ intents \in [IntentIds -> [state : Terminal \cup {"absent", "received"},
                                      body : Intents \cup {NONE}]]
  BY DEF EngineInv, Books, TypeOK, LedgerOK
<1>2. CASE UNCHANGED intents
  BY <1>2
<1>3. CASE \E b \in Intents : ClaimIntent(b)
  <2>1. PICK b \in Intents : ClaimIntent(b)
    BY <1>3
  <2>2. intents[b.id].state = "absent"
        /\ intents' = [intents EXCEPT ![b.id] = [state |-> "received", body |-> b]]
    BY <1>1, <2>1, EngineAssumption
       DEF ClaimIntent, AnswerTo, IntentBodies, Terminal, Accepted
  <2>3. QED
    BY <1>1, <2>2 DEF Terminal, Accepted
<1>4. CASE FinalizeIntent
  <2>1. intents[current.id].state = "received"
        /\ intents' = [intents EXCEPT ![current.id].state = outcome]
    BY <1>4 DEF FinalizeIntent, EngineInv, RequestInProgress, Serving
  <2>2. QED
    BY <1>1, <2>1 DEF Terminal, Accepted
<1>5. QED
  BY <1>2, <1>3, <1>4
     DEF Next, Continue, ExecuteIntent, SetMark, FlattenAll, Start, Stop, Observe, SetMode,
         UpdatePolicy, Enter, RecordObservation, WriteStop, MoveTarget, Reduce, Exit,
         RejectIntent, JudgeStop, CommitStop, RollBackStop, SettleIntent, TriggerProtection,
         GuardRisk, CloseForFlatten, Settle, NextDay, Crash, ledger, vars

(* A stored body and a stored receipt are never replaced. *)
THEOREM ReceiptsAreStable == Spec => ReceiptStable
<1> DEFINE Stable == \A i \in IntentIds :
             /\ intents[i].state # "absent" => intents'[i].body = intents[i].body
             /\ intents[i].state \in Terminal => intents'[i] = intents[i]
<1>1. EngineInv /\ [Next]_vars => [Stable]_vars
  BY RowsStay
<1>2. QED
  BY <1>1, EngineInvariant, PTL DEF Spec, ReceiptStable

(* How a step changes the stored row: not at all, or to the snapshot over   *)
(* the stored positions before or after the step.                           *)
RowFrom(ps) ==
    StoredDaily' = Snapshot(StoredDaily'.day, StoredDaily, account, ps, policy).daily

(* Only a snapshot changes the stored row, and an amendment brings its own. *)
LEMMA StoredRowIsTaken ==
    ASSUME EngineInv, [Next]_vars
    PROVE  \/ StoredDaily' = StoredDaily /\ ~CommitStop
           \/ RowFrom(StoredPositions)
           \/ CommitStop /\ RowFrom(StoredPositions')
<1>1. CASE CommitStop
  <2>1. InTransaction /\ ~InTransaction'
    BY <1>1 DEF CommitStop, InTransaction
  <2>2. StoredDaily = before.daily /\ StoredDaily' = daily' /\ StoredPositions' = positions'
    BY <2>1 DEF StoredDaily, StoredPositions
  <2>3. daily' = daily /\ positions' = positions
    BY <1>1 DEF CommitStop, book
  <2>4. daily = Snapshot(daily.day, before.daily, account, positions, policy).daily
    BY <1>1 DEF CommitStop, EngineInv, AmendmentInProgress
  <2>5. QED BY <1>1, <2>2, <2>3, <2>4 DEF RowFrom
<1>2. CASE Crash
  <2>1. ~InTransaction'
    BY <1>2 DEF Crash, InTransaction
  <2>2. StoredDaily' = Snapshot(today, StoredDaily, account, StoredPositions, policy).daily
    BY <1>2, <2>1 DEF Crash, StoredDaily
  <2>3. StoredDaily'.day = today
    BY <2>2, SnapshotDay
  <2>4. QED BY <2>2, <2>3 DEF RowFrom
<1>3. CASE WriteStop
  <2>1. ~InTransaction /\ InTransaction'
    BY <1>3 DEF WriteStop, InTransaction
  <2>2. StoredDaily' = StoredDaily
    BY <1>3, <2>1 DEF WriteStop, StoredDaily
  <2>3. QED BY <1>3, <2>2 DEF WriteStop, CommitStop
<1>4. CASE JudgeStop \/ RollBackStop
  <2>1. InTransaction /\ ~CommitStop
    BY <1>4 DEF JudgeStop, RollBackStop, CommitStop, InTransaction
  <2>2. CASE JudgeStop
    BY <2>1, <2>2 DEF JudgeStop, Finishing, StoredDaily, InTransaction
  <2>3. CASE RollBackStop
    BY <2>1, <2>3 DEF RollBackStop, Restored, StoredDaily, InTransaction
  <2>4. QED BY <1>4, <2>1, <2>2, <2>3
<1>5. CASE UNCHANGED <<daily, pc, before>>
  <2>1. StoredDaily' = StoredDaily
    BY <1>5 DEF StoredDaily, InTransaction
  <2>2. ~CommitStop
    BY <1>5 DEF CommitStop
  <2>3. QED BY <2>1, <2>2
<1>6. CASE ~InTransaction /\ ~InTransaction' /\ (UNCHANGED daily \/ TakeSnapshot)
  <2>1. StoredDaily = daily /\ StoredDaily' = daily' /\ StoredPositions = positions
    BY <1>6 DEF StoredDaily, StoredPositions
  <2>2. ~CommitStop
    BY <1>6 DEF CommitStop, InTransaction
  <2>3. CASE UNCHANGED daily
    BY <2>1, <2>2, <2>3
  <2>4. CASE TakeSnapshot
    <3>1. daily' = Snapshot(today, daily, account, positions, policy).daily
      BY <2>4 DEF TakeSnapshot, Risk
    <3>2. daily'.day = today
      BY <3>1, SnapshotDay
    <3>3. QED BY <2>1, <3>1, <3>2 DEF RowFrom
  <2>5. QED BY <1>6, <2>3, <2>4
<1>7. QED
  BY <1>1, <1>2, <1>3, <1>4, <1>5, <1>6
     DEF Next, Continue, ExecuteIntent, ClaimIntent, SetMark, FlattenAll, Start, Stop, Observe,
         SetMode, UpdatePolicy, Enter, RecordObservation, MoveTarget, Reduce, Exit, RejectIntent,
         SettleIntent, FinalizeIntent, TriggerProtection, GuardRisk, CloseForFlatten, Settle,
         NextDay, Finishing, InTransaction, memory, vars

(* What a day has earned is never given back. *)
THEOREM DayNeverGivesBack == Spec => DayRatchet
<1> DEFINE Ratchet == StoredDaily'.day = StoredDaily.day =>
             /\ StoredDaily'.start = StoredDaily.start
             /\ StoredDaily'.high >= StoredDaily.high
             /\ StoredDaily'.floor >= StoredDaily.floor
<1>1. ASSUME EngineInv, [Next]_vars PROVE Ratchet
  <2>1. /\ policy \in Policies /\ account \in [balance : Int, mark : Int]
        /\ StoredDaily \in DailyRows /\ StoredPositions \in SUBSET Positions
    BY <1>1, StoredRow DEF EngineInv, Books, TypeOK, SettingsOK, BookOK
  <2>2. EngineInv'
    BY <1>1, StepPreserves
  <2>3. StoredDaily' \in DailyRows /\ StoredPositions' \in SUBSET Positions
    <3>1. TypeOK' /\ AmendmentInProgress'
      BY <2>2 DEF EngineInv, Books
    <3>2. QED BY <3>1 DEF StoredPositions, StoredDaily, AmendmentInProgress, Tables, TypeOK,
                            BookOK, ClockOK
  <2>4. CASE StoredDaily' = StoredDaily
    BY <2>1, <2>4 DEF DailyRows
  <2>5. ASSUME NEW ps \in SUBSET Positions, RowFrom(ps), StoredDaily'.day = StoredDaily.day
        PROVE  Ratchet
    <3>1. StoredDaily.day \in Nat \/ StoredDaily.day \in Int
      BY <2>1 DEF DailyRows
    <3>2. QED BY <2>1, <2>5, <3>1, SnapshotRatchet DEF RowFrom
  <2>6. QED
    BY <1>1, <2>1, <2>3, <2>4, <2>5, StoredRowIsTaken
<1>2. EngineInv /\ [Next]_vars => [Ratchet]_vars
  BY <1>1
<1>3. QED
  BY <1>2, EngineInvariant, PTL DEF Spec, DayRatchet

-----------------------------------------------------------------------------
(* Protection. *)

(* The request being served is one of the intents, with prices.             *)
LEMMA CurrentIntent ==
    ASSUME EngineInv, pc = "claimed"
    PROVE  /\ current \in Intents
           /\ current.stop \in Int /\ current.target \in Int
BY EngineAssumption DEF EngineInv, RequestInProgress, Serving, IntentBodies

(* The mark is a positive price, and one position is open at most.          *)
LEMMA OpenPosition ==
    ASSUME EngineInv
    PROVE  /\ account.mark \in Nat \ {0}
           /\ \A p \in positions : p \in Positions /\ positions = {p}
BY DEF EngineInv, Books, TypeOK, BookOK, OnePosition

(* What is open and what is stored, outside the transaction of moveStop.    *)
BracketsOpen ==
    ~unchecked => \A p \in positions : ~Crossed(p, account.mark)
                                       /\ ~TargetReached(p, account.mark)

LEMMA BracketsOutside ==
    ASSUME ~InTransaction
    PROVE  ProtectionBracketsMark <=> BracketsOpen
BY Outside DEF ProtectionBracketsMark, BracketsOpen

(* A close leaves nothing, or the position with its stop and target.        *)
LEMMA CloseKeepsBrackets ==
    ASSUME EngineInv, BracketsOpen, NEW p \in positions, NEW q, NEW x,
           CloseQuantity(p, q, x), unchecked' = unchecked
    PROVE  BracketsOpen'
<1>1. positions = {p}
  BY OpenPosition
<1>2. account'.mark = account.mark
  BY DEF EngineInv, Books, TypeOK, BookOK, CloseQuantity
<1>3. positions' \subseteq {Survivor(p, q)}
  BY <1>1 DEF CloseQuantity
<1> QED
  BY <1>1, <1>2, <1>3 DEF BracketsOpen, Survivor, Crossed, TargetReached

(* What a step leaves alone stays between its stop and its target.          *)
LEMMA BracketsFrame ==
    ASSUME BracketsOpen, UNCHANGED <<account, positions, unchecked>>
    PROVE  BracketsOpen'
BY DEF BracketsOpen, Crossed, TargetReached

(* An entry's stop and target are checked against the mark it enters at.    *)
LEMMA EntryKeepsBrackets ==
    ASSUME EngineInv, BracketsOpen, Enter
    PROVE  BracketsOpen'
<1> DEFINE o == Opened(current)
<1>1. positions' = {o}
  BY DEF Enter, EntryAdmitted, EntryGate
<1>2. account'.mark = account.mark
  BY DEF EngineInv, Books, TypeOK, BookOK, Enter
<1>3. /\ StopSideValid(o.side, account.mark, o.stop)
      /\ TargetSideValid(o.side, account.mark, o.target)
  BY DEF Enter, EntryAdmitted, Opened
<1>4. o.stop \in Int /\ o.target \in Int /\ account.mark \in Int
  BY CurrentIntent, OpenPosition DEF Enter, Opened
<1> HIDE DEF o
<1>5. ~Crossed(o, account.mark) /\ ~TargetReached(o, account.mark)
  BY <1>3, <1>4 DEF StopSideValid, TargetSideValid, Crossed, TargetReached
<1> QED
  BY <1>1, <1>2, <1>5 DEF BracketsOpen, Crossed, TargetReached

(* An amended target is checked against the mark, the stop is kept.         *)
LEMMA MoveTargetKeepsBrackets ==
    ASSUME EngineInv, BracketsOpen, MoveTarget
    PROVE  BracketsOpen'
<1>1. /\ account' = account /\ unchecked' = unchecked /\ account.mark \in Int
      /\ current.stop \in Int /\ current.target \in Int
  BY CurrentIntent, OpenPosition DEF MoveTarget
<1>2. PICK p \in positions :
         /\ TargetSideValid(p.side, account.mark, current.target)
         /\ positions' = (positions \ {p}) \cup {[p EXCEPT !.target = current.target]}
  BY DEF MoveTarget, PositionOf
<1> DEFINE r == [p EXCEPT !.target = current.target]
<1>3. positions = {p} /\ positions' = {r} /\ p \in Positions
  BY <1>2, OpenPosition
<1>4. r.side = p.side /\ r.stop = p.stop /\ r.target = current.target
  BY <1>3 DEF Positions
<1> HIDE DEF r
<1>5. ~TargetReached(r, account.mark)
  BY <1>1, <1>2, <1>4 DEF TargetReached, TargetSideValid
<1> QED
  BY <1>1, <1>3, <1>4, <1>5 DEF BracketsOpen, TargetReached, Crossed

(* An amended stop is checked against the mark before it is written, and    *)
(* what may be restored was checked before.                                 *)
LEMMA WriteStopKeepsBrackets ==
    ASSUME EngineInv, ProtectionBracketsMark, WriteStop
    PROVE  ProtectionBracketsMark'
<1>1. /\ account' = account /\ unchecked' = unchecked /\ account.mark \in Int
      /\ current.stop \in Int /\ current.target \in Int
  BY CurrentIntent, OpenPosition DEF WriteStop
<1>2. PICK p \in positions : /\ StopSideValid(p.side, account.mark, current.stop)
                            /\ positions' = WithStop(p, current.stop)
  BY DEF WriteStop, PositionOf
<1> DEFINE r == [p EXCEPT !.stop = current.stop]
<1>3. positions = {p} /\ positions' = {r} /\ p \in Positions
  BY <1>2, OpenPosition DEF WithStop
<1>4. r.side = p.side /\ r.stop = current.stop /\ r.target = p.target
  BY <1>3 DEF Positions
<1> HIDE DEF r
<1>5. ~Crossed(r, account.mark)
  BY <1>1, <1>2, <1>4 DEF Crossed, StopSideValid
<1>6. StoredPositions' = positions
  BY DEF WriteStop, StoredPositions, InTransaction
<1>7. ~unchecked => ~Crossed(p, account.mark) /\ ~TargetReached(p, account.mark)
  BY <1>2 DEF ProtectionBracketsMark
<1>8. ~unchecked => ~TargetReached(r, account.mark)
  BY <1>4, <1>7 DEF TargetReached
<1>9. positions' \cup StoredPositions' = {p, r}
  BY <1>3, <1>6
<1> QED
  BY <1>1, <1>5, <1>7, <1>8, <1>9 DEF ProtectionBracketsMark, Crossed, TargetReached

(* Keeping, committing or restoring what there is uncovers nothing.         *)
LEMMA FewerStillBracketed ==
    ASSUME ProtectionBracketsMark, account' = account, unchecked' = unchecked,
           positions' \cup StoredPositions' \subseteq positions \cup StoredPositions
    PROVE  ProtectionBracketsMark'
BY DEF ProtectionBracketsMark, Crossed, TargetReached

(* A mark that reaches stop or target closes the position; what remains     *)
(* open was not reached.                                                    *)
LEMMA TriggerBrackets ==
    ASSUME EngineInv, TriggerProtection
    PROVE  BracketsOpen'
<1>1. CASE \E p \in positions : \E x : CloseQuantity(p, p.qty, x)
  <2>1. positions' = {}
    BY <1>1, OpenPosition DEF CloseQuantity
  <2> QED BY <2>1 DEF BracketsOpen
<1>2. CASE /\ \A p \in positions : ~Crossed(p, account.mark) /\ ~TargetReached(p, account.mark)
           /\ UNCHANGED book
  BY <1>2 DEF book, BracketsOpen, Crossed, TargetReached
<1> QED BY <1>1, <1>2 DEF TriggerProtection

(* Every step keeps the open position between its stop and its target.      *)
LEMMA StepKeepsBrackets ==
    ASSUME EngineInv, ProtectionBracketsMark, [Next]_vars
    PROVE  ProtectionBracketsMark'
<1>1. CASE WriteStop
  BY <1>1, WriteStopKeepsBrackets
<1>2. CASE JudgeStop \/ UNCHANGED <<account, positions, unchecked, pc, before>>
  <2>1. /\ UNCHANGED <<account, positions, unchecked, before>>
        /\ InTransaction' = InTransaction
    BY <1>2 DEF JudgeStop, InTransaction, Finishing, book
  <2>2. StoredPositions' = StoredPositions
    BY <2>1 DEF StoredPositions
  <2>3. QED BY <2>1, <2>2, FewerStillBracketed
<1>3. CASE CommitStop
  <2>1. StoredPositions' = positions /\ positions' = positions
        /\ account' = account /\ unchecked' = unchecked
    BY <1>3 DEF CommitStop, StoredPositions, InTransaction, book
  <2>2. QED BY <2>1, FewerStillBracketed
<1>4. CASE RollBackStop \/ Crash
  <2>1. positions' = StoredPositions /\ account' = account /\ unchecked' = unchecked
    BY <1>4 DEF RollBackStop, Restored, Crash, StoredPositions, InTransaction
  <2>2. StoredPositions' = positions'
    BY <1>4, Outside DEF RollBackStop, Crash, StoredPositions, InTransaction
  <2>3. QED BY <2>1, <2>2, FewerStillBracketed
<1>5. ASSUME ~InTransaction, ~InTransaction', BracketsOpen => BracketsOpen'
      PROVE  ProtectionBracketsMark'
  <2>1. BracketsOpen'
    BY <1>5, BracketsOutside
  <2>2. StoredPositions' = positions'
    BY <1>5 DEF StoredPositions
  <2>3. QED BY <2>1, <2>2 DEF ProtectionBracketsMark, BracketsOpen
<1>6. CASE /\ ~InTransaction /\ ~InTransaction'
           /\ UNCHANGED <<account, positions, unchecked>>
  BY <1>5, <1>6, BracketsFrame
<1>7. CASE \E price \in Prices : SetMark(price)
  <2>1. ~InTransaction /\ ~InTransaction' /\ BracketsOpen'
    BY <1>7 DEF SetMark, BracketsOpen, InTransaction
  <2>2. QED BY <1>5, <2>1
<1>8. CASE Enter
  <2>1. ~InTransaction /\ ~InTransaction'
    BY <1>8 DEF Enter, Finishing, InTransaction
  <2>2. QED BY <1>5, <1>8, <2>1, EntryKeepsBrackets
<1>9. CASE MoveTarget
  <2>1. ~InTransaction /\ ~InTransaction'
    BY <1>9 DEF MoveTarget, Finishing, InTransaction
  <2>2. QED BY <1>5, <1>9, <2>1, MoveTargetKeepsBrackets
<1>10. CASE Reduce \/ Exit \/ CloseForFlatten
  <2>1. unchecked' = unchecked /\ ~InTransaction /\ ~InTransaction'
    BY <1>10 DEF Reduce, Exit, CloseForFlatten, Finishing, InTransaction
  <2>2. CASE \E p \in positions : \E q, x : CloseQuantity(p, q, x)
    BY <1>5, <2>1, <2>2, CloseKeepsBrackets
  <2>3. CASE UNCHANGED book
    BY <1>6, <2>1, <2>3 DEF book
  <2> QED BY <1>10, <2>2, <2>3 DEF Reduce, Exit, CloseForFlatten, PositionOf
<1>11. CASE TriggerProtection
  <2>1. ~InTransaction /\ ~InTransaction'
    BY <1>11 DEF TriggerProtection, InTransaction
  <2>2. QED BY <1>5, <1>11, <2>1, TriggerBrackets
<1> QED
  BY <1>1, <1>2, <1>3, <1>4, <1>6, <1>7, <1>8, <1>9, <1>10, <1>11
     DEF Next, Continue, ExecuteIntent, ClaimIntent, FlattenAll, Start, Stop, Observe, SetMode,
         UpdatePolicy, RecordObservation, RejectIntent, SettleIntent, FinalizeIntent, GuardRisk,
         Settle, NextDay, Finishing, InTransaction, memory, book, vars

(* No entry, amendment, undone amendment, reduction or restart leaves a     *)
(* position that native protection would already have closed at the last    *)
(* checked mark.                                                            *)
THEOREM ProtectionAlwaysBrackets == Spec => []ProtectionBracketsMark
<1>1. Init => ProtectionBracketsMark
  BY DEF Init, ProtectionBracketsMark, StoredPositions, InTransaction
<1>2. EngineInv /\ ProtectionBracketsMark /\ [Next]_vars => ProtectionBracketsMark'
  BY StepKeepsBrackets
<1> QED BY <1>1, <1>2, EngineInvariant, PTL DEF Spec

-----------------------------------------------------------------------------
(* Amendments. *)

(* Only an entry and a committed amendment give the store a stop.           *)
LEMMA StopsStay ==
    ASSUME EngineInv, [Next]_vars, ~Enter, ~CommitStop, NEW q \in StoredPositions'
    PROVE  \E p \in StoredPositions : p.tranche = q.tranche /\ p.stop = q.stop
<1>1. CASE StoredPositions' \subseteq StoredPositions
  BY <1>1
<1>2. CASE WriteStop
  <2>1. StoredPositions' = positions /\ StoredPositions = positions
    BY <1>2 DEF WriteStop, StoredPositions, InTransaction
  <2>2. QED BY <1>1, <2>1
<1>3. CASE JudgeStop \/ UNCHANGED <<positions, pc, before>>
  <2>1. StoredPositions' = StoredPositions
    BY <1>3 DEF JudgeStop, StoredPositions, InTransaction, Finishing, book
  <2>2. QED BY <1>1, <2>1
<1>4. CASE RollBackStop \/ Crash
  <2>1. StoredPositions' = StoredPositions
    BY <1>4 DEF RollBackStop, Restored, Crash, StoredPositions, InTransaction
  <2>2. QED BY <1>1, <2>1
<1>5. CASE ~InTransaction /\ ~InTransaction' /\ UNCHANGED positions
  <2>1. StoredPositions' = StoredPositions
    BY <1>5 DEF StoredPositions
  <2>2. QED BY <1>1, <2>1
<1>6. CASE MoveTarget
  <2>1. StoredPositions = positions /\ StoredPositions' = positions'
    BY <1>6 DEF MoveTarget, Finishing, StoredPositions, InTransaction
  <2>2. PICK p \in positions :
           positions' = (positions \ {p}) \cup {[p EXCEPT !.target = current.target]}
    BY <1>6 DEF MoveTarget, PositionOf
  <2>3. p \in Positions
    BY <2>2, OpenPosition
  <2>4. QED BY <2>1, <2>2, <2>3 DEF Positions
<1>7. CASE Reduce \/ Exit \/ CloseForFlatten \/ TriggerProtection
  <2>1. StoredPositions = positions /\ StoredPositions' = positions'
    BY <1>7 DEF Reduce, Exit, CloseForFlatten, TriggerProtection, Finishing, StoredPositions,
                InTransaction
  <2>2. CASE UNCHANGED book
    BY <1>1, <2>1, <2>2 DEF book
  <2>3. CASE \E p \in positions : \E n, x : CloseQuantity(p, n, x)
    <3>1. PICK p \in positions : \E n, x : CloseQuantity(p, n, x)
      BY <2>3
    <3>2. PICK n, x : CloseQuantity(p, n, x)
      BY <3>1
    <3>3. q \in positions \/ q = Survivor(p, n)
      BY <2>1, <3>2 DEF CloseQuantity
    <3>4. QED BY <2>1, <3>1, <3>3 DEF Survivor
  <2>4. QED
    BY <1>7, <2>2, <2>3 DEF Reduce, Exit, CloseForFlatten, TriggerProtection, PositionOf
<1>8. QED
  BY <1>2, <1>3, <1>4, <1>5, <1>6, <1>7
     DEF Next, Continue, ExecuteIntent, ClaimIntent, SetMark, FlattenAll, Start, Stop, Observe,
         SetMode, UpdatePolicy, RecordObservation, RejectIntent, SettleIntent, FinalizeIntent,
         GuardRisk, Settle, NextDay, Finishing, InTransaction, memory, book, vars

(* One position at most is stored.                                          *)
LEMMA OneStored ==
    ASSUME EngineInv, NEW p \in StoredPositions, NEW q \in StoredPositions
    PROVE  p = q
BY DEF EngineInv, Books, OnePosition, StoredPositions, AmendmentInProgress

(* An effect once journaled stays so, with its body.                        *)
LEMMA SettersStay ==
    ASSUME EngineInv, [Next]_vars, NEW i \in IntentIds, NEW p, NEW q,
           p.tranche = q.tranche, p.stop = q.stop, SetsStop(i, p)
    PROVE  SetsStop(i, q)'
<1>1. effects[i] = 1 /\ effects \in [IntentIds -> Nat]
  BY DEF SetsStop, EngineInv, Books, TypeOK, LedgerOK
<1>2. intents[i].state # "absent"
  BY <1>1 DEF EngineInv, ReceiptMatchesEffect
<1>3. intents'[i].body = intents[i].body
  BY <1>2, RowsStay
<1>4. effects' = effects \/ Count(current.id)
  BY DEF Next, Continue, ExecuteIntent, ClaimIntent, SetMark, FlattenAll, Start, Stop, Observe,
         SetMode, UpdatePolicy, Enter, RecordObservation, WriteStop, MoveTarget, Reduce, Exit,
         RejectIntent, JudgeStop, CommitStop, RollBackStop, SettleIntent, FinalizeIntent,
         TriggerProtection, GuardRisk, CloseForFlatten, Settle, NextDay, Crash, ledger, vars
<1>5. effects'[i] >= 1
  BY <1>1, <1>4 DEF Count
<1>6. EngineInv'
  BY StepPreserves
<1>7. effects'[i] = 1
  BY <1>5, <1>6 DEF EngineInv, Books, TypeOK, LedgerOK, ReceiptMatchesEffect
<1>8. QED BY <1>3, <1>7 DEF SetsStop

(* What an executed entry or amendment stores is what its intent asked for. *)
LEMMA ExecutedSets ==
    ASSUME EngineInv, Enter \/ CommitStop, NEW q \in StoredPositions'
    PROVE  \E i \in IntentIds : SetsStop(i, q)'
<1>1. /\ current \in Intents /\ current.id \in IntentIds
      /\ intents[current.id].body = current /\ effects[current.id] = 0
      /\ effects \in [IntentIds -> Nat]
  BY EngineAssumption
     DEF Enter, CommitStop, EngineInv, RequestInProgress, Serving, IntentBodies, Books, TypeOK,
         LedgerOK
<1>2. intents' = intents /\ effects'[current.id] = 1
  BY <1>1 DEF Enter, CommitStop, Count
<1>3. StoredPositions' = positions'
  BY DEF Enter, CommitStop, Finishing, StoredPositions, InTransaction
<1>4. CASE Enter
  <2>1. q = Opened(current)
    BY <1>3, <1>4 DEF Enter, EntryAdmitted, EntryGate
  <2>2. q.tranche = current.id /\ q.stop = current.stop
    BY <2>1 DEF Opened
  <2>3. QED BY <1>1, <1>2, <2>2 DEF SetsStop
<1>5. CASE CommitStop
  <2>1. positions' = positions /\ InTransaction
    BY <1>5 DEF CommitStop, book, InTransaction
  <2>2. PICK p \in Positions : /\ p.tranche = current.tranche
                              /\ positions = {[p EXCEPT !.stop = current.stop]}
    BY <2>1 DEF EngineInv, AmendmentInProgress
  <2>3. q.tranche = current.tranche /\ q.stop = current.stop
    BY <1>3, <2>1, <2>2 DEF Positions
  <2>4. current.action = "MOVE_STOP"
    BY <2>1 DEF EngineInv, AmendmentInProgress
  <2>5. QED BY <1>1, <1>2, <2>3, <2>4 DEF SetsStop
<1>6. QED BY <1>4, <1>5

(* The stop the store holds was asked for by an intent that took effect;    *)
(* what a refusal or a restart undoes leaves none behind.                   *)
THEOREM StopsHaveReceipts == Spec => []StopHasReceipt
<1>1. Init => StopHasReceipt
  BY DEF Init, StopHasReceipt, StoredPositions, InTransaction
<1>2. ASSUME EngineInv, StopHasReceipt, [Next]_vars PROVE StopHasReceipt'
  <2>1. CASE Enter \/ CommitStop
    BY <1>2, <2>1, ExecutedSets DEF StopHasReceipt
  <2>2. CASE ~Enter /\ ~CommitStop
    <3>1. ASSUME NEW q \in StoredPositions' PROVE \E i \in IntentIds : SetsStop(i, q)'
      <4>1. PICK p \in StoredPositions : p.tranche = q.tranche /\ p.stop = q.stop
        BY <1>2, <2>2, StopsStay
      <4>2. PICK i \in IntentIds : SetsStop(i, p)
        BY <1>2 DEF StopHasReceipt
      <4>3. SetsStop(i, q)'
        BY <1>2, <4>1, <4>2, SettersStay
      <4>4. QED BY <4>3
    <3>2. QED BY <3>1 DEF StopHasReceipt
  <2>3. QED BY <2>1, <2>2
<1>3. QED BY <1>1, <1>2, EngineInvariant, PTL DEF Spec

(* The store takes no row but a snapshot of its positions, and no new stop  *)
(* but within the limits and with the row of its own snapshot.              *)
THEOREM AmendmentsCommitWhole == Spec => AmendmentCommitsWhole
<1> DEFINE Judged(ps) == Snapshot(StoredDaily'.day, StoredDaily, account, ps, policy)
           Whole == /\ StoredDaily' # StoredDaily =>
                          \E ps \in {StoredPositions, StoredPositions'} :
                             StoredDaily' = Judged(ps).daily
                    /\ \A p \in StoredPositions, q \in StoredPositions' :
                          p.tranche = q.tranche /\ p.stop # q.stop =>
                              /\ StoredDaily' = Judged(StoredPositions').daily
                              /\ ~ExposureRestricted(Judged(StoredPositions'))
<1>1. ASSUME EngineInv, [Next]_vars PROVE Whole
  <2>1. StoredDaily' # StoredDaily =>
            \E ps \in {StoredPositions, StoredPositions'} : StoredDaily' = Judged(ps).daily
    BY <1>1, StoredRowIsTaken DEF RowFrom
  <2>2. ASSUME NEW p \in StoredPositions, NEW q \in StoredPositions',
               p.tranche = q.tranche, p.stop # q.stop
        PROVE  /\ StoredDaily' = Judged(StoredPositions').daily
               /\ ~ExposureRestricted(Judged(StoredPositions'))
    <3>1. ~Enter
      BY <2>2 DEF Enter, EntryAdmitted, EntryGate, StoredPositions, InTransaction
    <3>2. CommitStop
      BY <1>1, <2>2, <3>1, StopsStay, OneStored
    <3>3. /\ StoredDaily = before.daily /\ StoredDaily' = daily
          /\ StoredPositions' = positions
      BY <3>2 DEF CommitStop, StoredDaily, StoredPositions, InTransaction, book
    <3>4. LET judged == Snapshot(daily.day, before.daily, account, positions, policy)
          IN  daily = judged.daily /\ ~ExposureRestricted(judged)
      BY <1>1, <3>2 DEF CommitStop, EngineInv, AmendmentInProgress
    <3>5. QED BY <3>3, <3>4
  <2>3. QED BY <2>1, <2>2
<1>2. EngineInv /\ [Next]_vars => [Whole]_vars
  BY <1>1
<1>3. QED BY <1>2, EngineInvariant, PTL DEF Spec, AmendmentCommitsWhole

-----------------------------------------------------------------------------
(* The planned loss of an entry. *)

(* Math.round is within half of the quotient.                               *)
LEMMA RoundDivBounds ==
    ASSUME NEW n \in Int, NEW d \in Nat \ {0}
    PROVE  /\ RoundDiv(n, d) \in Int
           /\ (2 * d) * RoundDiv(n, d) <= 2 * n + d
           /\ 2 * n + d < (2 * d) * RoundDiv(n, d) + 2 * d
<1> DEFINE q == (2 * n + d) \div (2 * d)
<1>1. q \in Int /\ (2 * d) * q <= 2 * n + d /\ 2 * n + d < (2 * d) * q + 2 * d
  OBVIOUS
<1> QED BY <1>1 DEF RoundDiv

(* Math.ceil is not below the quotient.                                     *)
LEMMA CeilDivBounds ==
    ASSUME NEW n \in Int, NEW d \in Nat \ {0}
    PROVE  CeilDiv(n, d) \in Int /\ n <= d * CeilDiv(n, d)
<1> DEFINE q == (n + d - 1) \div d
<1>1. q \in Int /\ n + d - 1 < d * q + d
  OBVIOUS
<1> QED BY <1>1 DEF CeilDiv

(* Fee, stressed exit and distance of an entry, each rounded, against its   *)
(* planned loss: N is the notional, C the distance in basis points rounded  *)
(* up, K the distance in doublings of the price.                            *)
LEMMA RoundingsAddUp ==
    ASSUME NEW B \in Nat \ {0}, NEW Q \in Nat \ {0}, NEW p \in Nat \ {0}, NEW d \in Nat \ {0},
           NEW q \in Nat, NEW N \in Int, NEW C \in Int, NEW K \in Int,
           NEW h \in Int, NEW s \in Int, NEW r \in Int, h + s <= r,
           NEW F \in Int, NEW S \in Int, NEW D \in Int, NEW P \in Int, N >= 0,
           (2 * B) * F <= 2 * (N * h) + B, (2 * B) * S <= 2 * (N * s) + B,
           (2 * Q) * D <= 2 * (d * q) + Q,
           2 * (N * (C + r)) + B < (2 * B) * P + 2 * B,
           2 * (p * q) + Q < (2 * Q) * N + 2 * Q,
           d * B <= p * C, d <= (2 * p) * K
    PROVE  F + S + D <= P + 1 + K
<1>1. (2 * B) * (F + S) <= 2 * (N * r) + 2 * B
  <2>1. N * (h + s) <= N * r
    OBVIOUS
  <2>2. N * (h + s) = N * h + N * s /\ (2 * B) * (F + S) = (2 * B) * F + (2 * B) * S
    OBVIOUS
  <2> QED BY <2>1, <2>2
<1>2. 2 * (p * D) < 2 * (d * N) + d + p
  <2>1. p * ((2 * Q) * D) <= p * (2 * (d * q) + Q)
    OBVIOUS
  <2>2. d * (2 * (p * q) + Q) < d * ((2 * Q) * N + 2 * Q)
    OBVIOUS
  <2>3. p * ((2 * Q) * D) < Q * (2 * (d * N) + d + p)
    <3>1. p * (2 * (d * q) + Q) = d * (2 * (p * q)) + p * Q
      OBVIOUS
    <3>2. d * (2 * (p * q) + Q) = d * (2 * (p * q)) + d * Q
          /\ d * ((2 * Q) * N + 2 * Q) = Q * (2 * (d * N)) + 2 * (d * Q)
      OBVIOUS
    <3>3. Q * (2 * (d * N) + d + p) = Q * (2 * (d * N)) + d * Q + p * Q
      OBVIOUS
    <3> QED BY <2>1, <2>2, <3>1, <3>2, <3>3
  <2>4. p * ((2 * Q) * D) = Q * (2 * (p * D))
    OBVIOUS
  <2>5. Q * (2 * (p * D)) < Q * (2 * (d * N) + d + p)
    BY <2>3, <2>4
  <2> QED BY <2>5
<1>3. (2 * B) * D < 2 * (N * C) + (2 * B) * K + B
  <2>1. B * (2 * (p * D)) < B * (2 * (d * N) + d + p)
    BY <1>2
  <2>2. N * (d * B) <= N * (p * C)
    OBVIOUS
  <2>3. B * d <= B * ((2 * p) * K)
    OBVIOUS
  <2>4. p * ((2 * B) * D) < p * (2 * (N * C) + (2 * B) * K + B)
    <3>1. B * (2 * (d * N) + d + p) = 2 * (N * (d * B)) + B * d + p * B
      OBVIOUS
    <3>2. p * (2 * (N * C) + (2 * B) * K + B) = 2 * (N * (p * C)) + B * ((2 * p) * K) + p * B
      OBVIOUS
    <3>3. p * ((2 * B) * D) = B * (2 * (p * D))
      OBVIOUS
    <3> QED BY <2>1, <2>2, <2>3, <3>1, <3>2, <3>3
  <2> QED BY <2>4
<1>4. (2 * B) * (F + S + D) < (2 * B) * (P + 2 + K)
  <2>1. N * (C + r) = N * C + N * r
    OBVIOUS
  <2>2. (2 * B) * (F + S + D) = (2 * B) * (F + S) + (2 * B) * D
        /\ (2 * B) * (P + 2 + K) = (2 * B) * P + 4 * B + (2 * B) * K
    OBVIOUS
  <2> QED BY <1>1, <1>3, <2>1, <2>2
<1>5. F + S + D < P + 2 + K
  BY <1>4
<1> QED BY <1>5

(* applyBps is within half of the share.                                    *)
LEMMA ApplyBpsBounds ==
    ASSUME NEW v \in Int, NEW b \in Int
    PROVE  /\ ApplyBps(v, b) \in Int
           /\ (2 * Bps) * ApplyBps(v, b) <= 2 * (v * b) + Bps
           /\ 2 * (v * b) + Bps < (2 * Bps) * ApplyBps(v, b) + 2 * Bps
<1>1. v * b \in Int /\ Bps \in Nat \ {0}
  BY ScalesAssumption
<1> QED BY <1>1, RoundDivBounds DEF ApplyBps

(* So is an amount of a quantity at a price, and it is not negative.        *)
LEMMA AmountBounds ==
    ASSUME NEW v \in Nat, NEW b \in Nat
    PROVE  LET r == RoundDiv(v * b, QuantityScale)
           IN  /\ r \in Int /\ r >= 0
               /\ (2 * QuantityScale) * r <= 2 * (v * b) + QuantityScale
               /\ 2 * (v * b) + QuantityScale < (2 * QuantityScale) * r + 2 * QuantityScale
<1> DEFINE r == RoundDiv(v * b, QuantityScale)
<1>1. v * b \in Int /\ v * b >= 0 /\ QuantityScale \in Nat \ {0}
  BY ScalesAssumption
<1>2. /\ r \in Int
      /\ (2 * QuantityScale) * r <= 2 * (v * b) + QuantityScale
      /\ 2 * (v * b) + QuantityScale < (2 * QuantityScale) * r + 2 * QuantityScale
  BY <1>1, RoundDivBounds
<1>3. r >= 0
  <2> HIDE DEF r
  <2>1. QuantityScale * (2 * r + 1) > 0
    BY <1>1, <1>2
  <2> QED BY <1>1, <1>2, <2>1
<1> QED BY <1>2, <1>3

(* What an entry is measured to lose, against what was planned.             *)
LEMMA MeasuredAsPlanned ==
    ASSUME NEW price \in Nat \ {0}, NEW d \in Nat \ {0}, NEW qty \in Nat,
           NEW half \in Int, NEW stressed \in Int, NEW roundTrip \in Int,
           half + stressed <= roundTrip
    PROVE  LET N == Notional(price, qty)
               F == ApplyBps(N, half)
               S == ApplyBps(N, stressed)
               D == RoundDiv(d * qty, QuantityScale)
               P == ApplyBps(N, CeilDiv(d * Bps, price) + roundTrip)
               K == CeilDiv(d, 2 * price)
           IN  /\ N \in Int /\ F \in Int /\ S \in Int /\ D \in Int /\ P \in Int /\ K \in Int
               /\ F + S + D <= P + 1 + K
<1> DEFINE N == Notional(price, qty)
           C == CeilDiv(d * Bps, price)
           F == ApplyBps(N, half)
           S == ApplyBps(N, stressed)
           D == RoundDiv(d * qty, QuantityScale)
           P == ApplyBps(N, C + roundTrip)
           K == CeilDiv(d, 2 * price)
<1>1. Bps \in Nat \ {0} /\ QuantityScale \in Nat \ {0}
  BY ScalesAssumption
<1>2. /\ N \in Int /\ N >= 0
      /\ 2 * (price * qty) + QuantityScale < (2 * QuantityScale) * N + 2 * QuantityScale
  BY AmountBounds DEF Notional
<1>3. D \in Int /\ (2 * QuantityScale) * D <= 2 * (d * qty) + QuantityScale
  BY AmountBounds
<1>4. C \in Int /\ d * Bps <= price * C
  <2>1. d * Bps \in Int
    BY <1>1
  <2> QED BY <2>1, CeilDivBounds
<1>5. K \in Int /\ d <= (2 * price) * K
  <2>1. 2 * price \in Nat \ {0}
    OBVIOUS
  <2> QED BY <2>1, CeilDivBounds
<1> HIDE DEF N, C, D, K
<1>6. F \in Int /\ (2 * Bps) * F <= 2 * (N * half) + Bps
  BY <1>2, ApplyBpsBounds
<1>7. S \in Int /\ (2 * Bps) * S <= 2 * (N * stressed) + Bps
  BY <1>2, ApplyBpsBounds
<1>8. P \in Int /\ 2 * (N * (C + roundTrip)) + Bps < (2 * Bps) * P + 2 * Bps
  <2>1. C + roundTrip \in Int
    BY <1>4
  <2> QED BY <1>2, <2>1, ApplyBpsBounds
<1> HIDE DEF F, S, P
<1>9. F + S + D <= P + 1 + K
  BY <1>1, <1>2, <1>3, <1>4, <1>5, <1>6, <1>7, <1>8, RoundingsAddUp
<1> QED BY <1>2, <1>3, <1>5, <1>6, <1>7, <1>8, <1>9 DEF N, C, F, S, D, P, K

(* The next snapshot measures no more than the entry planned, but for the   *)
(* roundings.                                                               *)
LEMMA EntryLosesAsPlanned ==
    ASSUME EngineInv, Enter, PlansTheExit
    PROVE  Risk.protectedEquity
               - Snapshot(today, daily', account', positions', policy).protectedEquity
             <= Sizing(current).plannedLoss + Roundings(account.mark, current.stop)
<1> DEFINE o == Opened(current)
           p == account.mark
           d == Distance(p, current.stop)
           q == o.qty
           N == Notional(p, q)
           C == CeilDiv(d * Bps, p)
           K == CeilDiv(d, 2 * p)
           F == ApplyBps(N, HalfCostBps(policy))
           S == ApplyBps(N, policy.stressedBps)
           D == RoundDiv(d * q, QuantityScale)
           P == ApplyBps(N, C + policy.roundTripBps)
<1>1. /\ p \in Nat \ {0} /\ current.stop \in Int /\ current \in Intents
      /\ account.balance \in Int /\ policy \in Policies
      /\ current.riskBps \in Int /\ current.leverage \in Int
  BY CurrentIntent, OpenPosition, EngineAssumption
     DEF Enter, EngineInv, Books, TypeOK, SettingsOK, BookOK, IntentBodies
<1>2. /\ policy.stressedBps \in Int /\ policy.roundTripBps \in Int
      /\ HalfCostBps(policy) \in Int
  BY <1>1, CeilDivInt DEF Policies, HalfCostBps
<1>3. Sizing(current).qty > 0 /\ Sizing(current).positive
  BY DEF Enter, EntryAdmitted, SizingAdmitted
<1>4. q \in Nat \ {0} /\ q = Sizing(current).qty
  <2>1. Sizing(current).qty \in Int
    BY <1>1, <1>3, RiskPot, SizingInt DEF Sizing, EngineInv, Books
  <2> QED BY <1>3, <2>1 DEF Opened
<1>5. Sizing(current).plannedLoss = P /\ Sizing(current).notional = N
  BY <1>4 DEF Sizing, EntrySizing, LossBps
<1>6. o.fee = F /\ o.entry = p /\ o.stop = current.stop /\ o.side = EntrySide(current)
  BY <1>5 DEF Opened
<1>7. StopSideValid(EntrySide(current), p, current.stop)
  BY DEF Enter, EntryAdmitted
<1>8. d \in Nat \ {0}
  BY <1>1, <1>7 DEF Distance, StopSideValid
<1>9. positions = {} /\ positions' = {o}
      /\ account'.mark = p /\ account'.balance = account.balance - F
  BY <1>6 DEF Enter, EntryAdmitted, EntryGate, EngineInv, Books, TypeOK, BookOK
<1> HIDE DEF o, q
<1>10. /\ F \in Int /\ S \in Int /\ D \in Int /\ P \in Int /\ K \in Int
       /\ F + S + D <= P + 1 + K
  <2> HIDE DEF p, d
  <2>1. q \in Nat /\ HalfCostBps(policy) + policy.stressedBps <= policy.roundTripBps
    BY <1>4 DEF PlansTheExit
  <2> QED BY <1>1, <1>2, <1>8, <2>1, MeasuredAsPlanned
<1>11. Risk.protectedEquity = account.balance
  BY <1>1, <1>9 DEF Risk, Snapshot, Equity, OpenRisk
<1>12. Snapshot(today, daily', account', positions', policy).protectedEquity
         = account.balance - F - (D + S)
  <2>1. Held(positions') = o
    BY <1>9 DEF Held
  <2>2. Pnl(o.side, o.entry, p, q) = 0
    <3>1. (IF o.side = "LONG" THEN p - o.entry ELSE o.entry - p) * q = 0 * QuantityScale
      BY <1>1, <1>4, <1>6, ScalesAssumption
    <3> QED BY <3>1, RoundDivExact, ScalesAssumption DEF Pnl
  <2>3. Larger(0, IF o.side = "LONG" THEN p - o.stop ELSE o.stop - p) = d
    BY <1>1, <1>6, <1>7 DEF Larger, Distance, StopSideValid
  <2>4. Equity(account', positions') = account.balance - F + 0
    BY <1>9, <2>1, <2>2 DEF Equity, q
  <2>5. OpenRisk(account', positions', policy) = D + S
    BY <1>9, <2>1, <2>3 DEF OpenRisk, q
  <2> QED BY <1>1, <1>10, <2>4, <2>5 DEF Snapshot
<1>13. Roundings(p, current.stop) = 1 + K
  BY DEF Roundings
<1> HIDE DEF F, S, D, P, K, p
<1> QED BY <1>1, <1>5, <1>10, <1>11, <1>12, <1>13 DEF p

(* Where the estimate covers fee and stressed exit, an admitted entry puts  *)
(* no more at risk than it planned to, but for the roundings; with any      *)
(* scales, prices and policy.                                               *)
THEOREM PlannedLossesHold == Spec => PlannedLossHolds
<1> DEFINE Measured == Enter /\ PlansTheExit =>
             Risk.protectedEquity
                 - Snapshot(today, daily', account', positions', policy).protectedEquity
               <= Sizing(current).plannedLoss + Roundings(account.mark, current.stop)
<1>1. EngineInv /\ [Next]_vars => [Measured]_vars
  BY EntryLosesAsPlanned
<1> QED BY <1>1, EngineInvariant, PTL DEF Spec, PlannedLossHolds

=============================================================================
