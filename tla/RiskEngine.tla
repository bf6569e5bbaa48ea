----------------------------- MODULE RiskEngine -----------------------------
(***************************************************************************)
(* The deterministic risk engine of the paper gateway                      *)
(* (src/core/risk-engine.ts) and the policy it reads                       *)
(* (src/domain/policy.ts), as operators over an account record             *)
(* [balance, mark], the set of open positions, the daily row and the       *)
(* policy.  The sums of the code over all positions are taken over the one *)
(* position the engine admits (PaperEngine!OnePosition).                   *)
(***************************************************************************)
EXTENDS Money

NoLimit == 0      \* usableBalanceLimitCents = null; a real limit is positive
NoFloor == 0      \* activeFloorCents = null: the code maps 0 to null as well
Unset == -1       \* an optional intent field that is absent

Policies ==
    [lockBps : Int, limit : Int, maxLeverage : Int, tradeRiskBps : Int,
     openRiskBps : Int, dailyLossBps : Int, roundTripBps : Int,
     stressedBps : Int, step : Nat \ {0}, minNotional : Int]

(* validatePolicy; its bounds are fractions of the basis-point scale. *)
ValidPolicy(p) ==
    /\ p.lockBps \in 1 .. (Bps \div 10)
    /\ p.limit = NoLimit \/ p.limit >= 1000
    /\ p.maxLeverage \in 1 .. 10
    /\ p.tradeRiskBps \in 1 .. (Bps \div 20)
    /\ p.openRiskBps \in p.tradeRiskBps .. (Bps \div 10)
    /\ p.dailyLossBps \in p.openRiskBps .. (Bps \div 5)
    /\ p.roundTripBps \in 0 .. (Bps \div 20)
    /\ p.stressedBps \in 0 .. (Bps \div 20)
    /\ p.step \in 1 .. QuantityScale
    /\ p.minNotional >= 1

(* Half of the round-trip cost, charged on entry and again on exit. *)
HalfCostBps(policy) == CeilDiv(policy.roundTripBps, 2)

Held(positions) == CHOOSE p \in positions : TRUE

Equity(account, positions) ==
    account.balance +
    IF positions = {} THEN 0
    ELSE LET p == Held(positions)
         IN  Pnl(p.side, p.entry, account.mark, p.qty)

(* What the open position can still lose from the mark to its stop, plus a *)
(* stressed exit.                                                          *)
OpenRisk(account, positions, policy) ==
    IF positions = {} THEN 0
    ELSE LET p == Held(positions)
             distance == Larger(0, IF p.side = "LONG"
                                   THEN account.mark - p.stop
                                   ELSE p.stop - account.mark)
         IN  RoundDiv(distance * p.qty, QuantityScale)
             + ApplyBps(Notional(account.mark, p.qty), policy.stressedBps)

UsablePot(equity, policy) ==
    IF policy.limit = NoLimit THEN equity ELSE Smaller(equity, policy.limit)

(* The daily row a snapshot works on: today's, or a new one anchored at the *)
(* current equity.                                                          *)
DailyRow(daily, today, equity) ==
    IF daily.day = today THEN daily
    ELSE [day |-> today, start |-> equity, high |-> equity, floor |-> NoFloor]

(* Mutant: the floor follows a lowered target down. *)
ActiveFloorFollows(row, protectedEquity, target) ==
    IF protectedEquity >= target THEN target ELSE row.floor

(* The protected-profit floor: it is earned when the worst case of the open *)
(* position still reaches the daily target, and is never lowered.           *)
ActiveFloor(row, protectedEquity, target) ==
    Larger(row.floor, IF protectedEquity >= target THEN target ELSE 0)

LossBoundary(row, policy) ==
    row.start - ApplyBps(UsablePot(row.start, policy), policy.dailyLossBps)

(* RiskEngine.snapshot: the row it upserts and the facts it returns. *)
Snapshot(today, daily, account, positions, policy) ==
    LET equity == Equity(account, positions)
        openRisk == OpenRisk(account, positions, policy)
        protectedEquity == equity - openRisk
        row == DailyRow(daily, today, equity)
        pot == UsablePot(equity, policy)
        target == row.start + ApplyBps(UsablePot(row.start, policy), policy.lockBps)
        floor == ActiveFloor(row, protectedEquity, target)
        boundary == LossBoundary(row, policy)
    IN  [daily |-> [day |-> row.day, start |-> row.start,
                     high |-> Larger(row.high, equity), floor |-> floor],
         pot |-> pot,
         openRisk |-> openRisk,
         protectedEquity |-> protectedEquity,
         boundary |-> boundary,
         lossReached |-> protectedEquity <= boundary,
         riskExceeded |-> openRisk > ApplyBps(pot, policy.openRiskBps),
         floorUnprotected |-> floor # NoFloor /\ protectedEquity < floor,
         potTooSmall |-> pot < policy.minNotional]

(* The three restrictions an amended stop must not cause. *)
ExposureRestricted(snap) ==
    snap.lossReached \/ snap.riskExceeded \/ snap.floorUnprotected

NewExposureAllowed(snap) == ~ExposureRestricted(snap) /\ ~snap.potTooSmall

(* Mutant: a stop at the market is accepted. *)
StopSideAtMarket(side, price, stop) ==
    IF side = "LONG" THEN stop <= price ELSE stop >= price

(* validateStopSide, validateTargetSide *)
StopSideValid(side, price, stop) ==
    IF side = "LONG" THEN stop < price ELSE stop > price

TargetSideValid(side, price, target) ==
    IF side = "LONG" THEN target > price ELSE target < price

Distance(a, b) == IF a >= b THEN a - b ELSE b - a

(* Mutant: the costs are not part of the loss. *)
StopLossBps(price, stop, policy) == CeilDiv(Distance(price, stop) * Bps, price)

(* The loss at the stop, with the costs of getting in and out. *)
LossBps(price, stop, policy) ==
    CeilDiv(Distance(price, stop) * Bps, price) + policy.roundTripBps

(* calculateEntrySizing: the loss distance, the quantity the risk budget   *)
(* and the margin allow (no other position uses margin), and its planned   *)
(* loss.                                                                   *)
EntrySizing(snap, policy, price, stop, riskBps, leverage) ==
    LET lossBps == LossBps(price, stop, policy)
        risk == Smaller(IF riskBps = Unset THEN policy.tradeRiskBps ELSE riskBps,
                        policy.tradeRiskBps)
        lever == Smaller(IF leverage = Unset THEN policy.maxLeverage ELSE leverage,
                         policy.maxLeverage)
        byRisk == (ApplyBps(snap.pot, risk) * Bps) \div lossBps
        byMargin == Larger(0, snap.pot) * lever
        raw == (Smaller(byRisk, byMargin) * QuantityScale) \div price
        qty == RoundDownToStep(raw, policy.step)
    IN  [qty |-> qty,
         notional |-> Notional(price, qty),
         plannedLoss |-> ApplyBps(Notional(price, qty), lossBps),
         positive |-> lossBps > 0 /\ risk > 0 /\ lever >= 1]

SizingAdmitted(snap, policy, sizing) ==
    /\ sizing.positive
    /\ sizing.qty > 0
    /\ sizing.notional >= policy.minNotional
    /\ snap.openRisk + sizing.plannedLoss <= ApplyBps(snap.pot, policy.openRiskBps)
    /\ snap.protectedEquity - sizing.plannedLoss > snap.boundary
    /\ snap.daily.floor = NoFloor
       \/ snap.protectedEquity - sizing.plannedLoss >= snap.daily.floor

=============================================================================
