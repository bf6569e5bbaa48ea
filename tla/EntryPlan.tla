------------------------------ MODULE EntryPlan ------------------------------
(***************************************************************************)
(* Sizing and admission of a protected entry (entry-plan.ts): what a ready *)
(* context, the daily state and the operator's policy allow for a stop and *)
(* a target the model proposes.  Wallet and budgets are rounded down,      *)
(* notional, margin, costs and loss up.                                    *)
(*                                                                         *)
(* Decimals of the venue arrive as integers: parsing refuses what is not   *)
(* cent-exact, and values beyond the safe integers.  A request for another *)
(* leverage than the account's is refused and left out.                    *)
(***************************************************************************)
EXTENDS RiskEngine

CONSTANTS Policy,       \* RiskPolicy
          Contract,     \* the venue's tick, quantity step and minimums
          RateScale     \* 100 000 000: units of a commission rate of one

ASSUME EntryPlanAssumption ==
    /\ Policy \in Policies /\ ValidPolicy(Policy)
    /\ Contract \in [tick : Nat \ {0}, step : Nat \ {0}, minQty : Nat \ {0},
                     minNotional : Nat \ {0}]
    /\ RateScale \in Nat \ {0}

(* What a context says of the account and the top of the book. *)
Accounts ==
    [equity : Nat \ {0}, available : Nat \ {0}, taker : Nat, leverage : Nat \ {0},
     bid : Nat \ {0}, ask : Nat \ {0}]

(* What is asked for: a direction with its stop and target, and the share  *)
(* of the pot to risk.                                                     *)
Geometries ==
    [side : Sides, stop : Nat \ {0}, target : Nat \ {0}, riskBps : Nat \ {0}]

DailyFacts == [start : Nat \ {0}, high : Nat, floor : Nat]

FloorBps(value, bps) == (value * bps) \div Bps

EntryPrice(account, side) == IF side = "LONG" THEN account.ask ELSE account.bid

(* The least quantity step that suits both the policy and the venue. *)
CommonMultiples == {n \in 1 .. Policy.step * Contract.step : n % Policy.step = 0 /\ n % Contract.step = 0}

CommonStep == CHOOSE n \in CommonMultiples : \A m \in CommonMultiples : n <= m

(* The worse of what the policy estimates and what the venue charges for a *)
(* round trip, and the stressed exit.                                      *)
CostBps(account) ==
    Larger(Policy.roundTripBps, CeilDiv(account.taker * 2 * Bps, RateScale))
    + Policy.stressedBps

(* Mutant: the distance to the stop is rounded down. *)
StopDistanceFloored(price, stop) == (Distance(price, stop) * Bps) \div price

StopDistanceBps(price, stop) == CeilDiv(Distance(price, stop) * Bps, price)

EntryBoundary(daily) == daily.start - FloorBps(UsablePot(daily.start, Policy), Policy.dailyLossBps)

EntryFloor(account, daily) ==
    ActiveFloor(daily, account.equity,
                daily.start + FloorBps(UsablePot(daily.start, Policy), Policy.lockBps))

RiskBudget(account, g) == FloorBps(UsablePot(account.equity, Policy), g.riskBps)

MarginBudget(account) == Smaller(UsablePot(account.equity, Policy), account.available)

(* The largest step-aligned quantity that risk and margin allow, and what  *)
(* it costs.                                                               *)
Sized(account, g) ==
    LET price == EntryPrice(account, g.side)
        lossBps == StopDistanceBps(price, g.stop) + CostBps(account)
        byRisk == (RiskBudget(account, g) * Bps) \div lossBps
        byMargin == MarginBudget(account) * account.leverage
        raw == (Smaller(byRisk, byMargin) * QuantityScale) \div price
        qty == RoundDownToStep(raw, CommonStep)
        notional == CeilDiv(price * qty, QuantityScale)
    IN  [qty |-> qty, notional |-> notional,
         margin |-> CeilDiv(notional, account.leverage),
         loss |-> CeilDiv(notional * lossBps, Bps)]

GeometryValid(account, g) ==
    LET price == EntryPrice(account, g.side)
    IN  /\ StopSideValid(g.side, price, g.stop) /\ TargetSideValid(g.side, price, g.target)
        /\ g.stop % Contract.tick = 0 /\ g.target % Contract.tick = 0
        /\ account.leverage <= Policy.maxLeverage
        /\ g.riskBps <= Policy.tradeRiskBps

(* The boundary and the floor hold before the entry. *)
DayAdmits(account, daily) ==
    /\ account.equity <= daily.high /\ daily.start <= daily.high
    /\ account.equity > EntryBoundary(daily)
    /\ account.equity >= EntryFloor(account, daily)

LossAdmitted(account, daily, g, loss) ==
    /\ loss <= RiskBudget(account, g)
    /\ loss <= FloorBps(UsablePot(account.equity, Policy), Policy.openRiskBps)
    /\ account.equity - loss > EntryBoundary(daily)
    /\ account.equity - loss >= EntryFloor(account, daily)

EntryAdmitted(account, daily, g) ==
    LET sized == Sized(account, g)
    IN  /\ GeometryValid(account, g)
        /\ DayAdmits(account, daily)
        /\ sized.qty >= Contract.minQty
        /\ sized.notional >= Larger(Policy.minNotional, Contract.minNotional)
        /\ sized.margin <= MarginBudget(account)
        /\ LossAdmitted(account, daily, g, sized.loss)

=============================================================================
