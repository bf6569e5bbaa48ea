---------------------------- MODULE ManagementPlan ----------------------------
(***************************************************************************)
(* Admission of a protection revision (management-plan.ts): new prices for *)
(* the stop and the target of an owned position, and with it, if asked     *)
(* for, a reduction at the top of the book.  The plan compares what the    *)
(* account is worth once the position has left at its stop, before and     *)
(* after.  Wallet and results are rounded down, notional and costs up.     *)
(***************************************************************************)
EXTENDS EntryPlan

(* What the account and the market say of the owned position: its entry    *)
(* price and present stop, the wallet without and the equity with the      *)
(* unrealized result, the mark and the top of the book.                    *)
Holdings ==
    [side : Sides, entry : Nat \ {0}, stop : Nat \ {0}, wallet : Nat \ {0}, equity : Int,
     taker : Nat, leverage : Nat \ {0}, mark : Nat \ {0}, bid : Nat \ {0}, ask : Nat \ {0}]

(* The prices asked for. *)
Protections == [stop : Nat \ {0}, target : Nat \ {0}]

(* A share of the position, rounded down to a step of policy and venue. *)
ReductionOf(qty, bps) ==
    RoundDownToStep((qty * bps) \div Bps, CommonStep)

Gain(side, from, to) == IF side = "LONG" THEN to - from ELSE from - to

(* pnlCents: the quotient of a negative number is rounded down as well. *)
ResultOf(holding, exit, qty) ==
    (Gain(holding.side, holding.entry, exit) * qty) \div QuantityScale

(* costCents of notionalCents *)
ExitCost(holding, exit, qty) ==
    CeilDiv(CeilDiv(exit * qty, QuantityScale) * CostBps(holding), Bps)

(* The wallet after leaving with a quantity at a price. *)
WalletAfter(holding, wallet, exit, qty) ==
    wallet + ResultOf(holding, exit, qty) - ExitCost(holding, exit, qty)

(* A reduction sells at the bid and buys at the ask. *)
ExecutablePrice(holding) == IF holding.side = "LONG" THEN holding.bid ELSE holding.ask

CurrentProtected(holding, qty) == WalletAfter(holding, holding.wallet, holding.stop, qty)

(* What the plan projects for the reduction and the next stop. *)
Projection(holding, qty, reduction, next) ==
    LET remaining == qty - reduction
        wallet == WalletAfter(holding, holding.wallet, ExecutablePrice(holding), reduction)
    IN  [equity |-> wallet + ResultOf(holding, holding.mark, remaining),
         protected |-> WalletAfter(holding, wallet, next.stop, remaining)]

(* The floor a protected equity of either side of the revision has earned. *)
RevisionFloor(daily, current, projected) ==
    ActiveFloor(daily, Larger(current, projected),
                daily.start + FloorBps(UsablePot(daily.start, Policy), Policy.lockBps))

MaximumOpenRisk(equity) ==
    FloorBps(Larger(0, UsablePot(equity, Policy)), Policy.openRiskBps)

(* Mutant: the next protection is not compared with the present one. *)
LimitsOnlyAdmitted(holding, qty, reduction, next, daily) ==
    LET current == CurrentProtected(holding, qty)
        projected == Projection(holding, qty, reduction, next)
    IN  /\ projected.equity > 0
        /\ projected.protected > EntryBoundary(daily)
        /\ projected.protected >= RevisionFloor(daily, current, projected.protected)
        /\ Larger(0, projected.equity - projected.protected) <= MaximumOpenRisk(projected.equity)

(* The next protection is worth no less than the present one, and keeps    *)
(* boundary, floor and open risk.                                          *)
ProtectionAdmitted(holding, qty, reduction, next, daily) ==
    LET current == CurrentProtected(holding, qty)
        projected == Projection(holding, qty, reduction, next)
    IN  /\ projected.equity > 0
        /\ projected.protected >= current
        /\ projected.protected > EntryBoundary(daily)
        /\ projected.protected >= RevisionFloor(daily, current, projected.protected)
        /\ Larger(0, projected.equity - projected.protected) <= MaximumOpenRisk(projected.equity)

NextPricesValid(holding, next) ==
    /\ next.stop % Contract.tick = 0 /\ next.target % Contract.tick = 0
    /\ StopSideValid(holding.side, holding.mark, next.stop)
    /\ TargetSideValid(holding.side, holding.mark, next.target)

RemainderTradable(holding, remaining) ==
    /\ remaining >= Contract.minQty
    /\ CeilDiv(holding.mark * remaining, QuantityScale)
          >= Larger(Policy.minNotional, Contract.minNotional)

RevisionAdmitted(holding, qty, bps, next, daily) ==
    LET reduction == ReductionOf(qty, bps)
    IN  /\ qty % CommonStep = 0
        /\ bps # 0 => reduction > 0
        /\ RemainderTradable(holding, qty - reduction)
        /\ NextPricesValid(holding, next)
        /\ holding.bid < holding.ask
        /\ holding.leverage <= Policy.maxLeverage
        /\ holding.equity > 0
        /\ holding.equity <= daily.high /\ daily.start <= daily.high /\ daily.floor <= daily.high
        /\ ProtectionAdmitted(holding, qty, reduction, next, daily)

=============================================================================
