----------------------- MODULE TestnetAdmissionProofs -----------------------
(***************************************************************************)
(* What admission guarantees for every policy, contract, age limit and     *)
(* number of intents: facts are fresh when an effect is invoked, management *)
(* acts on the record it was planned for, and the sizing of an entry never *)
(* understates its loss.                                                   *)
(***************************************************************************)
EXTENDS TestnetAdmission, WellFoundedInduction, TLAPS

-----------------------------------------------------------------------------
(* Arithmetic of the sizing. *)

(* A quotient rounded up covers the quotient. *)
LEMMA CeilDivCovers ==
    ASSUME NEW n \in Nat, NEW d \in Nat \ {0}
    PROVE  CeilDiv(n, d) \in Nat /\ n <= CeilDiv(n, d) * d
<1>1. n + d - 1 \in Nat
  OBVIOUS
<1>2. n + d - 1 = (d * ((n + d - 1) \div d)) + ((n + d - 1) % d)
      /\ (n + d - 1) % d \in 0 .. d - 1 /\ (n + d - 1) \div d \in Nat
  BY <1>1
<1>3. QED
  BY <1>2 DEF CeilDiv

(* Floor division stays within the naturals.                                *)
LEMMA QuotientNat ==
    ASSUME NEW n \in Nat, NEW d \in Nat \ {0}
    PROVE  n \div d \in Nat
  OBVIOUS

(* Multiplication keeps an order.                                           *)
LEMMA ProductMonotone ==
    ASSUME NEW a \in Nat, NEW b \in Nat, NEW c \in Nat, a <= b
    PROVE  a * c <= b * c
  OBVIOUS

(* Products stay within the naturals.                                       *)
LEMMA ProductNat ==
    ASSUME NEW a \in Nat, NEW b \in Nat
    PROVE  a * b \in Nat
  OBVIOUS

(* The common step exists: the product of both steps is a common multiple. *)
LEMMA StepPositive == CommonStep \in Nat \ {0}
<1>1. Policy.step \in Nat \ {0} /\ Contract.step \in Nat \ {0}
  BY EntryPlanAssumption DEF Policies
<1>2. Policy.step * Contract.step \in CommonMultiples
  <2> DEFINE a == Policy.step
             b == Contract.step
  <2>1. a \in Nat \ {0} /\ b \in Nat \ {0}
    BY <1>1
  <2> HIDE DEF a, b
  <2>2. a * b \in 1 .. a * b
    BY <2>1
  <2>3. (a * b) % a = 0 /\ (a * b) % b = 0
    BY <2>1
  <2>4. QED
    BY <2>2, <2>3 DEF CommonMultiples, a, b
<1>3. CommonMultiples \subseteq Nat \ {0}
  BY <1>1 DEF CommonMultiples
<1>4. \E n \in CommonMultiples : \A m \in CommonMultiples : n <= m
  <2>1. CommonMultiples \subseteq Nat /\ CommonMultiples # {}
    BY <1>2, <1>3
  <2>2. PICK n \in CommonMultiples :
           \A m \in CommonMultiples : ~(<<m, n>> \in OpToRel(<, Nat))
    BY <2>1, NatLessThanWellFounded, WFMin
  <2>3. \A m \in CommonMultiples : ~(m < n)
    BY <2>1, <2>2 DEF OpToRel
  <2>4. QED
    BY <2>1, <2>3
<1>5. QED
  BY <1>3, <1>4 DEF CommonStep

(* The costs in basis points are a number.                                  *)
LEMMA CostNat ==
    ASSUME NEW account \in Accounts
    PROVE  CostBps(account) \in Nat
<1>1. Bps \in Nat \ {0} /\ RateScale \in Nat \ {0} /\ account.taker \in Nat
      /\ Policy.roundTripBps \in Nat /\ Policy.stressedBps \in Nat
  BY ScalesAssumption, EntryPlanAssumption DEF Accounts, ValidPolicy, Policies
<1>2. account.taker * 2 * Bps \in Nat
  BY <1>1, ProductNat
<1>3. CeilDiv(account.taker * 2 * Bps, RateScale) \in Nat
  BY <1>1, <1>2, CeilDivCovers
<1>4. QED
  BY <1>1, <1>3 DEF CostBps, Larger

(* The usable pot is a number.                                              *)
LEMMA PotNat ==
    ASSUME NEW equity \in Nat
    PROVE  UsablePot(equity, Policy) \in Nat
<1>1. Policy.limit = NoLimit \/ Policy.limit \in Nat
  BY EntryPlanAssumption DEF ValidPolicy, Policies, NoLimit
<1>2. QED
  BY <1>1 DEF UsablePot, Smaller

(* What sizing returns: numbers, the stop at a distance, and each amount    *)
(* covering what it rounds up.                                              *)
LEMMA SizedCovers ==
    ASSUME NEW account \in Accounts, NEW g \in Geometries, GeometryValid(account, g)
    PROVE  LET price == EntryPrice(account, g.side)
               stopBps == StopDistanceBps(price, g.stop)
               sized == Sized(account, g)
           IN  /\ price \in Nat \ {0} /\ Distance(price, g.stop) \in Nat \ {0}
               /\ stopBps \in Nat
               /\ Distance(price, g.stop) * Bps <= stopBps * price
               /\ sized.qty \in Nat /\ sized.notional \in Nat /\ sized.loss \in Nat
               /\ price * sized.qty <= sized.notional * QuantityScale
               /\ sized.notional * (stopBps + CostBps(account)) <= sized.loss * Bps
<1> DEFINE price == EntryPrice(account, g.side)
           away == Distance(price, g.stop)
           stopBps == StopDistanceBps(price, g.stop)
           cost == CostBps(account)
           byRisk == (RiskBudget(account, g) * Bps) \div (stopBps + cost)
           byMargin == MarginBudget(account) * account.leverage
           raw == (Smaller(byRisk, byMargin) * QuantityScale) \div price
           qty == RoundDownToStep(raw, CommonStep)
           notional == CeilDiv(price * qty, QuantityScale)
<1>1. price \in Nat \ {0} /\ away \in Nat \ {0}
  BY DEF EntryPrice, Accounts, Geometries, Sides, GeometryValid, StopSideValid, Distance
<1>2. Bps \in Nat \ {0} /\ QuantityScale \in Nat \ {0} /\ cost \in Nat
  BY ScalesAssumption, CostNat
<1>3. stopBps \in Nat \ {0} /\ away * Bps <= stopBps * price
  <2> HIDE DEF price, away
  <2>1. away * Bps \in Nat \ {0}
    BY <1>1, <1>2
  <2>2. stopBps \in Nat /\ away * Bps <= stopBps * price
    BY <1>1, <2>1, CeilDivCovers DEF StopDistanceBps, away
  <2>3. stopBps # 0
    BY <1>1, <2>1, <2>2
  <2>4. QED
    BY <2>2, <2>3
<1>4. byRisk \in Nat
  <2>1. RiskBudget(account, g) \in Nat
    <3>1. UsablePot(account.equity, Policy) \in Nat /\ g.riskBps \in Nat
      BY PotNat DEF Accounts, Geometries
    <3>2. UsablePot(account.equity, Policy) * g.riskBps \in Nat
      BY <3>1, ProductNat
    <3>3. QED
      BY <1>2, <3>2, QuotientNat DEF RiskBudget, FloorBps
  <2>2. RiskBudget(account, g) * Bps \in Nat
    BY <1>2, <2>1, ProductNat
  <2>3. stopBps + cost \in Nat \ {0}
    BY <1>2, <1>3
  <2>4. QED
    BY <2>2, <2>3, QuotientNat
<1>5. byMargin \in Nat
  <2>1. MarginBudget(account) \in Nat /\ account.leverage \in Nat
    BY PotNat DEF MarginBudget, Smaller, Accounts
  <2>2. QED
    BY <2>1, ProductNat
<1>6. raw \in Nat
  <2>1. Smaller(byRisk, byMargin) \in Nat
    BY <1>4, <1>5 DEF Smaller
  <2>2. Smaller(byRisk, byMargin) * QuantityScale \in Nat
    BY <1>2, <2>1, ProductNat
  <2>3. QED
    BY <1>1, <2>2, QuotientNat
<1>7. qty \in Nat
  <2> HIDE DEF raw
  <2>1. raw \div CommonStep \in Nat
    BY <1>6, StepPositive, QuotientNat
  <2>2. QED
    BY <2>1, StepPositive, ProductNat DEF RoundDownToStep
<1>8. notional \in Nat /\ price * qty <= notional * QuantityScale
  <2> HIDE DEF price, qty
  <2>1. price * qty \in Nat
    BY <1>1, <1>7, ProductNat
  <2>2. QED
    BY <1>2, <2>1, CeilDivCovers
<1>9. CeilDiv(notional * (stopBps + cost), Bps) \in Nat
      /\ notional * (stopBps + cost) <= CeilDiv(notional * (stopBps + cost), Bps) * Bps
  <2> HIDE DEF notional, stopBps, cost
  <2>1. notional * (stopBps + cost) \in Nat
    BY <1>2, <1>3, <1>8, ProductNat
  <2>2. QED
    BY <1>2, <2>1, CeilDivCovers
<1>10. Sized(account, g).qty = qty /\ Sized(account, g).notional = notional
       /\ Sized(account, g).loss = CeilDiv(notional * (stopBps + cost), Bps)
  BY DEF Sized
<1>11. QED
  BY <1>1, <1>3, <1>7, <1>8, <1>9, <1>10

(* The planned loss covers what the entry loses at its stop. *)
LEMMA PlannedLossCovers ==
    ASSUME NEW account \in Accounts, NEW g \in Geometries, GeometryValid(account, g)
    PROVE  LET sized == Sized(account, g)
           IN  /\ StopLossScaled(account, g, sized.qty) \in Nat
               /\ sized.loss \in Nat
               /\ StopLossScaled(account, g, sized.qty) <= QuantityScale * Bps * sized.loss
<1> DEFINE p == EntryPrice(account, g.side)
           a == Distance(p, g.stop)
           d == StopDistanceBps(p, g.stop)
           c == CostBps(account)
           q == Sized(account, g).qty
           n == Sized(account, g).notional
           l == Sized(account, g).loss
           S == QuantityScale
           B == Bps
<1>1. /\ p \in Nat /\ a \in Nat /\ d \in Nat /\ q \in Nat /\ n \in Nat /\ l \in Nat
      /\ a * B <= d * p /\ p * q <= n * S /\ n * (d + c) <= l * B
  BY SizedCovers
<1>2. c \in Nat /\ S \in Nat /\ B \in Nat
  BY CostNat, ScalesAssumption
<1>3. StopLossScaled(account, g, q) = q * (a * B + p * c)
  BY DEF StopLossScaled
<1> HIDE DEF p, a, d, c, q, n, l, S, B
<1>4. a * B \in Nat /\ d * p \in Nat /\ p * q \in Nat /\ n * S \in Nat /\ l * B \in Nat
      /\ p * c \in Nat
  BY <1>1, <1>2, ProductNat
<1>5. (a * B) * q <= (d * p) * q
  BY <1>1, <1>4, ProductMonotone
<1>6. (p * q) * (d + c) <= (n * S) * (d + c)
  BY <1>1, <1>2, <1>4, ProductMonotone
<1>7. (n * (d + c)) * S <= (l * B) * S
  <2>1. n * (d + c) \in Nat
    BY <1>1, <1>2, ProductNat
  <2>2. QED
    BY <1>1, <1>2, <1>4, <2>1, ProductMonotone
<1>8. q * (a * B + p * c) = (a * B) * q + (p * q) * c
  BY <1>1, <1>2
<1>9. (p * q) * (d + c) = (d * p) * q + (p * q) * c
  BY <1>1, <1>2
<1>10. (n * S) * (d + c) = (n * (d + c)) * S
  BY <1>1, <1>2
<1>11. (l * B) * S = S * B * l
  BY <1>1, <1>2
<1>12. /\ (a * B) * q \in Nat /\ (d * p) * q \in Nat /\ (p * q) * c \in Nat
       /\ (p * q) * (d + c) \in Nat /\ (n * S) * (d + c) \in Nat /\ (l * B) * S \in Nat
  BY <1>1, <1>2, <1>4, ProductNat
<1>13. q * (a * B + p * c) \in Nat /\ q * (a * B + p * c) <= S * B * l
  BY <1>5, <1>6, <1>7, <1>8, <1>9, <1>10, <1>11, <1>12
<1>14. QED
  BY <1>1, <1>3, <1>13 DEF q, l, S, B

(* The daily boundary and floor are numbers.                                *)
LEMMA DayInt ==
    ASSUME NEW account \in Accounts, NEW daily \in DailyFacts
    PROVE  EntryBoundary(daily) \in Int /\ EntryFloor(account, daily) \in Int
<1>1. daily.start \in Nat /\ daily.floor \in Nat /\ account.equity \in Nat
      /\ Policy.dailyLossBps \in Nat /\ Policy.lockBps \in Nat /\ Bps \in Nat \ {0}
  BY EntryPlanAssumption, ScalesAssumption DEF DailyFacts, Accounts, Policies, ValidPolicy
<1>2. UsablePot(daily.start, Policy) \in Nat
  BY <1>1, PotNat
<1>3. FloorBps(UsablePot(daily.start, Policy), Policy.dailyLossBps) \in Nat
  BY <1>1, <1>2, ProductNat, QuotientNat DEF FloorBps
<1>4. FloorBps(UsablePot(daily.start, Policy), Policy.lockBps) \in Nat
  BY <1>1, <1>2, ProductNat, QuotientNat DEF FloorBps
<1>5. EntryBoundary(daily) \in Int
  BY <1>1, <1>3 DEF EntryBoundary
<1>6. EntryFloor(account, daily) \in Int
  BY <1>1, <1>4 DEF EntryFloor, ActiveFloor, Larger
<1>7. QED
  BY <1>5, <1>6

(* An admitted entry keeps to the budget, the boundary and the floor with   *)
(* what it really loses at its stop.                                        *)
Budgeted(account, daily, g, qty) ==
    LET loss == StopLossScaled(account, g, qty)
        unit == QuantityScale * Bps
    IN  /\ loss <= unit * RiskBudget(account, g)
        /\ loss < unit * (account.equity - EntryBoundary(daily))
        /\ loss <= unit * (account.equity - EntryFloor(account, daily))

(* An admitted entry is within the budget, the boundary and the floor.      *)
LEMMA AdmittedIsBudgeted ==
    ASSUME NEW account \in Accounts, NEW daily \in DailyFacts, NEW g \in Geometries,
           EntryAdmitted(account, daily, g)
    PROVE  Budgeted(account, daily, g, Sized(account, g).qty)
<1> DEFINE loss == StopLossScaled(account, g, Sized(account, g).qty)
           l == Sized(account, g).loss
           unit == QuantityScale * Bps
           budget == RiskBudget(account, g)
           room == account.equity - EntryBoundary(daily)
           aboveFloor == account.equity - EntryFloor(account, daily)
<1>1. loss \in Nat /\ l \in Nat /\ loss <= unit * l
  BY PlannedLossCovers DEF EntryAdmitted
<1>2. unit \in Nat \ {0}
  BY ScalesAssumption
<1>3. account.equity \in Nat
  BY DEF Accounts
<1>4. room \in Int /\ aboveFloor \in Int
  BY <1>3, DayInt
<1>5. budget \in Nat
  <2>1. UsablePot(account.equity, Policy) \in Nat /\ g.riskBps \in Nat
    BY PotNat DEF Accounts, Geometries
  <2>2. QED
    BY <2>1, ScalesAssumption, ProductNat, QuotientNat DEF RiskBudget, FloorBps
<1>6. l <= budget /\ l < room /\ l <= aboveFloor
  <2>1. LossAdmitted(account, daily, g, l)
    BY DEF EntryAdmitted
  <2>2. QED
    BY <1>1, <1>3, <2>1, DayInt DEF LossAdmitted
<1> HIDE DEF loss, l, unit, budget, room, aboveFloor
<1>7. unit * l <= unit * budget /\ unit * l <= unit * aboveFloor
  BY <1>1, <1>2, <1>4, <1>5, <1>6
<1>8. unit * l < unit * room
  BY <1>1, <1>2, <1>4, <1>6
<1>9. unit * l \in Nat /\ unit * budget \in Int /\ unit * room \in Int
      /\ unit * aboveFloor \in Int
  BY <1>1, <1>2, <1>4, <1>5
<1>10. loss <= unit * budget /\ loss < unit * room /\ loss <= unit * aboveFloor
  BY <1>1, <1>7, <1>8, <1>9
<1>11. QED
  BY <1>10 DEF Budgeted, loss, unit, budget, room, aboveFloor

-----------------------------------------------------------------------------
(* Arithmetic of a revision. *)

(* Rounding down loses less than one.                                       *)
LEMMA FloorBounds ==
    ASSUME NEW n \in Int, NEW d \in Nat \ {0}
    PROVE  n \div d \in Int /\ (n \div d) * d <= n /\ n < (n \div d) * d + d
<1>1. n = (d * (n \div d)) + (n % d) /\ n % d \in 0 .. d - 1 /\ n \div d \in Int
  OBVIOUS
<1>2. QED
  BY <1>1

(* Rounding up adds less than one.                                          *)
LEMMA CeilBounds ==
    ASSUME NEW n \in Nat, NEW d \in Nat \ {0}
    PROVE  CeilDiv(n, d) \in Nat /\ n <= CeilDiv(n, d) * d /\ CeilDiv(n, d) * d < n + d
<1>1. n + d - 1 \in Nat
  OBVIOUS
<1>2. n + d - 1 = (d * ((n + d - 1) \div d)) + ((n + d - 1) % d)
      /\ (n + d - 1) % d \in 0 .. d - 1 /\ (n + d - 1) \div d \in Nat
  BY <1>1
<1>3. QED
  BY <1>2 DEF CeilDiv

(* The costs of a revision in basis points are a number.                    *)
LEMMA HoldingCostNat ==
    ASSUME NEW h \in Holdings PROVE CostBps(h) \in Nat
<1>1. Bps \in Nat \ {0} /\ RateScale \in Nat \ {0} /\ h.taker \in Nat
      /\ Policy.roundTripBps \in Nat /\ Policy.stressedBps \in Nat
  BY ScalesAssumption, EntryPlanAssumption DEF Holdings, ValidPolicy, Policies
<1>2. h.taker * 2 * Bps \in Nat
  BY <1>1, ProductNat
<1>3. CeilDiv(h.taker * 2 * Bps, RateScale) \in Nat
  BY <1>1, <1>2, CeilDivCovers
<1>4. QED
  BY <1>1, <1>3 DEF CostBps, Larger

(* An exit's cost covers the real one and exceeds it by less than a cent    *)
(* and one cent's costs.                                                    *)
LEMMA ExitCostBounds ==
    ASSUME NEW h \in Holdings, NEW exit \in Nat, NEW qty \in Nat
    PROVE  LET cost == ExitCost(h, exit, qty)
               real == exit * qty * CostBps(h)
               unit == QuantityScale * Bps
           IN  /\ cost \in Nat /\ real \in Nat
               /\ real <= unit * cost
               /\ unit * cost < real + QuantityScale * CostBps(h) + unit
<1> DEFINE S == QuantityScale
           B == Bps
           b == CostBps(h)
           x == exit * qty
           n == CeilDiv(x, S)
           c == CeilDiv(n * b, B)
<1>1. S \in Nat \ {0} /\ B \in Nat \ {0} /\ b \in Nat
  BY ScalesAssumption, HoldingCostNat
<1>2. x \in Nat
  BY ProductNat
<1> HIDE DEF x
<1>3. n \in Nat /\ x <= n * S /\ n * S < x + S
  BY <1>1, <1>2, CeilBounds
<1> HIDE DEF b
<1>4. n * b \in Nat
  BY <1>1, <1>3, ProductNat
<1> HIDE DEF n
<1>5. c \in Nat /\ n * b <= c * B /\ c * B < n * b + B
  BY <1>1, <1>4, CeilBounds
<1> HIDE DEF c, S, B
<1>6. x * b <= (n * S) * b /\ (n * S) * b <= (x + S) * b
  BY <1>1, <1>2, <1>3
<1>7. (n * b) * S <= (c * B) * S /\ (c * B) * S < (n * b + B) * S
  BY <1>1, <1>3, <1>4, <1>5
<1>8. (n * S) * b = (n * b) * S /\ (c * B) * S = (S * B) * c
      /\ (n * b + B) * S = (n * b) * S + S * B /\ (x + S) * b = x * b + S * b
  BY <1>1, <1>2, <1>3, <1>5
<1>9. /\ x * b \in Nat /\ (n * S) * b \in Nat /\ (c * B) * S \in Nat /\ S * B \in Nat
      /\ S * b \in Nat
  BY <1>1, <1>2, <1>3, <1>5, ProductNat
<1>10. x * b <= (S * B) * c /\ (S * B) * c < x * b + S * b + S * B
  BY <1>6, <1>7, <1>8, <1>9
<1>11. ExitCost(h, exit, qty) = c
  BY DEF ExitCost, c, n, x, b, S, B
<1>12. QED
  BY <1>1, <1>2, <1>5, <1>9, <1>10, <1>11 DEF x, b, S, B

(* A result is the real one less a part of a cent.                          *)
LEMMA ResultBounds ==
    ASSUME NEW h \in Holdings, NEW exit \in Nat, NEW qty \in Nat
    PROVE  LET result == ResultOf(h, exit, qty)
               real == qty * Gain(h.side, h.entry, exit) * Bps
               unit == QuantityScale * Bps
           IN  /\ result \in Int /\ real \in Int
               /\ unit * result <= real
               /\ real < unit * result + unit
<1> DEFINE S == QuantityScale
           B == Bps
           g == Gain(h.side, h.entry, exit)
           r == (g * qty) \div S
<1>1. S \in Nat \ {0} /\ B \in Nat \ {0} /\ g \in Int
  BY ScalesAssumption DEF Holdings, Gain
<1> HIDE DEF g
<1>2. g * qty \in Int
  BY <1>1
<1>3. r \in Int /\ r * S <= g * qty /\ g * qty < r * S + S
  BY <1>1, <1>2, FloorBounds
<1> HIDE DEF r, S, B
<1>4. (r * S) * B <= (g * qty) * B /\ (g * qty) * B < (r * S + S) * B
  BY <1>1, <1>2, <1>3
<1>5. (r * S) * B = (S * B) * r /\ (g * qty) * B = qty * g * B
      /\ (r * S + S) * B = (S * B) * r + S * B
  BY <1>1, <1>3
<1>6. QED
  BY <1>1, <1>3, <1>4, <1>5 DEF ResultOf, r, g, S, B

(* What is computed to be left is really left, and misses less than the     *)
(* roundings of one exit.                                                   *)
LEMMA LeftBounds ==
    ASSUME NEW h \in Holdings, NEW wallet \in Int, NEW exit \in Nat, NEW qty \in Nat
    PROVE  LET left == WalletAfter(h, wallet, exit, qty)
               unit == QuantityScale * Bps
               real == LeftScaled(h, unit * wallet, exit, qty)
           IN  /\ left \in Int /\ real \in Int
               /\ unit * left <= real
               /\ real < unit * left + 2 * unit + QuantityScale * CostBps(h)
<1> DEFINE unit == QuantityScale * Bps
           slack == QuantityScale * CostBps(h)
           g == Gain(h.side, h.entry, exit)
           b == CostBps(h)
           r == ResultOf(h, exit, qty)
           c == ExitCost(h, exit, qty)
           rr == qty * g * Bps
           cc == exit * qty * b
<1>1. unit \in Nat /\ slack \in Nat /\ Bps \in Nat /\ b \in Nat /\ g \in Int
  BY ScalesAssumption, HoldingCostNat DEF Holdings, Gain
<1>2. r \in Int /\ rr \in Int /\ unit * r <= rr /\ rr < unit * r + unit
  BY ResultBounds
<1>3. c \in Nat /\ cc \in Nat /\ cc <= unit * c /\ unit * c < cc + slack + unit
  BY ExitCostBounds
<1>4. LeftScaled(h, unit * wallet, exit, qty) = unit * wallet + qty * (g * Bps - exit * b)
  BY DEF LeftScaled
<1>5. WalletAfter(h, wallet, exit, qty) = wallet + r - c
  BY DEF WalletAfter
<1> HIDE DEF unit, slack, g, b, r, c
<1>6. qty * (g * Bps - exit * b) = rr - cc
  BY <1>1
<1>7. unit * (wallet + r - c) = unit * wallet + unit * r - unit * c
  BY <1>1, <1>2, <1>3
<1>8. unit * wallet \in Int /\ unit * r \in Int /\ unit * c \in Int
  BY <1>1, <1>2, <1>3
<1> HIDE DEF rr, cc
<1>9. /\ unit * wallet + unit * r - unit * c <= unit * wallet + rr - cc
      /\ unit * wallet + rr - cc < unit * wallet + unit * r - unit * c + 2 * unit + slack
  BY <1>1, <1>2, <1>3, <1>8
<1>10. QED
  BY <1>1, <1>2, <1>3, <1>4, <1>5, <1>6, <1>7, <1>8, <1>9 DEF unit, slack, b

(* An admitted revision keeps the protection, with what really is left.     *)
LEMMA AdmittedKeepsProtection ==
    ASSUME NEW h \in Holdings, NEW qty \in Nat, NEW reduction \in Nat, reduction <= qty,
           NEW next \in Protections, NEW daily \in DailyFacts,
           ProtectionAdmitted(h, qty, reduction, next, daily)
    PROVE  ProtectionKept(h, qty, reduction, next, daily)
<1> DEFINE unit == QuantityScale * Bps
           slack == QuantityScale * CostBps(h)
           rest == qty - reduction
           exec == ExecutablePrice(h)
           w == WalletAfter(h, h.wallet, exec, reduction)
           W == LeftScaled(h, unit * h.wallet, exec, reduction)
           current == CurrentProtected(h, qty)
           before == LeftScaled(h, unit * h.wallet, h.stop, qty)
           p == WalletAfter(h, w, next.stop, rest)
           after == LeftScaled(h, W, next.stop, rest)
           exit == rest * (Gain(h.side, h.entry, next.stop) * Bps - next.stop * CostBps(h))
           m == ResultOf(h, h.mark, rest)
           M == rest * Gain(h.side, h.entry, h.mark) * Bps
           boundary == EntryBoundary(daily)
           floor == RevisionFloor(daily, current, p)
           risk == MaximumOpenRisk(w + m)
<1>1. /\ unit \in Nat \ {0} /\ slack \in Nat /\ rest \in Nat /\ exec \in Nat
      /\ h.wallet \in Int /\ h.stop \in Nat /\ h.mark \in Nat /\ next.stop \in Nat
      /\ Gain(h.side, h.entry, next.stop) \in Int
  BY ScalesAssumption, HoldingCostNat DEF Holdings, Protections, ExecutablePrice, Gain
<1>2. current \in Int /\ before \in Int /\ before < unit * current + 2 * unit + slack
  BY <1>1, LeftBounds DEF CurrentProtected
<1>3. w \in Int /\ W \in Int /\ unit * w <= W
  BY <1>1, LeftBounds
<1>4. /\ p \in Int /\ after \in Int
      /\ unit * p <= unit * w + exit /\ after = W + exit /\ exit \in Int
  <2> HIDE DEF w, W
  <2>1. p \in Int /\ unit * p <= LeftScaled(h, unit * w, next.stop, rest)
    BY <1>1, <1>3, LeftBounds
  <2>2. exit \in Int
    BY <1>1, ScalesAssumption, HoldingCostNat
  <2>3. LeftScaled(h, unit * w, next.stop, rest) = unit * w + exit /\ after = W + exit
    BY DEF LeftScaled
  <2>4. QED
    BY <1>3, <2>1, <2>2, <2>3
<1>5. m \in Int /\ M \in Int /\ M < unit * m + unit
  BY <1>1, ResultBounds
<1>6. Projection(h, qty, reduction, next) = [equity |-> w + m, protected |-> p]
  BY DEF Projection
<1>7. /\ p >= current /\ p > boundary /\ p >= floor
      /\ Larger(0, (w + m) - p) <= risk
  BY <1>6 DEF ProtectionAdmitted
<1>8. boundary \in Int /\ floor \in Int /\ risk \in Int
  <2>1. daily.start \in Nat /\ daily.floor \in Nat /\ Policy.dailyLossBps \in Nat
        /\ Policy.lockBps \in Nat /\ Policy.openRiskBps \in Nat /\ Bps \in Nat \ {0}
    BY EntryPlanAssumption, ScalesAssumption DEF DailyFacts, Policies, ValidPolicy
  <2>2. UsablePot(daily.start, Policy) \in Nat
    BY <2>1, PotNat
  <2>3. FloorBps(UsablePot(daily.start, Policy), Policy.dailyLossBps) \in Nat
        /\ FloorBps(UsablePot(daily.start, Policy), Policy.lockBps) \in Nat
    BY <2>1, <2>2, ProductNat, QuotientNat DEF FloorBps
  <2>4. Larger(0, UsablePot(w + m, Policy)) \in Nat
    <3>1. UsablePot(w + m, Policy) \in Int
      BY <1>3, <1>5, EntryPlanAssumption DEF UsablePot, Smaller, Policies
    <3>2. QED
      BY <3>1 DEF Larger
  <2>5. risk \in Nat
    BY <2>1, <2>4, ProductNat, QuotientNat DEF MaximumOpenRisk, FloorBps
  <2>6. floor \in Int
    <3> HIDE DEF p, current
    <3>1. daily.start + FloorBps(UsablePot(daily.start, Policy), Policy.lockBps) \in Int
      BY <2>1, <2>3
    <3>2. QED
      BY <2>1, <3>1 DEF RevisionFloor, ActiveFloor, Larger
  <2>7. QED
    BY <2>1, <2>3, <2>5, <2>6 DEF EntryBoundary
<1> HIDE DEF unit, slack, w, W, current, before, p, after, exit, m, M, boundary, floor, risk
<1>9. /\ unit * p <= after /\ unit * p \in Int /\ unit * current \in Int
      /\ unit * boundary \in Int /\ unit * floor \in Int
  BY <1>1, <1>2, <1>3, <1>4, <1>8
<1>10. after > before - 2 * unit - slack
  <2>1. unit * current <= unit * p
    BY <1>1, <1>2, <1>4, <1>7
  <2>2. QED
    BY <1>1, <1>2, <1>4, <1>9, <2>1
<1>11. after > unit * boundary
  <2>1. unit * boundary < unit * p
    BY <1>1, <1>4, <1>7, <1>8
  <2>2. QED
    BY <1>4, <1>9, <2>1
<1>12. after >= unit * floor
  <2>1. unit * floor <= unit * p
    BY <1>1, <1>4, <1>7, <1>8
  <2>2. QED
    BY <1>4, <1>9, <2>1
<1>13. (W + M) - after < unit * (risk + 1)
  <2>1. (w + m) - p <= risk
    BY <1>3, <1>4, <1>5, <1>7, <1>8 DEF Larger
  <2>2. unit * ((w + m) - p) <= unit * risk
    BY <1>1, <1>3, <1>4, <1>5, <1>8, <2>1
  <2>3. unit * ((w + m) - p) = unit * w + unit * m - unit * p
        /\ unit * (risk + 1) = unit * risk + unit
        /\ unit * w \in Int /\ unit * m \in Int /\ unit * risk \in Int
    BY <1>1, <1>3, <1>4, <1>5, <1>8
  <2>4. (W + M) - after = M - exit
    BY <1>3, <1>4, <1>5
  <2>5. QED
    BY <1>1, <1>4, <1>5, <1>9, <2>2, <2>3, <2>4
<1>14. QED
  BY <1>6, <1>10, <1>11, <1>12, <1>13
  DEF ProtectionKept, unit, slack, before, W, after, M, boundary, floor, risk, w, m, p, current

(* A reduction is a number.                                                 *)
LEMMA ReductionNat ==
    ASSUME NEW qty \in Nat, NEW bps \in 0 .. Bps - 1
    PROVE  ReductionOf(qty, bps) \in Nat
<1>1. Bps \in Nat \ {0} /\ bps \in Nat
  BY ScalesAssumption
<1>2. (qty * bps) \div Bps \in Nat
  BY <1>1, ProductNat, QuotientNat
<1>3. ((qty * bps) \div Bps) \div CommonStep \in Nat
  BY <1>2, StepPositive, QuotientNat
<1>4. QED
  BY <1>3, StepPositive, ProductNat DEF ReductionOf, RoundDownToStep

-----------------------------------------------------------------------------
(* What each artifact carries while it waits to be used. *)

SizedRequest(r) ==
    /\ r.kind \in {"protected_entry", "protection_revision", "owned_position_close"}
    /\ IF r.kind = "protected_entry" THEN r.qty \in Nat
       ELSE /\ r.current.qty \in Nat
            /\ r.kind = "protection_revision" => r.reduction \in Nat /\ RevisionValid(r)

SizedRecord(s) ==
    /\ s.current # NONE => s.current.qty \in Nat
    /\ s.pending # NONE => SizedRequest(s.pending.request)

ContextSound ==
    context # NONE =>
        /\ context.at \in Nat /\ context.reconciled \in Int /\ context.account \in Accounts
        /\ context.at <= now /\ context.at - context.reconciled <= ReconciliationAge

BindingSound ==
    binding # NONE =>
        /\ binding.at \in Nat /\ binding.protection \in Int
        /\ binding.at - binding.protection <= MarketAge
        /\ binding.ledger.pending = NONE
        /\ binding.ledger.current.qty \in Nat

PlanSound ==
    plan # NONE =>
        /\ plan.at \in Nat
        /\ plan.request.kind = plan.kind
        /\ SizedRequest(plan.request)
        /\ plan.kind = "protected_entry" =>
              /\ plan.reconciled \in Int
              /\ plan.at - plan.reconciled <= ReconciliationAge + CompileAge
              /\ Budgeted(plan.account, plan.daily, plan.geometry, plan.request.qty)
        /\ plan.kind = "protection_revision" =>
              /\ plan.protection \in Int
              /\ plan.at - plan.protection <= MarketAge + CompileAge
              /\ plan.ledger.pending = NONE
              /\ plan.request.current = plan.ledger.current
              /\ ProtectionKept(plan.holding, plan.request.current.qty,
                                plan.request.reduction, plan.next, plan.daily)

AdmissionInv ==
    /\ now \in Nat
    /\ SizedRecord(ledger)
    /\ ContextSound /\ BindingSound /\ PlanSound
    /\ EntryRestsOnFreshFacts /\ ManagementSeesItsRecord

(* Every age limit is a number.                                             *)
LEMMA AgesNat ==
    /\ CompileAge \in Nat /\ ProofAge \in Nat /\ MarketAge \in Nat
    /\ ReconciliationAge \in Nat /\ Tolerance \in Nat /\ MaxTime \in Nat
  BY AdmissionAssumption

(* Steps that invoke nothing leave nothing to say of an effect. *)
LEMMA NothingInvoked ==
    ASSUME invoked' = NONE PROVE EntryRestsOnFreshFacts' /\ ManagementSeesItsRecord'
  BY DEF EntryRestsOnFreshFacts, ManagementSeesItsRecord

(* A compiled context is as fresh as its limits say.                        *)
LEMMA ContextStep ==
    ASSUME AdmissionInv, NEW account \in Observed, NEW reconciled \in Times,
           NEW market \in Times, NEW preflight \in Times, NEW flat \in BOOLEAN,
           CompileContext(account, reconciled, market, preflight, flat)
    PROVE  AdmissionInv'
<1>1. account \in Accounts /\ reconciled \in Int
  BY AdmissionAssumption, AgesNat DEF Times
<1>2. ContextSound'
  BY <1>1, AgesNat DEF AdmissionInv, CompileContext, ContextSound, FreshFact
<1>3. BindingSound' /\ PlanSound' /\ now' \in Nat
  BY DEF AdmissionInv, CompileContext, BindingSound, PlanSound
<1>4. SizedRecord(ledger)'
  BY DEF AdmissionInv, CompileContext, record
<1>5. QED
  BY <1>2, <1>3, <1>4, NothingInvoked DEF AdmissionInv, CompileContext

(* An entry plan inherits its context's age and is budgeted.                *)
LEMMA EntryPlanStep ==
    ASSUME AdmissionInv, NEW id \in EntryIds, NEW g \in Proposals, NEW daily \in Days,
           NEW dailyAt \in Times, CompileEntryPlan(id, g, daily, dailyAt)
    PROVE  AdmissionInv'
<1>1. g \in Geometries /\ daily \in DailyFacts /\ context.account \in Accounts
  BY AdmissionAssumption DEF AdmissionInv, CompileEntryPlan, ContextSound
<1>2. Budgeted(context.account, daily, g, Sized(context.account, g).qty)
  BY <1>1, AdmittedIsBudgeted DEF CompileEntryPlan
<1>3. /\ plan'.at = now /\ plan'.kind = "protected_entry"
      /\ plan'.reconciled = context.reconciled
      /\ plan'.account = context.account /\ plan'.daily = daily /\ plan'.geometry = g
      /\ plan'.request.kind = "protected_entry"
      /\ plan'.request.qty = Sized(context.account, g).qty
  BY DEF CompileEntryPlan
<1>4. now \in Nat /\ context.at \in Nat /\ context.reconciled \in Int
      /\ context.at - context.reconciled <= ReconciliationAge /\ now - context.at <= CompileAge
  BY DEF AdmissionInv, CompileEntryPlan, ContextSound, Fresh
<1>5. now - context.reconciled <= ReconciliationAge + CompileAge
  BY <1>4, AgesNat
<1>6. PlanSound'
  <2>1. Budgeted(plan.account, plan.daily, plan.geometry, plan.request.qty)'
    BY <1>2, <1>3 DEF Budgeted, StopLossScaled
  <2>2. Sized(context.account, g).qty \in Nat
    BY <1>1, SizedCovers DEF CompileEntryPlan, EntryAdmitted
  <2>3. SizedRequest(plan.request)'
    BY <1>3, <2>2 DEF SizedRequest
  <2>4. QED
    BY <1>3, <1>4, <1>5, <2>1, <2>3 DEF PlanSound
<1>7. ContextSound' /\ BindingSound' /\ now' \in Nat /\ SizedRecord(ledger)'
  BY DEF AdmissionInv, CompileEntryPlan, BindingSound, ContextSound, record
<1>8. QED
  BY <1>6, <1>7, NothingInvoked DEF AdmissionInv, CompileEntryPlan

(* A binding is of a settled record and fresh protection.                   *)
LEMMA BindingStep ==
    ASSUME AdmissionInv, NEW reconciled \in Times, NEW protection \in Times,
           NEW native, NEW covered \in BOOLEAN,
           CompileBinding(reconciled, protection, native, covered)
    PROVE  AdmissionInv'
<1>1. protection \in Int
  BY AgesNat DEF Times
<1>2. BindingSound'
  BY <1>1, AgesNat DEF AdmissionInv, CompileBinding, BindingSound, FreshFact, SizedRecord
<1>3. ContextSound' /\ PlanSound' /\ now' \in Nat /\ SizedRecord(ledger)'
  BY DEF AdmissionInv, CompileBinding, ContextSound, PlanSound, record
<1>4. QED
  BY <1>2, <1>3, NothingInvoked DEF AdmissionInv, CompileBinding

(* A management plan inherits its binding's record and age, and keeps the   *)
(* protection.                                                              *)
LEMMA ManagementPlanStep ==
    ASSUME AdmissionInv, NEW id \in RevisionIds, NEW bps \in ReductionChoices,
           NEW next \in NextProtections, NEW holding \in ShownHoldings, NEW daily \in Days,
           NEW native, NEW evidenceAt \in Times, NEW dailyAt \in Times,
           CompileManagementPlan(id, bps, next, holding, daily, native, evidenceAt, dailyAt)
    PROVE  AdmissionInv'
<1> DEFINE current == binding.ledger.current
           reduction == ReductionOf(current.qty, bps)
<1>1. /\ plan'.at = now /\ plan'.kind = "protection_revision"
      /\ plan'.protection = binding.protection /\ plan'.ledger = binding.ledger
      /\ plan'.holding = holding /\ plan'.next = next /\ plan'.daily = daily
      /\ plan'.request.kind = "protection_revision"
      /\ plan'.request.current = current /\ plan'.request.reduction = reduction
      /\ RevisionValid(plan'.request)
  BY DEF CompileManagementPlan
<1>2. now \in Nat /\ binding.at \in Nat /\ binding.protection \in Int
      /\ binding.at - binding.protection <= MarketAge /\ now - binding.at <= CompileAge
      /\ binding.ledger.pending = NONE /\ current.qty \in Nat
  BY DEF AdmissionInv, CompileManagementPlan, BindingSound, Fresh
<1>3. now - binding.protection <= MarketAge + CompileAge
  BY <1>2, AgesNat
<1>4. /\ holding \in Holdings /\ next \in Protections /\ daily \in DailyFacts
      /\ bps \in 0 .. Bps - 1
  BY AdmissionAssumption
<1>5. reduction \in Nat /\ reduction < current.qty
  BY <1>1, <1>2, <1>4, ReductionNat DEF RevisionValid
<1>6. ProtectionAdmitted(holding, current.qty, reduction, next, daily)
  BY DEF CompileManagementPlan, RevisionAdmitted
<1>7. ProtectionKept(holding, current.qty, reduction, next, daily)
  BY <1>2, <1>4, <1>5, <1>6, AdmittedKeepsProtection
<1> HIDE DEF reduction
<1>8. PlanSound'
  <2>1. SizedRequest(plan.request)'
    BY <1>1, <1>2, <1>5 DEF SizedRequest, RevisionValid
  <2>2. ProtectionKept(plan.holding, plan.request.current.qty, plan.request.reduction,
                       plan.next, plan.daily)'
    BY <1>1, <1>7 DEF ProtectionKept, LeftScaled
  <2>3. QED
    BY <1>1, <1>2, <1>3, <2>1, <2>2 DEF PlanSound
<1>9. ContextSound' /\ BindingSound' /\ now' \in Nat /\ SizedRecord(ledger)'
  BY DEF AdmissionInv, CompileManagementPlan, ContextSound, BindingSound, record
<1>10. QED
  BY <1>8, <1>9, NothingInvoked DEF AdmissionInv, CompileManagementPlan

(* Staging keeps the quantities of the record numbers.                      *)
LEMMA StagedSized ==
    ASSUME NEW s, NEW r, SizedRecord(s), SizedRequest(r) PROVE SizedRecord(Staged(s, r))
BY DEF SizedRecord, Staged

(* So does applying a result.                                               *)
LEMMA AppliedSized ==
    ASSUME NEW s, NEW result, SizedRecord(s), s.pending # NONE
    PROVE  SizedRecord(Applied(s, s.pending.request, result))
<1> DEFINE r == s.pending.request
<1>1. SizedRequest(r)
  BY DEF SizedRecord
<1>2. SizedRecord(EmptyLedger)
  BY DEF SizedRecord, EmptyLedger
<1>3. SizedRecord(KeptOpen(s.current, r, result))
  BY <1>1 DEF SizedRecord, KeptOpen
<1>4. CASE r.kind = "protected_entry"
  <2>1. SizedRecord(KeptOpen(NONE, r, result))
    BY <1>1 DEF SizedRecord, KeptOpen
  <2>2. SizedRecord([current |-> OwnedBy(r), pending |-> NONE])
    BY <1>1, <1>4 DEF SizedRecord, SizedRequest, OwnedBy
  <2>3. QED
    BY <1>2, <1>4, <2>1, <2>2 DEF Applied, AppliedEntry
<1>5. CASE r.kind = "protection_revision"
  <2>1. r.current.qty \in Nat /\ r.reduction \in Nat /\ r.reduction < r.current.qty
    BY <1>1, <1>5 DEF SizedRequest, RevisionValid
  <2>2. Revised(r).qty \in Nat
    BY <2>1 DEF Revised
  <2>3. SizedRecord([current |-> Revised(r), pending |-> NONE])
        /\ SizedRecord([current |-> r.current, pending |-> NONE])
    BY <2>1, <2>2 DEF SizedRecord
  <2>4. SizedRecord(KeptOpen(Revised(r), r, result))
    BY <1>1, <2>2 DEF SizedRecord, KeptOpen
  <2>5. QED
    BY <1>3, <1>5, <2>3, <2>4 DEF Applied, AppliedRevision
<1>6. CASE r.kind = "owned_position_close"
  BY <1>2, <1>3, <1>6 DEF Applied, AppliedClose
<1>7. QED
  BY <1>1, <1>4, <1>5, <1>6 DEF SizedRequest

(* An invoked effect leaves every artifact as it is. *)
LEMMA InvokeFrame ==
    ASSUME AdmissionInv, NEW proof, NEW r, SizedRequest(r), Invoke(proof, r)
    PROVE  /\ now' \in Nat /\ ContextSound' /\ BindingSound' /\ PlanSound'
           /\ invoked'.at = now /\ invoked'.proof = proof /\ invoked'.request = r
           /\ invoked'.ledger = ledger /\ invoked'.sequence = sequence
           /\ SizedRecord(ledger)'
  BY StagedSized DEF AdmissionInv, Invoke, ContextSound, BindingSound, PlanSound

(* An entry is submitted within the limits of all its proofs.               *)
LEMMA ExecuteEntryStep ==
    ASSUME AdmissionInv, ExecuteEntry PROVE AdmissionInv'
<1>1. /\ plan # NONE /\ plan.kind = "protected_entry" /\ plan.request.kind = "protected_entry"
      /\ plan.at \in Nat /\ plan.reconciled \in Int /\ now \in Nat
      /\ plan.at - plan.reconciled <= ReconciliationAge + CompileAge
      /\ now - plan.at <= ProofAge /\ SizedRequest(plan.request)
  BY DEF AdmissionInv, ExecuteEntry, PlanSound, Fresh
<1>2. Invoke(plan, plan.request)
  BY DEF ExecuteEntry
<1>3. now - plan.reconciled <= ReconciliationAge + CompileAge + ProofAge
  BY <1>1, AgesNat
<1>4. EntryRestsOnFreshFacts' /\ ManagementSeesItsRecord'
  BY <1>1, <1>2, <1>3, InvokeFrame DEF EntryRestsOnFreshFacts, ManagementSeesItsRecord
<1>5. QED
  BY <1>1, <1>2, <1>4, InvokeFrame DEF AdmissionInv

(* A revision is submitted on the record its plan was compiled from.        *)
LEMMA ExecuteRevisionStep ==
    ASSUME AdmissionInv, ExecuteRevision PROVE AdmissionInv'
<1>1. /\ plan # NONE /\ plan.kind = "protection_revision"
      /\ plan.request.kind = "protection_revision"
      /\ plan.at \in Nat /\ plan.protection \in Int /\ now \in Nat
      /\ plan.at - plan.protection <= MarketAge + CompileAge
      /\ now - plan.at <= ProofAge
      /\ plan.ledger.pending = NONE /\ plan.request.current = plan.ledger.current
      /\ ledger = plan.ledger /\ sequence = plan.sequence /\ SizedRequest(plan.request)
  BY DEF AdmissionInv, ExecuteRevision, PlanSound, Fresh, StateMatches
<1>2. Invoke(plan, plan.request)
  BY DEF ExecuteRevision
<1>3. now - plan.protection <= MarketAge + CompileAge + ProofAge
  BY <1>1, AgesNat
<1>4. EntryRestsOnFreshFacts' /\ ManagementSeesItsRecord'
  BY <1>1, <1>2, <1>3, InvokeFrame DEF EntryRestsOnFreshFacts, ManagementSeesItsRecord
<1>5. QED
  BY <1>1, <1>2, <1>4, InvokeFrame DEF AdmissionInv

(* A close is submitted on the record its binding was compiled from.        *)
LEMMA ExecuteCloseStep ==
    ASSUME AdmissionInv, NEW id \in CloseIds, ExecuteClose(id) PROVE AdmissionInv'
<1> DEFINE r == [kind |-> "owned_position_close", id |-> id, current |-> binding.ledger.current]
<1>1. /\ binding.at \in Nat /\ binding.protection \in Int /\ now \in Nat
      /\ binding.at - binding.protection <= MarketAge
      /\ now - binding.at <= ProofAge
      /\ binding.ledger.pending = NONE /\ binding.ledger.current.qty \in Nat
      /\ ledger = binding.ledger /\ sequence = binding.sequence
  BY DEF AdmissionInv, ExecuteClose, BindingSound, Fresh, StateMatches
<1>2. Invoke(binding, r)
  BY DEF ExecuteClose
<1>3. now - binding.protection <= MarketAge + CompileAge + ProofAge
  BY <1>1, AgesNat
<1>4. r.kind = "owned_position_close" /\ r.current = binding.ledger.current
      /\ SizedRequest(r)
  BY <1>1 DEF SizedRequest
<1> HIDE DEF r
<1>5. EntryRestsOnFreshFacts' /\ ManagementSeesItsRecord'
  BY <1>1, <1>2, <1>3, <1>4, InvokeFrame DEF EntryRestsOnFreshFacts, ManagementSeesItsRecord
<1>6. QED
  BY <1>2, <1>4, <1>5, InvokeFrame DEF AdmissionInv

(* Steps that touch neither an artifact nor an effect; time may pass. *)
LEMMA QuietStep ==
    ASSUME AdmissionInv, invoked' = NONE, now' \in {now, now + 1},
           UNCHANGED <<context, binding, plan>>, SizedRecord(ledger')
    PROVE  AdmissionInv'
<1>1. now' \in Nat /\ now <= now'
  BY DEF AdmissionInv
<1>2. ContextSound'
  BY <1>1 DEF AdmissionInv, ContextSound
<1>3. BindingSound' /\ PlanSound'
  BY DEF AdmissionInv, BindingSound, PlanSound
<1>4. QED
  BY <1>1, <1>2, <1>3, NothingInvoked DEF AdmissionInv

(* A result is applied to a record whose quantities are numbers.            *)
LEMMA ResultStep ==
    ASSUME AdmissionInv, NEW result, NEW proven, ResultApplied(result, proven)
    PROVE  AdmissionInv'
<1>1. ledger' = Applied(ledger, ledger.pending.request, result) /\ ledger.pending # NONE
  BY DEF ResultApplied
<1>2. SizedRecord(ledger')
  BY <1>1, AppliedSized DEF AdmissionInv
<1>3. QED
  BY <1>2, QuietStep DEF ResultApplied

(* Initially there is no artifact and no effect.                            *)
LEMMA AdmissionInit == Init => AdmissionInv
  BY DEF Init, SizedRecord, EmptyLedger, AdmissionInv, ContextSound, BindingSound, PlanSound, EntryRestsOnFreshFacts,
         ManagementSeesItsRecord

(* Every step keeps the invariant.                                          *)
LEMMA AdmissionStep == AdmissionInv /\ [Next]_vars => AdmissionInv'
<1> SUFFICES ASSUME AdmissionInv, [Next]_vars PROVE AdmissionInv'
  OBVIOUS
<1>1. CASE UNCHANGED vars
  BY <1>1 DEF vars, record, AdmissionInv, ContextSound, BindingSound, PlanSound,
              EntryRestsOnFreshFacts, ManagementSeesItsRecord
<1>2. CASE Tick
  BY <1>2, QuietStep DEF Tick, record, AdmissionInv
<1>3. ASSUME NEW account \in Observed, NEW reconciled \in Times, NEW market \in Times,
             NEW preflight \in Times, NEW flat \in BOOLEAN,
             CompileContext(account, reconciled, market, preflight, flat)
      PROVE  AdmissionInv'
  BY <1>3, ContextStep
<1>4. ASSUME NEW id \in EntryIds, NEW g \in Proposals, NEW daily \in Days,
             NEW dailyAt \in Times, CompileEntryPlan(id, g, daily, dailyAt)
      PROVE  AdmissionInv'
  BY <1>4, EntryPlanStep
<1>5. ASSUME NEW reconciled \in Times, NEW protection \in Times, NEW native \in NativeSizes,
             NEW covered \in BOOLEAN, CompileBinding(reconciled, protection, native, covered)
      PROVE  AdmissionInv'
  BY <1>5, BindingStep
<1>6. ASSUME NEW id \in RevisionIds, NEW bps \in ReductionChoices, NEW next \in NextProtections,
             NEW holding \in ShownHoldings, NEW daily \in Days, NEW native \in NativeSizes,
             NEW evidenceAt \in Times, NEW dailyAt \in Times,
             CompileManagementPlan(id, bps, next, holding, daily, native, evidenceAt, dailyAt)
      PROVE  AdmissionInv'
  BY <1>6, ManagementPlanStep
<1>7. CASE IssueForPlan
  BY <1>7, QuietStep DEF IssueForPlan, Issue, record, AdmissionInv
<1>8. ASSUME NEW id \in CloseIds, IssueForClose(id) PROVE AdmissionInv'
  BY <1>8, QuietStep DEF IssueForClose, Issue, record, AdmissionInv
<1>9. ASSUME NEW id \in CloseIds, ExecuteClose(id) PROVE AdmissionInv'
  BY <1>9, ExecuteCloseStep
<1>10. CASE ExecuteEntry
  BY <1>10, ExecuteEntryStep
<1>11. CASE ExecuteRevision
  BY <1>11, ExecuteRevisionStep
<1>12. ASSUME NEW result, NEW proven, ResultApplied(result, proven) PROVE AdmissionInv'
  BY <1>12, ResultStep
<1>13. ASSUME NEW r, SizedRequest(r), StagedElsewhere(r) PROVE AdmissionInv'
  BY <1>13, StagedSized, QuietStep DEF StagedElsewhere, AdmissionInv
<1>14. ASSUME NEW id \in EntryIds, NEW qty \in OtherQuantities,
              StagedElsewhere([kind |-> "protected_entry", id |-> id, qty |-> qty])
       PROVE  AdmissionInv'
  <2>1. qty \in Nat
    BY AdmissionAssumption DEF Quantities
  <2>2. SizedRequest([kind |-> "protected_entry", id |-> id, qty |-> qty])
    BY <2>1 DEF SizedRequest
  <2>3. QED
    BY <1>13, <1>14, <2>2
<1>15. ASSUME NEW id \in CloseIds, ledger.current # NONE,
              StagedElsewhere([kind |-> "owned_position_close", id |-> id,
                               current |-> ledger.current])
       PROVE  AdmissionInv'
  <2>1. ledger.current.qty \in Nat
    BY <1>15 DEF AdmissionInv, SizedRecord
  <2>2. SizedRequest([kind |-> "owned_position_close", id |-> id, current |-> ledger.current])
    BY <2>1 DEF SizedRequest
  <2>3. QED
    BY <1>13, <1>15, <2>2
<1>16. QED
  BY <1>1, <1>2, <1>3, <1>4, <1>5, <1>6, <1>7, <1>8, <1>9, <1>10, <1>11, <1>12, <1>14, <1>15 DEF Next

(* The invariant holds of every behaviour.                                  *)
LEMMA AdmissionInvariant == Spec => []AdmissionInv
  BY AdmissionInit, AdmissionStep, PTL DEF Spec

-----------------------------------------------------------------------------
(* Ages add up along the chain and no further: for all age limits, permit   *)
(* lifetimes and delays of the caller.                                      *)
THEOREM EntriesRestOnFreshFacts == Spec => []EntryRestsOnFreshFacts
<1>1. AdmissionInv => EntryRestsOnFreshFacts
  BY DEF AdmissionInv
<1>2. QED
  BY <1>1, AdmissionInvariant, PTL

(* A revision or a close is never a blind retry and never acts on another   *)
(* record than the one it was planned for, whatever other processes do.     *)
THEOREM ManagementActsOnItsRecord == Spec => []ManagementSeesItsRecord
<1>1. AdmissionInv => ManagementSeesItsRecord
  BY DEF AdmissionInv
<1>2. QED
  BY <1>1, AdmissionInvariant, PTL

(* The roundings of the sizing only ever overstate a loss: for every        *)
(* policy, contract, account, price and stop.                               *)
THEOREM LossesAreBudgeted == Spec => []LossIsBudgeted
<1>1. AdmissionInv => LossIsBudgeted
  BY DEF AdmissionInv, PlanSound, LossIsBudgeted, Budgeted
<1>2. QED
  BY <1>1, AdmissionInvariant, PTL

(* A revision the plan admits never gives up protection that roundings do   *)
(* not explain, nor the boundary, the floor or the open risk: for every     *)
(* policy, contract, account, market, quantity, reduction and stop.         *)
THEOREM RevisionsKeepProtection == Spec => []RevisionKeepsProtection
<1>1. AdmissionInv => RevisionKeepsProtection
  BY DEF AdmissionInv, PlanSound, RevisionKeepsProtection
<1>2. QED
  BY <1>1, AdmissionInvariant, PTL

=============================================================================
