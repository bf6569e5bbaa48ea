------------------------------- MODULE Money -------------------------------
(***************************************************************************)
(* Integer money arithmetic (src/domain/money.ts).  Amounts are cents,     *)
(* prices are cents per coin, quantities are units of 1/QuantityScale      *)
(* coin.  The scales are constants: 100 000 000 and 10 000 in the code,    *)
(* smaller in the runs, whose integers have 32 bits.                       *)
(***************************************************************************)
EXTENDS Integers

CONSTANTS QuantityScale,   \* QUANTITY_SCALE: units per coin
          Bps              \* basis points in one whole

ASSUME ScalesAssumption == /\ QuantityScale \in Nat \ {0}
                           /\ Bps \in Nat \ {0}

Sides == {"LONG", "SHORT"}

(* Math.round(n / d): to the nearest integer, halves towards +infinity. *)
RoundDiv(n, d) == (2 * n + d) \div (2 * d)

(* Math.ceil(n / d) *)
CeilDiv(n, d) == (n + d - 1) \div d

ApplyBps(value, bps) == RoundDiv(value * bps, Bps)

Notional(price, quantity) == RoundDiv(price * quantity, QuantityScale)

Pnl(side, entry, exit, quantity) ==
    RoundDiv((IF side = "LONG" THEN exit - entry ELSE entry - exit) * quantity,
             QuantityScale)

RoundDownToStep(value, step) == (value \div step) * step

Larger(a, b) == IF a >= b THEN a ELSE b

Smaller(a, b) == IF a <= b THEN a ELSE b

=============================================================================
