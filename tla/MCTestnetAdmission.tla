------------------------- MODULE MCTestnetAdmission -------------------------
(***************************************************************************)
(* Small instances of TestnetAdmission.  A basis point is ten of the       *)
(* code's, a second one tick.                                              *)
(***************************************************************************)
EXTENDS TestnetAdmission

MCPolicy ==
    [lockBps |-> 5, limit |-> NoLimit, maxLeverage |-> 3, tradeRiskBps |-> 10,
     openRiskBps |-> 20, dailyLossBps |-> 20, roundTripBps |-> 1,
     stressedBps |-> 1, step |-> 4, minNotional |-> 100]

MCContract == [tick |-> 1, step |-> 6, minQty |-> 12, minNotional |-> 50]

Account(equity, taker, leverage) ==
    [equity |-> equity, available |-> equity, taker |-> taker, leverage |-> leverage,
     bid |-> 99, ask |-> 101]

MCObserved == {Account(10000, 2, 2)}

Geometry(side, stop, target, riskBps) ==
    [side |-> side, stop |-> stop, target |-> target, riskBps |-> riskBps]

(* The short entry asks for more risk than the policy allows. *)
MCProposals == {Geometry("LONG", 98, 105, 10), Geometry("SHORT", 102, 97, 11)}

(* On the second day the floor is too near for an entry. *)
MCDays ==
    {[start |-> 9851, high |-> 10000, floor |-> NoFloor],
     [start |-> 9930, high |-> 10000, floor |-> 9979]}

(* The stop of the long position may be loosened only if half of it is sold *)
(* at the bid; that of the short one may follow the market only for all of  *)
(* it, the ask being too far away to buy half of it back.                   *)
MCHoldings ==
    {[side |-> "LONG", entry |-> 101, stop |-> 98, wallet |-> 9800, equity |-> 9852,
      taker |-> 2, leverage |-> 2, mark |-> 103, bid |-> 102, ask |-> 104],
     [side |-> "SHORT", entry |-> 99, stop |-> 100, wallet |-> 9800, equity |-> 9826,
      taker |-> 2, leverage |-> 2, mark |-> 98, bid |-> 97, ask |-> 102]}

MCProtections == {[stop |-> 97, target |-> 110], [stop |-> 99, target |-> 90]}

=============================================================================
