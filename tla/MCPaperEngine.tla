--------------------------- MODULE MCPaperEngine ---------------------------
(***************************************************************************)
(* Small instances of PaperEngine.  One basis point of the model is ten of *)
(* the code's; a position of the default policy has tens of units.         *)
(***************************************************************************)
EXTENDS PaperEngine

CONSTANTS i1, i2, i3, i4

MCIds == {i1, i2, i3, i4}

Body(id, action, tranche, stop, target) ==
    [id |-> id, action |-> action, tranche |-> tranche, known |-> TRUE,
     stop |-> stop, target |-> target, riskBps |-> Unset, leverage |-> Unset,
     pct |-> 50]

(* The default policy, with a quantity step of five units. *)
DefaultPolicy ==
    [lockBps |-> 5, limit |-> NoLimit, maxLeverage |-> 3, tradeRiskBps |-> 5,
     openRiskBps |-> 10, dailyLossBps |-> 20, roundTripBps |-> 2,
     stressedBps |-> 1, step |-> 5, minNotional |-> 100]

(* Legal, but a stressed exit costs more than the planned half round trip   *)
(* and alone carries an open position past the loss boundary; the pot is    *)
(* capped, and less of a gain is locked in.                                 *)
BoundaryPolicy ==
    [DefaultPolicy EXCEPT !.stressedBps = 5, !.openRiskBps = 5, !.dailyLossBps = 6,
                          !.lockBps = 1, !.limit = 9000]

(* An entry each way, every management action on the first, an intent that *)
(* reuses an id for another body, and one for a foreign account.           *)
MCIntents ==
    {Body(i1, "ENTER_LONG", NONE, 99, 102),
     Body(i1, "NOTHING", NONE, 0, 0),
     Body(i2, "ENTER_SHORT", NONE, 102, 99),
     Body(i3, "MOVE_STOP", i1, 100, 0),
     Body(i3, "MOVE_STOP", i1, 96, 0),
     Body(i3, "MOVE_TARGET", i1, 0, 103),
     Body(i3, "HOLD", i1, 0, 0),
     Body(i4, "REDUCE", i1, 0, 0),
     Body(i4, "EXIT", i1, 0, 0)}

MCPrices == {98, 100, 102}

MCPolicies == {BoundaryPolicy}

(* When days and policies change: one entry and an amendment.          *)
DayIntents ==
    {Body(i1, "ENTER_LONG", NONE, 99, 104),
     Body(i3, "MOVE_STOP", i1, 101, 0)}

AllIntents == MCIntents \cup DayIntents

(* A behaviour has every intent and mode and one day and policy, or else    *)
(* changes of the day and the policy and fewer intents and modes: all of it *)
(* at once is beyond TLC.                                                   *)
VARIABLE oneDay

mcVars == <<oneDay, vars>>

MCInit == oneDay \in BOOLEAN /\ Init

OneDay == oneDay /\ current' \in MCIntents \cup {NONE} /\ UNCHANGED <<today, policy>>

ManyDays == ~oneDay /\ current' \in DayIntents \cup {NONE} /\ mode' # "disabled"

MCNext == Next /\ (OneDay \/ ManyDays) /\ UNCHANGED oneDay

MCSpec == MCInit /\ [][MCNext]_mcVars /\ Fairness

=============================================================================
