--------------------------- MODULE MCShadowRuntime ---------------------------
(***************************************************************************)
(* The runtime and the captures of the market stream, for TLC.  They share *)
(* no state: a behaviour is one of the runtime, while nothing is captured, *)
(* or one of captures, while the runtime stands still.                     *)
(***************************************************************************)
EXTENDS ShadowRuntime, MarketEvidence

VARIABLE moves      \* which of the two moves

mcVars == <<moves, vars, marketVars>>

MCKinds == Messages \cup Transitions \cup {"error"}

\* An error is too long for a file; a stop rotates what holds two messages.
MCLineBytes ==
    [kind \in MCKinds |-> CASE kind \in Messages -> 2
                            [] kind = "stopped" -> 5
                            [] kind = "error" -> 7
                            [] OTHER -> 1]

RuntimeMoves(A) == moves = "runtime" /\ A /\ UNCHANGED <<moves, marketVars>>
CaptureMoves(A) == moves = "capture" /\ A /\ UNCHANGED <<moves, vars>>

MCInit == moves \in {"runtime", "capture"} /\ Init /\ MarketInit

MCNext == RuntimeMoves(Next) \/ CaptureMoves(MarketNext)

\* Fairness: the runtime's clock goes on; records, sockets and calls need not come.
MCSpec == MCInit /\ [][MCNext]_mcVars /\ WF_mcVars(RuntimeMoves(Tick))

=============================================================================
