-------------------------- MODULE MCTestnetExecution --------------------------
(***************************************************************************)
(* TestnetExecution for TLC: interchangeable processes.                    *)
(***************************************************************************)
EXTENDS TestnetExecution, TLC

Processes == Permutations(Orchestrators)

=============================================================================
