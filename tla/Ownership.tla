------------------------------ MODULE Ownership ------------------------------
(***************************************************************************)
(* What the durable ownership record promises to whoever reads it: it is   *)
(* the record of a single writer.  A request is staged over a settled      *)
(* record, and only its own proven results move the record on.             *)
(***************************************************************************)
EXTENDS OwnedProtection

VARIABLE ledger

Init == ledger = EmptyLedger

Stage(r) ==
    /\ ledger.pending = NONE
    /\ StageAdmitted(ledger, r)
    /\ ledger' = Staged(ledger, r)

Advance(result) ==
    /\ ledger.pending # NONE
    /\ result \in Results(ledger.pending.request.kind)
    /\ ApplyAdmitted(ledger, ledger.pending.request, result, TRUE)
    /\ ledger' = Applied(ledger, ledger.pending.request, result)

Next ==
    \/ \E r \in Requests : Stage(r)
    \/ \E kind \in {"protected_entry", "protection_revision", "owned_position_close"} :
          \E result \in Results(kind) : Advance(result)

Spec == Init /\ [][Next]_ledger

=============================================================================
