--------------------------- MODULE OwnedProtection ---------------------------
(***************************************************************************)
(* The durable record of what the Testnet kernel owns                      *)
(* (owned-protection-state.ts): the current protected position, if any,    *)
(* and the one transition whose outcome is still open, if any.  Staging a  *)
(* request and applying a result are functions of that record.             *)
(*                                                                         *)
(* Prices are left out: the client ids of a stop and a target determine    *)
(* the intent that fixed their prices.  Symbol and direction are one.      *)
(***************************************************************************)
EXTENDS Integers

CONSTANTS EntryIds, RevisionIds, CloseIds,   \* intent UUIDs, by the request they name
          MaxQuantity,                       \* bound: the largest entry, in quantity steps
          NONE

ASSUME OwnedProtectionAssumption ==
    /\ MaxQuantity \in Nat \ {0}
    /\ EntryIds \cap RevisionIds = {}
    /\ CloseIds \cap (EntryIds \cup RevisionIds) = {}

Intents == EntryIds \cup RevisionIds \cup CloseIds

Quantities == 1 .. MaxQuantity

(* Client ids carry the role and the intent they derive from. *)
ClientId(role, id) == <<role, id>>

StopIds == {"gcs"} \X EntryIds \cup {"grs"} \X RevisionIds

TargetIds == {"gct"} \X EntryIds \cup {"grt"} \X RevisionIds

Ownerships == [position : EntryIds, qty : Quantities, stop : StopIds, target : TargetIds]

EntryRequests == [kind : {"protected_entry"}, id : EntryIds, qty : Quantities]

RevisionRequests ==
    [kind : {"protection_revision"}, id : RevisionIds, current : Ownerships,
     reduction : 0 .. MaxQuantity]

CloseRequests == [kind : {"owned_position_close"}, id : CloseIds, current : Ownerships]

(* A revision keeps something of the position (a reduction of zero changes *)
(* prices only) and gives it new protection identities.                    *)
RevisionValid(r) ==
    /\ r.reduction < r.current.qty
    /\ r.current.stop # ClientId("grs", r.id)
    /\ r.current.target # ClientId("grt", r.id)

Requests == EntryRequests \cup {r \in RevisionRequests : RevisionValid(r)} \cup CloseRequests

(* What the kernel owns after an entry, and after a revision. *)
OwnedBy(r) ==
    [position |-> r.id, qty |-> r.qty, stop |-> ClientId("gcs", r.id),
     target |-> ClientId("gct", r.id)]

Revised(r) ==
    [position |-> r.current.position, qty |-> r.current.qty - r.reduction,
     stop |-> ClientId("grs", r.id), target |-> ClientId("grt", r.id)]

-----------------------------------------------------------------------------
(* Outcomes of the effects, by kind of request. *)

Unresolved(kind) ==
    CASE kind = "protected_entry" ->
            {"entry_visibility_pending", "emergency_flatten_pending",
             "open_protected_target_pending"}
      [] kind = "protection_revision" ->
            {"current_protection_not_proven", "reduction_visibility_pending",
             "replacement_stop_pending", "replacement_target_pending",
             "revision_protected_cleanup_pending"}
      [] OTHER -> {"owned_protection_not_proven", "close_visibility_pending",
                   "closed_cleanup_pending"}

Rejections == {"rejected_before_exposure", "reduction_rejected"}

Results(kind) ==
    CASE kind = "protected_entry" ->
            Unresolved(kind) \cup {"rejected_before_exposure",
                "emergency_flatten_confirmed", "open_protected"}
      [] kind = "protection_revision" ->
            Unresolved(kind) \cup {"reduction_rejected", "revision_protected"}
      [] OTHER -> Unresolved(kind) \cup {"closed"}

(* Results that are applied only with their complete proof. *)
ProofRequired ==
    {"open_protected", "emergency_flatten_confirmed", "revision_protected",
     "revision_protected_cleanup_pending", "closed", "closed_cleanup_pending"}

Pendings ==
    {p \in [request : Requests,
            state : {"intent_persisted"} \cup Unresolved("protected_entry")
                    \cup Unresolved("protection_revision")
                    \cup Unresolved("owned_position_close")] :
        p.state \in {"intent_persisted"} \cup Unresolved(p.request.kind)}

(* validateOwnedProtectionState: a pending entry excludes a current pointer, *)
(* pending management requires one.                                          *)
Ledgers ==
    {s \in [current : Ownerships \cup {NONE}, pending : Pendings \cup {NONE}] :
        s.pending # NONE =>
            (s.pending.request.kind = "protected_entry" <=> s.current = NONE)}

EmptyLedger == [current |-> NONE, pending |-> NONE]

ASSUME NoneAssumption == NONE \notin Ownerships \cup Requests \cup Pendings

-----------------------------------------------------------------------------
(* Staging and applying. *)

(* An open transition admits only the very same request again. *)
TransitionAvailable(s, r) == s.pending # NONE => s.pending.request = r

StageAdmitted(s, r) ==
    /\ TransitionAvailable(s, r)
    /\ s.pending = NONE =>
          IF r.kind = "protected_entry" THEN s.current = NONE ELSE s.current = r.current

Staged(s, r) ==
    IF s.pending # NONE THEN s
    ELSE [current |-> s.current,
          pending |-> [request |-> r, state |-> "intent_persisted"]]

(* Mutant: a pending transition can still be rejected. *)
RejectedLate(s, r, result, proven) ==
    /\ TransitionAvailable(s, r)
    /\ IF r.kind = "protected_entry" THEN s.current = NONE
       ELSE s.pending = NONE => s.current = r.current
    /\ result \in ProofRequired => proven

ApplyAdmitted(s, r, result, proven) ==
    /\ TransitionAvailable(s, r)
    /\ IF r.kind = "protected_entry" THEN s.current = NONE
       ELSE s.pending = NONE => s.current = r.current
    /\ s.pending # NONE => result \notin Rejections   \* "cannot later be treated as rejected"
    /\ result \in ProofRequired => proven

KeptOpen(current, r, result) ==
    [current |-> current, pending |-> [request |-> r, state |-> result]]

AppliedEntry(s, r, result) ==
    CASE result = "open_protected" -> [current |-> OwnedBy(r), pending |-> NONE]
      [] result \in {"rejected_before_exposure", "emergency_flatten_confirmed"} -> EmptyLedger
      [] OTHER -> KeptOpen(NONE, r, result)

AppliedRevision(s, r, result) ==
    CASE result = "revision_protected" -> [current |-> Revised(r), pending |-> NONE]
      [] result = "reduction_rejected" -> [current |-> r.current, pending |-> NONE]
      [] result = "revision_protected_cleanup_pending" -> KeptOpen(Revised(r), r, result)
      [] OTHER -> KeptOpen(s.current, r, result)

AppliedClose(s, r, result) ==
    IF result = "closed" THEN EmptyLedger ELSE KeptOpen(s.current, r, result)

Applied(s, r, result) ==
    CASE r.kind = "protected_entry" -> AppliedEntry(s, r, result)
      [] r.kind = "protection_revision" -> AppliedRevision(s, r, result)
      [] OTHER -> AppliedClose(s, r, result)

=============================================================================
