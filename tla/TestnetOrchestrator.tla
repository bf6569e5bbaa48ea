------------------------- MODULE TestnetOrchestrator -------------------------
(***************************************************************************)
(* Orchestrators over one durable ownership record                         *)
(* (testnet-orchestrator.ts).  Each runs one operation at a time, but      *)
(* nothing prevents two processes from sharing the store: an operation     *)
(* loads the record, stages its request by compare-and-set, awaits the     *)
(* effect, and applies the result by compare-and-set.                      *)
(*                                                                         *)
(* Storage versions only grow, one at each save, so what an operation can  *)
(* learn from a version is whether anybody saved since it loaded: `fresh`. *)
(* A proof (plan, binding) names the record it was compiled from; a ready  *)
(* one is compiled from a record with nothing pending.  Permit and proof   *)
(* times are left to the caller: an operation refused by them changes      *)
(* nothing.                                                                *)
(***************************************************************************)
EXTENDS OwnedProtection

CONSTANTS Orchestrators,
          Resubmission,      \* whether callers hand in an entry plan again after its effect began
          MaxSubmissions     \* bound: effects begun for one intent

ASSUME OrchestratorAssumption ==
    Resubmission \in BOOLEAN /\ MaxSubmissions \in Nat \ {0}

VARIABLES
    store,        \* the stored ownership record
    orch,         \* per orchestrator, the operation in progress (memory)
    submitted     \* history: mutating effects begun, per intent

orchVars == <<store, orch, submitted>>

Phases == {"idle", "staging", "effect", "recovering"}

Idle == [pc |-> "idle", request |-> NONE, fresh |-> FALSE, state |-> EmptyLedger]

OrchTypeOK ==
    /\ store \in Ledgers
    /\ orch \in [Orchestrators ->
                    [pc : Phases, request : Requests \cup {NONE}, fresh : BOOLEAN,
                     state : Ledgers]]
    /\ submitted \in [Intents -> 0 .. MaxSubmissions]

OrchInit ==
    /\ store = EmptyLedger
    /\ orch = [o \in Orchestrators |-> Idle]
    /\ submitted = [i \in Intents |-> 0]

-----------------------------------------------------------------------------
(* compareAndSetRuntimeState by o: everybody else's version is now behind. *)
Saved(o, s, next) ==
    /\ store' = s
    /\ orch' = [q \in Orchestrators |->
                   IF q = o THEN next ELSE [orch[q] EXCEPT !.fresh = FALSE]]

(* Mutant: the version is not compared. *)
VersionIgnored(o) == TRUE

VersionMatches(o) == orch[o].fresh

(* A ready plan or binding handed in with its permit: the record is loaded  *)
(* and the request checked against it.  Management proofs must have been    *)
(* compiled from that very record, so nothing is pending in it.             *)
Execute(o, r) ==
    /\ orch[o].pc = "idle"
    /\ StageAdmitted(store, r)
    /\ r.kind # "protected_entry" => store.pending = NONE
    /\ IF Resubmission THEN submitted[r.id] < MaxSubmissions ELSE submitted[r.id] = 0
    /\ orch' = [orch EXCEPT ![o] = [pc |-> "staging", request |-> r, fresh |-> TRUE,
                                    state |-> store]]
    /\ UNCHANGED <<store, submitted>>

(* The staged record is saved before the effect is invoked; on a version    *)
(* conflict the operation ends without an effect.                           *)
SaveStaged(o) ==
    /\ orch[o].pc = "staging"
    /\ VersionMatches(o) => submitted[orch[o].request.id] < MaxSubmissions
    /\ LET staged == Staged(orch[o].state, orch[o].request)
       IN  IF VersionMatches(o)
           THEN /\ Saved(o, staged, [orch[o] EXCEPT !.pc = "effect", !.state = staged,
                                                    !.fresh = TRUE])
                /\ submitted' = [submitted EXCEPT ![orch[o].request.id] = @ + 1]
           ELSE /\ orch' = [orch EXCEPT ![o] = Idle]
                /\ UNCHANGED <<store, submitted>>

(* recoverPending: the pending request is reconciled by lookups only. *)
BeginRecovery(o) ==
    /\ orch[o].pc = "idle"
    /\ store.pending # NONE
    /\ orch' = [orch EXCEPT ![o] = [pc |-> "recovering", request |-> store.pending.request,
                                    fresh |-> TRUE, state |-> store]]
    /\ UNCHANGED <<store, submitted>>

(* The effect answers: its result is applied to the record as it was staged *)
(* or loaded, and saved.  A result the record does not admit, or a version  *)
(* conflict, ends the operation with the store as it is.                    *)
EffectReturns(o, result, proven) ==
    /\ orch[o].pc \in {"effect", "recovering"}
    /\ result \in Results(orch[o].request.kind)
    /\ LET op == orch[o]
       IN  IF ApplyAdmitted(op.state, op.request, result, proven) /\ VersionMatches(o)
           THEN Saved(o, Applied(op.state, op.request, result), Idle)
           ELSE orch' = [orch EXCEPT ![o] = Idle] /\ UNCHANGED store
    /\ UNCHANGED submitted

(* The effect fails (transport evidence cannot be stored, say), or the      *)
(* process stops anywhere in its operation.                                 *)
Abandon(o) ==
    /\ orch[o].pc # "idle"
    /\ orch' = [orch EXCEPT ![o] = Idle]
    /\ UNCHANGED <<store, submitted>>

OrchNext ==
    \E o \in Orchestrators :
        \/ \E r \in Requests : Execute(o, r)
        \/ SaveStaged(o)
        \/ BeginRecovery(o)
        \/ \E kind \in {"protected_entry", "protection_revision", "owned_position_close"} :
              \E result \in Results(kind), proven \in BOOLEAN : EffectReturns(o, result, proven)
        \/ Abandon(o)

OrchSpec == OrchInit /\ [][OrchNext]_orchVars

-----------------------------------------------------------------------------
(* Properties. *)

(* What an operation holds in memory while nobody else saved is what is     *)
(* stored; an effect in progress is that of a request that was stored as    *)
(* pending before it began.                                                 *)
MemoryAgrees ==
    \A o \in Orchestrators :
        /\ orch[o].pc # "idle" /\ orch[o].fresh => orch[o].state = store
        /\ orch[o].pc # "idle" => orch[o].request \in Requests
        /\ orch[o].pc = "staging" => StageAdmitted(orch[o].state, orch[o].request)
        /\ orch[o].pc \in {"effect", "recovering"} =>
              /\ orch[o].state.pending # NONE
              /\ orch[o].state.pending.request = orch[o].request

(* ADR-0014: storage compare-and-set is the cross-instance writer guard.    *)
(* However the operations of several processes interleave, crash and        *)
(* recover, the record evolves as that of a single writer.                  *)
Ledger == INSTANCE Ownership WITH ledger <- store

SingleWriter == Ledger!Spec

(* FR-003 of the binding: the pointer to what is owned moves only as the    *)
(* pending request says, and a position under management never grows.       *)
PointerFollowsRequest ==
    [][store'.current # store.current =>
          /\ store.pending # NONE
          /\ store'.current = CASE store.pending.request.kind = "protected_entry" ->
                                     OwnedBy(store.pending.request)
                               [] store.pending.request.kind = "protection_revision" ->
                                     Revised(store.pending.request)
                               [] OTHER -> NONE
          /\ (store.current # NONE /\ store'.current # NONE =>
                 /\ store'.current.position = store.current.position
                 /\ store'.current.qty <= store.current.qty)]_orchVars

(* SC-001 of the mutation contract: at most one submission per              *)
(* deterministic client id.                                                 *)
SubmittedOnce == \A i \in Intents : submitted[i] <= 1

=============================================================================
