----------------------- MODULE TestnetOrchestratorProofs -----------------------
(***************************************************************************)
(* Proofs about the ownership record and the orchestrators over it.        *)
(***************************************************************************)
EXTENDS TestnetOrchestrator, TLAPS

-----------------------------------------------------------------------------
(* The record: staging and applying keep it valid. *)

(* Staging an admitted request leaves a valid record with that request      *)
(* pending and the pointer where it was.                                    *)
LEMMA StagedValid ==
    ASSUME NEW s \in Ledgers, NEW r \in Requests, StageAdmitted(s, r)
    PROVE  /\ Staged(s, r) \in Ledgers
           /\ Staged(s, r).pending # NONE
           /\ Staged(s, r).pending.request = r
           /\ Staged(s, r).current = s.current
<1>1. CASE s.pending # NONE
  BY <1>1 DEF Staged, StageAdmitted, TransitionAvailable
<1>2. CASE s.pending = NONE
  <2>1. [request |-> r, state |-> "intent_persisted"] \in Pendings
    BY DEF Pendings
  <2>2. r.kind = "protected_entry" <=> s.current = NONE
    <3>1. CASE r.kind = "protected_entry"
      BY <1>2, <3>1 DEF StageAdmitted
    <3>2. CASE r.kind # "protected_entry"
      <4>1. r.current \in Ownerships
        BY <3>2 DEF Requests, EntryRequests, RevisionRequests, CloseRequests
      <4>2. s.current = r.current
        BY <1>2, <3>2 DEF StageAdmitted
      <4> QED BY <3>2, <4>1, <4>2, NoneAssumption
    <3> QED BY <3>1, <3>2
  <2> QED BY <1>2, <2>1, <2>2, NoneAssumption DEF Staged, Ledgers
<1> QED BY <1>1, <1>2

(* What a revision leaves is owned, under new identities. *)
LEMMA RevisedOwned ==
    ASSUME NEW r \in Requests, r.kind = "protection_revision"
    PROVE  /\ Revised(r) \in Ownerships
           /\ r.current \in Ownerships
           /\ Revised(r).position = r.current.position
           /\ Revised(r).qty <= r.current.qty
           /\ Revised(r) # r.current
<1>1. r \in RevisionRequests /\ RevisionValid(r)
  BY DEF Requests, EntryRequests, CloseRequests
<1>2. /\ r.id \in RevisionIds /\ r.current \in Ownerships
      /\ r.reduction \in 0 .. MaxQuantity /\ r.reduction < r.current.qty
      /\ r.current.stop # ClientId("grs", r.id)
  BY <1>1 DEF RevisionRequests, RevisionValid
<1>3. r.current.position \in EntryIds /\ r.current.qty \in 1 .. MaxQuantity
  BY <1>2 DEF Ownerships, Quantities
<1>4. r.current.qty - r.reduction \in Quantities
  BY <1>2, <1>3, OwnedProtectionAssumption DEF Quantities
<1>5. ClientId("grs", r.id) \in StopIds /\ ClientId("grt", r.id) \in TargetIds
  BY <1>2 DEF ClientId, StopIds, TargetIds
<1> QED BY <1>2, <1>3, <1>4, <1>5, OwnedProtectionAssumption DEF Revised, Ownerships

(* The pointer an entry leaves is a valid ownership.                        *)
LEMMA EntryOwned ==
    ASSUME NEW r \in Requests, r.kind = "protected_entry"
    PROVE  OwnedBy(r) \in Ownerships
<1>1. r.id \in EntryIds /\ r.qty \in Quantities
  BY DEF Requests, EntryRequests, RevisionRequests, CloseRequests
<1> QED BY <1>1 DEF OwnedBy, Ownerships, ClientId, StopIds, TargetIds

(* A request is of one of three kinds.                                      *)
LEMMA RequestKinds ==
    ASSUME NEW r \in Requests
    PROVE  r.kind \in {"protected_entry", "protection_revision", "owned_position_close"}
BY DEF Requests, EntryRequests, RevisionRequests, CloseRequests

(* Applying a result of the pending request keeps the record valid. *)
LEMMA AppliedValid ==
    ASSUME NEW s \in Ledgers, NEW r \in Requests,
           s.pending # NONE, s.pending.request = r,
           NEW result \in Results(r.kind), NEW proven,
           ApplyAdmitted(s, r, result, proven)
    PROVE  Applied(s, r, result) \in Ledgers
<1>1. r.kind = "protected_entry" <=> s.current = NONE
  BY DEF Ledgers
<1>2. result \notin Rejections
  BY DEF ApplyAdmitted
<1>3. EmptyLedger \in Ledgers
  BY DEF Ledgers, EmptyLedger
<1>4. ASSUME result \in Unresolved(r.kind), NEW c \in Ownerships \cup {NONE},
             r.kind = "protected_entry" <=> c = NONE
      PROVE  KeptOpen(c, r, result) \in Ledgers
  <2>1. [request |-> r, state |-> result] \in Pendings
    BY <1>4, RequestKinds DEF Pendings, Unresolved
  <2> QED BY <1>4, <2>1 DEF KeptOpen, Ledgers
<1>5. CASE r.kind = "protected_entry"
  <2>1. CASE result = "open_protected"
    BY <1>5, <2>1, EntryOwned DEF Applied, AppliedEntry, Ledgers
  <2>2. CASE result = "emergency_flatten_confirmed"
    BY <1>5, <1>3, <2>2 DEF Applied, AppliedEntry
  <2>3. CASE result \in Unresolved(r.kind)
    <3>1. KeptOpen(NONE, r, result) \in Ledgers
      BY <1>4, <1>5, <2>3
    <3> QED BY <1>5, <2>3, <3>1 DEF Applied, AppliedEntry, Unresolved
  <2> QED BY <1>2, <1>5, <2>1, <2>2, <2>3 DEF Results, Rejections
<1>6. CASE r.kind = "protection_revision"
  <2>1. Revised(r) \in Ownerships /\ Revised(r) # NONE
    BY <1>6, RevisedOwned, NoneAssumption
  <2>2. CASE result = "revision_protected"
    BY <1>6, <2>1, <2>2 DEF Applied, AppliedRevision, Ledgers
  <2>3. CASE result \in Unresolved(r.kind)
    <3>1. KeptOpen(s.current, r, result) \in Ledgers
      BY <1>1, <1>4, <1>6, <2>3 DEF Ledgers
    <3>2. KeptOpen(Revised(r), r, result) \in Ledgers
      BY <1>4, <1>6, <2>1, <2>3
    <3>3. result # "revision_protected" /\ result # "reduction_rejected"
      BY <1>6, <2>3 DEF Unresolved
    <3> QED BY <1>6, <3>1, <3>2, <3>3 DEF Applied, AppliedRevision
  <2> QED BY <1>2, <1>6, <2>2, <2>3 DEF Results, Rejections
<1>7. CASE r.kind = "owned_position_close"
  <2>1. CASE result = "closed"
    BY <1>7, <1>3, <2>1 DEF Applied, AppliedClose
  <2>2. CASE result \in Unresolved(r.kind)
    <3>1. KeptOpen(s.current, r, result) \in Ledgers
      BY <1>1, <1>4, <1>7, <2>2 DEF Ledgers
    <3> QED BY <1>7, <2>2, <3>1 DEF Applied, AppliedClose, Unresolved
  <2> QED BY <1>7, <2>1, <2>2 DEF Results
<1> QED BY <1>5, <1>6, <1>7, RequestKinds

-----------------------------------------------------------------------------
(* The orchestrators: types and memory.  MemoryAgrees is inductive once the *)
(* types are known: a save by anybody takes `fresh` from everybody else.    *)

OrchInv == OrchTypeOK /\ MemoryAgrees

Operations ==
    [pc : Phases, request : Requests \cup {NONE}, fresh : BOOLEAN, state : Ledgers]

(* An idle operation is a typed one.                                        *)
LEMMA IdleTyped == Idle \in Operations
BY DEF Idle, Operations, Phases, Ledgers, EmptyLedger

(* A request's id is an intent.                                             *)
LEMMA RequestIntents == ASSUME NEW r \in Requests PROVE r.id \in Intents
BY DEF Requests, EntryRequests, RevisionRequests, CloseRequests, Intents

(* The invariant holds of an empty record and idle processes.               *)
LEMMA OrchInitInv == OrchInit => OrchInv
<1> SUFFICES ASSUME OrchInit PROVE OrchInv
  OBVIOUS
<1>1. EmptyLedger \in Ledgers
  BY DEF EmptyLedger, Ledgers
<1>2. submitted \in [Intents -> 0 .. MaxSubmissions]
  BY OrchestratorAssumption DEF OrchInit
<1>3. \A o \in Orchestrators : orch[o].pc = "idle"
  BY DEF OrchInit, Idle
<1> QED BY <1>1, <1>2, <1>3, IdleTyped DEF OrchInit, OrchInv, OrchTypeOK, MemoryAgrees, Operations

(* An operation moves on, and nothing is saved. *)
LEMMA OperationMoves ==
    ASSUME OrchInv, NEW o \in Orchestrators, NEW op \in Operations,
           orch' = [orch EXCEPT ![o] = op], UNCHANGED <<store, submitted>>,
           op.pc # "idle" =>
               /\ op.request \in Requests
               /\ op.fresh => op.state = store
               /\ op.pc = "staging" => StageAdmitted(op.state, op.request)
               /\ op.pc \in {"effect", "recovering"} =>
                     op.state.pending # NONE /\ op.state.pending.request = op.request
    PROVE  OrchInv'
<1>1. OrchTypeOK'
  BY DEF OrchInv, OrchTypeOK, Operations
<1>2. ASSUME NEW q \in Orchestrators PROVE orch'[q] = IF q = o THEN op ELSE orch[q]
  BY DEF OrchInv, OrchTypeOK
<1>3. MemoryAgrees'
  BY <1>2 DEF OrchInv, MemoryAgrees
<1> QED BY <1>1, <1>3 DEF OrchInv

(* An operation saves a valid record, and moves on. *)
LEMMA OperationSaves ==
    ASSUME OrchInv, NEW o \in Orchestrators, NEW op \in Operations, NEW s \in Ledgers,
           Saved(o, s, op), submitted' \in [Intents -> 0 .. MaxSubmissions],
           op.pc \in {"idle", "effect"},
           op.pc = "effect" =>
               /\ op.request \in Requests
               /\ op.state = s
               /\ s.pending # NONE
               /\ s.pending.request = op.request
    PROVE  OrchInv'
<1>1. ASSUME NEW q \in Orchestrators
      PROVE  /\ orch'[q] = IF q = o THEN op ELSE [orch[q] EXCEPT !.fresh = FALSE]
             /\ orch'[q] \in Operations
             /\ q # o => /\ orch'[q].pc = orch[q].pc
                         /\ orch'[q].request = orch[q].request
                         /\ orch'[q].state = orch[q].state
                         /\ orch'[q].fresh = FALSE
  BY DEF Saved, OrchInv, OrchTypeOK, Operations
<1>2. OrchTypeOK'
  <2>1. store' \in Ledgers
    BY DEF Saved
  <2>2. orch' \in [Orchestrators -> Operations]
    BY <1>1 DEF Saved
  <2> QED BY <2>1, <2>2 DEF OrchTypeOK, Operations
<1>3. MemoryAgrees'
  <2> SUFFICES ASSUME NEW q \in Orchestrators
               PROVE  /\ orch'[q].pc # "idle" /\ orch'[q].fresh => orch'[q].state = store'
                      /\ orch'[q].pc # "idle" => orch'[q].request \in Requests
                      /\ orch'[q].pc = "staging" => StageAdmitted(orch'[q].state, orch'[q].request)
                      /\ orch'[q].pc \in {"effect", "recovering"} =>
                            /\ orch'[q].state.pending # NONE
                            /\ orch'[q].state.pending.request = orch'[q].request
    BY DEF MemoryAgrees
  <2>1. CASE q = o
    BY <1>1, <2>1 DEF Saved
  <2>2. CASE q # o
    BY <1>1, <2>2 DEF OrchInv, MemoryAgrees
  <2> QED BY <2>1, <2>2
<1> QED BY <1>2, <1>3 DEF OrchInv

(* Beginning an operation keeps the invariant.                              *)
LEMMA ExecuteInv ==
    ASSUME OrchInv, NEW o \in Orchestrators, NEW r \in Requests, Execute(o, r)
    PROVE  OrchInv'
<1> DEFINE op == [pc |-> "staging", request |-> r, fresh |-> TRUE, state |-> store]
<1>1. op \in Operations
  BY DEF OrchInv, OrchTypeOK, Operations, Phases
<1>2. /\ orch' = [orch EXCEPT ![o] = op] /\ UNCHANGED <<store, submitted>>
      /\ StageAdmitted(op.state, op.request)
  BY DEF Execute
<1> QED BY <1>1, <1>2, OperationMoves

(* Beginning a recovery keeps the invariant.                                *)
LEMMA BeginRecoveryInv ==
    ASSUME OrchInv, NEW o \in Orchestrators, BeginRecovery(o)
    PROVE  OrchInv'
<1> DEFINE op == [pc |-> "recovering", request |-> store.pending.request, fresh |-> TRUE,
                  state |-> store]
<1>1. store \in Ledgers /\ store.pending # NONE
  BY DEF OrchInv, OrchTypeOK, BeginRecovery
<1>2. store.pending.request \in Requests
  BY <1>1 DEF Ledgers, Pendings
<1>3. op \in Operations
  BY <1>1, <1>2 DEF Operations, Phases
<1>4. orch' = [orch EXCEPT ![o] = op] /\ UNCHANGED <<store, submitted>>
  BY DEF BeginRecovery
<1> QED BY <1>1, <1>2, <1>3, <1>4, OperationMoves

(* A process that stops or throws keeps the invariant.                      *)
LEMMA AbandonInv ==
    ASSUME OrchInv, NEW o \in Orchestrators,
           orch' = [orch EXCEPT ![o] = Idle], UNCHANGED <<store, submitted>>
    PROVE  OrchInv'
<1>1. Idle.pc = "idle"
  BY DEF Idle
<1> QED BY <1>1, IdleTyped, OperationMoves

(* The staged record is valid, pending for the request whose effect begins. *)
LEMMA SaveStagedInv ==
    ASSUME OrchInv, NEW o \in Orchestrators, SaveStaged(o)
    PROVE  OrchInv'
<1> DEFINE r == orch[o].request
           s == Staged(orch[o].state, r)
           op == [orch[o] EXCEPT !.pc = "effect", !.state = s, !.fresh = TRUE]
<1>1. /\ orch[o] \in Operations /\ r \in Requests /\ orch[o].state \in Ledgers
      /\ StageAdmitted(orch[o].state, r)
  BY DEF OrchInv, OrchTypeOK, MemoryAgrees, Operations, SaveStaged
<1>2. s \in Ledgers /\ s.pending # NONE /\ s.pending.request = r
  BY <1>1, StagedValid
<1>3. CASE VersionMatches(o)
  <2>1. /\ op \in Operations /\ op.pc = "effect" /\ op.request = r /\ op.state = s
    BY <1>1, <1>2 DEF Operations, Phases
  <2>2. Saved(o, s, op) /\ submitted' = [submitted EXCEPT ![r.id] = @ + 1]
        /\ submitted[r.id] < MaxSubmissions
    BY <1>3 DEF SaveStaged
  <2>3. submitted' \in [Intents -> 0 .. MaxSubmissions]
    BY <1>1, <2>2, RequestIntents, OrchestratorAssumption DEF OrchInv, OrchTypeOK
  <2> HIDE DEF op, s, r
  <2>4. op.request \in Requests
    BY <1>1, <2>1
  <2> QED BY <1>2, <2>1, <2>2, <2>3, <2>4, OperationSaves
<1>4. CASE ~VersionMatches(o)
  BY <1>4, AbandonInv DEF SaveStaged
<1> QED BY <1>3, <1>4

(* A saved result is one the record admits for its own pending request. *)
LEMMA EffectReturnsInv ==
    ASSUME OrchInv, NEW o \in Orchestrators, NEW result, NEW proven,
           EffectReturns(o, result, proven)
    PROVE  OrchInv'
<1> DEFINE op == orch[o]
<1>1. /\ op.state \in Ledgers /\ op.request \in Requests
      /\ op.state.pending # NONE /\ op.state.pending.request = op.request
      /\ result \in Results(op.request.kind)
  BY DEF OrchInv, OrchTypeOK, MemoryAgrees, Operations, EffectReturns
<1>2. CASE ApplyAdmitted(op.state, op.request, result, proven) /\ VersionMatches(o)
  <2>1. Applied(op.state, op.request, result) \in Ledgers
    BY <1>1, <1>2, AppliedValid
  <2>2. Saved(o, Applied(op.state, op.request, result), Idle) /\ UNCHANGED submitted
    BY <1>2 DEF EffectReturns
  <2>3. submitted' \in [Intents -> 0 .. MaxSubmissions]
    BY <2>2 DEF OrchInv, OrchTypeOK
  <2>4. Idle.pc = "idle"
    BY DEF Idle
  <2> QED BY <2>1, <2>2, <2>3, <2>4, IdleTyped, OperationSaves
<1>3. CASE ~(ApplyAdmitted(op.state, op.request, result, proven) /\ VersionMatches(o))
  BY <1>3, AbandonInv DEF EffectReturns
<1> QED BY <1>2, <1>3

(* Every step of the orchestrators keeps the invariant.                     *)
LEMMA OrchStepInv == OrchInv /\ [OrchNext]_orchVars => OrchInv'
<1> SUFFICES ASSUME OrchInv, [OrchNext]_orchVars PROVE OrchInv'
  OBVIOUS
<1>1. CASE UNCHANGED orchVars
  BY <1>1 DEF orchVars, OrchInv, OrchTypeOK, MemoryAgrees
<1>2. ASSUME NEW o \in Orchestrators, NEW r \in Requests, Execute(o, r) PROVE OrchInv'
  BY <1>2, ExecuteInv
<1>3. ASSUME NEW o \in Orchestrators, SaveStaged(o) PROVE OrchInv'
  BY <1>3, SaveStagedInv
<1>4. ASSUME NEW o \in Orchestrators, BeginRecovery(o) PROVE OrchInv'
  BY <1>4, BeginRecoveryInv
<1>5. ASSUME NEW o \in Orchestrators, NEW result, NEW proven, EffectReturns(o, result, proven)
      PROVE  OrchInv'
  BY <1>5, EffectReturnsInv
<1>6. ASSUME NEW o \in Orchestrators, Abandon(o) PROVE OrchInv'
  BY <1>6, AbandonInv DEF Abandon
<1> QED BY <1>1, <1>2, <1>3, <1>4, <1>5, <1>6 DEF OrchNext

(* Types: the record is always valid, whoever writes it, and every effect   *)
(* counter stays within its bound.                                          *)
THEOREM OrchTypeCorrect == OrchSpec => []OrchTypeOK
<1>1. OrchInv => OrchTypeOK
  BY DEF OrchInv
<1> QED BY <1>1, OrchInitInv, OrchStepInv, PTL DEF OrchSpec

(* Memory: an operation nobody overtook holds what is stored, and an effect *)
(* in progress was stored as pending before it began.                       *)
THEOREM MemoryAlwaysAgrees == OrchSpec => []MemoryAgrees
<1>1. OrchInv => MemoryAgrees
  BY DEF OrchInv
<1> QED BY <1>1, OrchInitInv, OrchStepInv, PTL DEF OrchSpec

-----------------------------------------------------------------------------
(* Every save is a step of the single writer.                              *)

(* How a step changes the record: it stages a request over a settled one,   *)
(* or applies an admitted result of the pending request.                    *)
Stages(r) ==
    /\ store.pending = NONE
    /\ StageAdmitted(store, r)
    /\ store' = Staged(store, r)

Applies(result) ==
    /\ store.pending # NONE
    /\ store.pending.request \in Requests
    /\ result \in Results(store.pending.request.kind)
    /\ ApplyAdmitted(store, store.pending.request, result, TRUE)
    /\ store' = Applied(store, store.pending.request, result)

(* A stage that is saved is a stage of the record.                          *)
LEMMA SaveStagedStages ==
    ASSUME OrchInv, NEW o \in Orchestrators, SaveStaged(o)
    PROVE  store' = store \/ \E r \in Requests : Stages(r)
<1> DEFINE r == orch[o].request
<1>1. CASE ~VersionMatches(o)
  BY <1>1 DEF SaveStaged
<1>2. CASE VersionMatches(o)
  <2>1. /\ r \in Requests /\ orch[o].state = store /\ StageAdmitted(store, r)
    BY <1>2 DEF OrchInv, MemoryAgrees, SaveStaged, VersionMatches
  <2>2. store' = Staged(store, r)
    BY <1>2, <2>1 DEF SaveStaged, Saved
  <2>3. CASE store.pending = NONE
    BY <2>1, <2>2, <2>3 DEF Stages
  <2>4. CASE store.pending # NONE
    BY <2>2, <2>4 DEF Staged
  <2> QED BY <2>3, <2>4
<1> QED BY <1>1, <1>2

(* A result that is saved is applied to the pending request of the record.  *)
LEMMA EffectReturnsApplies ==
    ASSUME OrchInv, NEW o \in Orchestrators, NEW result, NEW proven,
           EffectReturns(o, result, proven)
    PROVE  store' = store \/ Applies(result)
<1> DEFINE op == orch[o]
<1>1. CASE ApplyAdmitted(op.state, op.request, result, proven) /\ VersionMatches(o)
  <2>1. /\ op.state = store /\ store.pending # NONE /\ store.pending.request = op.request
        /\ op.request \in Requests /\ result \in Results(op.request.kind)
    BY <1>1 DEF OrchInv, MemoryAgrees, EffectReturns, VersionMatches
  <2>2. store' = Applied(store, op.request, result)
    BY <1>1, <2>1 DEF EffectReturns, Saved
  <2>3. ApplyAdmitted(store, op.request, result, TRUE)
    BY <1>1, <2>1 DEF ApplyAdmitted
  <2> QED BY <2>1, <2>2, <2>3 DEF Applies
<1>2. CASE ~(ApplyAdmitted(op.state, op.request, result, proven) /\ VersionMatches(o))
  BY <1>2 DEF EffectReturns
<1> QED BY <1>1, <1>2

(* The record changes only by staging a request or applying a result.       *)
LEMMA StoreSteps ==
    ASSUME OrchInv, [OrchNext]_orchVars
    PROVE  \/ store' = store
           \/ \E r \in Requests : Stages(r)
           \/ \E result : Applies(result)
<1>1. CASE UNCHANGED orchVars
  BY <1>1 DEF orchVars
<1>2. ASSUME NEW o \in Orchestrators, NEW r \in Requests, Execute(o, r) PROVE store' = store
  BY <1>2 DEF Execute
<1>3. ASSUME NEW o \in Orchestrators, BeginRecovery(o) PROVE store' = store
  BY <1>3 DEF BeginRecovery
<1>4. ASSUME NEW o \in Orchestrators, Abandon(o) PROVE store' = store
  BY <1>4 DEF Abandon
<1> QED BY <1>1, <1>2, <1>3, <1>4, SaveStagedStages, EffectReturnsApplies DEF OrchNext

(* The operators the instance brings are this module's own. *)
LEMMA LedgerOperators ==
    /\ Ledger!Requests = Requests
    /\ Ledger!EmptyLedger = EmptyLedger
    /\ \A kind : Ledger!Results(kind) = Results(kind)
    /\ \A s, r : Ledger!StageAdmitted(s, r) <=> StageAdmitted(s, r)
    /\ \A s, r : Ledger!Staged(s, r) = Staged(s, r)
    /\ \A s, r, x, proven : Ledger!ApplyAdmitted(s, r, x, proven) <=> ApplyAdmitted(s, r, x, proven)
    /\ \A s, r, x : Ledger!Applied(s, r, x) = Applied(s, r, x)
<1>1. Ledger!Requests = Requests
  BY DEF Requests, EntryRequests, RevisionRequests, Ledger!Requests, Ledger!EntryRequests, Ledger!RevisionRequests,
         CloseRequests, Ownerships, Quantities, RevisionValid, Ledger!CloseRequests, Ledger!Ownerships, Ledger!Quantities, Ledger!RevisionValid,
         StopIds, TargetIds, ClientId, Ledger!StopIds, Ledger!TargetIds, Ledger!ClientId
<1>2. Ledger!EmptyLedger = EmptyLedger
  BY DEF EmptyLedger, Ledger!EmptyLedger
<1>3. \A kind : Ledger!Results(kind) = Results(kind)
  BY DEF Results, Unresolved, Ledger!Results, Ledger!Unresolved
<1>4. \A s, r : Ledger!StageAdmitted(s, r) <=> StageAdmitted(s, r)
  BY DEF StageAdmitted, TransitionAvailable, Ledger!StageAdmitted, Ledger!TransitionAvailable
<1>5. \A s, r : Ledger!Staged(s, r) = Staged(s, r)
  BY DEF Staged, Ledger!Staged
<1>6. \A s, r, x, proven : Ledger!ApplyAdmitted(s, r, x, proven) <=> ApplyAdmitted(s, r, x, proven)
  BY DEF ApplyAdmitted, TransitionAvailable, Ledger!ApplyAdmitted, Ledger!TransitionAvailable,
         Rejections, ProofRequired, Ledger!Rejections, Ledger!ProofRequired
<1>7. \A s, r, x : Ledger!Applied(s, r, x) = Applied(s, r, x)
  <2>1. \A r : Ledger!OwnedBy(r) = OwnedBy(r) /\ Ledger!Revised(r) = Revised(r)
    BY DEF OwnedBy, Revised, ClientId, Ledger!OwnedBy, Ledger!Revised, Ledger!ClientId
  <2>2. \A c, r, x : Ledger!KeptOpen(c, r, x) = KeptOpen(c, r, x)
    BY DEF KeptOpen, Ledger!KeptOpen
  <2>3. \A s, r, x : Ledger!AppliedEntry(s, r, x) = AppliedEntry(s, r, x)
    BY <1>2, <2>1, <2>2 DEF AppliedEntry, Ledger!AppliedEntry
  <2>4. \A s, r, x : Ledger!AppliedRevision(s, r, x) = AppliedRevision(s, r, x)
    BY <2>1, <2>2 DEF AppliedRevision, Ledger!AppliedRevision
  <2>5. \A s, r, x : Ledger!AppliedClose(s, r, x) = AppliedClose(s, r, x)
    BY <1>2, <2>2 DEF AppliedClose, Ledger!AppliedClose
  <2> QED BY <2>3, <2>4, <2>5 DEF Applied, Ledger!Applied
<1> QED BY <1>1, <1>2, <1>3, <1>4, <1>5, <1>6, <1>7

(* ADR-0014: the record several processes share evolves as that of a single *)
(* writer, however their operations interleave, end and recover.            *)
THEOREM SharedRecordHasOneWriter == OrchSpec => SingleWriter
<1>1. OrchInit => Ledger!Init
  BY LedgerOperators DEF OrchInit, Ledger!Init
<1>2. OrchInv /\ [OrchNext]_orchVars => [Ledger!Next]_store
  <2> SUFFICES ASSUME OrchInv, [OrchNext]_orchVars PROVE store' = store \/ Ledger!Next
    OBVIOUS
  <2>1. ASSUME NEW r \in Requests, Stages(r) PROVE Ledger!Next
    <3>1. Ledger!Stage(r)
      BY <2>1, LedgerOperators DEF Stages, Ledger!Stage
    <3> QED BY <3>1, LedgerOperators DEF Ledger!Next
  <2>2. ASSUME NEW x, Applies(x) PROVE Ledger!Next
    <3>1. Ledger!Advance(x)
      BY <2>2, LedgerOperators DEF Applies, Ledger!Advance
    <3>2. /\ x \in Ledger!Results(store.pending.request.kind)
          /\ store.pending.request.kind
                \in {"protected_entry", "protection_revision", "owned_position_close"}
      BY <2>2, LedgerOperators, RequestKinds DEF Applies
    <3> QED BY <3>1, <3>2 DEF Ledger!Next
  <2> QED BY <2>1, <2>2, StoreSteps
<1> QED BY <1>1, <1>2, OrchInitInv, OrchStepInv, PTL DEF OrchSpec, SingleWriter, Ledger!Spec

-----------------------------------------------------------------------------
(* The pointer.                                                            *)

(* A pending revision is one of the current position, or has replaced it    *)
(* already and awaits the cleanup.                                          *)
RevisionOfCurrent ==
    store.pending # NONE /\ store.pending.request.kind = "protection_revision" =>
        store.current \in {store.pending.request.current, Revised(store.pending.request)}

(* Every step keeps a pending revision one of the current position.         *)
LEMMA RevisionOfCurrentStep ==
    ASSUME OrchInv, RevisionOfCurrent, [OrchNext]_orchVars
    PROVE  RevisionOfCurrent'
<1>1. CASE store' = store
  BY <1>1 DEF RevisionOfCurrent
<1>2. ASSUME NEW r \in Requests, Stages(r) PROVE RevisionOfCurrent'
  <2>1. store \in Ledgers
    BY DEF OrchInv, OrchTypeOK
  <2>2. store'.pending.request = r /\ store'.current = store.current
    BY <1>2, <2>1, StagedValid DEF Stages
  <2>3. r.kind = "protection_revision" => store.current = r.current
    BY <1>2 DEF Stages, StageAdmitted
  <2> QED BY <2>2, <2>3 DEF RevisionOfCurrent
<1>3. ASSUME NEW result, Applies(result) PROVE RevisionOfCurrent'
  <2> DEFINE r == store.pending.request
  <2>1. /\ r \in Requests /\ store' = Applied(store, r, result) /\ store.pending # NONE
        /\ result \in Results(r.kind) /\ result \notin Rejections
    BY <1>3 DEF Applies, ApplyAdmitted
  <2>2. CASE r.kind = "protected_entry"
    BY <2>1, <2>2, NoneAssumption
       DEF Applied, AppliedEntry, EmptyLedger, KeptOpen, RevisionOfCurrent
  <2>3. CASE r.kind = "protection_revision"
    <3>1. CASE result = "revision_protected"
      BY <2>1, <2>3, <3>1 DEF Applied, AppliedRevision, RevisionOfCurrent
    <3>2. CASE result = "revision_protected_cleanup_pending"
      BY <2>1, <2>3, <3>2 DEF Applied, AppliedRevision, KeptOpen, RevisionOfCurrent
    <3>3. CASE result \notin {"revision_protected", "revision_protected_cleanup_pending",
                              "reduction_rejected"}
      BY <2>1, <2>3, <3>3 DEF Applied, AppliedRevision, KeptOpen, RevisionOfCurrent
    <3> QED BY <2>1, <3>1, <3>2, <3>3 DEF Rejections
  <2>4. CASE r.kind = "owned_position_close"
    BY <2>1, <2>4 DEF Applied, AppliedClose, EmptyLedger, KeptOpen, RevisionOfCurrent
  <2> QED BY <2>1, <2>2, <2>3, <2>4, RequestKinds
<1> QED BY <1>1, <1>2, <1>3, StoreSteps

(* FR-003 of the binding: the pointer moves only as the pending request     *)
(* says, and a position under management never grows.                       *)
THEOREM PointerAlwaysFollows == OrchSpec => PointerFollowsRequest
<1> DEFINE r == store.pending.request
           Follows ==
             /\ store.pending # NONE
             /\ store'.current = CASE r.kind = "protected_entry" -> OwnedBy(r)
                                   [] r.kind = "protection_revision" -> Revised(r)
                                   [] OTHER -> NONE
             /\ (store.current # NONE /\ store'.current # NONE =>
                    /\ store'.current.position = store.current.position
                    /\ store'.current.qty <= store.current.qty)
           Moves == store'.current # store.current => Follows
<1>1. OrchInv /\ RevisionOfCurrent /\ [OrchNext]_orchVars => Moves
  <2> SUFFICES ASSUME OrchInv, RevisionOfCurrent, [OrchNext]_orchVars,
                      store'.current # store.current
               PROVE  Follows
    OBVIOUS
  <2>1. store \in Ledgers
    BY DEF OrchInv, OrchTypeOK
  <2>2. ASSUME NEW q \in Requests, Stages(q) PROVE FALSE
    BY <2>1, <2>2, StagedValid DEF Stages
  <2>3. PICK result : Applies(result)
    BY <2>2, StoreSteps
  <2>4. /\ r \in Requests /\ store' = Applied(store, r, result) /\ store.pending # NONE
        /\ result \in Results(r.kind) /\ result \notin Rejections
    BY <2>3 DEF Applies, ApplyAdmitted
  <2>5. CASE r.kind = "protected_entry"
    <3>1. store.current = NONE
      BY <2>1, <2>4, <2>5 DEF Ledgers
    <3>2. CASE result = "open_protected"
      BY <2>4, <2>5, <3>1, <3>2 DEF Applied, AppliedEntry
    <3>3. CASE result # "open_protected"
      BY <2>4, <2>5, <3>1, <3>3 DEF Applied, AppliedEntry, EmptyLedger, KeptOpen
    <3> QED BY <3>2, <3>3
  <2>6. CASE r.kind = "protection_revision"
    <3>1. store'.current = Revised(r)
      BY <2>4, <2>6 DEF Applied, AppliedRevision, KeptOpen, Rejections
    <3>2. store.current = r.current
      BY <2>4, <2>6, <3>1 DEF RevisionOfCurrent
    <3> QED BY <2>4, <2>6, <3>1, <3>2, RevisedOwned
  <2>7. CASE r.kind = "owned_position_close"
    BY <2>4, <2>7 DEF Applied, AppliedClose, EmptyLedger, KeptOpen
  <2> QED BY <2>4, <2>5, <2>6, <2>7, RequestKinds
<1>2. OrchInit => RevisionOfCurrent
  BY DEF OrchInit, EmptyLedger, RevisionOfCurrent
<1>3. OrchSpec => []RevisionOfCurrent
  BY <1>2, OrchInitInv, OrchStepInv, RevisionOfCurrentStep, PTL DEF OrchSpec
<1> QED BY <1>1, <1>3, OrchInitInv, OrchStepInv, PTL DEF OrchSpec, PointerFollowsRequest

-----------------------------------------------------------------------------
(* Submissions.                                                            *)

(* Nobody who may still save has a request that was submitted before. *)
Unsubmitted ==
    /\ SubmittedOnce
    /\ \A o \in Orchestrators :
          orch[o].pc = "staging" /\ orch[o].fresh => submitted[orch[o].request.id] = 0

(* Every step keeps an unsaved request unsubmitted, if callers do not       *)
(* resubmit.                                                                *)
LEMMA UnsubmittedStep ==
    ASSUME ~Resubmission, OrchInv, Unsubmitted, [OrchNext]_orchVars
    PROVE  Unsubmitted'
<1>1. CASE UNCHANGED orchVars
  BY <1>1 DEF orchVars, Unsubmitted, SubmittedOnce
<1>2. ASSUME NEW o \in Orchestrators, NEW op \in Operations,
             orch' = [orch EXCEPT ![o] = op], UNCHANGED submitted,
             op.pc = "staging" => submitted[op.request.id] = 0
      PROVE  Unsubmitted'
  <2>1. ASSUME NEW q \in Orchestrators PROVE orch'[q] = IF q = o THEN op ELSE orch[q]
    BY <1>2 DEF OrchInv, OrchTypeOK
  <2> QED BY <1>2, <2>1 DEF Unsubmitted, SubmittedOnce
<1>3. ASSUME NEW o \in Orchestrators, NEW op \in Operations, NEW s, Saved(o, s, op),
             op.pc # "staging", SubmittedOnce'
      PROVE  Unsubmitted'
  <2>1. ASSUME NEW q \in Orchestrators
        PROVE  orch'[q] = IF q = o THEN op ELSE [orch[q] EXCEPT !.fresh = FALSE]
    BY <1>3 DEF Saved
  <2>2. ASSUME NEW q \in Orchestrators PROVE orch'[q].pc # "staging" \/ ~orch'[q].fresh
    BY <1>3, <2>1 DEF OrchInv, OrchTypeOK, Operations
  <2> QED BY <1>3, <2>2 DEF Unsubmitted
<1>4. Idle.pc # "staging"
  BY DEF Idle
<1>5. ASSUME NEW o \in Orchestrators, NEW r \in Requests, Execute(o, r) PROVE Unsubmitted'
  <2> DEFINE op == [pc |-> "staging", request |-> r, fresh |-> TRUE, state |-> store]
  <2>1. op \in Operations
    BY DEF OrchInv, OrchTypeOK, Operations, Phases
  <2>2. submitted[op.request.id] = 0 /\ orch' = [orch EXCEPT ![o] = op] /\ UNCHANGED submitted
    BY <1>5 DEF Execute
  <2> QED BY <1>2, <2>1, <2>2
<1>6. ASSUME NEW o \in Orchestrators, SaveStaged(o) PROVE Unsubmitted'
  <2> DEFINE r == orch[o].request
             s == Staged(orch[o].state, r)
             op == [orch[o] EXCEPT !.pc = "effect", !.state = s, !.fresh = TRUE]
  <2>1. CASE ~VersionMatches(o)
    BY <1>2, <1>4, <1>6, <2>1, IdleTyped DEF SaveStaged
  <2>2. CASE VersionMatches(o)
    <3>1. /\ orch[o] \in Operations /\ r \in Requests /\ orch[o].state \in Ledgers
          /\ StageAdmitted(orch[o].state, r) /\ submitted[r.id] = 0
      BY <1>6, <2>2
         DEF OrchInv, OrchTypeOK, MemoryAgrees, Operations, SaveStaged, VersionMatches, Unsubmitted
    <3>2. s \in Ledgers
      BY <3>1, StagedValid
    <3>3. op \in Operations /\ op.pc = "effect"
      BY <3>1, <3>2 DEF Operations, Phases
    <3>4. Saved(o, s, op) /\ submitted' = [submitted EXCEPT ![r.id] = @ + 1]
      BY <1>6, <2>2 DEF SaveStaged
    <3>5. SubmittedOnce'
      BY <3>1, <3>4, RequestIntents DEF OrchInv, OrchTypeOK, Unsubmitted, SubmittedOnce
    <3> HIDE DEF op
    <3> QED BY <1>3, <3>3, <3>4, <3>5
  <2> QED BY <2>1, <2>2
<1>7. ASSUME NEW o \in Orchestrators, BeginRecovery(o) PROVE Unsubmitted'
  <2> DEFINE op == [pc |-> "recovering", request |-> store.pending.request, fresh |-> TRUE,
                    state |-> store]
  <2>1. op \in Operations /\ op.pc # "staging"
    BY <1>7 DEF OrchInv, OrchTypeOK, BeginRecovery, Ledgers, Pendings, Operations, Phases
  <2> QED BY <1>2, <1>7, <2>1 DEF BeginRecovery
<1>8. ASSUME NEW o \in Orchestrators, NEW result, NEW proven, EffectReturns(o, result, proven)
      PROVE  Unsubmitted'
  <2>1. SubmittedOnce'
    BY <1>8 DEF EffectReturns, Unsubmitted, SubmittedOnce
  <2> QED BY <1>2, <1>3, <1>4, <1>8, <2>1, IdleTyped DEF EffectReturns
<1>9. ASSUME NEW o \in Orchestrators, Abandon(o) PROVE Unsubmitted'
  BY <1>2, <1>4, <1>9, IdleTyped DEF Abandon
<1> QED BY <1>1, <1>5, <1>6, <1>7, <1>8, <1>9 DEF OrchNext

(* SC-001 of the mutation contract, with callers that do not hand in a plan *)
(* again: over any number of processes, no intent begins two effects.       *)
THEOREM NoIntentIsSubmittedTwice == ~Resubmission => (OrchSpec => []SubmittedOnce)
<1> SUFFICES ASSUME ~Resubmission PROVE OrchSpec => []SubmittedOnce
  OBVIOUS
<1>1. OrchInit => Unsubmitted
  BY DEF OrchInit, Idle, Unsubmitted, SubmittedOnce
<1>2. OrchInv /\ Unsubmitted /\ [OrchNext]_orchVars => Unsubmitted'
  BY UnsubmittedStep
<1>3. Unsubmitted => SubmittedOnce
  BY DEF Unsubmitted
<1> QED BY <1>1, <1>2, <1>3, OrchInitInv, OrchStepInv, PTL DEF OrchSpec

=============================================================================
