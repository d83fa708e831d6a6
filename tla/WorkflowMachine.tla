---------------------------- MODULE WorkflowMachine ----------------------------
(* The declarative state machine over a durable run (workflow_state_machine.rs,
   workflow.rs, schemas/workflow.rs). Every transition is one ledger step, whose
   kind says what it carries: a plain edge, an entry that binds the approval request
   of the state entered, or a departure that the bound approval authorizes. Several
   machines may be opened on one run; the process may drop any of them between the
   intent and the completion of a step.

   Simplifications. A request's payload and target digests are one value, `digest`,
   None when it is unbound. A store call does not fail, and a caller drops a
   machine whose call failed. *)
EXTENDS Naturals, Sequences, FiniteSets, WorkflowLedger

CONSTANTS
    Machines,      \* callers, each with its own WorkflowStateMachine
    Manifests,     \* id -> [initial, required, action, edges]
    ActionRequests,\* id -> [action, digest]: stored action requests
    ApprovalLife,  \* bound: ticks an approval is valid
    SmMaxTime,     \* bound: wall clock
    SmMaxSteps     \* bound: steps of the run

Required(m, s) == s \in DOMAIN Manifests[m].required

(* WorkflowManifest::validate. *)
ValidManifest(m) ==
    LET states == {Manifests[m].initial} \cup UNION {{e[1], e[2]} : e \in Manifests[m].edges}
    IN  /\ DOMAIN Manifests[m].required \subseteq states
        /\ \A e \in Manifests[m].edges : ~(Required(m, e[1]) /\ Required(m, e[2]))

AllStates == UNION {{e[2] : e \in Manifests[m].edges} : m \in DOMAIN Manifests}

(* The outcome of an entry step: the request it binds. *)
EntryBinding(target, request) ==
    [target |-> target, request |-> request, action |-> ActionRequests[request].action,
     digest |-> ActionRequests[request].digest]

ASSUME WorkflowMachineAssumption ==
    /\ {ApprovalLife, SmMaxTime, SmMaxSteps} \subseteq Nat
    /\ \A m \in DOMAIN Manifests : ValidManifest(m) /\ None # [target |-> m]
    /\ \A s \in AllStates : None # [target |-> s]
    /\ \A s \in AllStates, r \in DOMAIN ActionRequests : None # EntryBinding(s, r)

VARIABLES
    smLedger,    \* the run's audit rows
    smCtx,       \* the open machines: pc, manifest, cursor, view, state, pending step
    smApprovals, \* request -> None, or [digest, expires] of the owner's approval
    smClock

smVars == <<smLedger, smCtx, smApprovals, smClock>>

Closed == [pc |-> "closed", manifest |-> None, cursor |-> 0, view |-> <<>>,
           state |-> None, out |-> None]

SmInit ==
    /\ smLedger = <<>>
    /\ smCtx = [c \in Machines |-> Closed]
    /\ smApprovals = [r \in DOMAIN ActionRequests |-> None]
    /\ smClock = 0

------------------------------------------------------------------------------
(* Replay *)

(* The completed steps, in pending order. *)
CompletedSteps(view) == {s \in DOMAIN view : view[s].completed # None}
TransitionKinds == {"transition", "entry_binding", "approval"}
Moves(view)     == {s \in CompletedSteps(view) : view[s].kind \in TransitionKinds}
LastOf(S)       == CHOOSE s \in S : \A t \in S : t <= s

(* last_completed_transition_target *)
StateAfter(m, view) ==
    IF Moves(view) = {} THEN Manifests[m].initial ELSE view[LastOf(Moves(view))].completed.target

Earlier(view, s) == [t \in {u \in DOMAIN view : u < s} |-> view[t]]
StateBefore(m, view, s) == StateAfter(m, Earlier(view, s))

(* entry_binding_for_state: the latest completed binding of that state. *)
BindingsOf(view, state) ==
    {s \in CompletedSteps(view) : /\ view[s].kind = "entry_binding"
                                  /\ view[s].completed.target = state}
BindingFor(view, state) ==
    IF BindingsOf(view, state) = {} THEN None
    ELSE view[LastOf(BindingsOf(view, state))].completed

DepartureDigest(from, to, b) == <<"depart", from, to, b.request, b.action, b.digest>>

(* validate_state_machine_replay: each completed move is a declared edge, of the kind
   its ends call for, and a departure carries the digest of the binding that its
   state was entered with, which it consumes. *)
MoveReplays(m, view, s) ==
    LET from == StateBefore(m, view, s)
        to == view[s].completed.target
        prior == Moves(Earlier(view, s))
    IN  /\ <<from, to>> \in Manifests[m].edges
        /\ Required(m, from) <=> view[s].kind = "approval"
        /\ Required(m, to)   <=> view[s].kind = "entry_binding"
        /\ view[s].kind = "approval" =>
              /\ prior # {} /\ view[LastOf(prior)].kind = "entry_binding"
              /\ view[s].digest = DepartureDigest(from, to, view[LastOf(prior)].completed)
ReplayValid(m, view) == \A s \in Moves(view) : MoveReplays(m, view, s)

(* Mutant: resume after every step, completed or not. *)
AfterAllSteps(view) == Cardinality(DOMAIN view)

FirstIncomplete(view) ==
    CHOOSE n \in 0..Cardinality(DOMAIN view) :
        /\ n \notin CompletedSteps(view)
        /\ \A k \in 0..(n - 1) : k \in CompletedSteps(view)

------------------------------------------------------------------------------
(* Opening a machine *)

(* Mutants: the definition step binds the workflow's id only; the manifest is not kept. *)
OpenById(c) ==
    /\ smCtx[c].pc = "closed" /\ Replayable(smLedger)
    /\ \E m \in DOMAIN Manifests :
          LET b == BeginStepRaw(smLedger, PairSteps(smLedger), 0, "definition", "id")
          IN  /\ smLedger' = b.ledger
              /\ smCtx' = [smCtx EXCEPT ![c] =
                    [Closed EXCEPT !.pc = IF b.res = "replayed" THEN "opening" ELSE "binding",
                                   !.manifest = m, !.view = b.view, !.out = [target |-> m]]]
    /\ UNCHANGED <<smApprovals, smClock>>
OpenUnnamed(c) ==
    /\ smCtx[c].pc = "closed" /\ Replayable(smLedger)
    /\ \E m \in DOMAIN Manifests :
          LET b == BeginStepRaw(smLedger, PairSteps(smLedger), 0, "definition", m)
          IN  /\ smLedger' = b.ledger
              /\ smCtx' = [smCtx EXCEPT ![c] =
                    [Closed EXCEPT !.pc = "binding", !.view = b.view, !.out = [target |-> m]]]
    /\ UNCHANGED <<smApprovals, smClock>>

(* WorkflowStateMachine::new up to the definition step: the manifest digest is bound
   to the run by its step 0, or must be the one bound there. *)
Open(c) ==
    /\ smCtx[c].pc = "closed" /\ Replayable(smLedger)
    /\ \E m \in DOMAIN Manifests :
          LET b == BeginStepRaw(smLedger, PairSteps(smLedger), 0, "definition", m)
          IN  /\ smLedger' = b.ledger
              /\ smCtx' = [smCtx EXCEPT ![c] =
                    IF b.res = "diverged" THEN Closed
                    ELSE [Closed EXCEPT
                            !.pc = IF b.res = "replayed" THEN "opening" ELSE "binding",
                            !.manifest = m, !.view = b.view,
                            !.out = [target |-> m]]]
    /\ UNCHANGED <<smApprovals, smClock>>

(* The definition step of a run that is new, or was interrupted there. *)
BindDefinition(c) ==
    /\ smCtx[c].pc = "binding"
    /\ LET r == Stored(smLedger, smCtx[c].view, "completed", 0, smCtx[c].out)
       IN  /\ smLedger' = r.ledger
           /\ smCtx' = [smCtx EXCEPT ![c] =
                 IF r.ok THEN [smCtx[c] EXCEPT !.pc = "opening", !.view = r.view] ELSE Closed]
    /\ UNCHANGED <<smApprovals, smClock>>

(* The rest of new: validate the replay, reconstruct the state, resume after the
   completed steps. It works on the machine's own snapshot. *)
OpenReady(c) ==
    /\ smCtx[c].pc = "opening"
    /\ LET x == smCtx[c]
       IN  smCtx' = [smCtx EXCEPT ![c] =
              IF ReplayValid(x.manifest, x.view)
              THEN [x EXCEPT !.pc = "ready", !.cursor = FirstIncomplete(x.view),
                             !.state = StateAfter(x.manifest, x.view), !.out = None]
              ELSE Closed]
    /\ UNCHANGED <<smLedger, smApprovals, smClock>>

------------------------------------------------------------------------------
(* transition_to *)

(* ApprovalRecord::matches, at the time of the call. *)
Approved(b) ==
    /\ smApprovals[b.request] # None
    /\ smApprovals[b.request].digest = b.digest
    /\ smClock < smApprovals[b.request].expires

(* authorize_departure: the request bound at entry, and nobody else's. *)
DepartureAuthorized(x, request) ==
    LET b == BindingFor(x.view, x.state)
    IN  /\ b # None
        /\ request = b.request
        /\ ActionRequests[request].action = b.action
        /\ Approved(b)

(* begin_authorized_gated_departure_step looks everything up again, and holds the
   stored request to the digest of the binding. *)
BindingStillMatches(x, b) ==
    /\ b.target = x.state
    /\ ActionRequests[b.request].action = b.action
    /\ ActionRequests[b.request].digest = b.digest
    /\ Approved(b)

(* Mutant: any approved request of the required action opens the gate. *)
MayDepartByAction(x, request) ==
    /\ BindingFor(x.view, x.state) # None
    /\ ActionRequests[request].action = BindingFor(x.view, x.state).action
    /\ smApprovals[request] # None

MayDepart(x, request) ==
    /\ DepartureAuthorized(x, request)
    /\ BindingStillMatches(x, BindingFor(x.view, x.state))

(* prepare_entry_binding *)
Bindable(m, target, request) ==
    /\ request \in DOMAIN ActionRequests
    /\ ActionRequests[request].action = Manifests[m].required[target]
    /\ ActionRequests[request].digest # None

(* The step an edge is recorded by. *)
MoveStep(x, to, request) ==
    CASE Required(x.manifest, to) ->
            [kind |-> "entry_binding", digest |-> <<x.state, EntryBinding(to, request)>>,
             out |-> EntryBinding(to, request)]
      [] Required(x.manifest, x.state) ->
            [kind |-> "approval", out |-> [target |-> to],
             digest |-> DepartureDigest(x.state, to, BindingFor(x.view, x.state))]
      [] ~Required(x.manifest, to) /\ ~Required(x.manifest, x.state) ->
            [kind |-> "transition", digest |-> <<x.state, to>>, out |-> [target |-> to]]

(* Mutant: the machine is in the new state before the step is complete. *)
BeginTransitionEager(c, to, request) ==
    LET x == smCtx[c]
    IN  /\ x.pc = "ready" /\ x.cursor < SmMaxSteps
        /\ <<x.state, to>> \in Manifests[x.manifest].edges
        /\ Required(x.manifest, x.state) => MayDepart(x, request)
        /\ Required(x.manifest, to) => Bindable(x.manifest, to, request)
        /\ LET mv == MoveStep(x, to, request)
               b == BeginStepRaw(smLedger, x.view, x.cursor, mv.kind, mv.digest)
           IN  /\ smLedger' = b.ledger
               /\ smCtx' = [smCtx EXCEPT ![c] =
                     IF b.res = "diverged" THEN Closed
                     ELSE [x EXCEPT !.pc = "moving", !.state = to, !.view = b.view,
                                    !.cursor = @ + 1, !.out = mv.out]]
        /\ UNCHANGED <<smApprovals, smClock>>

(* The checks of transition_to and the intent of its one step. *)
BeginTransition(c, to, request) ==
    LET x == smCtx[c]
    IN  /\ x.pc = "ready"
        /\ x.cursor < SmMaxSteps
        /\ <<x.state, to>> \in Manifests[x.manifest].edges
        /\ Required(x.manifest, x.state) => MayDepart(x, request)
        /\ Required(x.manifest, to) => Bindable(x.manifest, to, request)
        /\ LET mv == MoveStep(x, to, request)
               b == BeginStepRaw(smLedger, x.view, x.cursor, mv.kind, mv.digest)
           IN  /\ smLedger' = b.ledger
               /\ smCtx' = [smCtx EXCEPT ![c] =
                     IF b.res = "diverged" THEN Closed
                     ELSE [x EXCEPT !.pc = IF b.res = "replayed" THEN "ready" ELSE "moving",
                                    !.state = IF b.res = "replayed" THEN to ELSE @,
                                    !.view = b.view, !.cursor = @ + 1, !.out = mv.out]]
        /\ UNCHANGED <<smApprovals, smClock>>

(* complete_step of the move; only then the machine is in the new state. *)
CompleteTransition(c) ==
    /\ smCtx[c].pc = "moving"
    /\ LET x == smCtx[c]
           r == Stored(smLedger, x.view, "completed", x.cursor - 1, x.out)
       IN  /\ smLedger' = r.ledger
           /\ smCtx' = [smCtx EXCEPT ![c] =
                 IF r.ok THEN [x EXCEPT !.pc = "ready", !.view = r.view,
                                        !.state = x.out.target, !.out = None]
                 ELSE Closed]
    /\ UNCHANGED <<smApprovals, smClock>>

(* The caller drops the machine, or the process crashes under it. *)
Drop(c) ==
    /\ smCtx[c].pc # "closed"
    /\ smCtx' = [smCtx EXCEPT ![c] = Closed]
    /\ UNCHANGED <<smLedger, smApprovals, smClock>>

(* The owner approves a request for a time, bound to its digest. *)
Approve(r) ==
    /\ smApprovals[r] = None
    /\ smApprovals' = [smApprovals EXCEPT ![r] =
          [digest |-> ActionRequests[r].digest, expires |-> smClock + ApprovalLife]]
    /\ UNCHANGED <<smLedger, smCtx, smClock>>

SmTick ==
    /\ smClock < SmMaxTime
    /\ smClock' = smClock + 1
    /\ UNCHANGED <<smLedger, smCtx, smApprovals>>

SmNext ==
    \/ \E c \in Machines :
          \/ Open(c) \/ BindDefinition(c) \/ OpenReady(c) \/ CompleteTransition(c) \/ Drop(c)
          \/ \E to \in AllStates, r \in DOMAIN ActionRequests : BeginTransition(c, to, r)
    \/ \E r \in DOMAIN ActionRequests : Approve(r)
    \/ SmTick

SmSpec == SmInit /\ [][SmNext]_smVars

------------------------------------------------------------------------------
(* Properties *)

(* Shape of the machine's state: ledger rows of the reserved kinds, open machines on
   a declared manifest, approvals of stored requests. *)
SmTypeOK ==
    /\ \A i \in DOMAIN smLedger :
          /\ smLedger[i].phase \in {"pending", "completed"}
          /\ smLedger[i].kind \in TransitionKinds \cup {"definition"}
    /\ \A c \in Machines :
          /\ smCtx[c].pc \in {"closed", "binding", "opening", "ready", "moving"}
          /\ smCtx[c].pc # "closed" => smCtx[c].manifest \in DOMAIN Manifests
          /\ smCtx[c].cursor \in Nat
    /\ DOMAIN smApprovals = DOMAIN ActionRequests
    /\ smClock \in 0..SmMaxTime

LedgerView == PairSteps(smLedger)
BoundManifest == LedgerView[0].completed.target

(* Whatever machines interleave and wherever they are dropped, the run they leave can
   be opened again under the manifest it was started with: its rows pair, and its
   completed moves replay as a declared path whose departures carry the binding their
   state was entered with. *)
MachineReopens ==
    /\ Replayable(smLedger)
    /\ 0 \in CompletedSteps(LedgerView) => ReplayValid(BoundManifest, LedgerView)

(* A run keeps the manifest it started with: every open machine holds that one. *)
OneDefinition ==
    \A c \in Machines : smCtx[c].pc \in {"opening", "ready", "moving"} =>
        /\ 0 \in CompletedSteps(LedgerView)
        /\ smCtx[c].manifest = BoundManifest

(* No machine stands on a state the run never passed: the state an open machine
   reports is one its run's completed moves went through. *)
StateOnPath ==
    \A c \in Machines : smCtx[c].pc \in {"ready", "moving"} =>
        \/ smCtx[c].state = Manifests[BoundManifest].initial
        \/ \E s \in Moves(LedgerView) : LedgerView[s].completed.target = smCtx[c].state

(* An approval state is left only with the owner's approval of the very request, action
   and digest that its entry bound (D-011). *)
LeftOnlyApproved ==
    \A s \in Moves(LedgerView) : LedgerView[s].kind = "approval" =>
        \E r \in DOMAIN ActionRequests :
            /\ smApprovals[r] # None
            /\ \E t \in Moves(LedgerView) :
                  /\ t < s /\ LedgerView[t].kind = "entry_binding"
                  /\ LedgerView[t].completed.request = r
                  /\ LedgerView[t].completed.digest = smApprovals[r].digest
                  /\ LedgerView[t].completed.target = StateBefore(BoundManifest, LedgerView, s)
                  /\ \A u \in Moves(LedgerView) : ~(t < u /\ u < s)

(* A machine that is open, or opened again, stands where its run and the owner's
   approvals put it. *)
MachineIsSound ==
    SmTypeOK /\ MachineReopens /\ OneDefinition /\ StateOnPath /\ LeftOnlyApproved
=============================================================================
