----------------------------- MODULE Delegation -----------------------------
(***************************************************************************)
(* Task grants and the worker sub-grants minted from them.  A root grant is*)
(* composed by the kernel and sealed; a shell holding a grant may ask for  *)
(* a worker, whose grant extends the parent's sealed tip by one hop of     *)
(* caveats.  The gate then judges a grant from the grant alone: no parent  *)
(* is looked up.  The question is whether a worker can ever do what the    *)
(* grant it came from could not.                                           *)
(***************************************************************************)
EXTENDS Gate

CONSTANTS
    Roots,           \* authority composition may issue: templates of a root
    Specs,           \* commission specifications a shell may submit
    CommissionAction,\* "worker.commission"
    ReportAction,    \* "worker.report_result"
    GrantRetention,  \* how long an expired grant is kept
    DgMaxTime          \* bound on the clock

VARIABLES
    dgNow,
    grants, \* table task_grants
    issued  \* grant ids given out so far

dgVars == <<dgNow, grants, issued>>

Time == 0..DgMaxTime

RootTemplate ==
    [life : Nat, allowed : SUBSET Actions, approval : SUBSET Actions,
     denied : SUBSET Actions, classes : SUBSET Classes,
     channels : SUBSET Channels, user : Users, tokens : SUBSET TokenIds,
     mode : Modes]

(* allowed_actions, bound_parameters, expires_before of the commission.    *)
SpecType ==
    [actions : SUBSET Actions, bound : SUBSET (Params \X ParamValues), before : Nat]

ASSUME DelegationAssumption ==
    /\ Roots \subseteq RootTemplate
    /\ Specs \subseteq SpecType
    /\ CommissionAction \in Actions /\ ReportAction \in Actions
    /\ GrantRetention \in Nat /\ DgMaxTime \in Nat

Request ==
    [action : Actions, params : [Params -> ParamValues \cup {NoValue}],
     token : TokenIds \cup {NoValue},
     payload : Digests \cup {NoValue}, target : Digests \cup {NoValue}]

Approval ==
    [payload : Digests, target : Digests, expires : Time,
     decision : {"approved", "rejected", "edited"}]

Token == [type : TokenTypes, expires : Time, user : Users]

DgStored   == {i \in GrantIds : grants[i] # NoValue}
ChildOf(c, p) == grants[c].parent = p

------------------------------------------------------------------------------
(* sweep_expired_grants judges the root's expiry, not the caveats. *)
Swept(gs, t) ==
    [i \in GrantIds |->
        IF gs[i] # NoValue /\ gs[i].expires < t - GrantRetention THEN NoValue ELSE gs[i]]

RootGrant(id, tpl) ==
    SealRoot([id |-> id, root |-> NoValue, parent |-> NoValue,
              expires |-> dgNow + tpl.life, allowed |-> tpl.allowed,
              approval |-> tpl.approval, denied |-> tpl.denied,
              classes |-> tpl.classes, channels |-> tpl.channels,
              user |-> tpl.user, tokens |-> tpl.tokens, mode |-> tpl.mode,
              chain |-> <<>>, mac |-> <<>>])

(* insert_task_grant: every new root grant is itself the sweep trigger. *)
ComposeRoot(id, tpl) ==
    /\ id \notin issued
    /\ issued' = issued \cup {id}
    /\ grants' = [Swept(grants, dgNow) EXCEPT ![id] = RootGrant(id, tpl)]
    /\ UNCHANGED dgNow

(* The refusals of mint_worker_grant before a hop is built. *)
MintAdmits(parent, spec) ==
    /\ VerifyMac(parent)
    /\ \A a \in spec.actions : a \notin NonDelegable /\ EffectivelyAllows(parent, a)
    /\ spec.before <= parent.expires
    /\ \A c \in CaveatsOf(parent, "expires_before") : spec.before <= c.at
    /\ \A c \in CaveatsOf(parent, "bound_parameter"), b \in spec.bound :
          b[1] = c.name => b[2] = c.value

(* Mutant: the worker is minted without its empty egress-class allowlist. *)
WorkerCaveatsWithEgress(spec) ==
    {ActionAllowlist(spec.actions), ExpiresBefore(spec.before)}
        \cup {BoundParameter(b[1], b[2]) : b \in spec.bound}
        \cup {OutputChannelAllowlist({}), ProvenanceLabelAllowlist({})}

WorkerCaveats(spec) ==
    {ActionAllowlist(spec.actions), ExpiresBefore(spec.before)}
        \cup {BoundParameter(b[1], b[2]) : b \in spec.bound}
        \cup {OutputChannelAllowlist({}), EgressClassAllowlist({}),
              ProvenanceLabelAllowlist({})}

WorkerStep(parent, id, spec) ==
    ChainStep(id, parent.id, parent.mode, {}, WorkerCaveats(spec))

(* Mutant: the output channels are narrowed in the root field as well. *)
WorkerGrantCleared(parent, id, spec) ==
    LET step == WorkerStep(parent, id, spec)
    IN  [parent EXCEPT !.id = id, !.tokens = {}, !.parent = parent.id,
                       !.channels = {},
                       !.chain = Append(@, step),
                       !.mac = ExtendTip(parent.mac, step)]

(* The parent is cloned; only identity, lineage and the hop differ. *)
WorkerGrant(parent, id, spec) ==
    LET step == WorkerStep(parent, id, spec)
    IN  [parent EXCEPT !.id = id, !.tokens = {}, !.parent = parent.id,
                       !.chain = Append(@, step),
                       !.mac = ExtendTip(parent.mac, step)]

(* The request reaches the handler once gate() has allowed it at some      *)
(* earlier instant; the grant may have expired since.                      *)
CommissionAllowed(parent) ==
    \E req \in Request, t \in 0..dgNow :
        /\ req.action = CommissionAction
        /\ GateDecision(parent, req, "shell", NoValue, NoValue, t) = "Allow"

Commission(p, id, spec) ==
    LET worker == WorkerGrant(grants[p], id, spec)
    IN  /\ p \in DgStored /\ id \notin issued
        /\ CommissionAllowed(grants[p])
        /\ ReportAction \in spec.actions
        /\ MintAdmits(grants[p], spec)
        /\ VerifyMac(worker)
        /\ EffectivelyAllows(worker, ReportAction)
        /\ issued' = issued \cup {id}
        /\ grants' = [grants EXCEPT ![id] = worker]
        /\ UNCHANGED dgNow

DgTick ==
    /\ dgNow < DgMaxTime
    /\ dgNow' = dgNow + 1
    /\ UNCHANGED <<grants, issued>>

DgInit ==
    /\ dgNow = 0
    /\ grants = [i \in GrantIds |-> NoValue]
    /\ issued = {}

DgNext ==
    \/ \E id \in GrantIds, tpl \in Roots : ComposeRoot(id, tpl)
    \/ \E p, id \in GrantIds, spec \in Specs : Commission(p, id, spec)
    \/ DgTick

DgSpec == DgInit /\ [][DgNext]_dgVars

------------------------------------------------------------------------------
(* Properties *)

DgTypeOK ==
    /\ dgNow \in Time
    /\ grants \in [GrantIds -> Grant \cup {NoValue}]
    /\ issued \subseteq GrantIds

Effective == {"Allow", "ApprovalRequired"}

(***************************************************************************)
(* A worker's grant never widens the grant it was minted from: whatever    *)
(* request, origin, approval and selection token the gate is given, when   *)
(* it lets the worker act or ask the owner, it would have answered the     *)
(* same for every stored ancestor at the same instant.                     *)
(***************************************************************************)
DelegationNeverWidens ==
    \A c, p \in DgStored : ChildOf(c, p) =>
        \A req \in Request, origin \in Origins,
           appr \in Approval \cup {NoValue}, tok \in Token \cup {NoValue} :
            LET decision == GateDecision(grants[c], req, origin, appr, tok, dgNow)
            IN  decision \in Effective
                    => decision = GateDecision(grants[p], req, origin, appr, tok, dgNow)

(***************************************************************************)
(* A worker cannot speak: at no depth of delegation does the gate let a    *)
(* worker grant reach a rated egress endpoint, a named output channel, an  *)
(* action that needs a selection token, or a non-delegable action, even    *)
(* when the root grant holds all of them.                                  *)
(***************************************************************************)
WorkersAreMute ==
    \A c \in DgStored : grants[c].parent # NoValue =>
        \A req \in Request, origin \in Origins, tok \in Token \cup {NoValue} :
            LET a == req.action
            IN  GateDecision(grants[c], req, origin, NoValue, tok, dgNow) \in Effective
                => /\ EgressClassOf[a] = NoValue
                   /\ a \notin Routed
                   /\ origin = "shell" => TokenTypeOf[a] = NoValue /\ a \notin NonDelegable

(***************************************************************************)
(* The self-check at the end of mint_worker_grant never fires: extending   *)
(* the parent's tip by the new hop always gives the tip that verification  *)
(* recomputes from the child alone, for any commission that passed the     *)
(* narrowing checks on any stored grant.                                   *)
(***************************************************************************)
MintedAlwaysVerifies ==
    \A p \in DgStored, spec \in Specs, id \in GrantIds \ issued :
        MintAdmits(grants[p], spec) => VerifyMac(WorkerGrant(grants[p], id, spec))

(***************************************************************************)
(* What mint_worker_grant hands out is always valid and always mute.       *)
(***************************************************************************)
MintIsSound == WorkersAreMute /\ MintedAlwaysVerifies
=============================================================================
