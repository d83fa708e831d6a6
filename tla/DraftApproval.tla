---------------------------- MODULE DraftApproval ----------------------------
(***************************************************************************)
(* From a reviewed draft to a draft in the owner's mailbox.  A preview     *)
(* stores an immutable request and shows an Approve button that Telegram   *)
(* never removes.  A tap consumes the request, records the approval, gates *)
(* again and runs the one executor that writes to Gmail; a standing rule   *)
(* runs the same executor without a tap.  Gmail has no idempotency key, so *)
(* a write whose answer is lost may or may not have landed: a durable row, *)
(* the fence, is claimed before the write and stays until the answer is    *)
(* known.                                                                  *)
(*                                                                         *)
(* Handlers of several origins run at once.  A lane is one handler between *)
(* two awaits; a crash empties every lane and keeps every table.  Digests  *)
(* are ideal: the digest of a value is the value.                          *)
(***************************************************************************)
EXTENDS Integers, FiniteSets

CONSTANTS
    Lanes,        \* handlers that may run at once
    GrantIds, Threads, Recipients, Payloads, Surfaces,
    GrantRow,     \* the grant rows composition stored, with their token
    RequestIds, FenceIds,
    ApprovalTtl,  \* APPROVAL_TTL
    Retention,    \* GRANT_RETENTION
    MaxTime,      \* bound on the clock
    MaxCrashes,   \* bound on restarts
    None

Row == [thread : Threads, surface : Surfaces, expires : Nat, tokenExpires : Nat]

ASSUME DraftAssumption ==
    /\ GrantRow \in [GrantIds -> Row]
    /\ ApprovalTtl \in Nat \ {0} /\ Retention \in Nat
    /\ MaxTime \in Nat /\ MaxCrashes \in Nat

VARIABLES
    now, crashes,
    recipient, \* Gmail: the newest sender of a thread who is not the owner
    grants,    \* table task_grants: the rows not swept yet
    issued,    \* request ids given out
    requests,  \* table action_requests
    buttons,   \* Telegram: requests shown with an Approve button
    approvals, \* table approvals: the newest row of a request
    admitted,  \* audit_log: admissions of a standing rule
    lanes,
    fences,    \* table pending_draft_writes
    wire,      \* writes sent to Gmail and neither applied nor refused
    drafts     \* drafts in the owner's mailbox

vars == <<now, crashes, recipient, grants, issued, requests, buttons, approvals,
          admitted, lanes, fences, wire, drafts>>

Target == Threads \X Recipients

Request ==
    [id : RequestIds, grant : GrantIds, thread : Threads,
     payload : Payloads, target : Target]

Approval == [payload : Payloads, target : Target, expires : Nat]

Fence == [req : RequestIds, fp : Threads \X Target \X Payloads,
          state : {"pending", "resolved"}]

ASSUME DraftNoneAssumption ==
    /\ None \notin Recipients \cup FenceIds
    /\ None \notin [body : Request, used : BOOLEAN]
    /\ None \notin Approval \cup Fence

(* A draft as Gmail holds it; fence names the attempt that sent it.        *)
Draft == [fence : FenceIds, req : RequestIds, thread : Threads,
          recipient : Recipients, payload : Payloads]

IdleLane == [pc |-> "idle", source |-> "none", req |-> None,
             seen |-> None, fence |-> None]

Lane ==
    [pc : {"idle", "consumed", "consult", "fetch", "check", "begin", "write", "await"},
     source : {"none", "tap", "rule"}, req : Request \cup {None},
     seen : Recipients \cup {None}, fence : FenceIds \cup {None}]

TypeOK ==
    /\ now \in 0..MaxTime /\ crashes \in 0..MaxCrashes
    /\ recipient \in [Threads -> Recipients \cup {None}]
    /\ grants \subseteq GrantIds
    /\ issued \subseteq RequestIds
    /\ requests \in [RequestIds -> [body : Request, used : BOOLEAN] \cup {None}]
    /\ buttons \subseteq RequestIds
    /\ approvals \in [RequestIds -> Approval \cup {None}]
    /\ admitted \subseteq Request
    /\ lanes \in [Lanes -> Lane]
    /\ fences \in [FenceIds -> Fence \cup {None}]
    /\ wire \subseteq Draft /\ drafts \subseteq Draft

Init ==
    /\ now = 0 /\ crashes = 0
    /\ recipient \in [Threads -> Recipients]
    /\ grants = GrantIds
    /\ issued = {}
    /\ requests = [r \in RequestIds |-> None]
    /\ buttons = {}
    /\ approvals = [r \in RequestIds |-> None]
    /\ admitted = {}
    /\ lanes = [l \in Lanes |-> IdleLane]
    /\ fences = [f \in FenceIds |-> None]
    /\ wire = {} /\ drafts = {}

tables == <<grants, issued, requests, approvals, admitted, fences>>
outside == <<recipient, buttons, wire, drafts>>
clock == <<now, crashes>>

------------------------------------------------------------------------------
(* Digests, the gate, and the fence *)

TargetDigest(thread, rcpt) == <<thread, rcpt>>

Fingerprint(req) == <<req.thread, req.target, req.payload>>

GrantLive(g) == g \in grants /\ now < GrantRow[g].expires

(* gate() for an approval-required action of a sound grant. *)
GateAllows(req, appr) ==
    /\ GrantLive(req.grant)
    /\ appr # None
    /\ now < appr.expires
    /\ appr.payload = req.payload /\ appr.target = req.target

(* Mutant: a thread nobody else wrote in is answered too. *)
SomeoneToAnswerAlways(t) == TRUE

(* newest_non_owner_recipient finds someone. *)
SomeoneToAnswer(t) == recipient[t] # None

HasPendingDraftWrite(fp) ==
    \E f \in FenceIds : fences[f] # None /\ fences[f].state = "pending" /\ fences[f].fp = fp

Goto(l, pc) == lanes' = [lanes EXCEPT ![l].pc = pc]
Leave(l)    == lanes' = [lanes EXCEPT ![l] = IdleLane]

------------------------------------------------------------------------------
(* Proposing *)

(* A request is bound to the thread of the grant's token and to whoever    *)
(* wrote last in it.  A preview that had to be truncated proposes nothing; *)
(* neither does one whose fetch, recipient or artifact budget fails.       *)
ProposeDraftCreation(g, r, p) ==
    LET thread == GrantRow[g].thread
    IN  /\ GrantLive(g)
        /\ r \notin issued
        /\ SomeoneToAnswer(thread)
        /\ issued' = issued \cup {r}
        /\ requests' = [requests EXCEPT ![r] =
              [body |-> [id |-> r, grant |-> g, thread |-> thread, payload |-> p,
                         target |-> TargetDigest(thread, recipient[thread])],
               used |-> FALSE]]
        /\ UNCHANGED <<clock, outside, grants, approvals, admitted, lanes, fences>>

(* The message with the button may arrive late, or never. *)
ButtonShown(r) ==
    /\ requests[r] # None
    /\ r \notin buttons
    /\ buttons' = buttons \cup {r}
    /\ UNCHANGED <<clock, tables, recipient, wire, drafts, lanes>>

------------------------------------------------------------------------------
(* Approving: owner updates are handled one at a time *)

(* Mutant: the answer of the update is not looked at. *)
TryConsumeRequestAnyway(r) == requests' = [requests EXCEPT ![r].used = TRUE]

TryConsumeRequest(r) ==
    /\ ~requests[r].used
    /\ requests' = [requests EXCEPT ![r].used = TRUE]

(* A tap from another chat, or for a swept grant, consumes nothing. *)
Tap(l, r, s) ==
    /\ lanes[l] = IdleLane
    /\ \A k \in Lanes : lanes[k].source # "tap"
    /\ r \in buttons
    /\ requests[r].body.grant \in grants
    /\ GrantRow[requests[r].body.grant].surface = s
    /\ TryConsumeRequest(r)
    /\ lanes' = [lanes EXCEPT ![l] =
          [pc |-> "consumed", source |-> "tap", req |-> requests[r].body,
           seen |-> None, fence |-> None]]
    /\ UNCHANGED <<clock, outside, grants, issued, approvals, admitted, fences>>

Approve(l) ==
    LET req  == lanes[l].req
        appr == [payload |-> req.payload, target |-> req.target,
                 expires |-> now + ApprovalTtl]
    IN  /\ lanes[l].pc = "consumed"
        /\ approvals' = [approvals EXCEPT ![req.id] = appr]
        /\ IF GateAllows(req, appr) THEN Goto(l, "fetch") ELSE Leave(l)
        /\ UNCHANGED <<clock, outside, grants, issued, requests, admitted, fences>>

------------------------------------------------------------------------------
(* Admission by a standing rule: the request lives in the handler only *)

ResolveScopedAdmission(l, g, r, p) ==
    LET thread == GrantRow[g].thread
        req    == [id |-> r, grant |-> g, thread |-> thread, payload |-> p,
                   target |-> TargetDigest(thread, recipient[thread])]
    IN  /\ lanes[l] = IdleLane
        /\ GrantLive(g)
        /\ now < GrantRow[g].tokenExpires
        /\ SomeoneToAnswer(thread)
        /\ r \notin issued
        /\ ~HasPendingDraftWrite(Fingerprint(req))
        /\ issued' = issued \cup {r}
        /\ lanes' = [lanes EXCEPT ![l] =
              [pc |-> "consult", source |-> "rule", req |-> req,
               seen |-> None, fence |-> None]]
        /\ UNCHANGED <<clock, outside, grants, requests, approvals, admitted, fences>>

(* The rule's own decision is the standing-rule module's.  A refusal is an *)
(* Abandon.                                                                *)
ConsultScopedRule(l) ==
    /\ lanes[l].pc = "consult"
    /\ admitted' = admitted \cup {lanes[l].req}
    /\ Goto(l, "fetch")
    /\ UNCHANGED <<clock, outside, grants, issued, requests, approvals, fences>>

------------------------------------------------------------------------------
(* The executor: create_approved_draft *)

(* Every refusal before the fence: a payload that no longer hashes to its  *)
(* digest, a missing connector, a spend guard, a failed fetch, a rejected  *)
(* permit, a store error.  The request stays consumed.                     *)
Abandon(l) ==
    /\ lanes[l].pc \in {"consumed", "consult", "fetch", "check", "begin"}
    /\ Leave(l)
    /\ UNCHANGED <<clock, tables, outside>>

FetchThread(l) ==
    /\ lanes[l].pc = "fetch"
    /\ SomeoneToAnswer(lanes[l].req.thread)
    /\ lanes' = [lanes EXCEPT ![l].seen = recipient[lanes[l].req.thread],
                              ![l].pc = "check"]
    /\ UNCHANGED <<clock, tables, outside>>

(* Mutant: the thread is fetched but not compared. *)
SameTargetAlways(req, rcpt) == TRUE

SameTarget(req, rcpt) == TargetDigest(req.thread, rcpt) = req.target

CheckTarget(l) ==
    /\ lanes[l].pc = "check"
    /\ IF /\ SameTarget(lanes[l].req, lanes[l].seen)
          /\ ~HasPendingDraftWrite(Fingerprint(lanes[l].req))
       THEN Goto(l, "begin")
       ELSE Leave(l)
    /\ UNCHANGED <<clock, tables, outside>>

(* Mutant: the claim trusts the earlier read. *)
ClaimableUnread(fp) == TRUE

Claimable(fp) == ~HasPendingDraftWrite(fp)

(* The permit, then the claim: check and insert in one transaction. *)
BeginEffect(l, f) ==
    LET req == lanes[l].req
    IN  /\ lanes[l].pc = "begin"
        /\ Claimable(Fingerprint(req))
        /\ fences[f] = None
        /\ fences' = [fences EXCEPT ![f] =
              [req |-> req.id, fp |-> Fingerprint(req), state |-> "pending"]]
        /\ lanes' = [lanes EXCEPT ![l].fence = f, ![l].pc = "write"]
        /\ UNCHANGED <<clock, outside, grants, issued, requests, approvals, admitted>>

DraftOf(lane) ==
    [fence |-> lane.fence, req |-> lane.req.id, thread |-> lane.req.thread,
     recipient |-> lane.seen, payload |-> lane.req.payload]

(* create_draft posts to the recipient fetched earlier. *)
SendWrite(l) ==
    /\ lanes[l].pc = "write"
    /\ wire' = wire \cup {DraftOf(lanes[l])}
    /\ Goto(l, "await")
    /\ UNCHANGED <<clock, tables, recipient, buttons, drafts>>

Resolved(f) == [fences EXCEPT ![f].state = "resolved"]

(* Mutant: a timeout is taken for a failure. *)
RetainedOnTimeout(f) == Resolved(f)

Retained(f) == fences

(* ConfirmedSuccess: Gmail answered with the draft's id. *)
SettleSuccess(l) ==
    /\ lanes[l].pc = "await"
    /\ DraftOf(lanes[l]) \in drafts
    /\ fences' = Resolved(lanes[l].fence)
    /\ Leave(l)
    /\ UNCHANGED <<clock, outside, grants, issued, requests, approvals, admitted>>

(* ConfirmedFailure: a definite rejection, or no token to send it with. *)
SettleFailure(l) ==
    /\ lanes[l].pc \in {"write", "await"}
    /\ DraftOf(lanes[l]) \notin drafts
    /\ wire' = wire \ {DraftOf(lanes[l])}
    /\ fences' = Resolved(lanes[l].fence)
    /\ Leave(l)
    /\ UNCHANGED <<clock, recipient, buttons, drafts, grants, issued, requests,
                   approvals, admitted>>

(* Mutant: the handler waits for the answer however long it takes. *)
TimesOutNever(l) == FALSE

(* The bounded write timeout, a lost or malformed answer, 429 or 5xx. *)
TimesOut(l) == lanes[l].pc \in {"write", "await"}

(* DeliveryUnknown: the row is left for an operator. *)
SettleUnknown(l) ==
    /\ TimesOut(l)
    /\ fences' = Retained(lanes[l].fence)
    /\ Leave(l)
    /\ UNCHANGED <<clock, outside, grants, issued, requests, approvals, admitted>>

------------------------------------------------------------------------------
(* Around the kernel *)

(* A write sent may land long after the handler gave up on it. *)
Land(d) ==
    /\ d \in wire
    /\ wire' = wire \ {d}
    /\ drafts' = drafts \cup {d}
    /\ UNCHANGED <<clock, tables, recipient, buttons, lanes>>

(* Someone else writes in the thread, or the owner empties it. *)
ThreadMoves(t, a) ==
    /\ recipient[t] # a
    /\ recipient' = [recipient EXCEPT ![t] = a]
    /\ UNCHANGED <<clock, tables, buttons, wire, drafts, lanes>>

Tick ==
    /\ now < MaxTime
    /\ now' = now + 1
    /\ UNCHANGED <<crashes, tables, outside, lanes>>

(* Run when any grant is inserted. *)
SweepExpiredGrants ==
    LET kept == {g \in grants : now <= GrantRow[g].expires + Retention}
    IN  /\ kept # grants
        /\ grants' = kept
        /\ UNCHANGED <<clock, outside, issued, requests, approvals, admitted,
                       lanes, fences>>

Crash ==
    /\ crashes < MaxCrashes
    /\ \E l \in Lanes : lanes[l] # IdleLane
    /\ crashes' = crashes + 1
    /\ lanes' = [l \in Lanes |-> IdleLane]
    /\ UNCHANGED <<now, tables, outside>>

(* What a handler does by itself, and what takes an answer of Gmail. *)
Unaided(l) ==
    \/ Approve(l) \/ ConsultScopedRule(l) \/ Abandon(l) \/ CheckTarget(l)
    \/ \E f \in FenceIds : BeginEffect(l, f)
    \/ SendWrite(l) \/ SettleUnknown(l)

Answered(l) == FetchThread(l) \/ SettleSuccess(l) \/ SettleFailure(l)

Next ==
    \/ \E g \in GrantIds, r \in RequestIds, p \in Payloads : ProposeDraftCreation(g, r, p)
    \/ \E r \in RequestIds : ButtonShown(r)
    \/ \E l \in Lanes, r \in RequestIds, s \in Surfaces : Tap(l, r, s)
    \/ \E l \in Lanes, g \in GrantIds, r \in RequestIds, p \in Payloads :
          ResolveScopedAdmission(l, g, r, p)
    \/ \E l \in Lanes : Unaided(l) \/ Answered(l)
    \/ \E d \in wire : Land(d)
    \/ \E t \in Threads, a \in Recipients \cup {None} : ThreadMoves(t, a)
    \/ Tick
    \/ SweepExpiredGrants
    \/ Crash

Spec == Init /\ [][Next]_vars

(* A handler that started runs on: the runtime polls it, and every await   *)
(* in it ends with an answer or with a connector timeout.  Nothing is      *)
(* assumed of Gmail, Telegram or the owner.                                *)
FairSpec == Spec /\ \A l \in Lanes : WF_vars(Unaided(l))

------------------------------------------------------------------------------
(* Properties *)

PendingFences == {f \in FenceIds : fences[f] # None /\ fences[f].state = "pending"}

Consented(d) ==
    \/ /\ requests[d.req] # None /\ requests[d.req].used
       /\ approvals[d.req] # None
       /\ approvals[d.req].payload = d.payload
       /\ approvals[d.req].target = TargetDigest(d.thread, d.recipient)
    \/ \E q \in admitted : /\ q.id = d.req /\ q.thread = d.thread
                           /\ q.payload = d.payload
                           /\ q.target = TargetDigest(d.thread, d.recipient)

(* Every draft Gmail holds or is about to hold goes to the recipient, and  *)
(* carries the text, that an approval record or a rule admission names,    *)
(* even though the thread moves between the preview, the tap, the second   *)
(* fetch and the write.  (create_approved_draft: the target re-derivation.)*)
DraftMatchesApproval == \A d \in drafts \cup wire : Consented(d)

(* One request makes at most one draft: an Approve button tapped again, or *)
(* tapped after a crash or a timeout, never reaches Gmail a second time.   *)
(* (try_consume_action_request before any effect.)                         *)
OneDraftPerRequest ==
    \A d, e \in drafts \cup wire : d.req = e.req => d = e

Unsettled == {d \in drafts \cup wire : d.fence \in PendingFences}

SameDraft(d, e) ==
    d.thread = e.thread /\ d.recipient = e.recipient /\ d.payload = e.payload

(* While the fate of a write is unknown its fence stands, and no other     *)
(* write of the same draft is begun, whatever lane it comes from: a write  *)
(* still on the wire after its handler timed out or died is fenced, and of *)
(* two attempts at one draft the kernel always knows how one ended.        *)
(* (begin_effect, and settle_effect's retain on DeliveryUnknown.)          *)
NoWriteBesideUnknown ==
    /\ wire \subseteq Unsettled
    /\ \A d, e \in Unsettled : SameDraft(d, e) => d = e

(* A resolved fence says the truth: the draft of that attempt will not     *)
(* appear later.  (settle_effect resolves on a confirmed outcome only.)    *)
ResolvedIsSettled ==
    [][\A d \in drafts' \ drafts : d.fence \in PendingFences]_vars

(* A lost answer never wedges the one loop that handles owner updates: a   *)
(* handler of a tap always comes to an end.                                *)
(* (call_with_admitted_connector_write's timeout.)                         *)
TapEnds ==
    \A l \in Lanes : (lanes[l].source = "tap") ~> (lanes[l].source # "tap")
==============================================================================
