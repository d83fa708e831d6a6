------------------------ MODULE DraftApprovalProofs ------------------------
(***************************************************************************)
(* Proofs about DraftApproval, for any number of handlers, requests,       *)
(* attempts, threads and restarts.  The inductive invariant follows one    *)
(* request id through its life: it is given out once, held by at most one  *)
(* handler, fenced by at most one attempt, and carried by at most one      *)
(* write.                                                                  *)
(***************************************************************************)
EXTENDS DraftApproval, TLAPS

Sent == wire \cup drafts

Fenced(f) == fences[f] # None

(* A stored request keeps its id; only stored requests have buttons. *)
RowsOK ==
    /\ \A r \in RequestIds : requests[r] # None => requests[r].body.id = r /\ r \in issued
    /\ \A r \in buttons : requests[r] # None

(* A request nobody consumed is in nobody's hands. *)
Unspent(r) ==
    r \notin issued \/ (requests[r] # None /\ ~requests[r].used)

UnspentOK ==
    \A r \in RequestIds : Unspent(r) =>
        /\ \A l \in Lanes : lanes[l].pc # "idle" => lanes[l].req.id # r
        /\ \A f \in FenceIds : Fenced(f) => fences[f].req # r

(* What a handler holds, by how far it has come. *)
Holds(l) ==
    /\ lanes[l].req \in Request
    /\ lanes[l].source \in {"tap", "rule"}
    /\ lanes[l].pc = "consumed" => lanes[l].source = "tap"
    /\ lanes[l].pc = "consult" => lanes[l].source = "rule"
    /\ lanes[l].source = "tap" =>
          /\ requests[lanes[l].req.id] # None
          /\ requests[lanes[l].req.id].body = lanes[l].req
          /\ requests[lanes[l].req.id].used

Backed(l) ==
    \/ /\ lanes[l].source = "tap"
       /\ approvals[lanes[l].req.id] # None
       /\ approvals[lanes[l].req.id].payload = lanes[l].req.payload
       /\ approvals[lanes[l].req.id].target = lanes[l].req.target
    \/ lanes[l].source = "rule" /\ lanes[l].req \in admitted

LaneOK(l) ==
    /\ lanes[l].pc = "idle" => lanes[l] = IdleLane
    /\ lanes[l].pc # "idle" => Holds(l)
    /\ lanes[l].pc \notin {"idle", "consumed", "consult"} => Backed(l)
    /\ lanes[l].pc \in {"check", "begin", "write", "await"} => lanes[l].seen \in Recipients
    /\ lanes[l].pc \in {"begin", "write", "await"} => SameTarget(lanes[l].req, lanes[l].seen)

(* The handler and its fence. *)
Attempt(l) ==
    /\ lanes[l].pc \in {"write", "await"} =>
          /\ lanes[l].fence \in PendingFences
          /\ fences[lanes[l].fence].req = lanes[l].req.id
          /\ fences[lanes[l].fence].fp = Fingerprint(lanes[l].req)
    /\ lanes[l].pc \notin {"idle", "write", "await"} =>
          \A f \in FenceIds : Fenced(f) => fences[f].req # lanes[l].req.id
    /\ lanes[l].pc = "write" => \A d \in Sent : d.fence # lanes[l].fence
    /\ lanes[l].pc = "await" =>
          \A d \in Sent : d.fence = lanes[l].fence => d = DraftOf(lanes[l])

LanesApart ==
    \A l, k \in Lanes :
        l # k /\ lanes[l].pc # "idle" /\ lanes[k].pc # "idle"
            => lanes[l].req.id # lanes[k].req.id

FencesApart ==
    \A f, g \in FenceIds : Fenced(f) /\ Fenced(g) /\ fences[f].req = fences[g].req => f = g

PendingApart ==
    \A f, g \in PendingFences : fences[f].fp = fences[g].fp => f = g

(* What was sent. *)
FingerprintOf(d) == <<d.thread, TargetDigest(d.thread, d.recipient), d.payload>>

SentOK ==
    /\ \A d \in Sent : /\ Fenced(d.fence) /\ fences[d.fence].req = d.req
                       /\ fences[d.fence].fp = FingerprintOf(d)
                       /\ Consented(d)
    /\ \A d, e \in Sent : d.fence = e.fence => d = e
    /\ \A d \in wire : d.fence \in PendingFences
    /\ wire \cap drafts = {}

DraftInv ==
    /\ TypeOK
    /\ RowsOK
    /\ UnspentOK
    /\ \A l \in Lanes : LaneOK(l) /\ Attempt(l)
    /\ LanesApart
    /\ FencesApart
    /\ PendingApart
    /\ SentOK

------------------------------------------------------------------------------
(* What a step keeps when it leaves alone what the invariant speaks of *)

LEMMA IdleLaneOK ==
    ASSUME NEW k \in Lanes, lanes'[k] = IdleLane
    PROVE  LaneOK(k)' /\ Attempt(k)'
<1>1. lanes'[k].pc = "idle"
  BY DEF IdleLane
<1>. QED  BY <1>1 DEF LaneOK, Attempt

LEMMA LaneUntouched ==
    ASSUME NEW k \in Lanes, LaneOK(k), lanes'[k] = lanes[k],
           UNCHANGED <<requests, approvals, admitted>>
    PROVE  LaneOK(k)'
<1>1. Holds(k) => Holds(k)'
  BY DEF Holds
<1>2. Backed(k) => Backed(k)'
  BY DEF Backed
<1>3. SameTarget(lanes[k].req, lanes[k].seen) => SameTarget(lanes[k].req, lanes[k].seen)'
  BY DEF SameTarget, TargetDigest
<1>. QED  BY <1>1, <1>2, <1>3 DEF LaneOK

LEMMA AttemptUntouched ==
    ASSUME NEW k \in Lanes, Attempt(k), lanes'[k] = lanes[k],
           UNCHANGED <<fences, wire, drafts>>
    PROVE  Attempt(k)'
<1>1. PendingFences' = PendingFences /\ Sent' = Sent
  BY DEF PendingFences, Sent
<1>2. \A f \in FenceIds : Fenced(f)' = Fenced(f)
  BY DEF Fenced
<1>. QED  BY <1>1, <1>2 DEF Attempt, Fingerprint, DraftOf

LEMMA SentUntouched ==
    ASSUME SentOK, UNCHANGED <<fences, wire, drafts, requests, approvals, admitted>>
    PROVE  SentOK'
<1>1. PendingFences' = PendingFences /\ Sent' = Sent
  BY DEF PendingFences, Sent
<1>2. \A d \in Sent : /\ Fenced(d.fence)' = Fenced(d.fence)
                      /\ FingerprintOf(d)' = FingerprintOf(d)
                      /\ Consented(d) => Consented(d)'
  BY DEF Fenced, FingerprintOf, TargetDigest, Consented
<1>. QED  BY <1>1, <1>2 DEF SentOK

LEMMA FencesUntouched ==
    ASSUME FencesApart, PendingApart, UNCHANGED fences
    PROVE  FencesApart' /\ PendingApart'
BY DEF FencesApart, PendingApart, PendingFences, Fenced

(* No handler takes up a request in this step. *)
NoRequestTaken ==
    \A k \in Lanes : lanes'[k].pc # "idle" =>
        lanes[k].pc # "idle" /\ lanes'[k].req.id = lanes[k].req.id

LEMMA RequestsCarried ==
    ASSUME UnspentOK, LanesApart, NoRequestTaken, UNCHANGED <<issued, requests>>,
           \A f \in FenceIds : Fenced(f)' => Fenced(f) /\ fences'[f].req = fences[f].req
    PROVE  UnspentOK' /\ LanesApart'
<1>1. \A r \in RequestIds : Unspent(r)' => Unspent(r)
  BY DEF Unspent
<1>2. UnspentOK'
  BY <1>1 DEF UnspentOK, NoRequestTaken
<1>3. LanesApart'
  BY DEF LanesApart, NoRequestTaken
<1>. QED  BY <1>2, <1>3

(* Only the handler's own lane moves. *)
LEMMA OneLaneMoves ==
    ASSUME DraftInv, NEW l \in Lanes,
           lanes' \in [Lanes -> Lane],
           \A k \in Lanes : k # l => lanes'[k] = lanes[k],
           lanes'[l].pc # "idle" => lanes[l].pc # "idle" /\ lanes'[l].req.id = lanes[l].req.id,
           LaneOK(l)', Attempt(l)',
           UNCHANGED <<clock, tables, outside>>
    PROVE  DraftInv'
<1>1. UNCHANGED <<now, crashes, grants, issued, requests, approvals, admitted, fences,
                  recipient, buttons, wire, drafts>>
  BY DEF clock, tables, outside
<1>2. TypeOK'
  BY <1>1 DEF DraftInv, TypeOK
<1>3. RowsOK'
  BY <1>1 DEF DraftInv, RowsOK
<1>4. UnspentOK' /\ LanesApart'
  <2>1. NoRequestTaken
    BY DEF NoRequestTaken
  <2>2. \A f \in FenceIds : Fenced(f)' => Fenced(f) /\ fences'[f].req = fences[f].req
    BY <1>1 DEF Fenced
  <2>. QED  BY <2>1, <2>2, <1>1, RequestsCarried DEF DraftInv
<1>5. \A k \in Lanes : k # l => LaneOK(k)' /\ Attempt(k)'
  BY <1>1, LaneUntouched, AttemptUntouched DEF DraftInv
<1>6. FencesApart' /\ PendingApart' /\ SentOK'
  BY <1>1, FencesUntouched, SentUntouched DEF DraftInv
<1>. QED  BY <1>2, <1>3, <1>4, <1>5, <1>6 DEF DraftInv

(* No handler moves and nothing they rely on changes. *)
LEMMA NoLaneMoves ==
    ASSUME DraftInv, TypeOK', RowsOK',
           UNCHANGED <<lanes, issued, requests, approvals, admitted, fences, wire, drafts>>
    PROVE  DraftInv'
<1>1. UnspentOK' /\ LanesApart'
  <2>1. NoRequestTaken
    BY DEF NoRequestTaken
  <2>2. \A f \in FenceIds : Fenced(f)' => Fenced(f) /\ fences'[f].req = fences[f].req
    BY DEF Fenced
  <2>. QED  BY <2>1, <2>2, RequestsCarried DEF DraftInv
<1>2. \A k \in Lanes : LaneOK(k)' /\ Attempt(k)'
  BY LaneUntouched, AttemptUntouched DEF DraftInv
<1>3. FencesApart' /\ PendingApart' /\ SentOK'
  BY FencesUntouched, SentUntouched DEF DraftInv
<1>. QED  BY <1>1, <1>2, <1>3 DEF DraftInv

------------------------------------------------------------------------------
(* One lemma per action *)

LEMMA ProposeDraftCreationStep ==
    ASSUME DraftInv, NEW g \in GrantIds, NEW r \in RequestIds, NEW p \in Payloads,
           ProposeDraftCreation(g, r, p)
    PROVE  DraftInv'
<1> DEFINE thread == GrantRow[g].thread
           body   == [id |-> r, grant |-> g, thread |-> thread, payload |-> p,
                      target |-> TargetDigest(thread, recipient[thread])]
<1>a. thread \in Threads /\ recipient[thread] \in Recipients
  BY DraftAssumption DEF DraftInv, TypeOK, ProposeDraftCreation, SomeoneToAnswer, Row
<1>b. body \in Request /\ body.id = r
  BY <1>a DEF Request, Target, TargetDigest
<1>c. /\ requests' = [requests EXCEPT ![r] = [body |-> body, used |-> FALSE]]
      /\ issued' = issued \cup {r} /\ r \notin issued
  BY DEF ProposeDraftCreation
<1>d. UNCHANGED <<now, crashes, grants, approvals, admitted, lanes, fences, recipient,
                  buttons, wire, drafts>>
  BY DEF ProposeDraftCreation, clock, outside
<1> HIDE DEF body, thread
<1>e. /\ [body |-> body, used |-> FALSE] \in [body : Request, used : BOOLEAN]
      /\ [body |-> body, used |-> FALSE] # None
  <2>1. [body |-> body, used |-> FALSE] \in [body : Request, used : BOOLEAN]
    BY <1>b
  <2>. QED  BY <2>1, DraftNoneAssumption
<1>f. /\ requests'[r] = [body |-> body, used |-> FALSE]
      /\ \A q \in RequestIds : q # r => requests'[q] = requests[q]
  BY <1>c DEF DraftInv, TypeOK
<1>g. /\ \A k \in Lanes : lanes[k].pc # "idle" => lanes[k].req.id # r
      /\ \A f \in FenceIds : Fenced(f) => fences[f].req # r
  BY <1>c DEF DraftInv, UnspentOK, Unspent
<1>1. TypeOK'
  <2>1. requests' \in [RequestIds -> [body : Request, used : BOOLEAN] \cup {None}]
    BY <1>c, <1>e DEF DraftInv, TypeOK
  <2>2. issued' \subseteq RequestIds
    BY <1>c DEF DraftInv, TypeOK
  <2>. QED  BY <2>1, <2>2, <1>d DEF DraftInv, TypeOK
<1>2. RowsOK'
  <2>1. requests'[r] # None /\ requests'[r].body.id = r
    BY <1>b, <1>e, <1>f
  <2>. QED  BY <2>1, <1>c, <1>d, <1>f DEF DraftInv, TypeOK, RowsOK
<1>3. UnspentOK'
  <2>. SUFFICES ASSUME NEW q \in RequestIds, Unspent(q)'
                PROVE  /\ \A k \in Lanes : lanes[k].pc # "idle" => lanes[k].req.id # q
                       /\ \A f \in FenceIds : Fenced(f) => fences[f].req # q
    BY <1>d DEF UnspentOK, Fenced
  <2>1. CASE q = r
    BY <2>1, <1>g
  <2>2. CASE q # r
    <3>1. Unspent(q)
      BY <2>2, <1>c, <1>f DEF Unspent
    <3>. QED  BY <3>1 DEF DraftInv, UnspentOK
  <2>. QED  BY <2>1, <2>2
<1>4. ASSUME NEW k \in Lanes PROVE LaneOK(k)'
  <2>1. Holds(k) /\ lanes[k].pc # "idle" => Holds(k)'
    <3>1. lanes[k].pc # "idle" /\ lanes[k].req \in Request
             => requests'[lanes[k].req.id] = requests[lanes[k].req.id]
      BY <1>f, <1>g DEF Request
    <3>. QED  BY <3>1, <1>d DEF Holds
  <2>2. Backed(k) => Backed(k)'
    BY <1>d DEF Backed
  <2>3. SameTarget(lanes[k].req, lanes[k].seen) => SameTarget(lanes[k].req, lanes[k].seen)'
    BY <1>d DEF SameTarget, TargetDigest
  <2>. QED  BY <2>1, <2>2, <2>3, <1>d DEF DraftInv, LaneOK
<1>5. ASSUME NEW k \in Lanes PROVE Attempt(k)'
  BY <1>d, AttemptUntouched DEF DraftInv
<1>6. LanesApart' /\ FencesApart' /\ PendingApart'
  BY <1>d, FencesUntouched DEF DraftInv, LanesApart
<1>7. SentOK'
  <2>1. ASSUME NEW d \in Sent PROVE Consented(d)'
    <3>1. d.req \in RequestIds /\ d.fence \in FenceIds /\ Consented(d)
      BY DEF DraftInv, TypeOK, SentOK, Sent, Draft
    <3>2. d.req # r
      BY <1>g, <3>1 DEF DraftInv, SentOK
    <3>. QED  BY <3>1, <3>2, <1>d, <1>f DEF Consented
  <2>. QED  BY <2>1, <1>d
            DEF DraftInv, SentOK, Sent, Fenced, FingerprintOf, PendingFences
<1>. QED  BY <1>1, <1>2, <1>3, <1>4, <1>5, <1>6, <1>7 DEF DraftInv

LEMMA ButtonShownStep ==
    ASSUME DraftInv, NEW r \in RequestIds, ButtonShown(r)
    PROVE  DraftInv'
<1>1. /\ buttons' = buttons \cup {r} /\ requests[r] # None
      /\ UNCHANGED <<now, crashes, grants, issued, requests, approvals, admitted, lanes,
                     fences, recipient, wire, drafts>>
  BY DEF ButtonShown, clock, tables
<1>2. TypeOK'
  BY <1>1 DEF DraftInv, TypeOK
<1>3. RowsOK'
  BY <1>1 DEF DraftInv, RowsOK
<1>. QED  BY <1>1, <1>2, <1>3, NoLaneMoves

LEMMA TapStep ==
    ASSUME DraftInv, NEW l \in Lanes, NEW r \in RequestIds, NEW s \in Surfaces, Tap(l, r, s)
    PROVE  DraftInv'
<1>a. /\ requests[r] # None /\ ~requests[r].used
      /\ requests[r] \in [body : Request, used : BOOLEAN]
      /\ requests[r].body \in Request /\ requests[r].body.id = r
  BY DEF DraftInv, TypeOK, RowsOK, Tap, TryConsumeRequest
<1>b. /\ requests'[r] # None /\ requests'[r].used
      /\ requests'[r].body = requests[r].body
      /\ requests' = [requests EXCEPT ![r].used = TRUE]
      /\ requests'[r] = [requests[r] EXCEPT !.used = TRUE]
      /\ \A q \in RequestIds : q # r => requests'[q] = requests[q]
  BY <1>a, DraftNoneAssumption DEF DraftInv, TypeOK, Tap, TryConsumeRequest
<1>c. /\ lanes'[l] = [pc |-> "consumed", source |-> "tap", req |-> requests[r].body,
                      seen |-> None, fence |-> None]
      /\ \A k \in Lanes : k # l => lanes'[k] = lanes[k]
      /\ lanes' \in [Lanes -> Lane]
  BY <1>a DEF DraftInv, TypeOK, Tap, Lane
<1>d. /\ \A k \in Lanes : lanes[k].pc # "idle" => lanes[k].req.id # r
      /\ \A f \in FenceIds : Fenced(f) => fences[f].req # r
  BY <1>a DEF DraftInv, UnspentOK, Unspent
<1>e. UNCHANGED <<clock, outside, grants, issued, approvals, admitted, fences>>
  BY DEF Tap
<1>1. TypeOK'
  BY <1>a, <1>b, <1>c, <1>e DEF DraftInv, TypeOK, clock, outside
<1>2. RowsOK' /\ UnspentOK'
  <2>1. RowsOK'
    BY <1>a, <1>b, <1>e DEF DraftInv, RowsOK, outside
  <2>2. ASSUME NEW q \in RequestIds, Unspent(q)'
        PROVE  /\ \A k \in Lanes : lanes'[k].pc # "idle" => lanes'[k].req.id # q
               /\ \A f \in FenceIds : Fenced(f)' => fences'[f].req # q
    <3>1. r \in issued
      BY <1>a DEF DraftInv, RowsOK
    <3>2. q # r
      BY <2>2, <3>1, <1>b, <1>e DEF Unspent
    <3>3. Unspent(q)
      BY <2>2, <3>2, <1>b, <1>e DEF Unspent
    <3>4. lanes'[l].req.id = r
      BY <1>a, <1>c
    <3>. QED  BY <3>2, <3>3, <3>4, <1>c, <1>e DEF DraftInv, UnspentOK, Fenced
  <2>. QED  BY <2>1, <2>2 DEF UnspentOK
<1>3. ASSUME NEW k \in Lanes PROVE LaneOK(k)'
  <2>1. CASE k = l
    <3>1. /\ lanes'[k].pc = "consumed" /\ lanes'[k].source = "tap"
          /\ lanes'[k].req = requests[r].body
      BY <2>1, <1>c
    <3>. QED  BY <3>1, <1>a, <1>b DEF LaneOK, Holds
  <2>2. CASE k # l
    <3>1. lanes[k].pc # "idle" => lanes[k].req \in Request /\ lanes[k].req.id # r
      BY <1>d DEF DraftInv, LaneOK, Holds
    <3>. QED  BY <2>2, <3>1, <1>b, <1>c, <1>e
              DEF DraftInv, LaneOK, Holds, Backed, SameTarget, TargetDigest, Request
  <2>. QED  BY <2>1, <2>2
<1>4. ASSUME NEW k \in Lanes PROVE Attempt(k)'
  BY <1>a, <1>c, <1>d, <1>e
     DEF DraftInv, Attempt, PendingFences, Fenced, Sent, DraftOf, outside
<1>5. LanesApart' /\ FencesApart' /\ PendingApart'
  BY <1>a, <1>c, <1>d, <1>e
     DEF DraftInv, LanesApart, FencesApart, PendingApart, PendingFences, Fenced
<1>6. SentOK'
  <2>1. ASSUME NEW d \in Sent PROVE Consented(d)'
    <3>1. d.req \in RequestIds /\ Consented(d)
      BY DEF DraftInv, TypeOK, SentOK, Sent, Draft
    <3>. QED  BY <3>1, <1>a, <1>b, <1>e DEF Consented
  <2>. QED  BY <2>1, <1>e
            DEF DraftInv, SentOK, Sent, Fenced, FingerprintOf, PendingFences, outside
<1>. QED  BY <1>1, <1>2, <1>3, <1>4, <1>5, <1>6 DEF DraftInv

LEMMA ApproveStep ==
    ASSUME DraftInv, NEW l \in Lanes, Approve(l)
    PROVE  DraftInv'
<1> DEFINE req  == lanes[l].req
           appr == [payload |-> req.payload, target |-> req.target,
                    expires |-> now + ApprovalTtl]
<1>a. /\ lanes[l].pc = "consumed" /\ lanes[l].source = "tap"
      /\ req \in Request /\ req.id \in RequestIds /\ appr \in Approval
  BY DraftAssumption DEF DraftInv, TypeOK, Approve, LaneOK, Holds, Request, Approval
<1>b. approvals' = [approvals EXCEPT ![req.id] = appr]
  BY DEF Approve
<1>c. /\ \/ lanes'[l] = [lanes[l] EXCEPT !.pc = "fetch"]
         \/ lanes'[l] = IdleLane
      /\ \A k \in Lanes : k # l => lanes'[k] = lanes[k]
      /\ DOMAIN lanes' = Lanes /\ lanes' = [k \in Lanes |-> lanes'[k]]
  BY DEF DraftInv, TypeOK, Approve, Goto, Leave
<1>d. UNCHANGED <<clock, outside, grants, issued, requests, admitted, fences>>
  BY DEF Approve
<1>e. \A f \in FenceIds : Fenced(f) => fences[f].req # req.id
  BY <1>a DEF DraftInv, Attempt
<1>f. lanes[l] \in Lane /\ lanes'[l] \in Lane
  BY <1>c DEF DraftInv, TypeOK, Lane, IdleLane
<1>1. TypeOK'
  <2>1. lanes' \in [Lanes -> Lane]
    BY <1>c, <1>f DEF DraftInv, TypeOK
  <2>. QED  BY <2>1, <1>a, <1>b, <1>d DEF DraftInv, TypeOK, clock, outside
<1>2. RowsOK' /\ UnspentOK'
  <2>1. \A k \in Lanes : lanes'[k].pc # "idle"
                             => lanes[k].pc # "idle" /\ lanes'[k].req = lanes[k].req
    BY <1>a, <1>c, <1>f DEF IdleLane, Lane
  <2>. QED  BY <2>1, <1>d DEF DraftInv, RowsOK, UnspentOK, Unspent, Fenced, outside
<1>3. ASSUME NEW k \in Lanes PROVE LaneOK(k)'
  <2>1. CASE k = l
    <3>1. CASE lanes'[l] = IdleLane
      BY <2>1, <3>1 DEF LaneOK, IdleLane
    <3>2. CASE lanes'[l] = [lanes[l] EXCEPT !.pc = "fetch"]
      <4>1. /\ lanes'[l].pc = "fetch" /\ lanes'[l].source = "tap" /\ lanes'[l].req = req
        BY <3>2, <1>a, <1>f DEF Lane
      <4>2. approvals'[req.id] = appr /\ appr # None
        BY <1>a, <1>b, DraftNoneAssumption DEF DraftInv, TypeOK
      <4>3. Holds(l)' /\ Backed(l)'
        BY <4>1, <4>2, <1>a, <1>d DEF DraftInv, LaneOK, Holds, Backed
      <4>. QED  BY <2>1, <4>1, <4>3 DEF LaneOK
    <3>. QED  BY <3>1, <3>2, <1>c
  <2>2. CASE k # l
    <3>1. lanes[k].pc # "idle" => lanes[k].req.id # req.id
      BY <2>2, <1>a DEF DraftInv, LanesApart
    <3>. QED  BY <2>2, <3>1, <1>b, <1>c, <1>d
              DEF DraftInv, TypeOK, LaneOK, Holds, Backed, SameTarget, TargetDigest
  <2>. QED  BY <2>1, <2>2
<1>4. ASSUME NEW k \in Lanes PROVE Attempt(k)'
  <2>1. CASE k = l
    BY <2>1, <1>a, <1>c, <1>d, <1>e, <1>f DEF Attempt, Fenced, IdleLane, Lane
  <2>2. CASE k # l
    BY <2>2, <1>c, <1>d
       DEF DraftInv, Attempt, PendingFences, Fenced, Sent, DraftOf, outside
  <2>. QED  BY <2>1, <2>2
<1>5. LanesApart' /\ FencesApart' /\ PendingApart'
  <2>1. \A k \in Lanes : lanes'[k].pc # "idle"
                             => lanes[k].pc # "idle" /\ lanes'[k].req = lanes[k].req
    BY <1>a, <1>c, <1>f DEF IdleLane, Lane
  <2>. QED  BY <2>1, <1>d
            DEF DraftInv, LanesApart, FencesApart, PendingApart, PendingFences, Fenced
<1>6. SentOK'
  <2>1. ASSUME NEW d \in Sent PROVE Consented(d)'
    <3>1. d.req # req.id /\ d.req \in RequestIds /\ Consented(d)
      BY <1>e DEF DraftInv, TypeOK, SentOK, Sent, Draft
    <3>. QED  BY <3>1, <1>a, <1>b, <1>d DEF Consented, DraftInv, TypeOK
  <2>. QED  BY <2>1, <1>d
            DEF DraftInv, SentOK, Sent, Fenced, FingerprintOf, PendingFences, outside
<1>. QED  BY <1>1, <1>2, <1>3, <1>4, <1>5, <1>6 DEF DraftInv

LEMMA ResolveScopedAdmissionStep ==
    ASSUME DraftInv, NEW l \in Lanes, NEW g \in GrantIds, NEW r \in RequestIds,
           NEW p \in Payloads, ResolveScopedAdmission(l, g, r, p)
    PROVE  DraftInv'
<1> DEFINE thread == GrantRow[g].thread
           req    == [id |-> r, grant |-> g, thread |-> thread, payload |-> p,
                      target |-> TargetDigest(thread, recipient[thread])]
           lane   == [pc |-> "consult", source |-> "rule", req |-> req,
                      seen |-> None, fence |-> None]
<1>a. thread \in Threads /\ recipient[thread] \in Recipients
  BY DraftAssumption DEF DraftInv, TypeOK, ResolveScopedAdmission, SomeoneToAnswer, Row
<1>b. req \in Request /\ req.id = r /\ lane \in Lane
  BY <1>a DEF Request, Target, TargetDigest, Lane
<1>c. /\ issued' = issued \cup {r} /\ r \notin issued
      /\ lanes' = [lanes EXCEPT ![l] = lane]
      /\ UNCHANGED <<now, crashes, grants, requests, approvals, admitted, fences,
                     recipient, buttons, wire, drafts>>
  BY DEF ResolveScopedAdmission, clock, outside
<1>d. /\ lanes'[l] = lane /\ lanes' \in [Lanes -> Lane]
      /\ \A k \in Lanes : k # l => lanes'[k] = lanes[k]
  BY <1>b, <1>c DEF DraftInv, TypeOK
<1>e. /\ lanes'[l].pc = "consult" /\ lanes'[l].source = "rule" /\ lanes'[l].req = req
  BY <1>d
<1>f. /\ \A k \in Lanes : lanes[k].pc # "idle" => lanes[k].req.id # r
      /\ \A f \in FenceIds : Fenced(f) => fences[f].req # r
  BY <1>c DEF DraftInv, UnspentOK, Unspent
<1> HIDE DEF thread, req, lane
<1>1. TypeOK' /\ RowsOK'
  <2>1. issued' \subseteq RequestIds
    BY <1>c DEF DraftInv, TypeOK
  <2>2. TypeOK'
    BY <2>1, <1>c, <1>d DEF DraftInv, TypeOK
  <2>3. RowsOK'
    BY <1>c DEF DraftInv, RowsOK
  <2>. QED  BY <2>2, <2>3
<1>2. UnspentOK'
  <2>. SUFFICES ASSUME NEW q \in RequestIds, Unspent(q)'
                PROVE  /\ \A k \in Lanes : lanes'[k].pc # "idle" => lanes'[k].req.id # q
                       /\ \A f \in FenceIds : Fenced(f) => fences[f].req # q
    BY <1>c DEF UnspentOK, Fenced
  <2>1. requests[r] = None
    BY <1>c DEF DraftInv, RowsOK
  <2>2. q # r
    BY <2>1, <1>c DEF Unspent
  <2>3. Unspent(q)
    BY <2>2, <1>c DEF Unspent
  <2>. QED  BY <2>2, <2>3, <1>b, <1>d, <1>e DEF DraftInv, UnspentOK
<1>3. ASSUME NEW k \in Lanes PROVE LaneOK(k)'
  <2>1. CASE k = l
    BY <2>1, <1>b, <1>e DEF LaneOK, Holds
  <2>2. CASE k # l
    BY <2>2, <1>c, <1>d, LaneUntouched DEF DraftInv
  <2>. QED  BY <2>1, <2>2
<1>4. ASSUME NEW k \in Lanes PROVE Attempt(k)'
  <2>1. CASE k = l
    BY <2>1, <1>b, <1>c, <1>e, <1>f DEF Attempt, Fenced
  <2>2. CASE k # l
    BY <2>2, <1>c, <1>d, AttemptUntouched DEF DraftInv
  <2>. QED  BY <2>1, <2>2
<1>5. LanesApart'
  BY <1>b, <1>d, <1>e, <1>f DEF DraftInv, LanesApart
<1>6. FencesApart' /\ PendingApart' /\ SentOK'
  BY <1>c, FencesUntouched, SentUntouched DEF DraftInv
<1>. QED  BY <1>1, <1>2, <1>3, <1>4, <1>5, <1>6 DEF DraftInv

LEMMA ConsultScopedRuleStep ==
    ASSUME DraftInv, NEW l \in Lanes, ConsultScopedRule(l)
    PROVE  DraftInv'
<1>a. /\ lanes[l].pc = "consult" /\ lanes[l].source = "rule" /\ lanes[l] \in Lane
      /\ lanes[l].req \in Request
  BY DEF DraftInv, TypeOK, ConsultScopedRule, LaneOK, Holds
<1>b. /\ lanes' = [lanes EXCEPT ![l].pc = "fetch"]
      /\ admitted' = admitted \cup {lanes[l].req}
      /\ UNCHANGED <<now, crashes, grants, issued, requests, approvals, fences,
                     recipient, buttons, wire, drafts>>
  BY DEF ConsultScopedRule, Goto, clock, outside
<1>c. /\ lanes'[l].pc = "fetch" /\ lanes'[l].source = "rule"
      /\ lanes'[l].req = lanes[l].req /\ lanes'[l] \in Lane
  BY <1>a, <1>b DEF DraftInv, TypeOK, Lane
<1>d. \A k \in Lanes : k # l => lanes'[k] = lanes[k]
  BY <1>b DEF DraftInv, TypeOK
<1>1. TypeOK' /\ RowsOK'
  <2>1. lanes' \in [Lanes -> Lane]
    BY <1>b, <1>c, <1>d DEF DraftInv, TypeOK
  <2>2. TypeOK'
    BY <2>1, <1>a, <1>b DEF DraftInv, TypeOK
  <2>3. RowsOK'
    BY <1>b DEF DraftInv, RowsOK
  <2>. QED  BY <2>2, <2>3
<1>2. UnspentOK' /\ LanesApart'
  <2>1. NoRequestTaken
    BY <1>a, <1>c, <1>d DEF NoRequestTaken
  <2>2. \A f \in FenceIds : Fenced(f)' => Fenced(f) /\ fences'[f].req = fences[f].req
    BY <1>b DEF Fenced
  <2>. QED  BY <2>1, <2>2, <1>b, RequestsCarried DEF DraftInv
<1>3. ASSUME NEW k \in Lanes PROVE LaneOK(k)'
  <2>1. CASE k = l
    BY <2>1, <1>a, <1>b, <1>c DEF LaneOK, Holds, Backed
  <2>2. CASE k # l
    <3>1. Holds(k) => Holds(k)'
      BY <2>2, <1>b, <1>d DEF Holds
    <3>2. Backed(k) => Backed(k)'
      BY <2>2, <1>b, <1>d DEF Backed
    <3>3. SameTarget(lanes[k].req, lanes[k].seen)
            => SameTarget(lanes[k].req, lanes[k].seen)'
      BY <2>2, <1>d DEF SameTarget, TargetDigest
    <3>. QED  BY <2>2, <3>1, <3>2, <3>3, <1>d DEF DraftInv, LaneOK
  <2>. QED  BY <2>1, <2>2
<1>4. ASSUME NEW k \in Lanes PROVE Attempt(k)'
  <2>1. CASE k = l
    BY <2>1, <1>a, <1>b, <1>c DEF DraftInv, Attempt, Fenced
  <2>2. CASE k # l
    BY <2>2, <1>b, <1>d, AttemptUntouched DEF DraftInv
  <2>. QED  BY <2>1, <2>2
<1>5. FencesApart' /\ PendingApart'
  BY <1>b, FencesUntouched DEF DraftInv
<1>6. SentOK'
  <2>1. ASSUME NEW d \in Sent PROVE Consented(d)'
    <3>1. Consented(d)
      BY DEF DraftInv, SentOK
    <3>. QED  BY <3>1, <1>b DEF Consented
  <2>. QED  BY <2>1, <1>b
            DEF DraftInv, SentOK, Sent, Fenced, FingerprintOf, PendingFences
<1>. QED  BY <1>1, <1>2, <1>3, <1>4, <1>5, <1>6 DEF DraftInv

LEMMA AbandonStep ==
    ASSUME DraftInv, NEW l \in Lanes, Abandon(l)
    PROVE  DraftInv'
<1>1. /\ lanes' = [lanes EXCEPT ![l] = IdleLane]
      /\ UNCHANGED <<clock, tables, outside>>
  BY DEF Abandon, Leave
<1>2. IdleLane \in Lane /\ IdleLane.pc = "idle"
  BY DEF IdleLane, Lane
<1>3. /\ lanes'[l] = IdleLane /\ lanes' \in [Lanes -> Lane]
      /\ \A k \in Lanes : k # l => lanes'[k] = lanes[k]
  BY <1>1, <1>2 DEF DraftInv, TypeOK
<1>4. LaneOK(l)' /\ Attempt(l)'
  BY <1>3, IdleLaneOK
<1>. QED  BY <1>1, <1>2, <1>3, <1>4, OneLaneMoves

LEMMA FetchThreadStep ==
    ASSUME DraftInv, NEW l \in Lanes, FetchThread(l)
    PROVE  DraftInv'
<1> DEFINE rcpt == recipient[lanes[l].req.thread]
<1>a. /\ lanes[l].pc = "fetch" /\ lanes[l] \in Lane
      /\ lanes[l].req \in Request /\ rcpt \in Recipients
      /\ Holds(l) /\ Backed(l)
  BY DEF DraftInv, TypeOK, FetchThread, SomeoneToAnswer, LaneOK, Holds, Request
<1>b. /\ lanes' = [lanes EXCEPT ![l].seen = rcpt, ![l].pc = "check"]
      /\ UNCHANGED <<clock, tables, outside>>
  BY DEF FetchThread
<1> HIDE DEF rcpt
<1>c. lanes'[l] = [lanes[l] EXCEPT !.seen = rcpt, !.pc = "check"]
  BY <1>b DEF DraftInv, TypeOK
<1>d. /\ lanes'[l].pc = "check" /\ lanes'[l].seen = rcpt
      /\ lanes'[l].source = lanes[l].source /\ lanes'[l].req = lanes[l].req
      /\ lanes'[l] \in Lane
  BY <1>a, <1>c DEF Lane
<1>e. \A k \in Lanes : k # l => lanes'[k] = lanes[k]
  BY <1>b DEF DraftInv, TypeOK
<1>f. lanes' \in [Lanes -> Lane]
  BY <1>b, <1>d, <1>e DEF DraftInv, TypeOK
<1>1. LaneOK(l)'
  <2>1. Holds(l)' /\ Backed(l)'
    BY <1>a, <1>b, <1>d DEF Holds, Backed, tables
  <2>. QED  BY <2>1, <1>a, <1>d DEF LaneOK
<1>2. Attempt(l)'
  BY <1>a, <1>b, <1>d DEF DraftInv, Attempt, Fenced, tables
<1>. QED  BY <1>a, <1>b, <1>d, <1>e, <1>f, <1>1, <1>2, OneLaneMoves

LEMMA CheckTargetStep ==
    ASSUME DraftInv, NEW l \in Lanes, CheckTarget(l)
    PROVE  DraftInv'
<1>a. /\ lanes[l].pc = "check" /\ lanes[l] \in Lane
      /\ Holds(l) /\ Backed(l) /\ lanes[l].seen \in Recipients
  BY DEF DraftInv, TypeOK, CheckTarget, LaneOK
<1>b. UNCHANGED <<clock, tables, outside>>
  BY DEF CheckTarget
<1>c. \A k \in Lanes : k # l => lanes'[k] = lanes[k]
  BY DEF DraftInv, TypeOK, CheckTarget, Goto, Leave
<1>1. CASE /\ SameTarget(lanes[l].req, lanes[l].seen)
           /\ lanes' = [lanes EXCEPT ![l].pc = "begin"]
  <2>1. lanes'[l] = [lanes[l] EXCEPT !.pc = "begin"]
    BY <1>1 DEF DraftInv, TypeOK
  <2>2. /\ lanes'[l].pc = "begin" /\ lanes'[l].seen = lanes[l].seen
        /\ lanes'[l].source = lanes[l].source /\ lanes'[l].req = lanes[l].req
        /\ lanes'[l] \in Lane
    BY <2>1, <1>a DEF Lane
  <2>3. lanes' \in [Lanes -> Lane]
    BY <2>2, <1>1, <1>c DEF DraftInv, TypeOK
  <2>4. LaneOK(l)'
    <3>1. Holds(l)' /\ Backed(l)'
      BY <1>a, <1>b, <2>2 DEF Holds, Backed, tables
    <3>2. SameTarget(lanes[l].req, lanes[l].seen)'
      BY <1>1, <2>2 DEF SameTarget, TargetDigest
    <3>. QED  BY <3>1, <3>2, <1>a, <2>2 DEF LaneOK
  <2>5. Attempt(l)'
    BY <1>a, <1>b, <2>2 DEF DraftInv, Attempt, Fenced, tables
  <2>. QED  BY <1>a, <1>b, <1>c, <2>2, <2>3, <2>4, <2>5, OneLaneMoves
<1>2. CASE lanes' = [lanes EXCEPT ![l] = IdleLane]
  <2>1. IdleLane \in Lane /\ IdleLane.pc = "idle"
    BY DEF IdleLane, Lane
  <2>2. lanes'[l] = IdleLane /\ lanes' \in [Lanes -> Lane]
    BY <1>2, <2>1 DEF DraftInv, TypeOK
  <2>3. LaneOK(l)' /\ Attempt(l)'
    BY <2>2, IdleLaneOK
  <2>. QED  BY <1>b, <1>c, <2>1, <2>2, <2>3, OneLaneMoves
<1>. QED  BY <1>1, <1>2 DEF CheckTarget, Goto, Leave

LEMMA BeginEffectStep ==
    ASSUME DraftInv, NEW l \in Lanes, NEW f \in FenceIds, BeginEffect(l, f)
    PROVE  DraftInv'
<1> DEFINE req   == lanes[l].req
           fence == [req |-> req.id, fp |-> Fingerprint(req), state |-> "pending"]
<1>a. /\ lanes[l].pc = "begin" /\ lanes[l] \in Lane
      /\ Holds(l) /\ Backed(l) /\ lanes[l].seen \in Recipients
      /\ SameTarget(req, lanes[l].seen)
  BY DEF DraftInv, TypeOK, BeginEffect, LaneOK
<1>b. req \in Request /\ req.id \in RequestIds /\ Fingerprint(req) \in Threads \X Target \X Payloads
  BY <1>a DEF Holds, Request, Fingerprint
<1>c. fence \in Fence /\ fence # None
  BY <1>b, DraftNoneAssumption DEF Fence
<1>d. /\ fences[f] = None
      /\ fences' = [fences EXCEPT ![f] = fence]
      /\ lanes' = [lanes EXCEPT ![l].fence = f, ![l].pc = "write"]
      /\ UNCHANGED <<now, crashes, grants, issued, requests, approvals, admitted,
                     recipient, buttons, wire, drafts>>
  BY DEF BeginEffect, clock, outside
<1>e. \A g \in PendingFences : fences[g].fp # Fingerprint(req)
  BY DEF BeginEffect, Claimable, HasPendingDraftWrite, PendingFences
<1>f. /\ fences'[f] = fence
      /\ \A g \in FenceIds : g # f => fences'[g] = fences[g]
  BY <1>d DEF DraftInv, TypeOK
<1>g. /\ fences'[f].req = req.id /\ fences'[f].fp = Fingerprint(req)
      /\ fences'[f].state = "pending" /\ fences'[f] # None
  BY <1>c, <1>f
<1>h. lanes'[l] = [lanes[l] EXCEPT !.fence = f, !.pc = "write"]
  BY <1>d DEF DraftInv, TypeOK
<1>i. /\ lanes'[l].pc = "write" /\ lanes'[l].fence = f /\ lanes'[l].req = req
      /\ lanes'[l].seen = lanes[l].seen /\ lanes'[l].source = lanes[l].source
      /\ lanes'[l] \in Lane
  BY <1>a, <1>h DEF Lane
<1>j. \A k \in Lanes : k # l => lanes'[k] = lanes[k]
  BY <1>d DEF DraftInv, TypeOK
<1>k. PendingFences' = PendingFences \cup {f} /\ f \notin PendingFences
  BY <1>d, <1>f, <1>g DEF PendingFences
<1>l. \A g \in FenceIds : Fenced(g) => g # f /\ fences[g].req # req.id
  BY <1>a, <1>d DEF DraftInv, Attempt, Fenced
<1>m. \A d \in Sent : d.fence \in FenceIds /\ Fenced(d.fence) /\ d.fence # f
  BY <1>d DEF DraftInv, TypeOK, SentOK, Sent, Draft, Fenced
<1> HIDE DEF fence
<1>1. TypeOK' /\ RowsOK'
  <2>1. lanes' \in [Lanes -> Lane]
    BY <1>d, <1>i, <1>j DEF DraftInv, TypeOK
  <2>2. fences' \in [FenceIds -> Fence \cup {None}]
    BY <1>c, <1>d DEF DraftInv, TypeOK
  <2>3. TypeOK'
    BY <2>1, <2>2, <1>d DEF DraftInv, TypeOK
  <2>4. RowsOK'
    BY <1>d DEF DraftInv, RowsOK
  <2>. QED  BY <2>3, <2>4
<1>2. UnspentOK'
  <2>. SUFFICES ASSUME NEW q \in RequestIds, Unspent(q)'
                PROVE  /\ \A k \in Lanes : lanes'[k].pc # "idle" => lanes'[k].req.id # q
                       /\ \A g \in FenceIds : Fenced(g)' => fences'[g].req # q
    BY DEF UnspentOK
  <2>1. /\ \A k \in Lanes : lanes[k].pc # "idle" => lanes[k].req.id # q
        /\ \A g \in FenceIds : Fenced(g) => fences[g].req # q
    BY <1>d DEF Unspent, DraftInv, UnspentOK
  <2>2. req.id # q
    BY <2>1, <1>a
  <2>3. \A k \in Lanes : lanes'[k].pc # "idle" => lanes'[k].req.id # q
    BY <2>1, <2>2, <1>i, <1>j
  <2>4. \A g \in FenceIds : Fenced(g)' => fences'[g].req # q
    BY <2>1, <2>2, <1>f, <1>g DEF Fenced
  <2>. QED  BY <2>3, <2>4
<1>3. ASSUME NEW k \in Lanes PROVE LaneOK(k)'
  <2>1. CASE k = l
    <3>1. Holds(l)' /\ Backed(l)'
      BY <1>a, <1>d, <1>i DEF Holds, Backed
    <3>2. SameTarget(lanes[l].req, lanes[l].seen)'
      BY <1>a, <1>i DEF SameTarget, TargetDigest
    <3>. QED  BY <2>1, <3>1, <3>2, <1>a, <1>i DEF LaneOK
  <2>2. CASE k # l
    BY <2>2, <1>d, <1>j, LaneUntouched DEF DraftInv
  <2>. QED  BY <2>1, <2>2
<1>4. ASSUME NEW k \in Lanes PROVE Attempt(k)'
  <2>1. Sent' = Sent
    BY <1>d DEF Sent
  <2>2. CASE k = l
    <3>1. Fingerprint(lanes'[l].req) = Fingerprint(req)
      BY <1>i
    <3>. QED  BY <2>1, <2>2, <3>1, <1>g, <1>i, <1>k, <1>m DEF Attempt, Fingerprint
  <2>3. CASE k # l
    <3>1. lanes'[k] = lanes[k] /\ Attempt(k)
      BY <2>3, <1>j DEF DraftInv
    <3>2. lanes[k].pc # "idle" => lanes[k].req.id # req.id
      BY <2>3, <1>a DEF DraftInv, LanesApart
    <3>3. lanes[k].pc \in {"write", "await"} =>
            /\ lanes[k].fence \in PendingFences'
            /\ fences'[lanes[k].fence].req = lanes[k].req.id
            /\ fences'[lanes[k].fence].fp = Fingerprint(lanes[k].req)
      <4>1. \A g \in PendingFences : g \in FenceIds /\ g # f
        BY <1>k DEF PendingFences
      <4>. QED  BY <3>1, <4>1, <1>f, <1>k DEF Attempt
    <3>4. lanes[k].pc \notin {"idle", "write", "await"} =>
            \A g \in FenceIds : Fenced(g)' => fences'[g].req # lanes[k].req.id
      BY <3>1, <3>2, <1>f, <1>g DEF Attempt, Fenced
    <3>. QED  BY <2>1, <3>1, <3>3, <3>4 DEF Attempt, Fingerprint, DraftOf
  <2>. QED  BY <2>2, <2>3
<1>5. LanesApart'
  BY <1>a, <1>i, <1>j DEF DraftInv, LanesApart
<1>6. FencesApart' /\ PendingApart'
  <2>1. FencesApart'
    BY <1>f, <1>g, <1>l DEF DraftInv, FencesApart, Fenced
  <2>2. \A g \in PendingFences : g \in FenceIds /\ fences'[g] = fences[g]
    BY <1>f, <1>k DEF PendingFences
  <2>3. PendingApart'
    BY <2>2, <1>e, <1>g, <1>k DEF DraftInv, PendingApart
  <2>. QED  BY <2>1, <2>3
<1>7. SentOK'
  <2>1. Sent' = Sent
    BY <1>d DEF Sent
  <2>2. ASSUME NEW d \in Sent
        PROVE  /\ Fenced(d.fence)' /\ fences'[d.fence].req = d.req
               /\ fences'[d.fence].fp = FingerprintOf(d)'
               /\ Consented(d)'
    <3>1. fences'[d.fence] = fences[d.fence]
      BY <1>f, <1>m
    <3>2. Consented(d)'
      BY <1>d DEF DraftInv, SentOK, Consented
    <3>. QED  BY <3>1, <3>2 DEF DraftInv, SentOK, Fenced, FingerprintOf
  <2>. QED  BY <2>1, <2>2, <1>d, <1>k DEF DraftInv, SentOK
<1>. QED  BY <1>1, <1>2, <1>3, <1>4, <1>5, <1>6, <1>7 DEF DraftInv

LEMMA SendWriteStep ==
    ASSUME DraftInv, NEW l \in Lanes, SendWrite(l)
    PROVE  DraftInv'
<1>a. /\ lanes[l].pc = "write" /\ lanes[l] \in Lane
      /\ lanes[l].req \in Request /\ lanes[l].seen \in Recipients
      /\ lanes[l].fence \in PendingFences
      /\ DraftOf(lanes[l]) \in Draft
  BY DEF DraftInv, TypeOK, SendWrite, LaneOK, Holds, Attempt, PendingFences, DraftOf,
         Draft, Request
<1>b. /\ lanes' = [lanes EXCEPT ![l].pc = "await"]
      /\ wire' = wire \cup {DraftOf(lanes[l])}
      /\ UNCHANGED <<now, crashes, grants, issued, requests, approvals, admitted,
                     fences, recipient, buttons, drafts>>
  BY DEF SendWrite, Goto, clock, tables
<1>c. lanes'[l] = [lanes[l] EXCEPT !.pc = "await"]
  BY <1>b DEF DraftInv, TypeOK
<1>d. /\ lanes'[l].pc = "await" /\ lanes'[l].fence = lanes[l].fence
      /\ lanes'[l].req = lanes[l].req /\ lanes'[l].seen = lanes[l].seen
      /\ lanes'[l].source = lanes[l].source /\ lanes'[l] \in Lane
  BY <1>a, <1>c DEF Lane
<1>e. \A k \in Lanes : k # l => lanes'[k] = lanes[k]
  BY <1>b DEF DraftInv, TypeOK
<1>1. TypeOK' /\ RowsOK'
  <2>1. lanes' \in [Lanes -> Lane]
    BY <1>b, <1>d, <1>e DEF DraftInv, TypeOK
  <2>2. TypeOK'
    BY <2>1, <1>a, <1>b DEF DraftInv, TypeOK
  <2>3. RowsOK'
    BY <1>b DEF DraftInv, RowsOK
  <2>. QED  BY <2>2, <2>3
<1>2. UnspentOK' /\ LanesApart'
  <2>1. NoRequestTaken
    BY <1>a, <1>d, <1>e DEF NoRequestTaken
  <2>2. \A f \in FenceIds : Fenced(f)' => Fenced(f) /\ fences'[f].req = fences[f].req
    BY <1>b DEF Fenced
  <2>. QED  BY <2>1, <2>2, <1>b, RequestsCarried DEF DraftInv
<1>3. ASSUME NEW k \in Lanes PROVE LaneOK(k)'
  <2>1. CASE k = l
    <3>1. Holds(l) /\ Backed(l) /\ SameTarget(lanes[l].req, lanes[l].seen)
      BY <1>a DEF DraftInv, LaneOK
    <3>2. Holds(l)' /\ Backed(l)'
      BY <3>1, <1>a, <1>b, <1>d DEF Holds, Backed
    <3>3. SameTarget(lanes[l].req, lanes[l].seen)'
      BY <3>1, <1>d DEF SameTarget, TargetDigest
    <3>. QED  BY <2>1, <3>2, <3>3, <1>a, <1>d DEF LaneOK
  <2>2. CASE k # l
    BY <2>2, <1>b, <1>e, LaneUntouched DEF DraftInv
  <2>. QED  BY <2>1, <2>2
<1>4. ASSUME NEW k \in Lanes PROVE Attempt(k)'
  <2>1. Sent' = Sent \cup {DraftOf(lanes[l])} /\ PendingFences' = PendingFences
    BY <1>b DEF Sent, PendingFences
  <2>2. DraftOf(lanes'[l]) = DraftOf(lanes[l]) /\ DraftOf(lanes[l]).fence = lanes[l].fence
    BY <1>d DEF DraftOf
  <2>3. CASE k = l
    <3>1. /\ fences[lanes[l].fence].req = lanes[l].req.id
          /\ fences[lanes[l].fence].fp = Fingerprint(lanes[l].req)
          /\ \A d \in Sent : d.fence # lanes[l].fence
      BY <1>a DEF DraftInv, Attempt
    <3>. QED  BY <2>1, <2>2, <2>3, <3>1, <1>a, <1>b, <1>d DEF Attempt, Fingerprint
  <2>4. CASE k # l
    <3>1. lanes'[k] = lanes[k] /\ Attempt(k)
      BY <2>4, <1>e DEF DraftInv
    <3>2. lanes[k].pc \in {"write", "await"} => lanes[k].fence # lanes[l].fence
      BY <2>4, <1>a DEF DraftInv, Attempt, LanesApart
    <3>3. \A g \in FenceIds : Fenced(g)' = Fenced(g) /\ fences'[g] = fences[g]
      BY <1>b DEF Fenced
    <3>4. lanes[k].pc \in {"write", "await"} =>
            \A d \in Sent' : d.fence = lanes[k].fence => d \in Sent
      BY <2>1, <2>2, <3>2
    <3>. QED  BY <2>1, <3>1, <3>3, <3>4, <1>b DEF Attempt, Fingerprint, DraftOf
  <2>. QED  BY <2>3, <2>4
<1>5. FencesApart' /\ PendingApart'
  BY <1>b, FencesUntouched DEF DraftInv
<1>6. SentOK'
  <2> DEFINE new == DraftOf(lanes[l])
  <2>1. Sent' = Sent \cup {new} /\ wire' = wire \cup {new}
    BY DEF SendWrite, Sent
  <2>2. Consented(new)
    BY <1>a DEF DraftInv, LaneOK, Holds, Backed, SameTarget, TargetDigest, Consented,
                DraftOf
  <2>3. /\ new.fence = lanes[l].fence /\ new.req = lanes[l].req.id
        /\ fences[new.fence].req = new.req
        /\ fences[new.fence].fp = FingerprintOf(new)
    BY <1>a DEF DraftInv, LaneOK, Attempt, Fingerprint, FingerprintOf, DraftOf,
                SameTarget, TargetDigest
  <2>4. \A d \in Sent : d.fence # new.fence
    BY <1>a, <2>3 DEF DraftInv, Attempt
  <2>5. UNCHANGED <<fences, requests, approvals, admitted, drafts>>
    BY DEF SendWrite, tables
  <2>6. new \notin drafts
    BY <2>4 DEF Sent
  <2>7. \A d \in Sent' : /\ Fenced(d.fence) /\ fences[d.fence].req = d.req
                          /\ fences[d.fence].fp = FingerprintOf(d) /\ Consented(d)
    BY <1>a, <2>1, <2>2, <2>3 DEF DraftInv, SentOK, PendingFences, Fenced
  <2>. QED  BY <1>a, <2>1, <2>3, <2>4, <2>5, <2>6, <2>7
            DEF DraftInv, SentOK, Fenced, PendingFences, Consented, FingerprintOf
<1>. QED  BY <1>1, <1>2, <1>3, <1>4, <1>5, <1>6 DEF DraftInv

(* A fence is resolved, its handler leaves, and nothing of it is left on   *)
(* the wire: what ConfirmedSuccess and ConfirmedFailure have in common.    *)
LEMMA SettleStep ==
    ASSUME DraftInv, NEW l \in Lanes, lanes[l].pc \in {"write", "await"},
           fences' = Resolved(lanes[l].fence), Leave(l),
           wire' \subseteq wire, DraftOf(lanes[l]) \notin wire',
           UNCHANGED <<clock, recipient, buttons, drafts, grants, issued, requests,
                       approvals, admitted>>
    PROVE  DraftInv'
<1> DEFINE mine == lanes[l].fence
<1>a. /\ mine \in PendingFences /\ mine \in FenceIds /\ fences[mine] \in Fence
      /\ fences[mine].req = lanes[l].req.id /\ fences[mine] # None
  BY DEF DraftInv, TypeOK, Attempt, PendingFences
<1>b. /\ lanes' = [lanes EXCEPT ![l] = IdleLane]
      /\ fences' = [fences EXCEPT ![mine].state = "resolved"]
      /\ UNCHANGED <<now, crashes, recipient, buttons, drafts, grants, issued,
                     requests, approvals, admitted>>
  BY DEF Leave, Resolved, clock
<1>c. /\ fences'[mine] = [fences[mine] EXCEPT !.state = "resolved"]
      /\ \A f \in FenceIds : f # mine => fences'[f] = fences[f]
  BY <1>a, <1>b DEF DraftInv, TypeOK
<1>d. /\ fences'[mine] \in Fence /\ fences'[mine].state = "resolved"
      /\ fences'[mine].req = fences[mine].req /\ fences'[mine].fp = fences[mine].fp
  BY <1>a, <1>c DEF Fence
<1>e. fences'[mine] # None
  BY <1>d, DraftNoneAssumption
<1>f. \A f \in FenceIds : /\ Fenced(f)' = Fenced(f)
                          /\ fences'[f].req = fences[f].req
                          /\ fences'[f].fp = fences[f].fp
  BY <1>a, <1>c, <1>d, <1>e DEF Fenced
<1>g. PendingFences' = PendingFences \ {mine}
  BY <1>c, <1>d DEF PendingFences
<1>h. IdleLane \in Lane /\ IdleLane.pc = "idle"
  BY DEF IdleLane, Lane
<1>i. /\ lanes'[l] = IdleLane /\ lanes' \in [Lanes -> Lane]
      /\ \A k \in Lanes : k # l => lanes'[k] = lanes[k]
  BY <1>b, <1>h DEF DraftInv, TypeOK
<1>j. Sent' \subseteq Sent
  BY <1>b DEF Sent
<1> HIDE DEF mine
<1>1. TypeOK' /\ RowsOK'
  <2>1. fences' \in [FenceIds -> Fence \cup {None}]
    BY <1>a, <1>b, <1>c, <1>d DEF DraftInv, TypeOK
  <2>2. TypeOK'
    BY <2>1, <1>b, <1>i DEF DraftInv, TypeOK
  <2>3. RowsOK'
    BY <1>b DEF DraftInv, RowsOK
  <2>. QED  BY <2>2, <2>3
<1>2. UnspentOK' /\ LanesApart'
  <2>1. NoRequestTaken
    BY <1>h, <1>i DEF NoRequestTaken
  <2>. QED  BY <2>1, <1>b, <1>f, RequestsCarried DEF DraftInv
<1>3. ASSUME NEW k \in Lanes PROVE LaneOK(k)'
  <2>1. CASE k = l
    BY <2>1, <1>i, IdleLaneOK
  <2>2. CASE k # l
    BY <2>2, <1>b, <1>i, LaneUntouched DEF DraftInv
  <2>. QED  BY <2>1, <2>2
<1>4. ASSUME NEW k \in Lanes PROVE Attempt(k)'
  <2>1. CASE k = l
    BY <2>1, <1>i, IdleLaneOK
  <2>2. CASE k # l
    <3>1. lanes'[k] = lanes[k] /\ Attempt(k)
      BY <2>2, <1>i DEF DraftInv
    <3>2. lanes[k].pc \in {"write", "await"} => lanes[k].fence # mine
      BY <2>2, <1>a DEF DraftInv, Attempt, LanesApart
    <3>3. \A f \in PendingFences : f \in FenceIds
      BY DEF PendingFences
    <3>4. lanes[k].pc \in {"write", "await"} =>
            /\ lanes[k].fence \in PendingFences'
            /\ fences'[lanes[k].fence].req = lanes[k].req.id
            /\ fences'[lanes[k].fence].fp = Fingerprint(lanes[k].req)
      BY <3>1, <3>2, <3>3, <1>f, <1>g DEF Attempt
    <3>5. lanes[k].pc \notin {"idle", "write", "await"} =>
            \A f \in FenceIds : Fenced(f)' => fences'[f].req # lanes[k].req.id
      BY <3>1, <1>f DEF Attempt
    <3>. QED  BY <3>1, <3>4, <3>5, <1>j DEF Attempt, Fingerprint, DraftOf
  <2>. QED  BY <2>1, <2>2
<1>5. FencesApart' /\ PendingApart'
  <2>1. FencesApart'
    BY <1>f DEF DraftInv, FencesApart
  <2>2. \A f \in PendingFences : f \in FenceIds
    BY DEF PendingFences
  <2>3. PendingApart'
    BY <2>2, <1>f, <1>g DEF DraftInv, PendingApart
  <2>. QED  BY <2>1, <2>3
<1>6. SentOK'
  <2>1. ASSUME NEW d \in Sent
        PROVE  /\ Fenced(d.fence)' /\ fences'[d.fence].req = d.req
               /\ fences'[d.fence].fp = FingerprintOf(d)' /\ Consented(d)'
    <3>1. d.fence \in FenceIds
      BY DEF DraftInv, TypeOK, Sent, Draft
    <3>2. Consented(d)'
      BY <1>b DEF DraftInv, SentOK, Consented
    <3>. QED  BY <3>1, <3>2, <1>f DEF DraftInv, SentOK, FingerprintOf
  <2>2. ASSUME NEW d \in wire' PROVE d.fence \in PendingFences'
    <3>1. d \in Sent /\ d \in wire /\ d # DraftOf(lanes[l])
      BY DEF Sent
    <3>2. d.fence # mine
      BY <3>1 DEF DraftInv, Attempt, mine
    <3>. QED  BY <3>1, <3>2, <1>g DEF DraftInv, SentOK
  <2>3. wire' \cap drafts' = {}
    BY <1>b DEF DraftInv, SentOK
  <2>. QED  BY <2>1, <2>2, <2>3, <1>j DEF DraftInv, SentOK
<1>. QED  BY <1>1, <1>2, <1>3, <1>4, <1>5, <1>6 DEF DraftInv

LEMMA SettleSuccessStep ==
    ASSUME DraftInv, NEW l \in Lanes, SettleSuccess(l)
    PROVE  DraftInv'
<1>1. DraftOf(lanes[l]) \notin wire'
  BY DEF SettleSuccess, outside, DraftInv, SentOK
<1>. QED  BY <1>1, SettleStep DEF SettleSuccess, outside

LEMMA SettleFailureStep ==
    ASSUME DraftInv, NEW l \in Lanes, SettleFailure(l)
    PROVE  DraftInv'
<1>1. wire' \subseteq wire /\ DraftOf(lanes[l]) \notin wire'
  BY DEF SettleFailure
<1>. QED  BY <1>1, SettleStep DEF SettleFailure

LEMMA SettleUnknownStep ==
    ASSUME DraftInv, NEW l \in Lanes, SettleUnknown(l)
    PROVE  DraftInv'
<1>1. /\ lanes' = [lanes EXCEPT ![l] = IdleLane]
      /\ UNCHANGED <<clock, tables, outside>>
  BY DEF SettleUnknown, Retained, Leave, tables
<1>2. IdleLane \in Lane /\ IdleLane.pc = "idle"
  BY DEF IdleLane, Lane
<1>3. /\ lanes'[l] = IdleLane /\ lanes' \in [Lanes -> Lane]
      /\ \A k \in Lanes : k # l => lanes'[k] = lanes[k]
  BY <1>1, <1>2 DEF DraftInv, TypeOK
<1>4. LaneOK(l)' /\ Attempt(l)'
  BY <1>3, IdleLaneOK
<1>. QED  BY <1>1, <1>2, <1>3, <1>4, OneLaneMoves

LEMMA LandStep ==
    ASSUME DraftInv, NEW d \in wire, Land(d)
    PROVE  DraftInv'
<1>1. /\ UNCHANGED <<now, crashes, grants, issued, requests, approvals, admitted, lanes,
                     fences, recipient, buttons>>
      /\ wire' = wire \ {d} /\ drafts' = drafts \cup {d}
  BY DEF Land, clock, tables
<1>2. Sent' = Sent /\ wire' \subseteq wire /\ wire' \cap drafts' = {}
  BY <1>1 DEF Sent, DraftInv, SentOK
<1>3. TypeOK' /\ RowsOK'
  <2>1. TypeOK'
    BY <1>1 DEF DraftInv, TypeOK
  <2>2. RowsOK'
    BY <1>1 DEF DraftInv, RowsOK
  <2>. QED  BY <2>1, <2>2
<1>4. UnspentOK' /\ LanesApart'
  <2>1. NoRequestTaken
    BY <1>1 DEF NoRequestTaken
  <2>2. \A f \in FenceIds : Fenced(f)' => Fenced(f) /\ fences'[f].req = fences[f].req
    BY <1>1 DEF Fenced
  <2>. QED  BY <2>1, <2>2, <1>1, RequestsCarried DEF DraftInv
<1>5. ASSUME NEW k \in Lanes PROVE LaneOK(k)' /\ Attempt(k)'
  <2>1. LaneOK(k)'
    BY <1>1, LaneUntouched DEF DraftInv
  <2>2. PendingFences' = PendingFences /\ \A f \in FenceIds : Fenced(f)' = Fenced(f)
    BY <1>1 DEF PendingFences, Fenced
  <2>3. Attempt(k)'
    BY <1>1, <1>2, <2>2 DEF DraftInv, Attempt, Fingerprint, DraftOf
  <2>. QED  BY <2>1, <2>3
<1>6. FencesApart' /\ PendingApart'
  BY <1>1, FencesUntouched DEF DraftInv
<1>7. SentOK'
  BY <1>1, <1>2 DEF DraftInv, SentOK, Consented, Fenced, FingerprintOf, PendingFences
<1>. QED  BY <1>3, <1>4, <1>5, <1>6, <1>7 DEF DraftInv

LEMMA ThreadMovesStep ==
    ASSUME DraftInv, NEW t \in Threads, NEW a \in Recipients \cup {None}, ThreadMoves(t, a)
    PROVE  DraftInv'
<1>1. /\ recipient' = [recipient EXCEPT ![t] = a]
      /\ UNCHANGED <<now, crashes, grants, issued, requests, approvals, admitted, lanes,
                     fences, buttons, wire, drafts>>
  BY DEF ThreadMoves, clock, tables
<1>2. TypeOK'
  BY <1>1 DEF DraftInv, TypeOK
<1>3. RowsOK'
  BY <1>1 DEF DraftInv, RowsOK
<1>. QED  BY <1>1, <1>2, <1>3, NoLaneMoves

LEMMA TickStep ==
    ASSUME DraftInv, Tick
    PROVE  DraftInv'
<1>1. /\ now' \in 0..MaxTime
      /\ UNCHANGED <<crashes, grants, issued, requests, approvals, admitted, lanes,
                     fences, recipient, buttons, wire, drafts>>
  BY DraftAssumption DEF Tick, tables, outside, DraftInv, TypeOK
<1>2. TypeOK'
  BY <1>1 DEF DraftInv, TypeOK
<1>3. RowsOK'
  BY <1>1 DEF DraftInv, RowsOK
<1>. QED  BY <1>1, <1>2, <1>3, NoLaneMoves

LEMMA SweepExpiredGrantsStep ==
    ASSUME DraftInv, SweepExpiredGrants
    PROVE  DraftInv'
<1>1. /\ grants' \subseteq grants
      /\ UNCHANGED <<now, crashes, issued, requests, approvals, admitted, lanes, fences,
                     recipient, buttons, wire, drafts>>
  BY DEF SweepExpiredGrants, clock, outside
<1>2. TypeOK'
  BY <1>1 DEF DraftInv, TypeOK
<1>3. RowsOK'
  BY <1>1 DEF DraftInv, RowsOK
<1>. QED  BY <1>1, <1>2, <1>3, NoLaneMoves

LEMMA CrashStep ==
    ASSUME DraftInv, Crash
    PROVE  DraftInv'
<1>1. /\ crashes' \in 0..MaxCrashes
      /\ lanes' = [l \in Lanes |-> IdleLane]
      /\ UNCHANGED <<now, grants, issued, requests, approvals, admitted, fences,
                     recipient, buttons, wire, drafts>>
  BY DraftAssumption DEF Crash, tables, outside, DraftInv, TypeOK
<1>2. IdleLane \in Lane /\ IdleLane.pc = "idle"
  BY DEF IdleLane, Lane
<1>3. \A k \in Lanes : lanes'[k] = IdleLane /\ lanes'[k].pc = "idle"
  BY <1>1, <1>2
<1>4. TypeOK' /\ RowsOK'
  <2>1. lanes' \in [Lanes -> Lane]
    BY <1>1, <1>2
  <2>2. TypeOK'
    BY <2>1, <1>1 DEF DraftInv, TypeOK
  <2>3. RowsOK'
    BY <1>1 DEF DraftInv, RowsOK
  <2>. QED  BY <2>2, <2>3
<1>5. UnspentOK' /\ LanesApart'
  <2>1. NoRequestTaken
    BY <1>3 DEF NoRequestTaken
  <2>2. \A f \in FenceIds : Fenced(f)' => Fenced(f) /\ fences'[f].req = fences[f].req
    BY <1>1 DEF Fenced
  <2>. QED  BY <2>1, <2>2, <1>1, RequestsCarried DEF DraftInv
<1>6. \A k \in Lanes : LaneOK(k)' /\ Attempt(k)'
  BY <1>3, IdleLaneOK
<1>7. FencesApart' /\ PendingApart' /\ SentOK'
  BY <1>1, FencesUntouched, SentUntouched DEF DraftInv
<1>. QED  BY <1>4, <1>5, <1>6, <1>7 DEF DraftInv

LEMMA DraftInit == Init => DraftInv
<1>. SUFFICES ASSUME Init PROVE DraftInv
  OBVIOUS
<1>1. TypeOK
  BY DraftAssumption
     DEF Init, TypeOK, Lane, IdleLane
<1>2. RowsOK /\ UnspentOK /\ LanesApart /\ FencesApart /\ PendingApart /\ SentOK
  BY DEF Init, RowsOK, UnspentOK, LanesApart, FencesApart, PendingApart,
         PendingFences, SentOK, Sent, Fenced, IdleLane
<1>3. \A l \in Lanes : LaneOK(l) /\ Attempt(l)
  BY DEF Init, LaneOK, Attempt, IdleLane
<1>. QED  BY <1>1, <1>2, <1>3 DEF DraftInv

LEMMA DraftNext == DraftInv /\ [Next]_vars => DraftInv'
<1>. SUFFICES ASSUME DraftInv, [Next]_vars PROVE DraftInv'
  OBVIOUS
<1>1. ASSUME NEW l \in Lanes, Unaided(l) PROVE DraftInv'
  BY <1>1, ApproveStep, ConsultScopedRuleStep, AbandonStep, CheckTargetStep,
     BeginEffectStep, SendWriteStep, SettleUnknownStep DEF Unaided
<1>2. ASSUME NEW l \in Lanes, Answered(l) PROVE DraftInv'
  BY <1>2, FetchThreadStep, SettleSuccessStep, SettleFailureStep DEF Answered
<1>3. CASE Next
  BY <1>1, <1>2, <1>3, ProposeDraftCreationStep, ButtonShownStep, TapStep,
     ResolveScopedAdmissionStep, LandStep, ThreadMovesStep, TickStep,
     SweepExpiredGrantsStep, CrashStep DEF Next
<1>4. CASE UNCHANGED vars
  <2>1. UNCHANGED <<now, crashes, recipient, grants, issued, requests, buttons, approvals,
                    admitted, lanes, fences, wire, drafts>>
    BY <1>4 DEF vars
  <2>2. TypeOK'
    BY <2>1 DEF DraftInv, TypeOK
  <2>3. RowsOK'
    BY <2>1 DEF DraftInv, RowsOK
  <2>. QED  BY <2>1, <2>2, <2>3, NoLaneMoves
<1>. QED  BY <1>3, <1>4

(* The life of a request id, from which the properties below follow: given *)
(* out once, held by one handler, fenced by one attempt, carried by one    *)
(* write.                                                                  *)
THEOREM RequestLives == Spec => []DraftInv
<1>. QED  BY DraftInit, DraftNext, PTL DEF Spec

(* The tables, the handlers and Gmail's mailbox keep their shape. *)
THEOREM DraftTyped == Spec => []TypeOK
<1>1. DraftInv => TypeOK
  BY DEF DraftInv
<1>. QED  BY <1>1, RequestLives, PTL

(* However the thread moves between the preview, the tap, the second fetch *)
(* and the write, and however handlers interleave or die, a draft goes to  *)
(* the recipient and carries the text its approval or admission names      *)
(* (create_approved_draft).                                                *)
THEOREM DraftsAreConsented == Spec => []DraftMatchesApproval
<1>1. DraftInv => DraftMatchesApproval
  BY DEF DraftInv, SentOK, Sent, DraftMatchesApproval
<1>. QED  BY <1>1, RequestLives, PTL

(* An Approve button, tapped any number of times, makes at most one draft  *)
(* (try_consume_action_request).                                           *)
THEOREM RequestMakesOneDraft == Spec => []OneDraftPerRequest
<1>1. DraftInv => OneDraftPerRequest
  <2>. SUFFICES ASSUME DraftInv, NEW d \in Sent, NEW e \in Sent, d.req = e.req
                PROVE  d = e
    BY DEF OneDraftPerRequest, Sent
  <2>1. /\ d.fence \in FenceIds /\ Fenced(d.fence) /\ fences[d.fence].req = d.req
        /\ e.fence \in FenceIds /\ Fenced(e.fence) /\ fences[e.fence].req = e.req
    BY DEF DraftInv, TypeOK, SentOK, Sent, Draft
  <2>2. d.fence = e.fence
    BY <2>1 DEF DraftInv, FencesApart
  <2>. QED  BY <2>2 DEF DraftInv, SentOK
<1>. QED  BY <1>1, RequestLives, PTL

(* No second write of a draft is begun while the fate of a first is unknown*)
(* (begin_effect, settle_effect).                                          *)
THEOREM UnknownWritesAreFenced == Spec => []NoWriteBesideUnknown
<1>1. DraftInv => NoWriteBesideUnknown
  <2>. SUFFICES ASSUME DraftInv PROVE NoWriteBesideUnknown
    OBVIOUS
  <2>1. wire \subseteq Unsettled
    BY DEF DraftInv, SentOK, Unsettled
  <2>2. ASSUME NEW d \in Unsettled, NEW e \in Unsettled, SameDraft(d, e) PROVE d = e
    <3>1. /\ d \in Sent /\ d.fence \in PendingFences
          /\ e \in Sent /\ e.fence \in PendingFences
      BY DEF Unsettled, Sent
    <3>2. fences[d.fence].fp = fences[e.fence].fp
      BY <2>2, <3>1 DEF DraftInv, SentOK, FingerprintOf, SameDraft
    <3>3. d.fence = e.fence
      BY <3>1, <3>2 DEF DraftInv, PendingApart
    <3>. QED  BY <3>1, <3>3 DEF DraftInv, SentOK
  <2>. QED  BY <2>1, <2>2 DEF NoWriteBesideUnknown
<1>. QED  BY <1>1, RequestLives, PTL

(* Once a fence is resolved no draft of that attempt appears               *)
(* (settle_effect resolves on a confirmed outcome only).                   *)
THEOREM ResolvedStaysSettled == Spec => ResolvedIsSettled
<1>1. DraftInv /\ [Next]_vars =>
        [\A d \in drafts' \ drafts : d.fence \in PendingFences]_vars
  <2>. SUFFICES ASSUME DraftInv, [Next]_vars, NEW d \in drafts' \ drafts
                PROVE  d.fence \in PendingFences
    OBVIOUS
  <2>1. d \in wire
    BY DEF Next, vars, Unaided, Answered, ProposeDraftCreation, ButtonShown, Tap,
           ResolveScopedAdmission, Approve, ConsultScopedRule, Abandon, CheckTarget,
           BeginEffect, SendWrite, SettleUnknown, FetchThread, SettleSuccess,
           SettleFailure, Land, ThreadMoves, Tick, SweepExpiredGrants, Crash, outside
  <2>. QED  BY <2>1 DEF DraftInv, SentOK
<1>. QED  BY <1>1, RequestLives, PTL DEF Spec, ResolvedIsSettled

==============================================================================
