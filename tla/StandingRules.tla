---------------------------- MODULE StandingRules ----------------------------
(***************************************************************************)
(* Standing rules of the OpenSpine kernel: an owner-approved rule lets an  *)
(* action that would need owner approval run without one, inside two       *)
(* sliding-window budgets (quota and rate).  When the budget is spent, a   *)
(* rule with a dark window opens an EXCEPTION: a pending row with a timer, *)
(* resolved by the owner or, on silence, by the rule's reviewed default.   *)
(* An allowed exception is a one-use token redeemed by a background        *)
(* consumer.                                                               *)
(*                                                                         *)
(* Every store call is one SQLite BEGIN IMMEDIATE transaction, hence one   *)
(* atomic action here; the kernel's tasks interleave between transactions. *)
(* Processes: one per shell request (mediation of an action), one dark-    *)
(* window consumer, the timer driver, the owner.                           *)
(*                                                                         *)
(* Simplifications:                                                        *)
(*  - the `quota' and `rate' rows of one reservation are always written,   *)
(*    committed and deleted together with one used_at; one record stands   *)
(*    for both and is counted against both windows;                        *)
(*  - a request fingerprint is a member of Prints, a reviewed scope is the *)
(*    counterparty it binds, times are small integers;                     *)
(*  - a pending row is named by the key it is deduplicated on              *)
(*    (rule, version, fingerprint), and carries its single timer link;     *)
(*  - the compatibility epoch of a scope does not change while the kernel  *)
(*    runs; connector health at resume is a free choice.                   *)
(***************************************************************************)
EXTENDS Integers, FiniteSets, Sequences

CONSTANTS
    Rules,          \* rule ids
    MaxVersion,     \* versions of a rule's manifest are 1..MaxVersion
    Actions,        \* catalog actions that need owner approval
    ScopedActions,  \* the actions whose descriptor requires a reviewed scope
    Counterparties, \* reviewed scopes; a scope binds one counterparty
    None,           \* no reviewed scope, no rule, no exception
    Manifest,       \* [Rules -> [1..MaxVersion -> manifest]]
    Prints,         \* request fingerprints (action, grant, surface, payload)
    PrintAction,    \* [Prints -> Actions]
    PrintScope,     \* [Prints -> Counterparties \cup {None}]
    Undecodable,    \* requests whose stored payload cannot be read back
    GrantExpiry,    \* [Prints -> Nat] expiry of the grant behind the request
    Attempts,       \* HTTP requests of the shell, one mediation each
    AttemptPrint,   \* [Attempts -> Prints]
    MaxTime,        \* bound on the clock
    RequestHorizon, \* no request arrives after this time
    MaxCrashes,     \* bound on kernel restarts
    StoreFaults     \* whether settlement writes fail and mediations are refused

Versions == 1..MaxVersion
Time     == 0..MaxTime
Never    == -1

(***************************************************************************)
(* The reviewed manifest: what StandingRuleManifest::validate admits.      *)
(* dwMax = 0 stands for "no dark window configured".                       *)
(***************************************************************************)
ManifestType ==
    [action  : Actions,
     scope   : Counterparties \cup {None},
     quota   : Nat, quotaWin : Nat \ {0},
     rate    : Nat, rateWin  : Nat \ {0},
     expires : Nat \ {0},
     dwMax   : 0..3,
     dwTime  : Nat \ {0},
     dwAllow : BOOLEAN]

ASSUME ConstantsAssumption ==
    /\ MaxVersion \in Nat /\ MaxTime \in Nat /\ MaxCrashes \in Nat
    /\ RequestHorizon \in Nat /\ StoreFaults \in BOOLEAN
    /\ ScopedActions \subseteq Actions /\ Undecodable \subseteq Prints
    /\ None \notin Counterparties
    /\ Manifest \in [Rules -> [Versions -> ManifestType]]
    /\ PrintAction \in [Prints -> Actions]
    /\ PrintScope \in [Prints -> Counterparties \cup {None}]
    /\ GrantExpiry \in [Prints -> Nat]
    /\ AttemptPrint \in [Attempts -> Prints]

(* Exceptions, named by their deduplication key. *)
Exceptions == [rule : Rules, version : Versions, print : Prints]

ASSUME IdsAssumption == Attempts \cap Exceptions = {}

Mf(r, v)         == Manifest[r][v]
ExceptionsOf(r)  == {p \in Exceptions : p.rule = r}
ExceptionsAt(r, v) == {p \in ExceptionsOf(r) : p.version = v}

VARIABLES
    now,       \* the wall clock
    rules,     \* table standing_rules (version 0: no row)
    usage,     \* table standing_rule_usage
    pend,      \* tables standing_rule_pending_actions and .._timer_links
    fired,     \* the workflow.timer_fired events of the audit log, in order
    acked,     \* the consumer's saved checkpoint into `fired'
    erased,    \* table erased_counterparties
    eligible,  \* the build's dark-window Allow allowlist
    att,       \* program state of each shell mediation
    cons,      \* program state of the dark-window consumer
    crashes,   \* restarts so far
    effects,   \* history: effects the consultation path let happen
    landed,    \* history: effects of each exception's one-use token
    tapped     \* history: exceptions the owner himself allowed or denied

tables  == <<rules, usage, pend, erased>>
history == <<effects, landed, tapped>>
vars    == <<now, rules, usage, pend, fired, acked, erased, eligible,
             att, cons, crashes, effects, landed, tapped>>

------------------------------------------------------------------------------
(* Rows and program states *)

Status == {"absent", "active", "paused", "needs_review", "revoked"}
RuleRow ==
    [version : 0..MaxVersion, status : Status,
     activatedAt : Nat, lastUsed : Nat \cup {Never}]
NoRule == [version |-> 0, status |-> "absent", activatedAt |-> 0, lastUsed |-> Never]

UsageRow ==
    [res : Attempts \cup Exceptions, rule : Rules, version : Versions,
     at : Nat, status : {"reserved", "committed"}]

PendRow ==
    [res : {"absent", "open", "allowed", "denied", "stale"},
     dispatch : {"none", "claimed", "dispatched"},
     token : BOOLEAN,       \* token_consumed_at IS NOT NULL
     refused : BOOLEAN,     \* dispatch_receipt_digest = 'refused-pre-effect'
     attention : BOOLEAN,   \* owner_attention_since IS NOT NULL
     timer : {"none", "pending", "fired", "applied"},
     firesAt : Nat]
NoException ==
    [res |-> "absent", dispatch |-> "none", token |-> FALSE, refused |-> FALSE,
     attention |-> FALSE, timer |-> "none", firesAt |-> 0]

Dispositions == {"ConfirmedSuccess", "DeliveryUnknown", "NotAttempted", "ConfirmedFailure"}

AttState ==
    [pc : {"idle", "gated", "saturated", "reserved", "dispatching", "settling",
           "done", "lost"},
     now : Nat, rule : Rules \cup {None}, version : 0..MaxVersion,
     disp : Dispositions \cup {"none"}]
ConsState ==
    [pc : {"sweep", "redrive", "replay", "mediate", "consume", "audit",
           "dispatching", "settling", "marking", "rearming", "acking"},
     todo : SUBSET Exceptions,
     upto : Nat,
     cur : Exceptions \cup {None},
     replaying : BOOLEAN,   \* the mediation serves a timer event, not the sweep
     now : Nat,
     disp : Dispositions \cup {"none"}]

TypeOK ==
    /\ now \in Nat
    /\ rules \in [Rules -> RuleRow]
    /\ usage \subseteq UsageRow
    /\ pend \in [Exceptions -> PendRow]
    /\ fired \in Seq(Exceptions)
    /\ acked \in Nat
    /\ erased \subseteq Counterparties
    /\ eligible \subseteq Actions
    /\ att \in [Attempts -> AttState]
    /\ cons \in ConsState
    /\ crashes \in Nat
    /\ effects \subseteq [att : Attempts, rule : Rules, version : Versions, at : Nat]
    /\ landed \in [Exceptions -> Nat]
    /\ tapped \in [Exceptions -> {"no", "allow", "deny"}]

NoMediation ==
    [pc |-> "idle", now |-> 0, rule |-> None, version |-> 0, disp |-> "none"]
ConsumerStart ==
    [pc |-> "sweep", todo |-> {}, upto |-> 0, cur |-> None,
     replaying |-> FALSE, now |-> 0, disp |-> "none"]

Init ==
    /\ now = 0
    /\ rules = [r \in Rules |-> NoRule]
    /\ usage = {}
    /\ pend = [p \in Exceptions |-> NoException]
    /\ fired = <<>>
    /\ acked = 0
    /\ erased = {}
    /\ eligible \in SUBSET Actions
    /\ att = [a \in Attempts |-> NoMediation]
    /\ cons = ConsumerStart
    /\ crashes = 0
    /\ effects = {}
    /\ landed = [p \in Exceptions |-> 0]
    /\ tapped = [p \in Exceptions |-> "no"]

------------------------------------------------------------------------------
(* What the transactions share *)

(* Mark the unresolved exceptions in P stale; resolved rows are untouched. *)
StaledEvenResolved(P) ==
    [p \in Exceptions |-> IF p \in P /\ pend[p].res # "absent"
                          THEN [pend[p] EXCEPT !.res = "stale"] ELSE pend[p]]
Staled(P) ==
    [p \in Exceptions |->
        IF p \in P /\ pend[p].res = "open" THEN [pend[p] EXCEPT !.res = "stale"]
                                           ELSE pend[p]]

WithStatus(R, status) ==
    [r \in Rules |-> IF r \in R THEN [rules[r] EXCEPT !.status = status] ELSE rules[r]]

Current(r)     == Mf(r, rules[r].version)
ActiveFor(act) == {r \in Rules : rules[r].status = "active" /\ Current(r).action = act}

(* The lapse clock runs from the last use, or from the activation. *)
Reference(r) == IF rules[r].lastUsed = Never THEN rules[r].activatedAt ELSE rules[r].lastUsed
Lapsed(r, t) == Reference(r) + Current(r).expires <= t

(* Rows of a rule, any version and either status, that a window ending at t counts. *)
Used(r, t, window) == Cardinality({u \in usage : u.rule = r /\ u.at >= t - window})
HeadroomOffByOne(r, t) ==
    /\ Used(r, t, Current(r).quotaWin) <= Current(r).quota
    /\ Used(r, t, Current(r).rateWin) <= Current(r).rate
Headroom(r, t) ==
    /\ Used(r, t, Current(r).quotaWin) < Current(r).quota
    /\ Used(r, t, Current(r).rateWin) < Current(r).rate

ReservationBackdated(id, r, v, t) ==
    [res |-> id, rule |-> r, version |-> v, at |-> t - 1, status |-> "reserved"]
Reservation(id, r, v, t) ==
    [res |-> id, rule |-> r, version |-> v, at |-> t, status |-> "reserved"]
Reserved(id)  == {u \in usage : u.res = id /\ u.status = "reserved"}
CancelledNothing(id) == usage
Cancelled(id) == usage \ Reserved(id)

(* Rate windows are numbered from the activation by SQLite's truncating division. *)
TruncDiv(x, w) == IF x >= 0 THEN x \div w ELSE -((-x) \div w)
WindowOf(u, r) == TruncDiv(u.at - rules[r].activatedAt, Current(r).rateWin)
SaturatedWindows(r, rows) ==
    {k \in {WindowOf(u, r) : u \in {w \in rows : w.rule = r}} :
        Cardinality({u \in rows : u.rule = r /\ WindowOf(u, r) = k}) >= Current(r).rate}

(* A use that may have taken hold: refresh the lapse clock unless the use was
   owner silence, and retire the rule once three rate windows were saturated. *)
NoteUse(r, t, refresh, rows) ==
    LET drift  == Cardinality(SaturatedWindows(r, rows)) >= 3
        status == IF drift /\ rules[r].status = "active" THEN "needs_review"
                                                         ELSE rules[r].status
    IN  /\ rules' = [rules EXCEPT ![r].status = status,
                                  ![r].lastUsed = IF refresh THEN t ELSE @]
        /\ pend' = IF drift THEN Staled(ExceptionsOf(r)) ELSE pend

(* Commit a reservation after the effect; a rule that is no longer active at the
   consulted version gives the reservation back instead. *)
Finalize(id, r, v, t, refresh) ==
    LET own == {u \in Reserved(id) : u.rule = r /\ u.version = v}
    IN  IF own = {} THEN UNCHANGED <<rules, pend, usage>>
        ELSE IF rules[r].version = v /\ rules[r].status = "active"
        THEN /\ usage' = (usage \ own) \cup {[u EXCEPT !.status = "committed"] : u \in own}
             /\ NoteUse(r, t, refresh, usage')
        ELSE usage' = Cancelled(id) /\ UNCHANGED <<rules, pend>>

------------------------------------------------------------------------------
(* Rule lifecycle *)

Overlaps(m, n) == m.scope = None \/ n.scope = None \/ m.scope = n.scope

(* The live rules a new version of r displaces. *)
DisplacedActiveOnly(r, m) ==
    {q \in Rules \ {r} : /\ rules[q].status = "active"
                        /\ Current(q).action = m.action /\ Overlaps(Current(q), m)}
Displaced(r, m) ==
    {q \in Rules \ {r} : /\ rules[q].status \in {"active", "paused"}
                        /\ Current(q).action = m.action /\ Overlaps(Current(q), m)}

(* Activation of an owner-approved manifest: stale the exceptions of the version
   it replaces, and revoke every other live rule of the action it overlaps. *)
Activate(r, v) ==
    LET m == Mf(r, v)
    IN  /\ v > rules[r].version
        /\ m.action \in ScopedActions => m.scope # None
        /\ (m.dwMax > 0 /\ m.dwAllow) => m.action \in eligible
        /\ pend' = Staled(ExceptionsAt(r, rules[r].version))
        /\ rules' = [WithStatus(Displaced(r, m), "revoked") EXCEPT
                        ![r] = [version |-> v, status |-> "active",
                                activatedAt |-> now, lastUsed |-> Never]]
        /\ UNCHANGED <<now, usage, fired, acked, erased, eligible, att, cons, crashes, history>>

RevokeRule(r) ==
    /\ rules[r].status \notin {"absent", "revoked"}
    /\ rules' = WithStatus({r}, "revoked")
    /\ pend' = Staled(ExceptionsOf(r))
    /\ UNCHANGED <<now, usage, fired, acked, erased, eligible, att, cons, crashes, history>>

PauseRule(r) ==
    /\ rules[r].status = "active"
    /\ rules' = WithStatus({r}, "paused")
    /\ pend' = Staled(ExceptionsOf(r))
    /\ UNCHANGED <<now, usage, fired, acked, erased, eligible, att, cons, crashes, history>>

(* Resume revalidates expiry and the scope binding; an unscoped rule never resumes.
   Its last statement re-checks that this version is still the paused one. *)
ResumeRule(r) ==
    /\ rules[r].status = "paused"
    /\ ~Lapsed(r, now)
    /\ Current(r).scope # None
    /\ rules' = WithStatus({r}, "active")
    /\ UNCHANGED <<now, usage, pend, fired, acked, erased, eligible, att, cons, crashes, history>>

(* Any lookup by action retires a lapsed rule it meets. *)
LapseOnLookup(r) ==
    /\ rules[r].status = "active" /\ Lapsed(r, now)
    /\ rules' = WithStatus({r}, "needs_review")
    /\ pend' = Staled(ExceptionsAt(r, rules[r].version))
    /\ UNCHANGED <<now, usage, fired, acked, erased, eligible, att, cons, crashes, history>>

(* Crypto-erasure of a counterparty revokes every rule reviewed for it. *)
EraseCounterparty(c) ==
    LET R == {r \in Rules : /\ rules[r].status \in {"active", "paused", "needs_review"}
                            /\ Current(r).scope = c}
    IN  /\ c \notin erased
        /\ erased' = erased \cup {c}
        /\ rules' = WithStatus(R, "revoked")
        /\ pend' = Staled(UNION {ExceptionsAt(r, rules[r].version) : r \in R})
        /\ UNCHANGED <<now, usage, fired, acked, eligible, att, cons, crashes, history>>

------------------------------------------------------------------------------
(* Mediation of a shell request *)

(* A mediation that has answered keeps nothing but how its effect was settled. *)
End(a, pc) == att' = [att EXCEPT ![a] = [NoMediation EXCEPT !.pc = pc, !.disp = att[a].disp]]

ActionOf(a) == PrintAction[AttemptPrint[a]]
ScopeOf(a)  == PrintScope[AttemptPrint[a]]

(* The clock is read once; gate() answers ApprovalRequired while the grant lives. *)
Receive(a) ==
    /\ att[a].pc = "idle" /\ now <= RequestHorizon
    /\ IF now < GrantExpiry[AttemptPrint[a]]
       THEN att' = [att EXCEPT ![a] = [@ EXCEPT !.pc = "gated", !.now = now]]
       ELSE End(a, "done")
    /\ UNCHANGED <<now, tables, fired, acked, eligible, cons, crashes, history>>

(* Take one unit of rule r for attempt a, or report saturation. *)
ReserveOrSaturate(a, r) ==
    LET ok == Headroom(r, att[a].now)
        dark == ActionOf(a) \notin ScopedActions /\ Current(r).dwMax > 0
    IN  /\ usage' = IF ok THEN usage \cup {Reservation(a, r, rules[r].version, att[a].now)}
                          ELSE usage
        /\ IF ok \/ dark
           THEN att' = [att EXCEPT ![a] = [@ EXCEPT !.pc = IF ok THEN "reserved" ELSE "saturated",
                                                    !.rule = r, !.version = rules[r].version]]
           ELSE End(a, "done")

(* Action-keyed consultation: the active rule of highest version, in one transaction. *)
ConsultByAction(a) ==
    LET live == ActiveFor(ActionOf(a))
    IN  /\ att[a].pc = "gated" /\ ActionOf(a) \notin ScopedActions
        /\ \/ live = {} /\ End(a, "done") /\ UNCHANGED tables
           \/ \E r \in live :
                /\ \A q \in live : rules[q].version <= rules[r].version
                /\ IF Lapsed(r, att[a].now)
                   THEN /\ rules' = WithStatus({r}, "needs_review")
                        /\ pend' = Staled(ExceptionsAt(r, rules[r].version))
                        /\ End(a, "done")
                        /\ UNCHANGED <<usage, erased>>
                   ELSE ReserveOrSaturate(a, r) /\ UNCHANGED <<rules, pend, erased>>
        /\ UNCHANGED <<now, fired, acked, eligible, cons, crashes, history>>

(* Scope-matched consultation: exactly one unlapsed rule must match; an erased
   counterparty or an unresolvable scope consults nothing. *)
ConsultByScope(a) ==
    LET live    == ActiveFor(ActionOf(a))
        lapsed  == {r \in live : Lapsed(r, att[a].now)}
        matches == {r \in live \ lapsed : Current(r).scope = ScopeOf(a)}
    IN  /\ att[a].pc = "gated" /\ ActionOf(a) \in ScopedActions
        /\ IF ScopeOf(a) = None \/ ScopeOf(a) \in erased
           THEN End(a, "done") /\ UNCHANGED tables
           ELSE /\ rules' = WithStatus(lapsed, "needs_review")
                /\ pend' = Staled(UNION {ExceptionsAt(r, rules[r].version) : r \in lapsed})
                /\ IF Cardinality(matches) = 1
                   THEN \A r \in matches : ReserveOrSaturate(a, r)
                   ELSE End(a, "done") /\ UNCHANGED usage
                /\ UNCHANGED erased
        /\ UNCHANGED <<now, fired, acked, eligible, cons, crashes, history>>

(* The rule version holds its reviewed limit of open exceptions. *)
Outstanding(r, v)   == Cardinality({q \in ExceptionsAt(r, v) : pend[q].res = "open"})
AtCapOffByOne(r, v) == Outstanding(r, v) > Mf(r, v).dwMax
AtCap(r, v)         == Outstanding(r, v) >= Mf(r, v).dwMax

(* Over budget: open an exception with its timer.  A repeat of a known request
   is deduplicated before the reviewed limit is counted. *)
ScheduleException(a) ==
    LET r == att[a].rule
        v == att[a].version
        p == [rule |-> r, version |-> v, print |-> AttemptPrint[a]]
        covered == \/ pend[p].res \in {"allowed", "denied", "stale"}
                   \/ pend[p].res = "open" /\ pend[p].timer \in {"pending", "fired"}
        capped  == pend[p].res = "absent" /\ AtCap(r, v)
    IN  /\ att[a].pc = "saturated"
        /\ pend' = IF covered \/ capped THEN pend
                   ELSE [pend EXCEPT ![p] =
                            [@ EXCEPT !.res = "open", !.timer = "pending",
                                      !.firesAt = att[a].now + Mf(r, v).dwTime]]
        /\ End(a, "done")
        /\ UNCHANGED <<now, rules, usage, erased, fired, acked, eligible, cons, crashes, history>>

(* The effective Allow is audited, and disclosure admitted, before the effect. *)
AdmitEffect(a) ==
    /\ att[a].pc = "reserved"
    /\ att' = [att EXCEPT ![a].pc = "dispatching"]
    /\ UNCHANGED <<now, tables, fired, acked, eligible, cons, crashes, history>>

(* Headroom read, audit or disclosure refused before the effect: release. *)
RefuseBeforeEffect(a) ==
    /\ att[a].pc = "reserved"
    /\ att' = [att EXCEPT ![a] = [@ EXCEPT !.pc = "settling", !.disp = "NotAttempted"]]
    /\ UNCHANGED <<now, tables, fired, acked, eligible, cons, crashes, history>>

(* The connector call; an unknown delivery may or may not have taken effect. *)
Dispatch(a) ==
    \E d \in Dispositions, took \in BOOLEAN :
        /\ att[a].pc = "dispatching"
        /\ d = "ConfirmedSuccess" => took
        /\ d \in {"NotAttempted", "ConfirmedFailure"} => ~took
        /\ att' = [att EXCEPT ![a] = [@ EXCEPT !.pc = "settling", !.disp = d]]
        /\ effects' = IF took
                      THEN effects \cup {[att |-> a, rule |-> att[a].rule,
                                          version |-> att[a].version, at |-> att[a].now]}
                      ELSE effects
        /\ UNCHANGED <<now, tables, fired, acked, eligible, cons, crashes, landed, tapped>>

(* Settlement follows the typed disposition alone. *)
Settle(a) ==
    /\ att[a].pc = "settling"
    /\ CASE att[a].disp = "ConfirmedSuccess" ->
                Finalize(a, att[a].rule, att[a].version, att[a].now, TRUE)
         [] att[a].disp = "DeliveryUnknown" ->
                NoteUse(att[a].rule, att[a].now, TRUE, usage) /\ UNCHANGED usage
         [] OTHER -> usage' = Cancelled(a) /\ UNCHANGED <<rules, pend>>
    /\ End(a, "done")
    /\ UNCHANGED <<now, erased, fired, acked, eligible, cons, crashes, history>>

(* A failed settlement write is logged and nothing else. *)
SettleFails(a) ==
    /\ StoreFaults
    /\ att[a].pc = "settling"
    /\ End(a, "lost")
    /\ UNCHANGED <<now, tables, fired, acked, eligible, cons, crashes, history>>

------------------------------------------------------------------------------
(* Owner, timer driver and clock *)

(* First write wins: an owner tap on a resolved exception changes nothing. *)
OwnerResolve(p, allow) ==
    /\ pend[p].res = "open"
    /\ pend' = [pend EXCEPT ![p].res = IF allow THEN "allowed" ELSE "denied"]
    /\ tapped' = [tapped EXCEPT ![p] = IF allow THEN "allow" ELSE "deny"]
    /\ UNCHANGED <<now, rules, usage, erased, fired, acked, eligible, att, cons, crashes,
                   effects, landed>>

(* Compare-and-swap on the timer row; the fired event joins the audit log. *)
FireTimer(p) ==
    /\ pend[p].timer = "pending" /\ pend[p].firesAt <= now
    /\ pend' = [pend EXCEPT ![p].timer = "fired"]
    /\ fired' = Append(fired, p)
    /\ UNCHANGED <<now, rules, usage, erased, acked, eligible, att, cons, crashes, history>>

Tick ==
    /\ now < MaxTime
    /\ now' = now + 1
    /\ UNCHANGED <<tables, fired, acked, eligible, att, cons, crashes, history>>

------------------------------------------------------------------------------
(* The dark-window consumer: one task; each round sweeps, then replays *)

ConsumerOnly == UNCHANGED <<now, erased, acked, fired, eligible, att, crashes, effects, tapped>>

(* Where the loop resumes once the current mediation has ended. *)
Finished(ok) ==
    cons' = [cons EXCEPT !.pc = IF ~cons.replaying THEN "redrive"
                                ELSE IF ok THEN "acking" ELSE "sweep",
                         !.cur = None, !.now = 0, !.disp = "none"]

(* Sweep 0: tell the owner of an exception refused for good (delivery may fail). *)
NotifyRefused(p) ==
    /\ cons.pc = "sweep"
    /\ pend[p].res = "stale" /\ pend[p].refused /\ ~pend[p].attention
    /\ pend' = [pend EXCEPT ![p].attention = TRUE]
    /\ UNCHANGED <<rules, usage, cons, landed>> /\ ConsumerOnly

(* Claims whose effect was never recorded and that no sweep has surfaced yet. *)
UnconfirmedIgnored == {}
Unconfirmed == {p \in Exceptions : /\ pend[p].res = "allowed"
                                   /\ pend[p].dispatch = "claimed"
                                   /\ ~pend[p].attention}

(* Sweep 1: a claim left behind is surfaced to the owner, never run again. *)
SurfaceClaimed(p) ==
    /\ cons.pc = "sweep" /\ p \in Unconfirmed
    /\ pend' = [pend EXCEPT ![p].attention = TRUE]
    /\ UNCHANGED <<rules, usage, cons, landed>> /\ ConsumerOnly

(* Sweep 2: every allowed, undispatched exception is driven again. *)
BeginRedrive ==
    /\ cons.pc = "sweep" /\ Unconfirmed = {}
    /\ cons' = [cons EXCEPT !.pc = "redrive",
                    !.todo = {p \in Exceptions : pend[p].res = "allowed" /\ pend[p].dispatch = "none"}]
    /\ UNCHANGED <<rules, usage, pend, landed>> /\ ConsumerOnly

RedriveNext(p) ==
    /\ cons.pc = "redrive" /\ p \in cons.todo
    /\ cons' = IF p.print \in Undecodable
               THEN [cons EXCEPT !.todo = {}]
               ELSE [cons EXCEPT !.todo = @ \ {p}, !.pc = "mediate", !.cur = p, !.replaying = FALSE]
    /\ UNCHANGED <<rules, usage, pend, landed>> /\ ConsumerOnly

BeginReplay ==
    /\ cons.pc = "redrive" /\ cons.todo = {}
    /\ cons' = [cons EXCEPT !.pc = "replay", !.upto = Len(fired)]
    /\ UNCHANGED <<rules, usage, pend, landed>> /\ ConsumerOnly

(* What a fired timer makes of its exception: owner first, default on silence. *)
DefaultOf(p) == IF Mf(p.rule, p.version).dwAllow THEN "allowed" ELSE "denied"
ClaimedDefaultFirst(p) == IF pend[p].res \in {"open", "denied"} THEN DefaultOf(p) ELSE pend[p].res
ClaimedUndecided(p)    == pend[p].res
ClaimedResolution(p)   == IF pend[p].res = "open" THEN DefaultOf(p) ELSE pend[p].res

(* Claim the exception of the next fired timer; silence resolves it by default.
   Only an allowed one is mediated; an unreadable payload ends the round. *)
ClaimTimer ==
    LET p == fired[acked + 1]
        res == ClaimedResolution(p)
        go  == pend[p].timer # "applied" /\ res = "allowed"
    IN  /\ cons.pc = "replay" /\ acked < cons.upto
        /\ pend' = IF pend[p].timer = "applied" THEN pend
                   ELSE [pend EXCEPT ![p] = [@ EXCEPT !.timer = "applied", !.res = res]]
        /\ cons' = [cons EXCEPT
                        !.pc = IF ~go THEN "acking"
                               ELSE IF p.print \in Undecodable THEN "sweep" ELSE "mediate",
                        !.cur = IF go /\ p.print \notin Undecodable THEN p ELSE None,
                        !.replaying = TRUE]
        /\ UNCHANGED <<rules, usage, landed>> /\ ConsumerOnly

Ack ==
    /\ cons.pc = "acking"
    /\ acked' = acked + 1
    /\ cons' = [cons EXCEPT !.pc = "replay"]
    /\ UNCHANGED <<now, tables, fired, eligible, att, crashes, history>>

EndRound ==
    /\ cons.pc = "replay" /\ acked >= cons.upto
    /\ cons' = ConsumerStart
    /\ UNCHANGED <<rules, usage, pend, landed>> /\ ConsumerOnly

(* Mediation of a fired exception: gate, erasure check, then the token. *)
MediateFired ==
    LET p == cons.cur IN
    /\ cons.pc = "mediate"
    /\ IF now >= GrantExpiry[p.print] \/ PrintScope[p.print] \in erased
       THEN Finished(TRUE)
       ELSE cons' = [cons EXCEPT !.pc = "consume", !.now = now]
    /\ UNCHANGED <<rules, usage, pend, landed>> /\ ConsumerOnly

(* A transient refusal (spend cap, store, artifact store): retried later. *)
MediationFails ==
    /\ StoreFaults /\ cons.pc = "mediate"
    /\ Finished(FALSE)
    /\ UNCHANGED <<rules, usage, pend, landed>> /\ ConsumerOnly

(* The task's briefcase cannot be loaded: the exception is ended for good. *)
RefuseForGood ==
    LET p == cons.cur IN
    /\ cons.pc = "mediate"
    /\ pend' = IF pend[p].res = "allowed" /\ pend[p].dispatch = "none"
               THEN [pend EXCEPT ![p] = [@ EXCEPT !.res = "stale", !.refused = TRUE]] ELSE pend
    /\ Finished(TRUE)
    /\ UNCHANGED <<rules, usage, landed>> /\ ConsumerOnly

(* The counterparty is not erased, and the rule is live at the token's version. *)
TokenBacked(p, t) ==
    /\ PrintScope[p.print] \notin erased
    /\ rules[p.rule].version = p.version /\ rules[p.rule].status = "active"
    /\ ~Lapsed(p.rule, t)

TokenReusable(p, t) == pend[p].res = "allowed" /\ TokenBacked(p, t)

(* The one-use token: same exception, rule still active at that version and not
   lapsed, counterparty not erased.  It bypasses the headroom check. *)
TokenUsable(p, t) ==
    /\ pend[p].res = "allowed" /\ ~pend[p].token
    /\ TokenBacked(p, t)
ConsumeToken ==
    LET p == cons.cur
    IN  /\ cons.pc = "consume"
        /\ IF TokenUsable(p, cons.now)
           THEN /\ pend' = [pend EXCEPT ![p] = [@ EXCEPT !.token = TRUE, !.dispatch = "claimed"]]
                /\ usage' = usage \cup {Reservation(p, p.rule, p.version, cons.now)}
                /\ cons' = [cons EXCEPT !.pc = "audit"]
           ELSE Finished(TRUE) /\ UNCHANGED <<pend, usage>>
        /\ UNCHANGED <<rules, landed>> /\ ConsumerOnly

(* Effective Allow audited and disclosure enforced, or refused before the effect. *)
AuditFired ==
    /\ cons.pc = "audit"
    /\ \/ cons' = [cons EXCEPT !.pc = "dispatching"]
       \/ cons' = [cons EXCEPT !.pc = "settling", !.disp = "NotAttempted"]
    /\ UNCHANGED <<rules, usage, pend, landed>> /\ ConsumerOnly

DispatchFired ==
    \E d \in Dispositions, took \in BOOLEAN :
        /\ cons.pc = "dispatching"
        /\ d = "ConfirmedSuccess" => took
        /\ d \in {"NotAttempted", "ConfirmedFailure"} => ~took
        /\ cons' = [cons EXCEPT !.pc = "settling", !.disp = d]
        /\ landed' = IF took THEN [landed EXCEPT ![cons.cur] = @ + 1] ELSE landed
        /\ UNCHANGED <<rules, usage, pend>> /\ ConsumerOnly

(* Settlement of a fired exception: silence never refreshes the lapse clock. *)
SettleFired ==
    LET p == cons.cur IN
    /\ cons.pc = "settling"
    /\ CASE cons.disp = "ConfirmedSuccess" ->
                Finalize(p, p.rule, p.version, cons.now, FALSE)
         [] cons.disp = "DeliveryUnknown" ->
                NoteUse(p.rule, cons.now, FALSE, usage) /\ UNCHANGED usage
         [] OTHER -> usage' = Cancelled(p) /\ UNCHANGED <<rules, pend>>
    /\ cons' = [cons EXCEPT !.pc = IF cons.disp \in {"ConfirmedSuccess", "DeliveryUnknown"}
                                   THEN "marking" ELSE "rearming"]
    /\ UNCHANGED landed /\ ConsumerOnly

(* The settlement write fails: a failed cancel leaves the token spent. *)
SettleFiredFails ==
    /\ StoreFaults /\ cons.pc = "settling"
    /\ IF cons.disp \in {"ConfirmedSuccess", "DeliveryUnknown"}
       THEN cons' = [cons EXCEPT !.pc = "marking"]
       ELSE Finished(FALSE)
    /\ UNCHANGED <<rules, usage, pend, landed>> /\ ConsumerOnly

MarkAttempted ==
    LET p == cons.cur IN
    /\ cons.pc = "marking"
    /\ pend' = IF pend[p].dispatch = "claimed" THEN [pend EXCEPT ![p].dispatch = "dispatched"] ELSE pend
    /\ Finished(cons.disp = "ConfirmedSuccess")
    /\ UNCHANGED <<rules, usage, landed>> /\ ConsumerOnly

(* Nothing took effect and the budget is released: the token is usable again. *)
RearmToken ==
    LET p == cons.cur IN
    /\ cons.pc = "rearming"
    /\ pend' = IF pend[p].dispatch = "claimed" /\ ~pend[p].attention
               THEN [pend EXCEPT ![p] = [@ EXCEPT !.token = FALSE, !.dispatch = "none"]] ELSE pend
    /\ Finished(FALSE)
    /\ UNCHANGED <<rules, usage, landed>> /\ ConsumerOnly

------------------------------------------------------------------------------
(* The kernel dies and restarts, perhaps as a build with a narrower allowlist.
   In-flight mediations are gone; opening the store retires every active rule
   whose Allow default the build no longer admits. *)
Restart ==
    /\ crashes < MaxCrashes
    /\ crashes' = crashes + 1
    /\ eligible' \in SUBSET eligible
    /\ LET R == {r \in Rules : /\ rules[r].status = "active"
                               /\ Current(r).dwMax > 0 /\ Current(r).dwAllow
                               /\ Current(r).action \notin eligible'}
       IN  /\ rules' = WithStatus(R, "needs_review")
           /\ pend' = Staled(UNION {ExceptionsAt(r, rules[r].version) : r \in R})
    /\ att' = [a \in Attempts |-> IF att[a].pc \in {"idle", "done"} THEN att[a]
                                  ELSE [NoMediation EXCEPT !.pc = "lost", !.disp = att[a].disp]]
    /\ cons' = ConsumerStart
    /\ UNCHANGED <<now, usage, fired, acked, erased, history>>

Mediation(a) ==
    \/ Receive(a) \/ ConsultByAction(a) \/ ConsultByScope(a) \/ ScheduleException(a)
    \/ AdmitEffect(a) \/ RefuseBeforeEffect(a) \/ Dispatch(a) \/ Settle(a) \/ SettleFails(a)

Consumer ==
    \/ \E p \in Exceptions : NotifyRefused(p) \/ SurfaceClaimed(p) \/ RedriveNext(p)
    \/ BeginRedrive \/ BeginReplay \/ ClaimTimer \/ Ack \/ EndRound
    \/ MediateFired \/ MediationFails \/ RefuseForGood \/ ConsumeToken \/ AuditFired
    \/ DispatchFired \/ SettleFired \/ SettleFiredFails \/ MarkAttempted \/ RearmToken

Lifecycle ==
    \/ \E r \in Rules, v \in Versions : Activate(r, v)
    \/ \E r \in Rules : RevokeRule(r) \/ PauseRule(r) \/ ResumeRule(r) \/ LapseOnLookup(r)
    \/ \E c \in Counterparties : EraseCounterparty(c)

Next ==
    \/ Tick
    \/ Lifecycle
    \/ \E a \in Attempts : Mediation(a)
    \/ \E p \in Exceptions : FireTimer(p) \/ \E allow \in BOOLEAN : OwnerResolve(p, allow)
    \/ Consumer
    \/ Restart

Spec == Init /\ [][Next]_vars

------------------------------------------------------------------------------
(* Safety *)

(* At most one rule of an action is live (active or paused) for any one scope,
   whatever the order of activations, pauses and resumes: the coexistence UPDATE
   of activate_standing_rule_in_tx displaces paused rules too, so a later resume
   cannot make a scoped consultation ambiguous. *)
OneLiveRulePerScope ==
    \A q, r \in Rules :
        /\ q # r
        /\ rules[q].status \in {"active", "paused"}
        /\ rules[r].status \in {"active", "paused"}
        /\ Current(q).action = Current(r).action
        => ~Overlaps(Current(q), Current(r))

InWindow(x, t, window) == t - window <= x /\ x <= t

(* consult_and_reserve_*: no interleaving of consultations, each with the clock
   value it captured at the start of its mediation, makes the rows of one rule
   version exceed its quota or its rate in any window. *)
WindowNeverOverReserved ==
    \A r \in Rules, v \in Versions, t \in Time :
        LET rows(window) == {u \in usage : /\ u.rule = r /\ u.version = v
                                           /\ u.res \in Attempts
                                           /\ InWindow(u.at, t, window)}
        IN  /\ Cardinality(rows(Mf(r, v).quotaWin)) <= Mf(r, v).quota
            /\ Cardinality(rows(Mf(r, v).rateWin)) <= Mf(r, v).rate

(* settle_reservations: a mediation that ended without a crash or a store failure
   leaves a `reserved' row behind only when the delivery is unknown. *)
NoLeakedReservation ==
    \A u \in usage :
        (u.status = "reserved" /\ u.res \in Attempts /\ att[u.res].pc = "done")
            => att[u.res].disp = "DeliveryUnknown"

(* A window's rows are bounded, and every row that stays accounts for an effect. *)
WindowsAreSound == WindowNeverOverReserved /\ NoLeakedReservation

(* The one-use token of a fired exception lets at most one effect happen, through
   replays of the timer event, re-drives, failed settlements and restarts. *)
FiredAtMostOnce == \A p \in Exceptions : landed[p] <= 1

(* An effect of an exception has the owner's consent: his tap, or his silence past
   the reviewed timeout under an Allow default; never against a Deny tap. *)
FiredOnlyWithConsent ==
    \A p \in Exceptions :
        landed[p] > 0 =>
            \/ tapped[p] = "allow"
            \/ /\ tapped[p] = "no"
               /\ Mf(p.rule, p.version).dwAllow
               /\ pend[p].firesAt <= now

(* cleanup_pre_effect_reservations: a token is usable only while its exception
   holds no budget, so it is never re-armed over an uncancelled reservation. *)
UsableTokenHoldsNoBudget ==
    \A p \in Exceptions : ~pend[p].token => \A u \in usage : u.res # p

(* schedule_standing_rule_dark_window: never more open exceptions of one rule
   version than its reviewed limit. *)
OutstandingCapped ==
    \A r \in Rules, v \in Versions :
        Outstanding(r, v) <= Mf(r, v).dwMax

------------------------------------------------------------------------------
(* Action properties *)

(* A resolution is final: a denied or stale exception is never reopened or
   allowed, and an allowed one only ends as stale while nothing was dispatched. *)
ResolutionFinal ==
    [][\A p \in Exceptions :
        /\ pend[p].res \in {"denied", "stale"} => pend'[p].res = pend[p].res
        /\ pend[p].res = "allowed" =>
              \/ pend'[p].res = "allowed"
              \/ pend'[p].res = "stale" /\ pend[p].dispatch = "none"]_vars

(* A claim surfaced to the owner as unconfirmed is never run again. *)
SurfacedNeverRerun ==
    [][\A p \in Exceptions :
        (pend[p].attention /\ pend[p].dispatch = "claimed")
            => landed'[p] = landed[p] /\ pend'[p].dispatch # "none"]_vars

------------------------------------------------------------------------------
(* Liveness.  The clock runs, the timer driver fires due timers, and the consumer
   task is rescheduled by tokio after every await. *)

Fairness ==
    /\ WF_vars(Tick)
    /\ \A p \in Exceptions : WF_vars(FireTimer(p))
    /\ WF_vars(Consumer)

FairSpec == Spec /\ Fairness

(* No exception stays open: owner, lifecycle change or fired default ends it. *)
OpenIsResolved == \A p \in Exceptions : pend[p].res = "open" ~> pend[p].res # "open"

(* A claimed exception is recorded as dispatched, re-armed, or brought to the
   owner's attention, even when the kernel dies around the effect. *)
ClaimIsAccountedFor ==
    \A p \in Exceptions :
        pend[p].dispatch = "claimed" ~> (pend[p].dispatch # "claimed" \/ pend[p].attention)

(* No exception is left half way: neither undecided nor decided and unexplained. *)
ExceptionsComeToRest == OpenIsResolved /\ ClaimIsAccountedFor

(* A token fires only on a decision, and the decision is never changed. *)
ConsentIsFinal == []FiredOnlyWithConsent /\ ResolutionFinal

------------------------------------------------------------------------------
(* Claims of the repository's documents that the code does not keep *)

(* openspec standing-rules: "Concurrent callers MUST NOT overspend either maximum". *)
EffectsWithinBudget ==
    \A r \in Rules, v \in Versions, t \in Time :
        Cardinality({e \in effects : /\ e.rule = r /\ e.version = v
                                     /\ InWindow(e.at, t, Mf(r, v).quotaWin)}) <= Mf(r, v).quota
==============================================================================
