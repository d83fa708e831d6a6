------------------------------ MODULE OwnerReview ------------------------------
(* The owner's review of a mined responsibility: the reflection miner proposes a
   standing rule and stores a review of it; the owner approves, rejects or narrows
   that exact review and later pauses, resumes or revokes the rule it activated.
   pipeline/owner_review*.rs, store/owner_review*.rs, store/activation.rs,
   store/standing_rules_lifecycle.rs, reflection_miner_runtime.rs.

   A review and the rule it proposes have one identity i here: the miner names a
   base rule after its context class and proposes a class once, and a narrowed
   proposal names a rule of its own (artifact ids and ULIDs in the code). The
   database outlives the process; what a task holds does not. *)
EXTENDS Naturals, FiniteSets

CONSTANTS
    Classes,      \* context classes with repeated owner approvals
    Targets,      \* the targets a reviewed scope lists
    MaxReviews,   \* bound: reviews, base and narrowed together
    MaxDirect,    \* bound: newer versions activated on the ordinary approval path
    MaxChanges,   \* bound: policy changes while running, catalog changes at a start
    MaxFaults     \* bound: crashes and failed writes

ASSUME OwnerReviewAssumption ==
    /\ IsFiniteSet(Classes) /\ IsFiniteSet(Targets) /\ Targets # {}
    /\ {MaxReviews, MaxDirect, MaxChanges, MaxFaults} \subseteq Nat

VARIABLES
    rvReviews,   \* owner_reviews, with the proposal and the verdicts each is bound to
    rvRules,     \* standing_rules, one row per rule id
    rvWorld,     \* the policy and catalog epochs, of which verdicts are a function
    rvLate,      \* roots of the reviews whose expires_at has passed
    rvMiner,     \* the miner's pass: idle, or the proposal it has yet to store a review of
    rvTask,      \* the owner loop: idle, or the decision it is in the middle of
    rvSpent      \* what the bounds count
rvVars == <<rvReviews, rvRules, rvWorld, rvLate, rvMiner, rvTask, rvSpent>>

Ids == 1..MaxReviews
Scopes == SUBSET Targets \ {{}}
NoReview == [state |-> "none"]
NoRule == [status |-> "none"]
Idle == [pc |-> "idle"]
Used == {i \in Ids : rvReviews[i] # NoReview}
Live(r) == r.status \in {"active", "paused"}

RvTypeOK ==
    /\ \A i \in Used : /\ rvReviews[i].state \in {"unstored", "pending", "approved", "rejected",
                                                  "narrowed", "expired", "revoked"}
                       /\ rvReviews[i].scope \in Scopes /\ rvReviews[i].root \in Ids
    /\ \A i \in Ids : rvRules[i].status \in {"none", "active", "paused", "revoked", "needs_review"}
    /\ rvLate \subseteq Ids

RvInit ==
    /\ rvReviews = [i \in Ids |-> NoReview] /\ rvRules = [i \in Ids |-> NoRule]
    /\ rvWorld = [policy |-> 0, catalog |-> 0] /\ rvLate = {}
    /\ rvMiner = Idle /\ rvTask = Idle
    /\ rvSpent = [direct |-> 0, changes |-> 0, faults |-> 0]

Spend(what, most) ==
    /\ rvSpent[what] < most
    /\ rvSpent' = [rvSpent EXCEPT ![what] = @ + 1]
--------------------------------------------------------------------------------
(* The miner's periodic pass. *)

\* What artifact.propose leaves behind: a review_required proposal and a passing
\* replay and judge verdict at today's epochs. The review row is not stored yet.
Proposal(c, s, root) ==
    [state |-> "unstored", class |-> c, scope |-> s, root |-> root, prop |-> "review_required",
     verdict |-> rvWorld, last |-> "none", linked |-> FALSE]
NextId(i) == i \in Ids /\ i = Cardinality(Used) + 1

\* A class whose proposal exists in any state is not proposed again.
MinerPropose(c, s) ==
    /\ rvMiner = Idle
    /\ \A i \in Used : rvReviews[i].class # c
    /\ \E i \in Ids : /\ NextId(i)
                      /\ rvReviews' = [rvReviews EXCEPT ![i] = Proposal(c, s, i)]
                      /\ rvMiner' = [pc |-> "persist", id |-> i]
    /\ UNCHANGED <<rvRules, rvWorld, rvLate, rvTask, rvSpent>>

\* insert_owner_review. That the owner never sees a review whose message fails is
\* told apart from nothing here: an unseen review is one that is never decided.
MinerPersist ==
    /\ rvMiner.pc = "persist"
    /\ rvReviews' = [rvReviews EXCEPT ![rvMiner.id].state = "pending"]
    /\ rvMiner' = Idle
    /\ UNCHANGED <<rvRules, rvWorld, rvLate, rvTask, rvSpent>>
--------------------------------------------------------------------------------
(* The owner's decisions. *)

\* A review the owner can name, before its expiry.
Decidable(i) ==
    /\ rvTask = Idle
    /\ i \in Used /\ rvReviews[i].state # "unstored"
    /\ rvReviews[i].root \notin rvLate

DecideLate(i) ==
    /\ rvTask = Idle /\ i \in Used /\ rvReviews[i].root \in rvLate
    /\ rvReviews[i].state = "pending"
    /\ rvReviews' = [rvReviews EXCEPT ![i].state = "expired"]
    /\ UNCHANGED <<rvRules, rvWorld, rvLate, rvMiner, rvTask, rvSpent>>

\* The intent on record is answered from the record: only another one is acted on.
Asked(i, intent) == Decidable(i) /\ rvReviews[i].last # intent

\* commit_disposition
Reject(i) ==
    /\ Asked(i, "Reject") /\ rvReviews[i].state = "pending"
    /\ rvReviews' = [rvReviews EXCEPT ![i].state = "rejected", ![i].last = "Reject"]
    /\ UNCHANGED <<rvRules, rvWorld, rvLate, rvMiner, rvTask, rvSpent>>

\* The proposal is review_required and its verdicts are of the epochs in force. The
\* state of the review itself is not asked for.
Evaluated(i) == rvReviews[i].prop = "review_required" /\ rvReviews[i].verdict = rvWorld

Verify(i, intent) ==
    /\ Asked(i, intent) /\ intent \in {"Approve", "Narrow"} /\ Evaluated(i)
    /\ rvTask' = [pc |-> intent, id |-> i]
    /\ UNCHANGED <<rvReviews, rvRules, rvWorld, rvLate, rvMiner, rvSpent>>

\* Activating a rule revokes every live rule of that scope under another id.
Activated(i, version) ==
    [j \in Ids |->
        IF j = i THEN [status |-> "active", version |-> version, scope |-> rvReviews[i].scope,
                       catalog |-> rvReviews[i].verdict.catalog]
        ELSE IF Live(rvRules[j]) /\ rvRules[j].scope = rvReviews[i].scope
             THEN [rvRules[j] EXCEPT !.status = "revoked"]
        ELSE rvRules[j]]
MayApprove(i) == rvReviews[i].state = "pending" /\ Evaluated(i)

\* activate_approved_artifact under ACTIVATION_LOCK. One transaction checks the
\* proposal, its verdicts and the review again; a version that is not newer than
\* the registry's ends it before that, without an error.
Activate ==
    LET i == rvTask.id IN
    /\ rvTask.pc = "Approve" /\ rvTask' = Idle
    /\ \/ /\ rvRules[i] = NoRule /\ MayApprove(i)
          /\ rvRules' = Activated(i, 1)
          /\ rvReviews' = [rvReviews EXCEPT ![i].state = "approved", ![i].last = "Approve",
                                            ![i].prop = "active", ![i].linked = TRUE]
       \/ /\ ~(rvRules[i] = NoRule /\ MayApprove(i))
          /\ UNCHANGED <<rvReviews, rvRules>>
    /\ UNCHANGED <<rvWorld, rvLate, rvMiner, rvSpent>>

\* The narrowed rule is proposed and evaluated first: its proposal stays, without
\* a review, when the step after it does not happen.
NarrowPropose(s) ==
    LET i == rvTask.id IN
    /\ rvTask.pc = "Narrow"
    /\ s \subseteq rvReviews[i].scope /\ s # rvReviews[i].scope
    /\ \E j \in Ids : /\ NextId(j)
                      /\ rvReviews' = [rvReviews EXCEPT ![j] =
                             Proposal(rvReviews[i].class, s, rvReviews[i].root)]
                      /\ rvTask' = [pc |-> "supersede", id |-> i, by |-> j]
    /\ UNCHANGED <<rvRules, rvWorld, rvLate, rvMiner, rvSpent>>

\* Mutant: supersedes the review without asking whether it is still pending.
NarrowCommitBlind ==
    /\ rvTask.pc = "supersede" /\ rvTask' = Idle
    /\ rvReviews' = [rvReviews EXCEPT ![rvTask.id].state = "narrowed", ![rvTask.id].last = "Narrow",
                                      ![rvTask.by].state = "pending"]
    /\ UNCHANGED <<rvRules, rvWorld, rvLate, rvMiner, rvSpent>>
\* insert_narrowed_owner_review
NarrowCommit ==
    LET i == rvTask.id
        j == rvTask.by IN
    /\ rvTask.pc = "supersede" /\ rvTask' = Idle
    /\ \/ /\ rvReviews[i].state = "pending"
          /\ rvReviews' = [rvReviews EXCEPT ![i].state = "narrowed", ![i].last = "Narrow",
                                            ![j].state = "pending"]
       \/ /\ rvReviews[i].state # "pending"
          /\ UNCHANGED rvReviews
    /\ UNCHANGED <<rvRules, rvWorld, rvLate, rvMiner, rvSpent>>

\* pause_standing_rule and revoke_standing_rule name the rule id, not the version
\* the review is linked to; resume_standing_rule_revalidated names both.
Resumable(i) ==
    /\ rvRules[i].status = "paused" /\ rvRules[i].version = 1
    /\ rvRules[i].catalog = rvWorld.catalog
Flip(i, intent) ==
    LET put(status) == rvRules' = [rvRules EXCEPT ![i].status = status] IN
    /\ Asked(i, intent) /\ rvReviews[i].linked
    /\ \/ intent = "Pause" /\ rvRules[i].status = "active" /\ put("paused")
       \/ intent = "Pause" /\ rvRules[i].status = "paused" /\ UNCHANGED rvRules
       \/ intent = "Resume" /\ Resumable(i) /\ put("active")
       \/ intent = "Resume" /\ rvRules[i].status = "active" /\ rvRules[i].version = 1
          /\ UNCHANGED rvRules
       \/ intent = "Revoke" /\ put("revoked")
    /\ rvTask' = [pc |-> "commit", id |-> i, intent |-> intent, seen |-> rvReviews[i].state]
    /\ UNCHANGED <<rvReviews, rvWorld, rvLate, rvMiner, rvSpent>>

\* commit_owner_review_decision, a transaction of its own after the rule's.
CommitLifecycle ==
    LET i == rvTask.id IN
    /\ rvTask.pc = "commit" /\ rvTask' = Idle
    /\ \/ /\ rvTask.intent = "Revoke" => rvTask.seen = "approved"
          /\ rvReviews' = [rvReviews EXCEPT
                 ![i].last = rvTask.intent,
                 ![i].state = IF rvTask.intent = "Revoke" THEN "revoked" ELSE @]
       \/ /\ rvTask.intent = "Revoke" /\ rvTask.seen # "approved"
          /\ UNCHANGED rvReviews
    /\ UNCHANGED <<rvRules, rvWorld, rvLate, rvMiner, rvSpent>>
--------------------------------------------------------------------------------
(* What happens around a decision. *)

\* The ordinary approval path activates a newer version of a rule id.
ActivateDirect(i) ==
    /\ i \in Used /\ Spend("direct", MaxDirect)
    /\ rvRules' = Activated(i, 1 + (IF rvRules[i] = NoRule THEN 1 ELSE rvRules[i].version))
    /\ UNCHANGED <<rvReviews, rvWorld, rvLate, rvMiner, rvTask>>

\* artifact.revoke, and the lapse of an unused rule.
RuleEnds(i) ==
    /\ \/ /\ rvRules[i].status \in {"active", "paused", "needs_review"}
          /\ rvRules' = [rvRules EXCEPT ![i].status = "revoked"]
       \/ /\ rvRules[i].status = "active"
          /\ rvRules' = [rvRules EXCEPT ![i].status = "needs_review"]
    /\ UNCHANGED <<rvReviews, rvWorld, rvLate, rvMiner, rvTask, rvSpent>>

ReviewExpires(i) ==
    /\ i \in Used \ rvLate /\ rvReviews[i].root = i /\ rvReviews[i].state # "unstored"
    /\ rvLate' = rvLate \union {i}
    /\ UNCHANGED <<rvReviews, rvRules, rvWorld, rvMiner, rvTask, rvSpent>>

PolicyChanges ==
    /\ Spend("changes", MaxChanges)
    /\ rvWorld' = [rvWorld EXCEPT !.policy = @ + 1]
    /\ UNCHANGED <<rvReviews, rvRules, rvLate, rvMiner, rvTask>>

\* One write fails: the decision is refused where it stands.
WriteFails ==
    /\ rvTask # Idle /\ Spend("faults", MaxFaults)
    /\ rvTask' = Idle
    /\ UNCHANGED <<rvReviews, rvRules, rvWorld, rvLate, rvMiner>>

\* The next build may come with another catalog.
CrashAndStart ==
    /\ Spend("faults", MaxFaults)
    /\ rvTask' = Idle /\ rvMiner' = Idle
    /\ \E e \in {rvWorld.catalog, 1 - rvWorld.catalog} : rvWorld' = [rvWorld EXCEPT !.catalog = e]
    /\ UNCHANGED <<rvReviews, rvRules, rvLate>>
--------------------------------------------------------------------------------
RvNext ==
    \/ \E c \in Classes, s \in Scopes : MinerPropose(c, s)
    \/ MinerPersist
    \/ \E i \in Ids :
         \/ DecideLate(i) \/ Reject(i)
         \/ \E intent \in {"Approve", "Narrow"} : Verify(i, intent)
         \/ \E intent \in {"Pause", "Resume", "Revoke"} : Flip(i, intent)
         \/ ActivateDirect(i) \/ RuleEnds(i) \/ ReviewExpires(i)
    \/ Activate \/ NarrowCommit \/ CommitLifecycle
    \/ \E s \in Scopes : NarrowPropose(s)
    \/ PolicyChanges \/ WriteFails \/ CrashAndStart
RvSpec == RvInit /\ [][RvNext]_rvVars
--------------------------------------------------------------------------------
\* A rule of the version a review proposed is live only while that review stands
\* approved, with the scope the owner saw: neither a rejected, narrowed, expired or
\* revoked review nor a proposal without one ever has its rule in force, whatever
\* was decided twice, failed between the two transactions of a decision or crashed.
LiveAsReviewed ==
    \A i \in Ids : (Live(rvRules[i]) /\ rvRules[i].version = 1) =>
        /\ rvReviews[i].state = "approved" /\ rvReviews[i].linked
        /\ rvRules[i].scope = rvReviews[i].scope

\* Of a review and everything narrowed out of it, one at most is ever approved, and
\* one at most waits for a decision.
OneOutcomePerLineage ==
    \A i, j \in Used : (i # j /\ rvReviews[i].root = rvReviews[j].root) =>
        \A answer \in {{"approved", "revoked"}, {"pending"}} :
            ~(rvReviews[i].state \in answer /\ rvReviews[j].state \in answer)

\* An answer is final: a rejected, narrowed, expired or revoked review stays so.
AnswersAreFinal ==
    [][\A i \in Used : rvReviews[i].state \in {"rejected", "narrowed", "expired", "revoked"} =>
         rvReviews'[i].state = rvReviews[i].state]_rvVars

ReviewsAreSound == [](LiveAsReviewed /\ OneOutcomePerLineage) /\ AnswersAreFinal
================================================================================
