--------------------------- MODULE FailureSurfacing ---------------------------
(* How a failure reaches the owner: a message on the owner's surface, a dead letter
   when it cannot be sent, a retry loop for dead letters, and the digest of failures
   that do not interrupt him. pipeline/message_notify.rs, store/failure_surfacing.rs,
   failure_surfacing.rs, failure_surfacing/retry_worker.rs, store/digest_store.rs,
   pipeline/digest_pagination.rs, escalation.rs.

   A message keeps its dead letter here, for it has one at most. Time is whether a
   date has passed: of the next attempt of a pending row, of the lease of a claimed
   one. One loop in the process claims rows, so the token that fences a stale claim
   is not told apart from the claim. *)
EXTENDS Naturals, FiniteSets

CONSTANTS
    Callers,      \* handlers that may be telling the owner something at once
    OwnerLoop,    \* the one of them that answers the owner's commands
    PageCap,      \* items that fit one page of the digest
    MaxMessages,  \* bound: messages
    MaxBatched,   \* bound: failures batched from elsewhere
    MaxItems,     \* bound: digest items, enough for every failure a bound leaves room for
    MaxFsFaults   \* bound: failed writes, unreadable texts and crashes

ASSUME SurfacingAssumption ==
    /\ OwnerLoop \in Callers
    /\ {PageCap, MaxMessages, MaxBatched, MaxItems, MaxFsFaults} \subseteq Nat

VARIABLES
    fsMsgs,    \* the messages: their kind until their caller is done with them, what they
               \* show, what became of them, their dead letter
    fsItems,   \* digest_items, in order of their sequence
    fsMarker,  \* the items that say a detail is unavailable
    fsCalls,   \* what each caller is doing
    fsRetry,   \* what the retry loop is doing
    fsFaults   \* what its bound counts
fsVars == <<fsMsgs, fsItems, fsMarker, fsCalls, fsRetry, fsFaults>>

MsgIds == 1..MaxMessages
ItemIds == 1..MaxItems
NoMsg == [kind |-> "none"]
Rest == [pc |-> "idle"]
Sent == {m \in MsgIds : fsMsgs[m] # NoMsg}
Open == {i \in ItemIds : fsItems[i] = "open"}
Written == {i \in ItemIds : fsItems[i] # "none"}

FsTypeOK ==
    /\ \A m \in Sent : /\ fsMsgs[m].kind \in {"escalation", "immediate", "digest", "detail", "over"}
                       /\ fsMsgs[m].shows \subseteq ItemIds
                       /\ fsMsgs[m].row \in {"none", "pending", "in_progress", "resolved"}
                       /\ fsMsgs[m].outcome \in {"none", "sent", "skipped", "send_failed",
                                                 "unrecorded", "persist_failed"}
    /\ fsItems \in [ItemIds -> {"none", "open", "resolved"}] /\ fsMarker \subseteq Written

FsInit ==
    /\ fsMsgs = [m \in MsgIds |-> NoMsg]
    /\ fsItems = [i \in ItemIds |-> "none"] /\ fsMarker = {}
    /\ fsCalls = [c \in Callers |-> Rest] /\ fsRetry = Rest /\ fsFaults = 0

Fault == fsFaults < MaxFsFaults /\ fsFaults' = fsFaults + 1
Fine == UNCHANGED fsFaults
Set(m, field, to) == fsMsgs' = [fsMsgs EXCEPT ![m][field] = to]
--------------------------------------------------------------------------------
(* The digest. *)

NextItem == Cardinality(Written) + 1
WithItem == [fsItems EXCEPT ![NextItem] = "open"]
Resolved(items) == [i \in ItemIds |-> IF i \in items THEN "resolved" ELSE fsItems[i]]

\* batch_failure and the completion of a headless run: one transaction.
Batch ==
    /\ Cardinality(Written) < MaxBatched
    /\ fsItems' = WithItem
    /\ UNCHANGED <<fsMsgs, fsMarker, fsCalls, fsRetry, fsFaults>>

\* The first unresolved items, as many as fit.
Page == {i \in Open : Cardinality({j \in Open : j < i}) < PageCap}
--------------------------------------------------------------------------------
(* Telling the owner. *)

NewMsg(kind, shows) ==
    [kind |-> kind, shows |-> shows, landed |-> FALSE, notified |-> 0, told |-> FALSE,
     escalated |-> FALSE, outcome |-> "none", row |-> "none", ready |-> FALSE]

\* notify_owner_with_digest up to the send. The digest and a detail are commands
\* of the owner's; an unreadable detail leaves a marker, unless one is open.
Notify(c, kind) ==
    /\ fsCalls[c] = Rest
    /\ kind \in {"digest", "detail"} => c = OwnerLoop
    /\ \E m \in MsgIds :
         /\ m = Cardinality(Sent) + 1
         /\ fsMsgs' = [fsMsgs EXCEPT ![m] = NewMsg(kind, IF kind = "digest" THEN Page ELSE {})]
         /\ fsCalls' = [fsCalls EXCEPT ![c] = [pc |-> "send", m |-> m]]
    /\ \/ Fine /\ UNCHANGED <<fsItems, fsMarker>>
       \/ /\ kind = "detail" /\ Fault
          /\ IF fsMarker \cap Open = {}
             THEN fsItems' = WithItem /\ fsMarker' = fsMarker \union {NextItem}
             ELSE UNCHANGED <<fsItems, fsMarker>>
    /\ UNCHANGED fsRetry

\* The attempt cannot be audited: nothing is sent.
Skip(c) ==
    /\ fsCalls[c].pc = "send" /\ Fault
    /\ Set(fsCalls[c].m, "outcome", "skipped")
    /\ fsCalls' = [fsCalls EXCEPT ![c].pc = "after"]
    /\ UNCHANGED <<fsItems, fsMarker, fsRetry>>

\* A message that has landed may still be answered with an error.
Answers(landed, ok) == ok => landed
Send(c, landed, ok) ==
    /\ fsCalls[c].pc = "send" /\ Answers(landed, ok)
    /\ fsMsgs' = [fsMsgs EXCEPT ![fsCalls[c].m].landed = @ \/ landed]
    /\ fsCalls' = [fsCalls EXCEPT ![c].pc = IF ok THEN "record" ELSE "bury"]
    /\ Fine /\ UNCHANGED <<fsItems, fsMarker, fsRetry>>

\* record_notify_success_and_resolve, one transaction.
RecordSuccess(c) ==
    LET m == fsCalls[c].m IN
    /\ fsCalls[c].pc = "record"
    /\ fsMsgs' = [fsMsgs EXCEPT ![m].notified = @ + 1, ![m].outcome = "sent"]
    /\ fsItems' = Resolved(fsMsgs[m].shows)
    /\ fsCalls' = [fsCalls EXCEPT ![c].pc = "after"]
    /\ Fine /\ UNCHANGED <<fsMarker, fsRetry>>

\* The text is put away encrypted and a row due at once refers to it.
RecordFailure(c) ==
    LET m == fsCalls[c].m IN
    /\ fsCalls[c].pc = "bury"
    /\ fsMsgs' = [fsMsgs EXCEPT ![m].row = "pending", ![m].ready = TRUE,
                                ![m].outcome = "send_failed"]
    /\ fsCalls' = [fsCalls EXCEPT ![c].pc = "after"]
    /\ Fine /\ UNCHANGED <<fsItems, fsMarker, fsRetry>>

\* Either record fails: the digest is told. That this fails as well is left out:
\* the code logs it, and nothing is left to tell the owner with.
RecordFails(c) ==
    LET m == fsCalls[c].m IN
    /\ fsCalls[c].pc \in {"record", "bury"} /\ Fault
    /\ fsCalls' = [fsCalls EXCEPT ![c].pc = IF @ = "record" THEN "unrecorded" ELSE "persist_failed"]
    /\ UNCHANGED <<fsMsgs, fsItems, fsMarker, fsRetry>>
TellDigest(c) ==
    /\ fsCalls[c].pc \in {"unrecorded", "persist_failed"}
    /\ fsMsgs' = [fsMsgs EXCEPT ![fsCalls[c].m].outcome = fsCalls[c].pc,
                                ![fsCalls[c].m].told = TRUE]
    /\ fsCalls' = [fsCalls EXCEPT ![c].pc = "after"]
    /\ fsItems' = WithItem
    /\ Fine /\ UNCHANGED <<fsMarker, fsRetry>>

\* Mutant: a dead letter is as good as a delivery.
DeliveredOrQueued(m) == fsMsgs[m].outcome \in {"sent", "send_failed"}
Delivered(m) == fsMsgs[m].outcome = "sent"

\* What the caller does with the outcome: route_escalation records only what was
\* delivered, notify_immediate_failure has the digest tell what was not.
Conclude(c, written) ==
    LET m == fsCalls[c].m IN
    /\ fsCalls[c].pc = "after"
    /\ fsCalls' = [fsCalls EXCEPT ![c] = Rest]
    /\ LET tells == fsMsgs[m].kind = "immediate" /\ ~Delivered(m) /\ written IN
       /\ fsMsgs' = [fsMsgs EXCEPT
              ![m].kind = "over", ![m].told = @ \/ tells,
              ![m].escalated = fsMsgs[m].kind = "escalation" /\ Delivered(m) /\ written]
       /\ fsItems' = IF tells THEN WithItem ELSE fsItems
    /\ IF written THEN Fine ELSE Fault
    /\ UNCHANGED <<fsMarker, fsRetry>>
--------------------------------------------------------------------------------
(* The retry loop: one row a pass. *)

\* The date of a row passes: its next attempt, or the lease of its claim.
TimePasses(m) ==
    /\ fsMsgs[m] # NoMsg /\ fsMsgs[m].row \in {"pending", "in_progress"} /\ ~fsMsgs[m].ready
    /\ Set(m, "ready", TRUE)
    /\ UNCHANGED <<fsItems, fsMarker, fsCalls, fsRetry, fsFaults>>

Claim(m) ==
    /\ fsRetry = Rest /\ fsMsgs[m] # NoMsg
    /\ fsMsgs[m].row \in {"pending", "in_progress"} /\ fsMsgs[m].ready
    /\ fsMsgs' = [fsMsgs EXCEPT ![m].row = "in_progress", ![m].ready = FALSE]
    /\ fsRetry' = [pc |-> "send", m |-> m]
    /\ UNCHANGED <<fsItems, fsMarker, fsCalls, fsFaults>>

\* The text cannot be read: the digest is told and the row put off.
Unreadable ==
    /\ fsRetry.pc = "send" /\ Fault
    /\ fsItems' = WithItem
    /\ fsRetry' = [fsRetry EXCEPT !.pc = "reschedule"]
    /\ UNCHANGED <<fsMsgs, fsMarker, fsCalls>>

\* The owner has stopped all spending: the row waits for its lease.
SpendingStopped ==
    /\ fsRetry.pc = "send" /\ fsRetry' = Rest
    /\ UNCHANGED <<fsMsgs, fsItems, fsMarker, fsCalls, fsFaults>>

Resend(landed, ok) ==
    /\ fsRetry.pc = "send" /\ Answers(landed, ok)
    /\ fsMsgs' = [fsMsgs EXCEPT ![fsRetry.m].landed = @ \/ landed]
    /\ fsRetry' = [fsRetry EXCEPT !.pc = IF ok THEN "complete" ELSE "reschedule"]
    /\ UNCHANGED <<fsItems, fsMarker, fsCalls, fsFaults>>

\* complete_dead_letter_success: row, receipt and the items in one transaction.
Complete ==
    LET m == fsRetry.m IN
    /\ fsRetry.pc = "complete" /\ fsRetry' = Rest
    /\ fsMsgs' = [fsMsgs EXCEPT ![m].row = "resolved", ![m].notified = @ + 1]
    /\ fsItems' = Resolved(fsMsgs[m].shows)
    /\ UNCHANGED <<fsMarker, fsCalls, fsFaults>>

Reschedule ==
    /\ fsRetry.pc = "reschedule" /\ fsRetry' = Rest
    /\ Set(fsRetry.m, "row", "pending")
    /\ UNCHANGED <<fsItems, fsMarker, fsCalls, fsFaults>>

\* Its write fails: the claim stays until its lease is over.
RetryFails ==
    /\ fsRetry.pc \in {"complete", "reschedule"} /\ Fault /\ fsRetry' = Rest
    /\ UNCHANGED <<fsMsgs, fsItems, fsMarker, fsCalls>>

FsCrash ==
    /\ Fault
    /\ fsCalls' = [c \in Callers |-> Rest] /\ fsRetry' = Rest
    /\ UNCHANGED <<fsMsgs, fsItems, fsMarker>>
--------------------------------------------------------------------------------
CallerStep(c) ==
    \/ \E landed, ok \in BOOLEAN : Send(c, landed, ok)
    \/ RecordSuccess(c) \/ RecordFailure(c) \/ TellDigest(c) \/ Conclude(c, TRUE)
FsNext ==
    \/ Batch
    \/ \E c \in Callers :
         \/ \E kind \in {"escalation", "immediate", "digest", "detail"} : Notify(c, kind)
         \/ CallerStep(c) \/ Skip(c) \/ RecordFails(c) \/ Conclude(c, FALSE)
    \/ \E m \in MsgIds : TimePasses(m) \/ Claim(m)
    \/ Unreadable \/ SpendingStopped \/ Complete \/ Reschedule \/ RetryFails \/ FsCrash
    \/ \E landed, ok \in BOOLEAN : Resend(landed, ok)
\* Dates pass and the loop goes on every five seconds; a row put off goes behind
\* the others; spending and Telegram are not stopped for ever.
FsFairness ==
    /\ WF_fsVars(Complete) /\ WF_fsVars(Reschedule) /\ SF_fsVars(Resend(TRUE, TRUE))
    /\ \A m \in MsgIds : WF_fsVars(TimePasses(m)) /\ SF_fsVars(Claim(m))
FsSpec == FsInit /\ [][FsNext]_fsVars /\ FsFairness
--------------------------------------------------------------------------------
\* An item leaves the digest only when a message that showed it has landed.
ResolvedWereShown ==
    \A i \in ItemIds : fsItems[i] = "resolved" =>
        \E m \in Sent : fsMsgs[m].landed /\ i \in fsMsgs[m].shows

\* The log says "notified" once and only of what landed, and "escalated" only of
\* what it says "notified" of: AD-133's "never a false success", though a message
\* may be sent again after an answer that never came.
ReceiptsAreTrue ==
    \A m \in Sent : /\ fsMsgs[m].notified <= 1
                    /\ fsMsgs[m].notified = 1 => fsMsgs[m].landed
                    /\ fsMsgs[m].escalated => fsMsgs[m].notified = 1

\* No failure is lost in silence: a message that was not sent keeps a dead letter,
\* one that could not keep it is in the digest.
FailuresAreKept ==
    \A m \in Sent :
        /\ fsMsgs[m].outcome = "send_failed" => fsMsgs[m].row # "none"
        /\ fsMsgs[m].outcome = "persist_failed" => fsMsgs[m].told

\* Every dead letter is delivered in the end, whatever its first attempts met.
DeadLettersArrive ==
    \A m \in MsgIds : m \in Sent /\ fsMsgs[m].row # "none" ~>
                      m \in Sent /\ fsMsgs[m].row = "resolved" /\ fsMsgs[m].landed

SurfacingIsSound == [](ResolvedWereShown /\ ReceiptsAreTrue /\ FailuresAreKept) /\ DeadLettersArrive
================================================================================
