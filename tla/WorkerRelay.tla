----------------------------- MODULE WorkerRelay -----------------------------
(***************************************************************************)
(* The two consumers of what workers report.  A result is relayed to the   *)
(* owner through the commissioning grant's own reply action: a marker row  *)
(* is claimed before the send, and the outcome and the checkpoint commit   *)
(* together.  A failure is announced through the immediate lane and then   *)
(* checkpointed.  Each is one task of the kernel; a pass works on the rows *)
(* it listed when it began.  An error either returns ends the kernel.      *)
(*                                                                         *)
(* Telegram is the environment: a send may be refused, accepted, or        *)
(* accepted with the answer lost.                                          *)
(***************************************************************************)
EXTENDS Integers, Sequences, FiniteSets

CONSTANTS
    Surfaces,     \* owner surfaces of the workers' grants
    MaxAttempts,  \* MAX_ATTEMPTS
    MaxCounted,   \* bound on the attempts counter, past MaxAttempts
    MaxEvents,    \* bound on the ledger
    MaxStops      \* bound on crashes

ASSUME RelayAssumption ==
    /\ Surfaces \subseteq {"chat", "terminal"}
    /\ MaxAttempts \in Nat \ {0}
    /\ MaxCounted \in Nat /\ MaxCounted > MaxAttempts
    /\ MaxEvents \in Nat /\ MaxStops \in Nat

VARIABLES
    bus,          \* audit_log: worker.result and worker.failed
    relays,       \* table worker_result_relays, by sequence number
    resultAck,    \* checkpoint of worker_result_consumer
    deadLetters,  \* table worker_result_dead_letters
    notices,      \* table notify_dead_letters: owner notices of those
    sent,         \* Telegram: results the owner has received
    relay,        \* the result consumer's task
    failedAck,    \* checkpoint of worker_failed_consumer
    routed,       \* failures whose handler has returned Ok
    told,         \* Telegram: failures the owner has received
    router,       \* the failure consumer's task
    stops

vars == <<bus, relays, resultAck, deadLetters, notices, sent, relay,
          failedAck, routed, told, router, stops>>

results == <<relays, resultAck, deadLetters, notices, sent>>
failures == <<failedAck, routed, told>>

(* A failure is quiet when its handler already told the owner of the       *)
(* exhausted cap, or when the grant's row is gone.                         *)
ResultEvent == [kind : {"worker.result"}, surface : Surfaces, quiet : {FALSE}]
FailedEvent == [kind : {"worker.failed"}, surface : Surfaces, quiet : BOOLEAN]

Seqs == 1..MaxEvents

RelayStates == {"none", "attempting", "pending", "delivered", "skipped", "dead_letter"}

Settled == {"delivered", "skipped", "dead_letter"}

TypeOK ==
    /\ bus \in Seq(ResultEvent \cup FailedEvent) /\ Len(bus) <= MaxEvents
    /\ relays \in [Seqs -> [state : RelayStates, attempts : 0..MaxCounted]]
    /\ resultAck \in 0..MaxEvents /\ failedAck \in 0..MaxEvents
    /\ deadLetters \subseteq Seqs /\ notices \in [Seqs -> Nat]
    /\ sent \subseteq Seqs /\ routed \subseteq Seqs /\ told \subseteq Seqs
    /\ relay \in [pc : {"idle", "pass", "relaying", "accepted", "denied", "failed"},
                  todo : SUBSET Seqs, at : 0..MaxEvents, attempt : 0..MaxCounted]
    /\ router \in [pc : {"idle", "pass", "routed"}, todo : SUBSET Seqs, at : 0..MaxEvents]
    /\ stops \in 0..MaxStops

IdleRelay == [pc |-> "idle", todo |-> {}, at |-> 0, attempt |-> 0]
IdleRouter == [pc |-> "idle", todo |-> {}, at |-> 0]

Init ==
    /\ bus = <<>>
    /\ relays = [i \in Seqs |-> [state |-> "none", attempts |-> 0]]
    /\ resultAck = 0 /\ failedAck = 0
    /\ deadLetters = {} /\ notices = [i \in Seqs |-> 0]
    /\ sent = {} /\ routed = {} /\ told = {}
    /\ relay = IdleRelay /\ router = IdleRouter
    /\ stops = 0

(* replay_audit: matching rows after a watermark. *)
Replay(events, after) == {i \in DOMAIN bus : bus[i] \in events /\ i > after}

Earliest(todo) == {i \in todo : \A j \in todo : i <= j}

(* record_worker_result and record_worker_failed append here. *)
Emit(e) ==
    /\ Len(bus) < MaxEvents
    /\ bus' = Append(bus, e)
    /\ UNCHANGED <<results, relay, failures, router, stops>>

------------------------------------------------------------------------------
(* worker_result_consumer *)

BeginRelayPass ==
    /\ relay.pc = "idle"
    /\ relay' = [IdleRelay EXCEPT !.pc = "pass", !.todo = Replay(ResultEvent, resultAck)]
    /\ UNCHANGED <<bus, results, failures, router, stops>>

EndRelayPass ==
    /\ relay.pc = "pass" /\ relay.todo = {}
    /\ relay' = IdleRelay
    /\ UNCHANGED <<bus, results, failures, router, stops>>

(* attempts + 1.  The code only asks whether MAX_ATTEMPTS is reached, so   *)
(* the counter may stop past it.                                           *)
NextAttempt(i) ==
    IF relays[i].attempts < MaxCounted THEN relays[i].attempts + 1 ELSE MaxCounted

Claimable(i) == relays[i].state \notin Settled

(* A settled marker is passed over, any other is claimed for one more try. *)
ClaimRelay(i) ==
    /\ relay.pc = "pass" /\ i \in Earliest(relay.todo)
    /\ IF Claimable(i)
         THEN /\ relays' = [relays EXCEPT ![i] = [state |-> "attempting",
                                                  attempts |-> NextAttempt(i)]]
              /\ relay' = [relay EXCEPT !.pc = "relaying", !.at = i,
                                        !.attempt = NextAttempt(i)]
         ELSE /\ relay' = [relay EXCEPT !.todo = @ \ {i}]
              /\ UNCHANGED relays
    /\ UNCHANGED <<bus, resultAck, deadLetters, notices, sent, failures, router, stops>>

(* Mutant: a dispatch without a receipt counts as delivered. *)
RelayOneUnconfirmed ==
    /\ relay.pc = "relaying"
    /\ \/ /\ bus[relay.at].surface = "chat"
          /\ sent' = sent \cup {relay.at}
       \/ UNCHANGED sent
    /\ \E pc \in {"accepted", "denied", "failed"} : relay' = [relay EXCEPT !.pc = pc]
    /\ UNCHANGED <<bus, relays, resultAck, deadLetters, notices, failures, router, stops>>

(* The gate and the reply action of the parent grant; a reply needs a chat. *)
RelayOne ==
    /\ relay.pc = "relaying"
    /\ \/ /\ bus[relay.at].surface = "chat"
          /\ sent' = sent \cup {relay.at}
          /\ \E pc \in {"accepted", "failed"} : relay' = [relay EXCEPT !.pc = pc]
       \/ /\ \E pc \in {"denied", "failed"} : relay' = [relay EXCEPT !.pc = pc]
          /\ UNCHANGED sent
    /\ UNCHANGED <<bus, relays, resultAck, deadLetters, notices, failures, router, stops>>

(* Mutant: the checkpoint is left to another transaction. *)
FinishMarker(state) ==
    /\ relays' = [relays EXCEPT ![relay.at].state = state]
    /\ relay' = [relay EXCEPT !.pc = "pass", !.todo = @ \ {relay.at}]
    /\ UNCHANGED resultAck

(* Marker and checkpoint in one transaction. *)
Finish(state) ==
    /\ relays' = [relays EXCEPT ![relay.at].state = state]
    /\ resultAck' = relay.at
    /\ relay' = [relay EXCEPT !.pc = "pass", !.todo = @ \ {relay.at}]

(* Mutant: a state the readers of the table do not know. *)
CompleteAsSent ==
    /\ relay.pc = "accepted"
    /\ Finish("sent")
    /\ UNCHANGED <<bus, deadLetters, notices, sent, failures, router, stops>>

CompleteRelay ==
    /\ relay.pc = "accepted"
    /\ Finish("delivered")
    /\ UNCHANGED <<bus, deadLetters, notices, sent, failures, router, stops>>

SkipRelay ==
    /\ relay.pc = "denied"
    /\ Finish("skipped")
    /\ UNCHANGED <<bus, deadLetters, notices, sent, failures, router, stops>>

(* The owner's surface is a Telegram chat. *)
Addressable == bus[relay.at].surface = "chat"

(* The pass ends: nothing later may be acknowledged over a pending result. *)
RetryLater ==
    /\ relays' = [relays EXCEPT ![relay.at].state = "pending"]
    /\ relay' = IdleRelay
    /\ UNCHANGED <<resultAck, deadLetters, notices>>

(* Mutant: the dead letter commits before the marker and the checkpoint. *)
DeadLetterFirst ==
    /\ deadLetters' = deadLetters \cup {relay.at}
    /\ notices' = [notices EXCEPT ![relay.at] = @ + 1]
    /\ relay' = IdleRelay
    /\ UNCHANGED <<relays, resultAck>>

(* Dead letter, owner notice, marker and checkpoint in one transaction. *)
DeadLetter ==
    /\ Finish("dead_letter")
    /\ deadLetters' = deadLetters \cup {relay.at}
    /\ notices' = [notices EXCEPT ![relay.at] = @ + 1]

(* Mutant: every failure is taken for a transient one. *)
FailTransiently ==
    /\ relay.pc = "failed" /\ Addressable
    /\ RetryLater
    /\ UNCHANGED <<bus, sent, failures, router, stops>>

FailRelay ==
    /\ relay.pc = "failed" /\ Addressable
    /\ IF relay.attempt < MaxAttempts THEN RetryLater ELSE DeadLetter
    /\ UNCHANGED <<bus, sent, failures, router, stops>>

(* No chat to address, or the notice's text cannot be stored: the pass     *)
(* ends and the marker stays as it is.                                     *)
LeaveRetryable ==
    /\ relay.pc = "failed"
    /\ relay' = IdleRelay
    /\ UNCHANGED <<bus, results, failures, router, stops>>

------------------------------------------------------------------------------
(* worker_failed_consumer *)

BeginRouterPass ==
    /\ router.pc = "idle"
    /\ router' = [IdleRouter EXCEPT !.pc = "pass", !.todo = Replay(FailedEvent, failedAck)]
    /\ UNCHANGED <<bus, results, relay, failures, stops>>

EndRouterPass ==
    /\ router.pc = "pass" /\ router.todo = {}
    /\ router' = IdleRouter
    /\ UNCHANGED <<bus, results, relay, failures, stops>>

(* The owner is told, unless the failure is quiet. *)
RouteFailure(i) ==
    /\ router.pc = "pass" /\ i \in Earliest(router.todo)
    /\ bus[i].quiet \/ bus[i].surface = "chat"
    /\ told' = IF bus[i].quiet THEN told ELSE told \cup {i}
    /\ routed' = routed \cup {i}
    /\ router' = [router EXCEPT !.pc = "routed", !.at = i]
    /\ UNCHANGED <<bus, results, relay, failedAck, stops>>

AckFailure ==
    /\ router.pc = "routed"
    /\ failedAck' = router.at
    /\ router' = [router EXCEPT !.pc = "pass", !.todo = @ \ {router.at}]
    /\ UNCHANGED <<bus, results, relay, routed, told, stops>>

(* Mutant: the error is logged and the next failure routed. *)
NoticeFailsQuietly(i) ==
    /\ router.pc = "pass" /\ i \in Earliest(router.todo)
    /\ ~bus[i].quiet
    /\ router' = [router EXCEPT !.todo = @ \ {i}]
    /\ UNCHANGED <<bus, results, relay, failures, stops>>

(* A notice that is not confirmed, received or not, is an error of the     *)
(* consumer: it ends the select of main and with it the kernel, which is   *)
(* started again.                                                          *)
NoticeFails(i) ==
    /\ router.pc = "pass" /\ i \in Earliest(router.todo)
    /\ ~bus[i].quiet
    /\ \/ bus[i].surface = "chat" /\ told' = told \cup {i}
       \/ UNCHANGED told
    /\ relay' = IdleRelay /\ router' = IdleRouter
    /\ UNCHANGED <<bus, results, failedAck, routed, stops>>

Crash ==
    /\ stops < MaxStops /\ stops' = stops + 1
    /\ relay' = IdleRelay /\ router' = IdleRouter
    /\ UNCHANGED <<bus, results, failures>>

------------------------------------------------------------------------------
RelayStep ==
    \/ BeginRelayPass
    \/ EndRelayPass
    \/ \E i \in Seqs : ClaimRelay(i)
    \/ RelayOne
    \/ CompleteRelay
    \/ SkipRelay
    \/ LeaveRetryable

RouterStep == BeginRouterPass \/ EndRouterPass \/ AckFailure

Next ==
    \/ \E e \in ResultEvent \cup FailedEvent : Emit(e)
    \/ RelayStep
    \/ FailRelay
    \/ RouterStep
    \/ \E i \in Seqs : RouteFailure(i)
    \/ \E i \in Seqs : NoticeFails(i)
    \/ Crash

Spec == Init /\ [][Next]_vars

(* Both consumers are polled for ever; the artifact store and Telegram may *)
(* fail, but not every time.                                               *)
FairSpec ==
    /\ Spec
    /\ WF_vars(RelayStep) /\ WF_vars(RouterStep)
    /\ SF_vars(FailRelay)
    /\ \A i \in Seqs : SF_vars(RouteFailure(i)) /\ WF_vars(NoticeFails(i))

------------------------------------------------------------------------------
(* Properties *)

Results == INSTANCE BusConsumer WITH
    Filter <- ResultEvent, Others <- FailedEvent, acked <- resultAck,
    settled <- {i \in Seqs : relays[i].state \in Settled}

Failures == INSTANCE BusConsumer WITH
    Filter <- FailedEvent, Others <- ResultEvent, acked <- failedAck,
    settled <- routed

(* The result consumer keeps the promise of a durable consumer: a result   *)
(* is acknowledged in order and only with a settled marker, whatever is    *)
(* retried, dead-lettered, left retryable or cut short by a stop.          *)
ResultsKeepOrder == Results!BusSpec

(* So does the failure consumer, whose checkpoint is a second transaction. *)
FailuresKeepOrder == Failures!BusSpec

(* The relay as a whole implements two durable consumers of one bus.       *)
ReportsKeepOrder == ResultsKeepOrder /\ FailuresKeepOrder

(* No result the consumer has passed is lost: it was delivered, refused by *)
(* the gate, or dead-lettered with exactly one notice to an owner who can  *)
(* be addressed; and no failure is passed that its owner was not told of.  *)
PassedIsAccountedFor ==
    /\ \A i \in DOMAIN bus : bus[i] \in ResultEvent /\ i <= resultAck =>
         \/ relays[i].state = "delivered" /\ i \in sent
         \/ relays[i].state = "skipped"
         \/ /\ relays[i].state = "dead_letter" /\ i \in deadLetters
            /\ notices[i] = 1 /\ bus[i].surface = "chat"
    /\ \A i \in DOMAIN bus : bus[i] \in FailedEvent /\ i <= failedAck =>
         bus[i].quiet \/ i \in told

(* A dead letter is the end: its notice is queued once and the result is   *)
(* never claimed again, on any later pass.                                 *)
DeadLetterIsFinal ==
    /\ \A i \in Seqs : notices[i] = IF i \in deadLetters THEN 1 ELSE 0
    /\ relay.pc \in {"relaying", "accepted", "denied", "failed"} =>
         relay.at \notin deadLetters

(* What became of a report is known for good.                              *)
ReportsAreAccountedFor == TypeOK /\ PassedIsAccountedFor /\ DeadLetterIsFinal

(* The row and the watermark of its consumer. *)
Passed(i) ==
    /\ i \in DOMAIN bus
    /\ i <= IF bus[i] \in ResultEvent THEN resultAck ELSE failedAck

(* Every result and every failure is passed in the end, whatever is lost   *)
(* on the way, as long as every owner has a chat.                          *)
ReportsArrive ==
    \A i \in Seqs :
        i \in DOMAIN bus ~> \/ Passed(i)
                           \/ \E j \in DOMAIN bus : bus[j].surface = "terminal"
==============================================================================
