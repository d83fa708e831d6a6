-------------------------------- MODULE Nerves --------------------------------
(* Nerves: declared subscribers of the ledger that may tell the owner something, a
   few times per window. store/nerve.rs, store/nerve_dispatch.rs,
   store/nerve_reactions.rs, nerve_delivery.rs, openspine-schemas/src/nerve.rs.

   An owner message that carries a manipulation marker leaves a signal in the ledger.
   The dispatcher replays the ledger to each registered screener, which may interject;
   the delivery loop hands what was interjected to the owner. An event is the marker
   of a signal, or Plain: an event of another kind that a filter may let through.
   A handler that fails and a send that fails are faults; a clock never goes back. *)
EXTENDS Naturals, Sequences, FiniteSets

CONSTANTS
    Declared,       \* nerve -> its declaration
    Markers,        \* what a signal of the ledger may carry
    LoadedManifests,\* what the manifests a boot loads may grant: agent -> its limits
    Window,         \* budget.window_seconds
    RetireAt,       \* IGNORED_RETIRE_THRESHOLD
    MaxEvents,      \* bound: events of the ledger
    MaxIssued,      \* bound: interjections
    NvMaxTime,      \* bound: the clock
    NvMaxFaults     \* bound: failed writes and sends, and restarts

Nerves == DOMAIN Declared
ASSUME NervesAssumption ==
    /\ "plain" \notin Markers
    /\ \A n \in Nerves : /\ Declared[n].screener \in BOOLEAN /\ Declared[n].speaks \in BOOLEAN
                         /\ Declared[n].filter # {} /\ Declared[n].max \in Nat \ {0}
    /\ Window \in Nat \ {0}
    /\ RetireAt \in Nat \ {0}
    /\ {MaxEvents, MaxIssued, NvMaxTime, NvMaxFaults} \subseteq Nat

VARIABLES
    nvLimits,  \* nerve_advisee_limits: the scopes and the tier of each agent with a row
    nvBudget,  \* nerve_registrations and nerve_interjection_budgets, by nerve
    nvDecay,   \* nerve_decay: how often a class was ignored, and whether it is retired
    nvIssued,  \* nerve_issuances with their delivery and their reaction
    nvLedger,  \* the events of audit_log
    nvAck,     \* the checkpoints of the nerves
    nvPass,    \* what the dispatcher is doing
    nvMail,    \* what the delivery loop is doing
    nvNow,     \* the clock
    nvFaults,  \* what its bound counts
    nvRefused  \* history: signals that a nerve had no budget, no class or no voice for
nvStore == <<nvLimits, nvBudget, nvDecay, nvIssued, nvLedger, nvAck>>
nvVars == <<nvStore, nvPass, nvMail, nvNow, nvFaults, nvRefused>>

Events == Markers \cup {"plain"}
Kind(e) == IF e \in Markers THEN "signal" ELSE e
Issues == 1..MaxIssued
NoIssue == [nerve |-> "none"]
Revoked == [nerve |-> "revoked"]
NotRegistered == [used |-> 0, since |-> 0, live |-> FALSE]
Resting == [pc |-> "idle"]
Registered == {n \in Nerves : nvBudget[n].live}
Issued(n) == {i \in Issues : nvIssued[i].nerve = n}
Pending == {i \in Issues : nvIssued[i].nerve \in Nerves /\ nvIssued[i].pending}
NotDecayed == [c \in Markers |-> [ignored |-> 0, retired |-> FALSE]]

NvTypeOK ==
    /\ \A n \in Nerves : /\ nvBudget[n].used \in 0..Declared[n].max
                         /\ nvAck[n] \in 0..Len(nvLedger)
    /\ nvLedger \in Seq(Events) /\ nvNow \in 0..NvMaxTime
    /\ \A i \in Issues : nvIssued[i] \notin {NoIssue, Revoked} => nvIssued[i].nerve \in Registered

(* is_scope_within, is_tier_within and filter_within_scope. *)
Within(limits, n) ==
    LET d == Declared[n]
    IN  /\ d.advisee \in DOMAIN limits
        /\ d.scope \subseteq limits[d.advisee].scope /\ d.tier <= limits[d.advisee].tier
        /\ d.filter \subseteq d.scope

NvInit ==
    /\ nvLimits \in LoadedManifests
    /\ nvBudget = [n \in Nerves |-> NotRegistered] /\ nvDecay = [n \in Nerves |-> NotDecayed]
    /\ nvIssued = [i \in Issues |-> NoIssue] /\ nvLedger = <<>> /\ nvAck = [n \in Nerves |-> 0]
    /\ nvPass = Resting /\ nvMail = Resting
    /\ nvNow = 0 /\ nvFaults = 0 /\ nvRefused = {}

Failing == nvFaults < NvMaxFaults /\ nvFaults' = nvFaults + 1

(* register_nerve: its consumer starts before the first event. *)
RegisterNerve(n) ==
    /\ n \notin Registered /\ Within(nvLimits, n)
    /\ nvBudget' = [nvBudget EXCEPT ![n] = [used |-> 0, since |-> nvNow, live |-> TRUE]]
    /\ UNCHANGED <<nvLimits, nvDecay, nvIssued, nvLedger, nvAck,
                   nvPass, nvMail, nvNow, nvFaults, nvRefused>>

(* append_event_received_with_screen leaves the marker it found, if any. *)
AppendEvent(e) ==
    /\ Len(nvLedger) < MaxEvents /\ nvLedger' = Append(nvLedger, e)
    /\ UNCHANGED <<nvLimits, nvBudget, nvDecay, nvIssued, nvAck,
                   nvPass, nvMail, nvNow, nvFaults, nvRefused>>

-----------------------------------------------------------------------------
(* The dispatcher: replay_registered_nerves_with, over the declarations it read. *)

BeginPass ==
    /\ nvPass = Resting /\ Registered # {}
    /\ nvPass' = [pc |-> "choose", todo |-> Registered]
    /\ UNCHANGED <<nvStore, nvMail, nvNow, nvFaults, nvRefused>>

PassEnds ==
    /\ nvPass.pc = "choose" /\ nvPass.todo = {} /\ nvPass' = Resting
    /\ UNCHANGED <<nvStore, nvMail, nvNow, nvFaults, nvRefused>>

(* revoke_nerve_registration *)
RevokeNerve(n) ==
    /\ nvPass.pc = "choose" /\ n \in nvPass.todo /\ ~Within(nvLimits, n)
    /\ nvBudget' = [nvBudget EXCEPT ![n] = NotRegistered]
    /\ nvDecay' = [nvDecay EXCEPT ![n] = NotDecayed]
    /\ nvIssued' = [i \in Issues |-> IF i \in Issued(n) THEN Revoked ELSE nvIssued[i]]
    /\ nvAck' = [nvAck EXCEPT ![n] = 0]
    /\ nvRefused' = {r \in nvRefused : r[1] # n}
    /\ nvPass' = [nvPass EXCEPT !.todo = @ \ {n}]
    /\ UNCHANGED <<nvLimits, nvLedger, nvMail, nvNow, nvFaults>>

(* Only screeners have a handler; the others stay configuration. *)
SkipNerve(n) ==
    /\ nvPass.pc = "choose" /\ n \in nvPass.todo /\ Within(nvLimits, n) /\ ~Declared[n].screener
    /\ nvPass' = [nvPass EXCEPT !.todo = @ \ {n}]
    /\ UNCHANGED <<nvStore, nvMail, nvNow, nvFaults, nvRefused>>

(* The events a replay delivers are those of the ledger when it starts. *)
BeginReplay(n) ==
    /\ nvPass.pc = "choose" /\ n \in nvPass.todo /\ Within(nvLimits, n) /\ Declared[n].screener
    /\ nvPass' = [pc |-> "replay", todo |-> nvPass.todo \ {n}, nerve |-> n,
                  at |-> nvAck[n], upto |-> Len(nvLedger)]
    /\ UNCHANGED <<nvStore, nvMail, nvNow, nvFaults, nvRefused>>

Undelivered ==
    {i \in (nvPass.at + 1)..nvPass.upto : Kind(nvLedger[i]) \in Declared[nvPass.nerve].filter}
IsNext(i) == i \in Undelivered /\ \A j \in Undelivered : i <= j

ReplayEnds ==
    /\ nvPass.pc = "replay" /\ Undelivered = {}
    /\ nvPass' = [pc |-> "choose", todo |-> nvPass.todo]
    /\ UNCHANGED <<nvStore, nvMail, nvNow, nvFaults, nvRefused>>

WindowOver(n) == nvNow - nvBudget[n].since >= Window

(* Mutant: a new window starts without the interjection that opened it. *)
DebitOpensEmpty(n) ==
    [nvBudget[n] EXCEPT !.used = IF WindowOver(n) THEN 0 ELSE @ + 1,
                        !.since = IF WindowOver(n) THEN nvNow ELSE @]

(* The UPDATE that debits a budget, in the transaction of its issuance. *)
Debit(n) ==
    [nvBudget[n] EXCEPT !.used = IF WindowOver(n) THEN 1 ELSE @ + 1,
                        !.since = IF WindowOver(n) THEN nvNow ELSE @]

MayInterject(n, c) ==
    /\ Declared[n].speaks /\ ~nvDecay[n][c].retired
    /\ nvBudget[n].used < Declared[n].max \/ WindowOver(n)

Handled(i) == nvPass' = [nvPass EXCEPT !.pc = "ack", !.at = i]

(* screener_handler and admit_interjection_for_event *)
Interject(i) ==
    LET n == nvPass.nerve
        c == nvLedger[i]
    IN  /\ nvPass.pc = "replay" /\ IsNext(i) /\ c \in Markers /\ MayInterject(n, c)
        /\ nvBudget' = [nvBudget EXCEPT ![n] = Debit(n)]
        /\ \E k \in Issues :
             /\ nvIssued[k] = NoIssue /\ \A j \in 1..(k - 1) : nvIssued[j] # NoIssue
             /\ nvIssued' = [nvIssued EXCEPT ![k] =
                    [nerve |-> n, class |-> c, event |-> i, at |-> nvNow,
                     reaction |-> "none", pending |-> TRUE, told |-> FALSE]]
        /\ Handled(i)
        /\ UNCHANGED <<nvLimits, nvDecay, nvLedger, nvAck, nvMail, nvNow, nvFaults, nvRefused>>

(* Below the threshold, a retired class or no budget: nothing to do. *)
StaySilent(i) ==
    LET n == nvPass.nerve
    IN  /\ nvPass.pc = "replay" /\ IsNext(i)
        /\ nvLedger[i] \in Markers => ~MayInterject(n, nvLedger[i])
        /\ nvRefused' = nvRefused \cup {<<n, i>>}
        /\ Handled(i)
        /\ UNCHANGED <<nvStore, nvMail, nvNow, nvFaults>>

(* save_consumer_checkpoint, after the handler succeeded. *)
AckSignal ==
    /\ nvPass.pc = "ack"
    /\ nvAck' = [nvAck EXCEPT ![nvPass.nerve] = nvPass.at]
    /\ nvPass' = [nvPass EXCEPT !.pc = "replay"]
    /\ UNCHANGED <<nvLimits, nvBudget, nvDecay, nvIssued, nvLedger, nvMail, nvNow, nvFaults, nvRefused>>

(* A read or a write fails: the pass is over for every nerve it had left. *)
PassFails ==
    /\ nvPass # Resting /\ nvPass' = Resting /\ Failing
    /\ UNCHANGED <<nvStore, nvMail, nvNow, nvRefused>>

-----------------------------------------------------------------------------
(* nerve_delivery::run *)

LoadDeliveries ==
    /\ nvMail = Resting /\ Pending # {} /\ nvMail' = [pc |-> "notify", todo |-> Pending]
    /\ UNCHANGED <<nvStore, nvPass, nvNow, nvFaults, nvRefused>>

MailEnds ==
    /\ nvMail.pc = "notify" /\ nvMail.todo = {} /\ nvMail' = Resting
    /\ UNCHANGED <<nvStore, nvPass, nvNow, nvFaults, nvRefused>>

(* notify_owner_with_digest: sent, or durably handed to the dead letters. *)
HandOff(k) ==
    /\ nvMail.pc = "notify" /\ k \in nvMail.todo
    /\ nvMail' = [pc |-> "ack", todo |-> nvMail.todo \ {k}, item |-> k]
    /\ nvIssued' = [nvIssued EXCEPT ![k] = IF @ = Revoked THEN @ ELSE [@ EXCEPT !.told = TRUE]]
    /\ UNCHANGED <<nvLimits, nvBudget, nvDecay, nvLedger, nvAck, nvPass, nvNow, nvFaults, nvRefused>>

NoHandOff(k) ==
    /\ nvMail.pc = "notify" /\ k \in nvMail.todo /\ Failing
    /\ nvMail' = [nvMail EXCEPT !.todo = @ \ {k}]
    /\ UNCHANGED <<nvStore, nvPass, nvNow, nvRefused>>

AfterAck == nvMail' = [pc |-> "notify", todo |-> nvMail.todo]

(* ack_nerve_delivery *)
AckDelivery ==
    /\ nvMail.pc = "ack" /\ AfterAck
    /\ nvIssued' = [nvIssued EXCEPT ![nvMail.item] =
                       IF @ = Revoked THEN @ ELSE [@ EXCEPT !.pending = FALSE]]
    /\ UNCHANGED <<nvLimits, nvBudget, nvDecay, nvLedger, nvAck, nvPass, nvNow, nvFaults, nvRefused>>

AckDeliveryFails ==
    /\ nvMail.pc = "ack" /\ AfterAck /\ Failing
    /\ UNCHANGED <<nvStore, nvPass, nvNow, nvRefused>>

-----------------------------------------------------------------------------
(* record_reaction: one reaction to an issuance counts, and five ignored ones  *)
(* retire their class. Annoyed is recorded as engaged is.                      *)
RecordReaction(k, reaction) ==
    LET n == nvIssued[k].nerve
        c == nvIssued[k].class
        ignored == nvDecay[n][c].ignored + (IF reaction = "ignored" THEN 1 ELSE 0)
    IN  /\ nvIssued[k] \notin {NoIssue, Revoked} /\ nvIssued[k].reaction = "none"
        /\ nvIssued' = [nvIssued EXCEPT ![k].reaction = reaction]
        /\ nvDecay' = [nvDecay EXCEPT ![n][c] =
                          [ignored |-> ignored, retired |-> @.retired \/ ignored >= RetireAt]]
        /\ UNCHANGED <<nvLimits, nvBudget, nvLedger, nvAck, nvPass, nvMail, nvNow, nvFaults, nvRefused>>

NvTick ==
    /\ nvNow < NvMaxTime /\ nvNow' = nvNow + 1
    /\ UNCHANGED <<nvStore, nvPass, nvMail, nvFaults, nvRefused>>

(* The process ends; the next one seeds the limits from the manifests it loads. *)
NvRestart ==
    /\ nvLimits' \in LoadedManifests /\ nvPass' = Resting /\ nvMail' = Resting /\ Failing
    /\ UNCHANGED <<nvBudget, nvDecay, nvIssued, nvLedger, nvAck, nvNow, nvRefused>>

DispatcherStep ==
    \/ BeginPass \/ PassEnds \/ ReplayEnds \/ AckSignal
    \/ \E n \in Nerves : RevokeNerve(n) \/ SkipNerve(n) \/ BeginReplay(n)
    \/ \E i \in 1..MaxEvents : Interject(i) \/ StaySilent(i)
DeliveryStep ==
    LoadDeliveries \/ MailEnds \/ AckDelivery \/ (\E k \in Issues : HandOff(k))

NvNext ==
    \/ \E n \in Nerves : RegisterNerve(n)
    \/ \E e \in Events : AppendEvent(e)
    \/ DispatcherStep \/ PassFails
    \/ DeliveryStep \/ AckDeliveryFails \/ \E k \in Issues : NoHandOff(k)
    \/ \E k \in Issues, r \in {"ignored", "engaged"} : RecordReaction(k, r)
    \/ NvTick \/ NvRestart

(* Both loops run for as long as the process does. *)
NvSpec == NvInit /\ [][NvNext]_nvVars /\ WF_nvVars(DispatcherStep) /\ WF_nvVars(DeliveryStep)

-----------------------------------------------------------------------------
(* What a budget has left is what its window has left: the interjections since it
   opened are counted, no more and no less, through restarts and repeated handlers. *)
BudgetIsExact ==
    \A n \in Registered :
        nvBudget[n].used = Cardinality({k \in Issued(n) : nvIssued[k].at >= nvBudget[n].since})

(* The checkpoint never passes a signal that neither spoke nor was refused; and one
   signal speaks twice only where a write failed or the process ended in between. *)
SignalsAreAnswered ==
    \A n \in Registered, i \in 1..Len(nvLedger) :
        LET spoken == {k \in Issued(n) : nvIssued[k].event = i}
        IN  /\ Declared[n].screener /\ Kind(nvLedger[i]) \in Declared[n].filter /\ i <= nvAck[n]
               => spoken # {} \/ <<n, i>> \in nvRefused
            /\ Cardinality(spoken) <= 1 + nvFaults

(* No delivery is dropped before the owner's channel has it, and a class falls silent
   exactly when enough of its interjections were ignored. *)
NoticesAreKept ==
    /\ \A k \in Issues : nvIssued[k].nerve \in Nerves => nvIssued[k].pending \/ nvIssued[k].told
    /\ \A n \in Nerves, c \in Markers :
        nvDecay[n][c].retired <=>
            Cardinality({k \in Issued(n) : nvIssued[k].class = c /\ nvIssued[k].reaction = "ignored"})
                >= RetireAt

(* A nerve speaks only within what its agent's manifest gives that agent now, even if
   it was registered under another manifest. *)
SpeaksWithinLimits ==
    [][\A k \in Issues : nvIssued[k] = NoIssue /\ nvIssued'[k] # NoIssue
         => Within(nvLimits, nvIssued'[k].nerve)]_nvVars

(* Once the ledger grows no more, every event of a screener's filter has been taken,
   unless the screener was revoked, and every notice handed over. *)
NervesListen ==
    []<>(/\ Pending = {}
         /\ \A n \in Registered, i \in 1..Len(nvLedger) :
              Declared[n].screener /\ Kind(nvLedger[i]) \in Declared[n].filter => nvAck[n] >= i)

(* What an owner hears of nerves is bounded, owed and delivered. *)
NervesAreSound ==
    /\ [](NvTypeOK /\ BudgetIsExact /\ SignalsAreAnswered /\ NoticesAreKept)
    /\ SpeaksWithinLimits /\ NervesListen
=============================================================================
