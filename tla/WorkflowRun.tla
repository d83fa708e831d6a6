------------------------------ MODULE WorkflowRun ------------------------------
(* A durable workflow run (workflow.rs): contexts replay a step program against
   the run's ledger; an effect step dispatches through the gate and keeps a receipt
   before its completion; a timer step schedules a durable timer that the kernel's
   timer driver fires by the trusted clock (store/workflow_timers.rs,
   store/boot_clock.rs). The process may crash between any two transactions, and
   the wall clock may be stepped back.

   Simplifications. A store call does not fail here: a caller is taken to abandon a
   context whose call failed, so "failed" is left only by rehydrating. The gated and
   the private step have the same control and are both "effect". *)
EXTENDS Naturals, Sequences, FiniteSets, WorkflowLedger

CONSTANTS
    Contexts,     \* callers that may drive the run, each with its own WorkflowCtx
    Programs,     \* step sequences a caller may run: [kind, digest, at]
    MaxTime,      \* bound: wall clock
    MaxCrashes,   \* bound: crashes of the process
    MaxStepBacks, \* bound: times the wall clock is stepped back
    Tolerance     \* CLOCK_REGRESSION_TOLERANCE_MS in ticks

ASSUME WorkflowRunAssumption ==
    /\ {MaxTime, MaxCrashes, MaxStepBacks, Tolerance} \subseteq Nat
    /\ \A p \in Programs : p \in Seq({p[i] : i \in DOMAIN p})
    /\ \A p \in Programs : \A i \in DOMAIN p :
          /\ p[i].kind \in {"time", "effect", "timer"}
          /\ p[i].at \in 0..MaxTime
    /\ \A c \in Contexts : None # <<"artifact", c>>

VARIABLES
    wfLedger,     \* the run's audit rows
    wfCtx,        \* the contexts: pc, program, cursor, view, pending outcome
    wfDispatched, \* history: times the effect of a step reached the outside world
    wfTimers,     \* workflow_timers rows
    wfFires,      \* timer_fired events: the timer and the pass's trusted time
    wfDriver,     \* the timers left in the driver's current pass
    wfClock,      \* wall clock
    wfHigh,       \* boot_meta clock.high_water_ms
    wfUp,         \* the process is serving
    wfFaults      \* [crashes, backs] spent

wfVars == <<wfLedger, wfCtx, wfDispatched, wfTimers, wfFires, wfDriver,
            wfClock, wfHigh, wfUp, wfFaults>>

FailedCode == <<"workflow.gated_step_failed">>
Steps == UNION {0..(Len(p) - 1) : p \in Programs}
OffCtx  == [pc |-> "off", prog |-> <<>>, cursor |-> 0, view |-> <<>>, out |-> None]
NoPass  == [at |-> 0, due |-> {}]
AllOff  == [c \in Contexts |-> OffCtx]
Later(a, b) == IF a >= b THEN a ELSE b

WfInit ==
    /\ wfLedger = <<>>
    /\ wfCtx = AllOff
    /\ wfDispatched = [s \in Steps |-> 0]
    /\ wfTimers = {} /\ wfFires = <<>>
    /\ wfDriver = NoPass
    /\ wfClock = 0 /\ wfHigh = 0 /\ wfUp = TRUE
    /\ wfFaults = [crashes |-> 0, backs |-> 0]

------------------------------------------------------------------------------
(* Contexts *)

KernelUnchanged == UNCHANGED <<wfClock, wfHigh, wfUp, wfFaults>>
Live(c, pc) == wfUp /\ wfCtx[c].pc = pc
StepOf(c)   == wfCtx[c].cursor - 1        \* the step whose handle the caller holds

(* new_with_definition: replay the aggregate under one snapshot, or refuse it. *)
Rehydrate(c) ==
    /\ wfUp /\ wfCtx[c].pc \in {"off", "failed"}
    /\ Replayable(wfLedger)
    /\ \E p \in Programs :
          wfCtx' = [wfCtx EXCEPT ![c] = [OffCtx EXCEPT !.pc = "ready", !.prog = p,
                                                       !.view = PairSteps(wfLedger)]]
    /\ UNCHANGED <<wfLedger, wfDispatched, wfTimers, wfFires, wfDriver>> /\ KernelUnchanged

(* Mutants: an interrupted effect is dispatched again; it is completed as it is. *)
NextPcRedo(kind, res, entry) ==
    CASE res = "diverged" -> "failed"
      [] res = "replayed" -> "ready"
      [] res \in {"fresh", "resuming"} ->
            CASE kind = "time" -> "completing" [] kind = "timer" -> "schedule"
              [] kind = "effect" -> "dispatch"
NextPcCompletes(kind, res, entry) ==
    CASE res = "diverged" -> "failed"
      [] res = "replayed" -> "ready"
      [] res \in {"fresh", "resuming"} ->
            CASE kind = "time" -> "completing" [] kind = "timer" -> "schedule"
              [] kind = "effect" -> IF res = "fresh" THEN "dispatch" ELSE "completing"

(* What the caller does with the answer to begin_step. A recorded failure stops the
   program; an interrupted effect without a receipt is refused, never redone; a read
   or a timer is redone. *)
NextPc(kind, res, entry) ==
    CASE res = "diverged" -> "failed"
      [] res = "replayed" -> IF entry.completed = FailedCode THEN "failed" ELSE "ready"
      [] res \in {"fresh", "resuming"} /\ kind = "time"  -> "completing"
      [] res \in {"fresh", "resuming"} /\ kind = "timer" -> "schedule"
      [] res = "fresh" /\ kind = "effect" -> "dispatch"
      [] res = "resuming" /\ kind = "effect" ->
            IF entry.receipt = None THEN "failed" ELSE "completing"

BeginStep(c) ==
    /\ Live(c, "ready")
    /\ wfCtx[c].cursor < Len(wfCtx[c].prog)
    /\ LET x == wfCtx[c]
           step == x.prog[x.cursor + 1]
           b == BeginStepRaw(wfLedger, x.view, x.cursor, step.kind, step.digest)
           entry == b.view[x.cursor]
       IN  /\ wfLedger' = b.ledger
           /\ wfCtx' = [wfCtx EXCEPT ![c] =
                 [x EXCEPT !.view = b.view,
                           !.cursor = IF b.res = "diverged" THEN @ ELSE @ + 1,
                           !.pc = NextPc(step.kind, b.res, entry),
                           !.out = IF step.kind = "time" THEN <<"time", wfClock>>
                                   ELSE IF b.res = "resuming" THEN entry.receipt ELSE None]]
    /\ UNCHANGED <<wfDispatched, wfTimers, wfFires, wfDriver>> /\ KernelUnchanged

(* run_gated_step, Fresh: mediate_and_dispatch_action. The gate may refuse before
   anything happened, and the provider may fail after it did. *)
Dispatch(c) ==
    /\ Live(c, "dispatch")
    /\ \E reached \in {TRUE, FALSE}, allowed \in {TRUE, FALSE} :
          /\ allowed => reached
          /\ wfDispatched' = [wfDispatched EXCEPT ![StepOf(c)] = IF reached THEN @ + 1 ELSE @]
          /\ wfCtx' = [wfCtx EXCEPT ![c].pc = IF allowed THEN "landed" ELSE "completing",
                                    ![c].out = IF allowed THEN None ELSE FailedCode]
    /\ UNCHANGED <<wfLedger, wfTimers, wfFires, wfDriver>> /\ KernelUnchanged

(* artifacts.put then record_receipt; a failure of either is the closed code. *)
RecordReceipt(c) ==
    /\ Live(c, "landed")
    /\ LET x == wfCtx[c]
           r == Stored(wfLedger, x.view, "receipt", StepOf(c), <<"artifact", c>>)
       IN  \/ /\ wfLedger' = r.ledger
              /\ wfCtx' = [wfCtx EXCEPT ![c].pc = "completing", ![c].view = r.view,
                                        ![c].out = IF r.ok THEN <<"artifact", c>> ELSE FailedCode]
           \/ /\ wfCtx' = [wfCtx EXCEPT ![c].pc = "completing", ![c].out = FailedCode]
              /\ UNCHANGED wfLedger
    /\ UNCHANGED <<wfDispatched, wfTimers, wfFires, wfDriver>> /\ KernelUnchanged

CompleteStep(c) ==
    /\ Live(c, "completing")
    /\ LET x == wfCtx[c]
           entry == x.view[StepOf(c)]
           r == Stored(wfLedger, x.view, "completed", StepOf(c), x.out)
       IN  IF entry.receipt # None /\ x.out # entry.receipt
           THEN /\ wfCtx' = [wfCtx EXCEPT ![c].pc = "failed"]
                /\ UNCHANGED wfLedger
           ELSE /\ wfLedger' = r.ledger
                /\ wfCtx' = [wfCtx EXCEPT
                      ![c].view = r.view,
                      ![c].pc = IF r.ok /\ x.out # FailedCode THEN "ready" ELSE "failed"]
    /\ UNCHANGED <<wfDispatched, wfTimers, wfFires, wfDriver>> /\ KernelUnchanged

(* schedule_timer: whichever context won the claim, the caller takes its timer. *)
Adopted(x, s, r) ==
    [x EXCEPT !.pc = "ready", !.view[s].completed = Canonical(wfLedger, r).out]

(* Mutant: the timer row is inserted whether or not the completion was claimed. *)
ScheduleTimerTwice(c) ==
    /\ Live(c, "schedule")
    /\ LET x == wfCtx[c]
           s == StepOf(c)
           r == Record("completed", s, x.view[s].kind, x.view[s].digest, <<"timer", <<s, c>>>>)
       IN  /\ wfLedger' = AppendOnce(wfLedger, r)
           /\ wfTimers' = wfTimers \cup {[id |-> <<s, c>>, at |-> x.prog[s + 1].at,
                                          status |-> "pending"]}
           /\ wfCtx' = [wfCtx EXCEPT ![c] = Adopted(x, s, r)]
    /\ UNCHANGED <<wfDispatched, wfFires, wfDriver>> /\ KernelUnchanged

(* schedule_workflow_timer_step: the completion and the timer row in one
   transaction; a context that lost the claim adopts the canonical timer. *)
ScheduleTimer(c) ==
    /\ Live(c, "schedule")
    /\ LET x == wfCtx[c]
           s == StepOf(c)
           id == <<s, c>>
           r == Record("completed", s, x.view[s].kind, x.view[s].digest, <<"timer", id>>)
       IN  /\ wfLedger' = AppendOnce(wfLedger, r)
           /\ wfTimers' = IF HasRecord(wfLedger, "completed", s) THEN wfTimers
                          ELSE wfTimers \cup {[id |-> id, at |-> x.prog[s + 1].at,
                                               status |-> "pending"]}
           /\ wfCtx' = [wfCtx EXCEPT ![c] = Adopted(x, s, r)]
    /\ UNCHANGED <<wfDispatched, wfFires, wfDriver>> /\ KernelUnchanged

------------------------------------------------------------------------------
(* The timer driver and the trusted clock *)

Regressed == wfClock + Tolerance < wfHigh

(* Mutant: only a timer due at this very instant is listed. *)
DueTimersExactly(at) == {t.id : t \in {u \in wfTimers : u.status = "pending" /\ u.at = at}}

DueTimers(at) == {t.id : t \in {u \in wfTimers : u.status = "pending" /\ u.at <= at}}

(* One iteration: a regressed clock ends the driver, and with it the process;
   otherwise the high-water mark rises and the due timers are listed. *)
DriverPass ==
    /\ wfUp /\ wfDriver.due = {}
    /\ IF Regressed
       THEN /\ wfUp' = FALSE /\ wfCtx' = AllOff
            /\ UNCHANGED <<wfHigh, wfDriver>>
       ELSE /\ wfHigh' = Later(wfHigh, wfClock)
            /\ wfDriver' = IF DueTimers(wfClock) = {} THEN NoPass
                           ELSE [at |-> wfClock, due |-> DueTimers(wfClock)]
            /\ UNCHANGED <<wfUp, wfCtx>>
    /\ UNCHANGED <<wfLedger, wfDispatched, wfTimers, wfFires, wfClock, wfFaults>>

(* Mutant: the claimed row is left in a status of its own. *)
FireTimerClaimed(id) ==
    /\ wfUp /\ id \in wfDriver.due
    /\ wfTimers' = {IF t.id = id THEN [t EXCEPT !.status = "firing"] ELSE t : t \in wfTimers}
    /\ wfFires' = Append(wfFires, [id |-> id, at |-> wfDriver.at])
    /\ wfDriver' = [wfDriver EXCEPT !.due = @ \ {id}]
    /\ UNCHANGED <<wfLedger, wfCtx, wfDispatched, wfClock, wfHigh, wfUp, wfFaults>>

(* fire_workflow_timer: compare-and-swap on the pending row, event in the same
   transaction. *)
FireTimer(id) ==
    /\ wfUp /\ id \in wfDriver.due
    /\ LET claimed == {t \in wfTimers : /\ t.id = id /\ t.status = "pending"
                                        /\ t.at <= wfDriver.at}
       IN  /\ wfTimers' = (wfTimers \ claimed)
                            \cup {[t EXCEPT !.status = "fired"] : t \in claimed}
           /\ wfFires' = IF claimed = {} THEN wfFires
                         ELSE Append(wfFires, [id |-> id, at |-> wfDriver.at])
    /\ wfDriver' = IF wfDriver.due = {id} THEN NoPass
                   ELSE [wfDriver EXCEPT !.due = @ \ {id}]
    /\ UNCHANGED <<wfLedger, wfCtx, wfDispatched, wfClock, wfHigh, wfUp, wfFaults>>

WfTick ==
    /\ wfClock < MaxTime
    /\ wfClock' = wfClock + 1
    /\ UNCHANGED <<wfLedger, wfCtx, wfDispatched, wfTimers, wfFires, wfDriver, wfHigh,
                   wfUp, wfFaults>>

(* The host steps its clock back. *)
StepBack ==
    /\ wfFaults.backs < MaxStepBacks
    /\ \E t \in 0..(wfClock - 1) : wfClock' = t
    /\ wfFaults' = [wfFaults EXCEPT !.backs = @ + 1]
    /\ UNCHANGED <<wfLedger, wfCtx, wfDispatched, wfTimers, wfFires, wfDriver, wfHigh, wfUp>>

WfCrash ==
    /\ wfUp /\ wfFaults.crashes < MaxCrashes
    /\ wfUp' = FALSE /\ wfCtx' = AllOff /\ wfDriver' = NoPass
    /\ wfFaults' = [wfFaults EXCEPT !.crashes = @ + 1]
    /\ UNCHANGED <<wfLedger, wfDispatched, wfTimers, wfFires, wfClock, wfHigh>>

(* Startup: validate_boot_clock before anything else, commit_boot_clock once bound.
   A regressed clock refuses to start. *)
Boot ==
    /\ ~wfUp /\ ~Regressed
    /\ wfUp' = TRUE
    /\ wfHigh' = Later(wfHigh, wfClock)
    /\ UNCHANGED <<wfLedger, wfCtx, wfDispatched, wfTimers, wfFires, wfDriver, wfClock,
                   wfFaults>>

WfNext ==
    \/ \E c \in Contexts :
          \/ Rehydrate(c)     \/ BeginStep(c)    \/ Dispatch(c)
          \/ RecordReceipt(c) \/ CompleteStep(c) \/ ScheduleTimer(c)
    \/ DriverPass \/ \E id \in wfDriver.due : FireTimer(id)
    \/ WfTick \/ StepBack \/ WfCrash \/ Boot

WfSpec == WfInit /\ [][WfNext]_wfVars

(* The driver loop is spawned by main() and never awaits a caller; time passes; a
   supervisor restarts the process. Callers are owed nothing. *)
FireDue == \E id \in wfDriver.due : FireTimer(id)
WfFairness == WF_wfVars(DriverPass) /\ WF_wfVars(FireDue) /\ WF_wfVars(WfTick) /\ WF_wfVars(Boot)
WfFairSpec == WfSpec /\ WfFairness

------------------------------------------------------------------------------
(* Properties *)

CtxRecord(x) ==
    /\ x.pc \in {"off", "ready", "dispatch", "landed", "completing", "schedule", "failed"}
    /\ x.prog \in Programs \cup {<<>>}
    /\ x.cursor \in 0..Len(x.prog)
    /\ DOMAIN x.view \subseteq Steps

(* Shape of the run's state: the ledger rows, the contexts, the timer rows and the
   clock the workflow tables and WorkflowCtx hold. *)
WfTypeOK ==
    /\ \A i \in DOMAIN wfLedger : /\ wfLedger[i].phase \in {"pending", "receipt", "completed"}
                                  /\ wfLedger[i].step \in Steps
    /\ DOMAIN wfCtx = Contexts /\ \A c \in Contexts : CtxRecord(wfCtx[c])
    /\ wfDispatched \in [Steps -> Nat]
    /\ \A t \in wfTimers : t.status \in {"pending", "fired"} /\ t.at \in 0..MaxTime
    /\ wfClock \in 0..MaxTime /\ wfHigh \in 0..MaxTime /\ wfUp \in BOOLEAN

(* An effect step reaches the outside world at most once, whatever the contexts,
   crashes and rehydrations: run_gated_step never dispatches a resumed step. *)
EffectAtMostOnce == \A s \in Steps : wfDispatched[s] <= 1

(* Whatever contexts interleave, the ledger they leave is one pair_steps accepts: a
   run that started can be rehydrated. *)
RunAlwaysRehydrates == Replayable(wfLedger)

(* Two contexts that both passed a step hold the same outcome for it, the one on the
   ledger: complete_step compares the canonical row, schedule_timer adopts it. *)
ContextsAgree ==
    \A c \in Contexts : \A s \in DOMAIN wfCtx[c].view :
        wfCtx[c].view[s].completed # None =>
            wfCtx[c].view[s].completed = OutOf(wfLedger, "completed", s)

(* An effect whose receipt is durable is never recorded as failed: a completion
   after a receipt is that receipt. *)
ReceiptDecides ==
    \A i, j \in DOMAIN wfLedger :
        /\ wfLedger[i].phase = "receipt" /\ wfLedger[j].phase = "completed"
        /\ wfLedger[i].step = wfLedger[j].step
        => i < j /\ wfLedger[i].out = wfLedger[j].out

(* A timer step that completed owns exactly one timer row, and a timer fires at most
   once, at a trusted time not before its deadline and not after the persisted
   high-water mark (fire_workflow_timer, observe_runtime_clock). *)
OneTimerOneFire ==
    /\ \A t, u \in wfTimers : t.id[1] = u.id[1] => t = u
    /\ \A i, j \in DOMAIN wfFires : wfFires[i].id = wfFires[j].id => i = j
    /\ \A i \in DOMAIN wfFires : \E t \in wfTimers :
          /\ t.id = wfFires[i].id /\ t.status = "fired"
          /\ t.at <= wfFires[i].at /\ wfFires[i].at <= wfHigh

(* A scheduled timer fires, across crashes, a clock stepped back and the restarts it
   refuses, once the clock has caught up: no timer stays pending for ever. *)
TimerFires == []<>(\A t \in wfTimers : t.status = "fired")

(* The ledger of a run always replays, for every context to the same outcomes, and
   no effect of it happens twice. *)
RunIsReplayable ==
    /\ WfTypeOK /\ EffectAtMostOnce /\ RunAlwaysRehydrates
    /\ ContextsAgree /\ ReceiptDecides

(* A scheduled timer fires, and once. *)
TimersFireOnce == []OneTimerOneFire /\ TimerFires
==============================================================================
