------------------------------ MODULE TaskBoard ------------------------------
(* The task board and the consumer of its timers (store/task_board.rs,
   store/task_dispatch.rs, pipeline/timer_dispatch.rs). A task's deadline or
   reminder timer fires once; the consumer turns the event into one worker grant,
   or parks it on the dependencies that are not done and wakes it when they are.
   Each dispatch is recorded under a key: the event's own, or the wake's.

   Simplifications. Nothing in the product calls complete_task_and_wake yet: a
   task is finished by mark_task_done_and_poll or by a caller that does not poll. *)
LOCAL INSTANCE Naturals
LOCAL INSTANCE Sequences
LOCAL INSTANCE FiniteSets

CONSTANTS
    Tasks,
    Deps,         \* task -> the tasks it depends on
    Orphans,      \* tasks whose owner is not an owner principal
    TaskTimers,   \* timer ids
    TaskOf,       \* timer -> its task, NoTask for a workflow's own timer
    NoTask,
    TbMaxCrashes, \* bound: crashes
    TbMaxRetries  \* bound: dispatches the pipeline answers without a grant

ASSUME TaskBoardAssumption ==
    /\ NoTask \notin Tasks /\ Orphans \subseteq Tasks
    /\ Deps \in [Tasks -> SUBSET Tasks]
    /\ TaskOf \in [TaskTimers -> Tasks \cup {NoTask}]
    /\ {TbMaxCrashes, TbMaxRetries} \subseteq Nat

VARIABLES
    tbStatus,   \* task_board.status
    tbTimers,   \* timers scheduled: "unset", "pending", "fired"
    tbEvents,   \* workflow.timer_fired events, in order
    tbAck,      \* checkpoint of task_board_timer_consumer
    tbDispatch, \* dispatch_state rows, by key
    tbReceipts, \* dispatch_receipts
    tbGrants,   \* history: grants persisted under a key
    tbWaiters,  \* task_dependency_waiters, by timer and dependency
    tbPass,     \* the consumer's task
    tbRevived,  \* history: finished tasks that mark_task_blocked overwrote
    tbSpent     \* [crashes, retries]

tbVars == <<tbStatus, tbTimers, tbEvents, tbAck, tbDispatch, tbReceipts, tbGrants,
            tbWaiters, tbPass, tbRevived, tbSpent>>
tbBoard == <<tbStatus, tbTimers, tbEvents, tbRevived>>

EventKey(tm) == <<"event", tm>>
WakeKey(tm)  == <<"wake", tm>>
DispatchKeys == {EventKey(tm) : tm \in TaskTimers} \cup {WakeKey(tm) : tm \in TaskTimers}
TerminalStatuses == {"done", "cancelled"}

Unmet(t)    == {d \in Deps[t] : tbStatus[d] # "done"}
RowsOf(tm)  == {tm} \X Deps[TaskOf[tm]]
AllRows     == UNION {RowsOf(tm) : tm \in {x \in TaskTimers : TaskOf[x] # NoTask}}

(* Every waiter of the timer is put in one state, whatever it was. *)
SetWaiters(tm, state) ==
    [w \in AllRows |-> IF w \in RowsOf(tm) /\ tbWaiters[w] # "none" THEN state ELSE tbWaiters[w]]

Idle == [pc |-> "recover", key |-> <<>>, unmet |-> {}]
Busy(pc, key) == [pc |-> pc, key |-> key, unmet |-> {}]

TbInit ==
    /\ tbStatus \in [Tasks -> {"open"}]
    /\ tbTimers = [tm \in TaskTimers |-> "unset"]
    /\ tbEvents = <<>> /\ tbAck = 0
    /\ tbDispatch = [k \in DispatchKeys |-> "none"]
    /\ tbReceipts = {}
    /\ tbGrants = [k \in DispatchKeys |-> 0]
    /\ tbWaiters = [w \in AllRows |-> "none"]
    /\ tbPass = Idle /\ tbRevived = {}
    /\ tbSpent = [crashes |-> 0, retries |-> 0]

------------------------------------------------------------------------------
(* The board *)

(* schedule_task_timer: refused on a finished task. *)
ScheduleTaskTimer(tm) ==
    /\ tbTimers[tm] = "unset"
    /\ TaskOf[tm] # NoTask => tbStatus[TaskOf[tm]] \notin TerminalStatuses
    /\ tbTimers' = [tbTimers EXCEPT ![tm] = "pending"]
    /\ UNCHANGED <<tbStatus, tbEvents, tbAck, tbDispatch, tbReceipts, tbGrants, tbWaiters,
                   tbPass, tbRevived, tbSpent>>

TaskTimerFires(tm) ==
    /\ tbTimers[tm] = "pending"
    /\ tbTimers' = [tbTimers EXCEPT ![tm] = "fired"]
    /\ tbEvents' = Append(tbEvents, tm)
    /\ UNCHANGED <<tbStatus, tbAck, tbDispatch, tbReceipts, tbGrants, tbWaiters, tbPass,
                   tbRevived, tbSpent>>

(* One waiting row of a dependency: consumed when its task cannot be woken, left when
   a dependency is open, else the task is opened and the timer's rows are ready. *)
Pollable(d) == {w \in AllRows : w[2] = d /\ tbWaiters[w] = "waiting"}
Wakeable(w, status) ==
    LET t == TaskOf[w[1]]
    IN  t \notin Orphans /\ status[t] \notin TerminalStatuses
        /\ \A d \in Deps[t] : status[d] = "done"
Hopeless(w, status) ==
    TaskOf[w[1]] \in Orphans \/ status[TaskOf[w[1]]] \in TerminalStatuses
(* Mutant: a row whose other dependencies are open is consumed with the poll. *)
PolledRowsOnce(ds, status) ==
    [w \in AllRows |->
        LET polled == {x \in UNION {Pollable(d) : d \in ds} : x[1] = w[1]}
        IN  IF polled = {} THEN tbWaiters[w]
            ELSE IF \E x \in polled : Wakeable(x, status) THEN "ready" ELSE "consumed"]

PolledRows(ds, status) ==
    [w \in AllRows |->
        IF tbWaiters[w] = "none" THEN "none"
        ELSE LET polled == {x \in UNION {Pollable(d) : d \in ds} : x[1] = w[1]}
             IN  CASE \E x \in polled : Hopeless(x, status) -> "consumed"
                   [] \E x \in polled : Wakeable(x, status) -> "ready"
                   [] OTHER -> tbWaiters[w]]
OpenedBy(ds, status) ==
    [t \in Tasks |->
        IF /\ status[t] = "blocked"
           /\ \E w \in UNION {Pollable(d) : d \in ds} : TaskOf[w[1]] = t /\ Wakeable(w, status)
        THEN "open" ELSE status[t]]

(* A caller that does not poll, or that the process dies under before it does. *)
FinishTask(t, status) ==
    /\ tbStatus[t] \notin TerminalStatuses
    /\ tbStatus' = [tbStatus EXCEPT ![t] = status]
    /\ UNCHANGED <<tbTimers, tbEvents, tbAck, tbDispatch, tbReceipts, tbGrants, tbWaiters,
                   tbPass, tbRevived, tbSpent>>

(* The second transaction of mark_task_done_and_poll, at any time after the first. *)
PollDependents(t) ==
    /\ tbStatus[t] \in TerminalStatuses
    /\ tbWaiters' = PolledRows({t}, tbStatus)
    /\ tbStatus' = OpenedBy({t}, tbStatus)
    /\ UNCHANGED <<tbTimers, tbEvents, tbAck, tbDispatch, tbReceipts, tbGrants, tbPass,
                   tbRevived, tbSpent>>

------------------------------------------------------------------------------
(* The consumer: recover_timer_dispatches, then the replay of the events *)

(* Mutant: a handoff without a receipt is made again. *)
RefuseHandoffsRedo ==
    /\ tbPass.pc = "recover"
    /\ tbDispatch' = [k \in DispatchKeys |->
          IF tbDispatch[k] # "handed_off" \/ k \in tbReceipts THEN tbDispatch[k]
          ELSE IF \E i \in 1..tbAck : k = EventKey(tbEvents[i]) THEN "terminal" ELSE "none"]
    /\ tbPass' = [tbPass EXCEPT !.pc = "poll"]
    /\ UNCHANGED <<tbBoard, tbAck, tbReceipts, tbGrants, tbWaiters, tbSpent>>

(* reattempt_handed_off for every incomplete row: a handoff without a receipt is
   refused for good, the worker it started is not started again. *)
RefuseHandoffs ==
    /\ tbPass.pc = "recover"
    /\ tbDispatch' = [k \in DispatchKeys |->
          IF tbDispatch[k] = "handed_off" /\ k \notin tbReceipts THEN "terminal"
          ELSE tbDispatch[k]]
    /\ tbPass' = [tbPass EXCEPT !.pc = "poll"]
    /\ UNCHANGED <<tbBoard, tbAck, tbReceipts, tbGrants, tbWaiters, tbSpent>>

(* Mutant: only the completing caller polls. *)
PollAllNothing ==
    /\ tbPass.pc = "poll"
    /\ tbPass' = [tbPass EXCEPT !.pc = "wakes"]
    /\ UNCHANGED <<tbBoard, tbAck, tbDispatch, tbReceipts, tbGrants, tbWaiters, tbSpent>>

(* poll_all_dependency_waits *)
PollAll ==
    /\ tbPass.pc = "poll"
    /\ tbWaiters' = PolledRows(Tasks, tbStatus)
    /\ tbStatus' = OpenedBy(Tasks, tbStatus)
    /\ tbPass' = [tbPass EXCEPT !.pc = "wakes"]
    /\ UNCHANGED <<tbTimers, tbEvents, tbAck, tbDispatch, tbReceipts, tbGrants, tbRevived, tbSpent>>

ReadyTimers == {w[1] : w \in {x \in AllRows : tbWaiters[x] = "ready"}}

(* dispatch_task_wake up to the composition, one ready timer at a time; a failure ends
   the recovery pass and the rest stays ready. *)
DispatchWake(tm) ==
    LET t == TaskOf[tm]
        key == WakeKey(tm)
    IN  /\ tbPass.pc = "wakes" /\ tm \in ReadyTimers
        /\ CASE tbDispatch[key] = "terminal" ->
                  /\ tbWaiters' = SetWaiters(tm, "consumed")
                  /\ UNCHANGED <<tbDispatch, tbPass>>
             [] tbDispatch[key] = "handed_off" ->
                  /\ tbDispatch' = [tbDispatch EXCEPT ![key] = "terminal"]
                  /\ UNCHANGED <<tbWaiters, tbPass>>
             [] tbDispatch[key] = "none" /\ (tbStatus[t] \in TerminalStatuses \/ t \in Orphans) ->
                  /\ tbWaiters' = SetWaiters(tm, "consumed")
                  /\ tbPass' = Busy("finalise", key)
                  /\ UNCHANGED tbDispatch
             [] tbDispatch[key] = "none" /\ tbStatus[t] \notin TerminalStatuses /\ t \notin Orphans ->
                  IF Unmet(t) # {}
                  THEN /\ tbWaiters' = SetWaiters(tm, "waiting")
                       /\ UNCHANGED <<tbDispatch, tbPass>>
                  ELSE /\ tbPass' = Busy("compose", key)
                       /\ UNCHANGED <<tbDispatch, tbWaiters>>
        /\ UNCHANGED <<tbBoard, tbAck, tbReceipts, tbGrants, tbSpent>>

(* mark_dispatch_terminal of a wake that will not be dispatched. *)
FinaliseWake ==
    /\ tbPass.pc = "finalise"
    /\ tbDispatch' = [tbDispatch EXCEPT ![tbPass.key] = "terminal"]
    /\ tbPass' = [Idle EXCEPT !.pc = "wakes"]
    /\ UNCHANGED <<tbBoard, tbAck, tbReceipts, tbGrants, tbWaiters, tbSpent>>

WakesDone ==
    /\ tbPass.pc = "wakes" /\ ReadyTimers = {}
    /\ tbPass' = [Idle EXCEPT !.pc = "replay"]
    /\ UNCHANGED <<tbBoard, tbAck, tbDispatch, tbReceipts, tbGrants, tbWaiters, tbSpent>>

(* dispatch_task_timer_event up to the composition, for the event after the
   checkpoint; without one the loop starts again. *)
NextEvent ==
    /\ tbPass.pc = "replay"
    /\ IF tbAck = Len(tbEvents)
       THEN tbPass' = Idle /\ UNCHANGED tbDispatch
       ELSE LET tm == tbEvents[tbAck + 1]
                t == TaskOf[tm]
                key == EventKey(tm)
                skip == t = NoTask \/ (t \in Tasks /\ tbStatus[t] \in TerminalStatuses)
            IN  CASE skip \/ (tbDispatch[key] = "none" /\ t \in Orphans) ->
                        /\ tbDispatch' = [tbDispatch EXCEPT ![key] = "terminal"]
                        /\ tbPass' = Busy("ack", key)
                  [] ~skip /\ tbDispatch[key] # "none" ->
                        tbPass' = Busy("ack", key) /\ UNCHANGED tbDispatch
                  [] ~skip /\ tbDispatch[key] = "none" /\ t \notin Orphans ->
                        /\ tbPass' = IF Unmet(t) # {}
                                     THEN [Busy("wait", key) EXCEPT !.unmet = Unmet(t)]
                                     ELSE Busy("compose", key)
                        /\ UNCHANGED tbDispatch
    /\ UNCHANGED <<tbBoard, tbAck, tbReceipts, tbGrants, tbWaiters, tbSpent>>

(* insert_dependency_waiter, one transaction per dependency found unmet. *)
InsertWaiter ==
    /\ tbPass.pc = "wait"
    /\ \E d \in tbPass.unmet :
          /\ tbWaiters' = [tbWaiters EXCEPT ![<<tbPass.key[2], d>>] = "waiting"]
          /\ tbPass' = [tbPass EXCEPT !.unmet = @ \ {d},
                                      !.pc = IF tbPass.unmet = {d} THEN "block" ELSE "wait"]
    /\ UNCHANGED <<tbBoard, tbAck, tbDispatch, tbReceipts, tbGrants, tbSpent>>

(* mark_task_blocked does not look at the status it overwrites. *)
MarkTaskBlocked ==
    /\ tbPass.pc = "block"
    /\ LET t == TaskOf[tbPass.key[2]]
       IN  /\ tbStatus' = [tbStatus EXCEPT ![t] = "blocked"]
           /\ tbRevived' = IF tbStatus[t] \in TerminalStatuses THEN tbRevived \cup {t}
                           ELSE tbRevived
    /\ tbPass' = [tbPass EXCEPT !.pc = "parked"]
    /\ UNCHANGED <<tbTimers, tbEvents, tbAck, tbDispatch, tbReceipts, tbGrants, tbWaiters,
                   tbSpent>>

(* Mutant: the parked event is left in the state that precedes a handoff. *)
MarkParkedPending ==
    /\ tbPass.pc = "parked"
    /\ tbDispatch' = [tbDispatch EXCEPT ![tbPass.key] = "pending"]
    /\ tbPass' = [tbPass EXCEPT !.pc = "ack"]
    /\ UNCHANGED <<tbBoard, tbAck, tbReceipts, tbGrants, tbWaiters, tbSpent>>

(* mark_dispatch_terminal, "dependency_wait". *)
MarkParked ==
    /\ tbPass.pc = "parked"
    /\ tbDispatch' = [tbDispatch EXCEPT ![tbPass.key] = "terminal"]
    /\ tbPass' = [tbPass EXCEPT !.pc = "ack"]
    /\ UNCHANGED <<tbBoard, tbAck, tbReceipts, tbGrants, tbWaiters, tbSpent>>

(* run_pipeline gives no grant: the event is withheld, the wake's rows wait again. *)
PipelineDenies ==
    /\ tbPass.pc = "compose" /\ tbSpent.retries < TbMaxRetries
    /\ tbSpent' = [tbSpent EXCEPT !.retries = @ + 1]
    /\ tbPass' = IF tbPass.key[1] = "wake" THEN [Idle EXCEPT !.pc = "wakes"] ELSE Idle
    /\ tbWaiters' = IF tbPass.key[1] = "wake" THEN SetWaiters(tbPass.key[2], "waiting")
                    ELSE tbWaiters
    /\ UNCHANGED <<tbBoard, tbAck, tbDispatch, tbReceipts, tbGrants>>

(* Mutant: the handoff row is written after the grant. *)
PersistGrantAlone ==
    /\ tbPass.pc = "compose"
    /\ tbGrants' = [tbGrants EXCEPT ![tbPass.key] = @ + 1]
    /\ tbPass' = [tbPass EXCEPT !.pc = "spawned"]
    /\ UNCHANGED <<tbBoard, tbAck, tbDispatch, tbReceipts, tbWaiters, tbSpent>>

(* persist_grant_with_handoff: the grant and its handed_off row in one transaction. *)
PersistGrant ==
    /\ tbPass.pc = "compose"
    /\ tbGrants' = [tbGrants EXCEPT ![tbPass.key] = @ + 1]
    /\ tbDispatch' = [tbDispatch EXCEPT ![tbPass.key] = "handed_off"]
    /\ tbPass' = [tbPass EXCEPT !.pc = "spawned"]
    /\ UNCHANGED <<tbBoard, tbAck, tbReceipts, tbWaiters, tbSpent>>

(* The shell ran, and complete_timer_dispatch recorded it; or it could not be run. *)
ShellReturns ==
    /\ tbPass.pc = "spawned"
    /\ \/ /\ tbDispatch' = [tbDispatch EXCEPT ![tbPass.key] = "terminal"]
          /\ tbReceipts' = tbReceipts \cup {tbPass.key}
       \/ UNCHANGED <<tbDispatch, tbReceipts>>
    /\ tbPass' = [tbPass EXCEPT !.pc = IF tbPass.key[1] = "wake" THEN "consume" ELSE "ack"]
    /\ UNCHANGED <<tbBoard, tbAck, tbGrants, tbWaiters, tbSpent>>

ConsumeWake ==
    /\ tbPass.pc = "consume"
    /\ tbWaiters' = SetWaiters(tbPass.key[2], "consumed")
    /\ tbPass' = [Idle EXCEPT !.pc = "wakes"]
    /\ UNCHANGED <<tbBoard, tbAck, tbDispatch, tbReceipts, tbGrants, tbSpent>>

(* save_consumer_checkpoint *)
AckEvent ==
    /\ tbPass.pc = "ack"
    /\ tbAck' = tbAck + 1
    /\ tbPass' = [Idle EXCEPT !.pc = "replay"]
    /\ UNCHANGED <<tbBoard, tbDispatch, tbReceipts, tbGrants, tbWaiters, tbSpent>>

TbCrash ==
    /\ tbSpent.crashes < TbMaxCrashes
    /\ tbSpent' = [tbSpent EXCEPT !.crashes = @ + 1]
    /\ tbPass' = Idle
    /\ UNCHANGED <<tbBoard, tbAck, tbDispatch, tbReceipts, tbGrants, tbWaiters>>

Consumer ==
    \/ RefuseHandoffs \/ PollAll \/ (\E tm \in TaskTimers : DispatchWake(tm)) \/ FinaliseWake
    \/ WakesDone \/ NextEvent \/ InsertWaiter \/ MarkTaskBlocked \/ MarkParked
    \/ PipelineDenies \/ PersistGrant \/ ShellReturns \/ ConsumeWake \/ AckEvent

TbNext ==
    \/ \E tm \in TaskTimers : ScheduleTaskTimer(tm) \/ TaskTimerFires(tm)
    \/ \E t \in Tasks : \/ FinishTask(t, "done") \/ FinishTask(t, "cancelled")
                        \/ PollDependents(t)
    \/ Consumer \/ TbCrash

(* run_task_deadline_consumer never returns; the shell it waits for is bounded by the
   sandbox's own timeout. *)
TbSpec == TbInit /\ [][TbNext]_tbVars
TbFairness == WF_tbVars(Consumer)

------------------------------------------------------------------------------
(* Properties *)

(* Shape of the board's rows and of the consumer's local state. *)
TbTypeOK ==
    /\ tbStatus \in [Tasks -> {"open", "blocked", "done", "cancelled"}]
    /\ tbTimers \in [TaskTimers -> {"unset", "pending", "fired"}]
    /\ tbEvents \in Seq(TaskTimers) /\ tbAck \in 0..Len(tbEvents)
    /\ tbDispatch \in [DispatchKeys -> {"none", "handed_off", "terminal"}]
    /\ tbReceipts \subseteq DispatchKeys /\ tbGrants \in [DispatchKeys -> Nat]
    /\ tbWaiters \in [AllRows -> {"none", "waiting", "ready", "consumed"}]
    /\ tbPass.pc \in {"recover", "poll", "wakes", "finalise", "replay", "wait", "block",
                      "parked", "compose", "spawned", "consume", "ack"}
    /\ tbPass.unmet \subseteq Tasks

(* One fired event, and one wake, start at most one worker, across crashes, replays,
   refused handoffs and retries. *)
OneGrantPerKey == \A k \in DispatchKeys : tbGrants[k] <= 1

(* The checkpoint never passes an event that was not dispatched, parked or refused
   under its key. *)
AckedIsDispatched == \A i \in 1..tbAck : tbDispatch[EventKey(tbEvents[i])] # "none"

(* A task that was parked on its dependencies is never forgotten: while its wake was
   not dispatched one of its rows is waiting or ready, whoever polls or crashes. (A
   task finished in the middle of its own parking is overwritten and lost: tbRevived.) *)
ParkedIsRemembered ==
    \A tm \in TaskTimers :
        (/\ TaskOf[tm] # NoTask
         /\ \E w \in RowsOf(tm) : tbWaiters[w] # "none"
         /\ tbDispatch[WakeKey(tm)] = "none"
         /\ tbStatus[TaskOf[tm]] \notin TerminalStatuses
         /\ TaskOf[tm] \notin Orphans \cup tbRevived)
        => \/ \E w \in RowsOf(tm) : tbWaiters[w] \in {"waiting", "ready"}
           \/ tbPass.key = WakeKey(tm)

(* A timer that fired for a task whose dependencies are done gets its worker, unless
   the task is finished first: whether the dependency completed before the check,
   between the check and the waiter, or after. *)
Answered(tm) ==
    \/ tbGrants[EventKey(tm)] + tbGrants[WakeKey(tm)] > 0
    \/ TaskOf[tm] = NoTask \/ TaskOf[tm] \in Orphans
    \/ tbStatus[TaskOf[tm]] \in TerminalStatuses \/ TaskOf[tm] \in tbRevived
FireIsAnswered ==
    \A tm \in TaskTimers :
        (TaskOf[tm] # NoTask /\ <>[](tbTimers[tm] = "fired" /\ Unmet(TaskOf[tm]) = {}))
        => []<>Answered(tm)

(* Whatever is acknowledged was dispatched once or is still remembered. *)
DispatchIsSound == TbTypeOK /\ OneGrantPerKey /\ AckedIsDispatched /\ ParkedIsRemembered
==============================================================================
