---------------------------- MODULE WorkflowProofs ----------------------------
(***************************************************************************)
(* Work that is started by an event of the ledger, for any number of       *)
(* tasks, timers, dependencies, crashes and retries.                       *)
(*                                                                         *)
(* Task board: a key is composed for only while its dispatch row is        *)
(* missing, and the row is written with the grant; the consumer stands on  *)
(* the event after its checkpoint until that event has a row.  A parked    *)
(* timer keeps a row that waits or is ready: a row is consumed only when   *)
(* the wake has its dispatch row or the task can no longer be woken.       *)
(*                                                                         *)
(* Workflow run: the ledger pairs every row with its step's intent, what a *)
(* context holds of a step is on the ledger, and a context that holds an   *)
(* effect is alone with it.  A completed timer step owns its timer row, a  *)
(* fire its fired row.                                                     *)
(*                                                                         *)
(* State machine: the ledger is a path of the manifest it recorded first,  *)
(* and a machine stands where the completed steps of its view put it.      *)
(***************************************************************************)
EXTENDS TaskBoard, WorkflowRun, WorkflowMachine, Integers, Sequences, FiniteSets, FiniteSetTheorems, TLAPS

Pcs == {"recover", "poll", "wakes", "finalise", "replay", "wait", "block", "parked", "compose",
        "spawned", "consume", "ack"}
Pass == [pc : Pcs, key : DispatchKeys \cup {<<>>}, unmet : SUBSET Tasks]

(* What the consumer is on. *)
Current == tbEvents[tbAck + 1]
AtEvent == tbAck < Len(tbEvents) /\ tbPass.key = EventKey(Current)
AtWake  == \E tm \in TaskTimers : TaskOf[tm] # NoTask /\ tbPass.key = WakeKey(tm)

PassStands ==
    /\ tbPass \in Pass
    /\ tbPass.pc \in {"wait", "block", "parked", "ack"} => AtEvent
    /\ tbPass.pc \in {"finalise", "consume"} => AtWake
    /\ tbPass.pc \in {"compose", "spawned"} => AtEvent \/ AtWake
    /\ tbPass.pc \in {"wait", "block", "parked"} => TaskOf[Current] \in Tasks
    /\ tbPass.pc = "wait" => tbPass.unmet \subseteq Deps[TaskOf[Current]]
    /\ tbPass.pc = "compose" => tbDispatch[tbPass.key] = "none"
    /\ tbPass.pc \in {"spawned", "consume", "ack"} => tbDispatch[tbPass.key] # "none"

(* A grant was persisted with its row. *)
GrantsHaveRows == \A k \in DispatchKeys : tbGrants[k] <= 1 /\ (tbGrants[k] = 1 => tbDispatch[k] # "none")

(* A task that its timer's wake may still open. *)
Wanted(tm) ==
    /\ TaskOf[tm] # NoTask
    /\ tbDispatch[WakeKey(tm)] = "none"
    /\ tbStatus[TaskOf[tm]] \notin TerminalStatuses
    /\ TaskOf[tm] \notin Orphans \cup tbRevived
Parked(tm) == \E w \in RowsOf(tm) : tbWaiters[w] # "none"
Remembered(tm) == \E w \in RowsOf(tm) : tbWaiters[w] \in {"waiting", "ready"}
ParkedWait == \A tm \in TaskTimers : Wanted(tm) /\ Parked(tm) => Remembered(tm)

TbInv == TbTypeOK /\ PassStands /\ GrantsHaveRows /\ AckedIsDispatched /\ ParkedWait

------------------------------------------------------------------------------
(* Keys and rows *)

LEMMA KeysDiffer ==
    \A a, b \in TaskTimers : /\ EventKey(a) # WakeKey(b) /\ EventKey(a) \in DispatchKeys /\ WakeKey(a) \in DispatchKeys
                             /\ (EventKey(a) = EventKey(b) => a = b) /\ (WakeKey(a) = WakeKey(b) => a = b)
                             /\ EventKey(a)[1] = "event" /\ EventKey(a)[2] = a
                             /\ WakeKey(a)[1] = "wake" /\ WakeKey(a)[2] = a
BY DEF EventKey, WakeKey, DispatchKeys

LEMMA RowsAre ==
    ASSUME NEW tm \in TaskTimers, TaskOf[tm] # NoTask
    PROVE  /\ TaskOf[tm] \in Tasks /\ RowsOf(tm) \subseteq AllRows
           /\ \A w \in AllRows : w \in RowsOf(tm) <=> w[1] = tm
           /\ \A d \in Deps[TaskOf[tm]] : <<tm, d>> \in RowsOf(tm)
<1>1. TaskOf[tm] \in Tasks /\ Deps[TaskOf[tm]] \subseteq Tasks
  BY TaskBoardAssumption
<1>2. RowsOf(tm) \subseteq AllRows
  BY DEF AllRows
<1>3. ASSUME NEW w \in AllRows PROVE w \in RowsOf(tm) <=> w[1] = tm
  BY DEF AllRows, RowsOf
<1>. QED BY <1>1, <1>2, <1>3 DEF RowsOf

(* Rows of one timer are set, the others kept. *)
LEMMA SetWaitersIs ==
    ASSUME TbTypeOK, NEW tm \in TaskTimers, TaskOf[tm] # NoTask, NEW state \in {"waiting", "consumed"},
           tbWaiters' = SetWaiters(tm, state)
    PROVE  /\ tbWaiters' \in [AllRows -> {"none", "waiting", "ready", "consumed"}]
           /\ \A w \in RowsOf(tm) : tbWaiters'[w] = IF tbWaiters[w] # "none" THEN state ELSE "none"
           /\ \A other \in TaskTimers \ {tm} : TaskOf[other] # NoTask =>
                 \A w \in RowsOf(other) : tbWaiters'[w] = tbWaiters[w]
<1>1. ASSUME NEW w \in AllRows
      PROVE  tbWaiters'[w] = (IF w \in RowsOf(tm) /\ tbWaiters[w] # "none" THEN state ELSE tbWaiters[w])
  BY DEF SetWaiters
<1>2. tbWaiters' \in [AllRows -> {"none", "waiting", "ready", "consumed"}]
  BY DEF SetWaiters, TbTypeOK
<1>3. ASSUME NEW other \in TaskTimers \ {tm}, TaskOf[other] # NoTask, NEW w \in RowsOf(other)
      PROVE  w \in AllRows /\ w \notin RowsOf(tm)
  BY <1>3, RowsAre
<1>. QED BY <1>1, <1>2, <1>3, RowsAre

(* A poll consumes rows of tasks that cannot be woken, and loses no other. *)
LEMMA PolledIs ==
    ASSUME TbTypeOK, NEW ds, tbWaiters' = PolledRows(ds, tbStatus), tbStatus' = OpenedBy(ds, tbStatus)
    PROVE  /\ tbWaiters' \in [AllRows -> {"none", "waiting", "ready", "consumed"}]
           /\ tbStatus' \in [Tasks -> {"open", "blocked", "done", "cancelled"}]
           /\ \A t \in Tasks : tbStatus[t] \in TerminalStatuses => tbStatus'[t] = tbStatus[t]
           /\ \A tm \in TaskTimers :
                 TaskOf[tm] # NoTask /\ TaskOf[tm] \notin Orphans /\ tbStatus[TaskOf[tm]] \notin TerminalStatuses =>
                   \A w \in RowsOf(tm) : /\ tbWaiters'[w] = "none" <=> tbWaiters[w] = "none"
                                         /\ tbWaiters[w] \in {"waiting", "ready"} => tbWaiters'[w] \in {"waiting", "ready"}
<1> DEFINE polled(w) == {x \in UNION {Pollable(d) : d \in ds} : x[1] = w[1]}
<1>1. ASSUME NEW w \in AllRows
      PROVE  tbWaiters'[w] = IF tbWaiters[w] = "none" THEN "none"
                             ELSE CASE \E x \in polled(w) : Hopeless(x, tbStatus) -> "consumed"
                                    [] \E x \in polled(w) : Wakeable(x, tbStatus) -> "ready"
                                    [] OTHER -> tbWaiters[w]
  BY DEF PolledRows
<1>2. ASSUME NEW w \in AllRows PROVE tbWaiters[w] \in {"none", "waiting", "ready", "consumed"}
  BY DEF TbTypeOK
<1>3. ASSUME NEW w \in AllRows
      PROVE  \/ tbWaiters[w] = "none" /\ tbWaiters'[w] = "none"
             \/ tbWaiters[w] # "none" /\ tbWaiters'[w] = "consumed" /\ \E x \in polled(w) : Hopeless(x, tbStatus)
             \/ tbWaiters[w] # "none" /\ tbWaiters'[w] \in {"ready", tbWaiters[w]}
  <2> HIDE DEF polled
  <2>. QED BY <1>1
<1> HIDE DEF polled
<1>4. tbWaiters' \in [AllRows -> {"none", "waiting", "ready", "consumed"}]
  <2>1. tbWaiters' = [w \in AllRows |-> tbWaiters'[w]]
    BY DEF PolledRows
  <2>. QED BY <1>2, <1>3, <2>1
<1>5. /\ tbStatus' \in [Tasks -> {"open", "blocked", "done", "cancelled"}]
      /\ \A t \in Tasks : tbStatus[t] \in TerminalStatuses => tbStatus'[t] = tbStatus[t]
  BY DEF OpenedBy, TbTypeOK, TerminalStatuses
<1>6. ASSUME NEW tm \in TaskTimers, TaskOf[tm] # NoTask, TaskOf[tm] \notin Orphans,
             tbStatus[TaskOf[tm]] \notin TerminalStatuses, NEW w \in RowsOf(tm)
      PROVE  /\ tbWaiters'[w] = "none" <=> tbWaiters[w] = "none"
             /\ tbWaiters[w] \in {"waiting", "ready"} => tbWaiters'[w] \in {"waiting", "ready"}
  <2>1. w \in AllRows /\ w[1] = tm
    BY <1>6, RowsAre
  <2>2. \A x \in polled(w) : ~Hopeless(x, tbStatus)
    BY <1>6, <2>1 DEF polled, Hopeless
  <2>. QED BY <1>3, <2>1, <2>2
<1>. QED BY <1>4, <1>5, <1>6

------------------------------------------------------------------------------
(* What the steps keep *)

(* A dispatch row is never removed. *)
RowsStay == \A k \in DispatchKeys : tbDispatch[k] # "none" => tbDispatch'[k] # "none"

(* A finished task stays finished, unless it is overwritten and counted as revived. *)
FinishedStay ==
    /\ \A t \in Tasks : tbStatus[t] \in TerminalStatuses => tbStatus'[t] \in TerminalStatuses \/ t \in tbRevived'
    /\ tbRevived \subseteq tbRevived'

WaitersStay(tm) ==
    \A w \in RowsOf(tm) : /\ tbWaiters'[w] = "none" <=> tbWaiters[w] = "none"
                          /\ tbWaiters[w] \in {"waiting", "ready"} => tbWaiters'[w] \in {"waiting", "ready"}

LEMMA WaitKept ==
    ASSUME ParkedWait, RowsStay, FinishedStay,
           \A tm \in TaskTimers : Wanted(tm) => Remembered(tm)' \/ WaitersStay(tm)
    PROVE  ParkedWait'
<1> SUFFICES ASSUME NEW tm \in TaskTimers, Wanted(tm)', Parked(tm)' PROVE Remembered(tm)'
  BY DEF ParkedWait
<1>1. Wanted(tm)
  <2>1. WakeKey(tm) \in DispatchKeys /\ (TaskOf[tm] # NoTask => TaskOf[tm] \in Tasks)
    BY KeysDiffer, RowsAre
  <2>. QED BY <2>1 DEF Wanted, RowsStay, FinishedStay
<1>. QED BY <1>1 DEF ParkedWait, WaitersStay, Parked, Remembered

LEMMA AckedKept ==
    ASSUME TbTypeOK, AckedIsDispatched, RowsStay, tbAck' = tbAck,
           \A i \in 1..tbAck : tbEvents'[i] = tbEvents[i]
    PROVE  AckedIsDispatched'
<1>1. ASSUME NEW i \in 1..tbAck PROVE tbDispatch'[EventKey(tbEvents'[i])] # "none"
  <2>1. tbEvents[i] \in TaskTimers /\ EventKey(tbEvents[i]) \in DispatchKeys
    BY KeysDiffer DEF TbTypeOK
  <2>. QED BY <2>1 DEF AckedIsDispatched, RowsStay
<1>. QED BY <1>1 DEF AckedIsDispatched

(* The board moves and the consumer does not. *)
LEMMA BoardMoves ==
    ASSUME TbInv, UNCHANGED <<tbAck, tbDispatch, tbReceipts, tbGrants, tbPass>>,
           \/ tbEvents' = tbEvents
           \/ \E tm \in TaskTimers : tbEvents' = Append(tbEvents, tm)
    PROVE  /\ PassStands' /\ GrantsHaveRows' /\ AckedIsDispatched'
           /\ tbEvents' \in Seq(TaskTimers) /\ tbAck' \in 0..Len(tbEvents')
<1>1. /\ tbEvents \in Seq(TaskTimers) /\ tbAck \in 0..Len(tbEvents) /\ Len(tbEvents) \in Nat
  BY DEF TbInv, TbTypeOK
<1>2. /\ tbEvents' \in Seq(TaskTimers) /\ Len(tbEvents') \in Nat /\ Len(tbEvents') >= Len(tbEvents)
      /\ \A i \in 1..Len(tbEvents) : tbEvents'[i] = tbEvents[i]
  <2>1. CASE tbEvents' = tbEvents
    BY <1>1, <2>1
  <2>2. ASSUME NEW tm \in TaskTimers, tbEvents' = Append(tbEvents, tm)
        PROVE  /\ tbEvents' \in Seq(TaskTimers) /\ Len(tbEvents') \in Nat /\ Len(tbEvents') >= Len(tbEvents)
               /\ \A i \in 1..Len(tbEvents) : tbEvents'[i] = tbEvents[i]
    BY <1>1, <2>2
  <2>. QED BY <2>1, <2>2
<1>3. tbAck < Len(tbEvents) => tbAck' < Len(tbEvents') /\ Current' = Current
  BY <1>1, <1>2 DEF Current
<1>4. AtEvent => AtEvent' /\ Current' = Current
  BY <1>3 DEF AtEvent
<1>5. PassStands'
  <2>1. AtWake' <=> AtWake
    BY DEF AtWake
  <2>. QED BY <1>4, <2>1 DEF TbInv, PassStands
<1>6. GrantsHaveRows'
  BY DEF TbInv, GrantsHaveRows
<1>7. RowsStay
  BY DEF RowsStay
<1>8. AckedIsDispatched'
  BY <1>1, <1>2, <1>7, AckedKept DEF TbInv
<1>. QED BY <1>1, <1>2, <1>5, <1>6, <1>8

LEMMA BoardStep ==
    ASSUME TbInv,
           \/ \E tm \in TaskTimers : ScheduleTaskTimer(tm) \/ TaskTimerFires(tm)
           \/ \E t \in Tasks : FinishTask(t, "done") \/ FinishTask(t, "cancelled") \/ PollDependents(t)
    PROVE  TbInv'
<1>0. TbTypeOK /\ ParkedWait
  BY DEF TbInv
<1>1. ASSUME NEW tm \in TaskTimers, ScheduleTaskTimer(tm) \/ TaskTimerFires(tm) PROVE TbInv'
  <2>1. /\ UNCHANGED <<tbStatus, tbAck, tbDispatch, tbReceipts, tbGrants, tbWaiters, tbPass, tbRevived, tbSpent>>
        /\ tbEvents' = tbEvents \/ tbEvents' = Append(tbEvents, tm)
        /\ tbTimers' \in [TaskTimers -> {"unset", "pending", "fired"}]
    BY <1>0, <1>1 DEF ScheduleTaskTimer, TaskTimerFires, TbTypeOK
  <2>2. /\ PassStands' /\ GrantsHaveRows' /\ AckedIsDispatched'
        /\ tbEvents' \in Seq(TaskTimers) /\ tbAck' \in 0..Len(tbEvents')
    BY <2>1, BoardMoves
  <2>3. ParkedWait'
    BY <2>1, <1>0, WaitKept DEF RowsStay, FinishedStay, WaitersStay
  <2>4. TbTypeOK'
    BY <1>0, <2>1, <2>2 DEF TbTypeOK
  <2>. QED BY <2>2, <2>3, <2>4 DEF TbInv
<1>2. ASSUME NEW t \in Tasks, FinishTask(t, "done") \/ FinishTask(t, "cancelled") PROVE TbInv'
  <2>1. /\ UNCHANGED <<tbTimers, tbEvents, tbAck, tbDispatch, tbReceipts, tbGrants, tbWaiters, tbPass, tbRevived, tbSpent>>
        /\ tbStatus' \in [Tasks -> {"open", "blocked", "done", "cancelled"}]
        /\ \A u \in Tasks : tbStatus[u] \in TerminalStatuses => tbStatus'[u] = tbStatus[u]
    BY <1>0, <1>2 DEF FinishTask, TbTypeOK, TerminalStatuses
  <2>2. /\ PassStands' /\ GrantsHaveRows' /\ AckedIsDispatched'
        /\ tbEvents' \in Seq(TaskTimers) /\ tbAck' \in 0..Len(tbEvents')
    BY <2>1, BoardMoves
  <2>3. ParkedWait'
    BY <2>1, <1>0, WaitKept DEF RowsStay, FinishedStay, WaitersStay
  <2>4. TbTypeOK'
    BY <1>0, <2>1, <2>2 DEF TbTypeOK
  <2>. QED BY <2>2, <2>3, <2>4 DEF TbInv
<1>3. ASSUME NEW t \in Tasks, PollDependents(t) PROVE TbInv'
  <2>1. /\ UNCHANGED <<tbTimers, tbEvents, tbAck, tbDispatch, tbReceipts, tbGrants, tbPass, tbRevived, tbSpent>>
        /\ tbWaiters' = PolledRows({t}, tbStatus) /\ tbStatus' = OpenedBy({t}, tbStatus)
    BY <1>3 DEF PollDependents
  <2>2. /\ PassStands' /\ GrantsHaveRows' /\ AckedIsDispatched'
        /\ tbEvents' \in Seq(TaskTimers) /\ tbAck' \in 0..Len(tbEvents')
    BY <2>1, BoardMoves
  <2>. DEFINE Polled ==
           /\ tbWaiters' \in [AllRows -> {"none", "waiting", "ready", "consumed"}]
           /\ tbStatus' \in [Tasks -> {"open", "blocked", "done", "cancelled"}]
           /\ \A u \in Tasks : tbStatus[u] \in TerminalStatuses => tbStatus'[u] = tbStatus[u]
           /\ \A tm \in TaskTimers : Wanted(tm) => WaitersStay(tm)
  <2>3. Polled
    BY <1>0, <2>1, PolledIs DEF Wanted, WaitersStay
  <2>4. ParkedWait'
    BY <2>1, <2>3, <1>0, WaitKept DEF RowsStay, FinishedStay
  <2>5. TbTypeOK'
    BY <1>0, <2>1, <2>2, <2>3 DEF TbTypeOK
  <2>. QED BY <2>2, <2>4, <2>5 DEF TbInv
<1>. QED BY <1>1, <1>2, <1>3

------------------------------------------------------------------------------
(* The consumer *)

LEMMA PassIs ==
    ASSUME NEW pc \in Pcs, NEW key \in DispatchKeys
    PROVE  /\ Busy(pc, key) \in Pass /\ Busy(pc, key).pc = pc /\ Busy(pc, key).key = key
           /\ [Idle EXCEPT !.pc = pc] \in Pass /\ [Idle EXCEPT !.pc = pc].pc = pc
           /\ Idle \in Pass /\ Idle.pc = "recover"
           /\ \A u \in SUBSET Tasks : /\ [Busy(pc, key) EXCEPT !.unmet = u] \in Pass
                                      /\ [Busy(pc, key) EXCEPT !.unmet = u].pc = pc
                                      /\ [Busy(pc, key) EXCEPT !.unmet = u].key = key
                                      /\ [Busy(pc, key) EXCEPT !.unmet = u].unmet = u
BY DEF Busy, Idle, Pass, Pcs

(* A step of the consumer that neither grants nor acknowledges. *)
LEMMA TableStep ==
    ASSUME TbInv, PassStands',
           tbDispatch' \in [DispatchKeys -> {"none", "handed_off", "terminal"}], RowsStay,
           tbStatus' \in [Tasks -> {"open", "blocked", "done", "cancelled"}], FinishedStay,
           tbWaiters' \in [AllRows -> {"none", "waiting", "ready", "consumed"}],
           \A tm \in TaskTimers : Wanted(tm) => Remembered(tm)' \/ WaitersStay(tm),
           tbReceipts' \subseteq DispatchKeys, UNCHANGED <<tbTimers, tbEvents, tbAck, tbGrants>>
    PROVE  TbInv'
<1>2. GrantsHaveRows'
  BY DEF TbInv, GrantsHaveRows, RowsStay
<1>3. AckedIsDispatched'
  BY AckedKept DEF TbInv
<1>4. ParkedWait'
  BY WaitKept DEF TbInv
<1>5. TbTypeOK'
  BY DEF TbInv, TbTypeOK, PassStands, Pass, Pcs
<1>. QED BY <1>2, <1>3, <1>4, <1>5 DEF TbInv

(* The consumer is on no key afterwards. *)
LEMMA FreeStep ==
    ASSUME TbInv, tbPass' \in Pass, tbPass'.pc \in {"recover", "poll", "wakes", "replay"},
           tbDispatch' \in [DispatchKeys -> {"none", "handed_off", "terminal"}], RowsStay,
           tbStatus' \in [Tasks -> {"open", "blocked", "done", "cancelled"}], FinishedStay,
           tbWaiters' \in [AllRows -> {"none", "waiting", "ready", "consumed"}],
           \A tm \in TaskTimers : Wanted(tm) => Remembered(tm)' \/ WaitersStay(tm),
           UNCHANGED <<tbTimers, tbEvents, tbAck, tbReceipts, tbGrants>>
    PROVE  TbInv'
<1>1. PassStands'
  BY DEF PassStands
<1>. QED BY <1>1, TableStep DEF TbInv, TbTypeOK

LEMMA RecoverStep ==
    ASSUME TbInv, RefuseHandoffs \/ PollAll \/ WakesDone \/ FinaliseWake \/ TbCrash
    PROVE  TbInv'
<1>0. TbTypeOK /\ tbPass \in Pass
  BY DEF TbInv, PassStands
<1>1. CASE RefuseHandoffs
  <2>1. tbPass' \in Pass /\ tbPass'.pc = "poll"
    BY <1>0, <1>1 DEF RefuseHandoffs, Pass, Pcs
  <2>2. tbDispatch' \in [DispatchKeys -> {"none", "handed_off", "terminal"}] /\ RowsStay
    BY <1>0, <1>1 DEF RefuseHandoffs, TbTypeOK, RowsStay
  <2>. QED BY <1>0, <1>1, <2>1, <2>2, FreeStep
           DEF RefuseHandoffs, tbBoard, TbTypeOK, FinishedStay, WaitersStay
<1>2. CASE PollAll
  <2>1. tbPass' \in Pass /\ tbPass'.pc = "wakes"
    BY <1>0, <1>2 DEF PollAll, Pass, Pcs
  <2>2. /\ UNCHANGED <<tbTimers, tbEvents, tbAck, tbDispatch, tbReceipts, tbGrants, tbRevived>>
        /\ tbWaiters' = PolledRows(Tasks, tbStatus) /\ tbStatus' = OpenedBy(Tasks, tbStatus)
    BY <1>2 DEF PollAll
  <2>3. /\ tbWaiters' \in [AllRows -> {"none", "waiting", "ready", "consumed"}]
        /\ tbStatus' \in [Tasks -> {"open", "blocked", "done", "cancelled"}]
        /\ \A u \in Tasks : tbStatus[u] \in TerminalStatuses => tbStatus'[u] = tbStatus[u]
        /\ \A tm \in TaskTimers : Wanted(tm) => WaitersStay(tm)
    BY <1>0, <2>2, PolledIs DEF Wanted, WaitersStay
  <2>. QED BY <1>0, <2>1, <2>2, <2>3, FreeStep DEF TbTypeOK, RowsStay, FinishedStay
<1>3. CASE WakesDone \/ TbCrash
  <2>1. tbPass' \in Pass /\ tbPass'.pc \in {"recover", "replay"}
    BY <1>3 DEF WakesDone, TbCrash, Idle, Pass, Pcs
  <2>. QED BY <1>0, <1>3, <2>1, FreeStep
           DEF WakesDone, TbCrash, tbBoard, TbTypeOK, RowsStay, FinishedStay, WaitersStay
<1>4. CASE FinaliseWake
  <2>1. tbPass' \in Pass /\ tbPass'.pc = "wakes"
    BY <1>4 DEF FinaliseWake, Idle, Pass, Pcs
  <2>2. tbDispatch' \in [DispatchKeys -> {"none", "handed_off", "terminal"}] /\ RowsStay
    BY <1>0, <1>4 DEF FinaliseWake, TbTypeOK, RowsStay
  <2>. QED BY <1>0, <1>4, <2>1, <2>2, FreeStep
           DEF FinaliseWake, tbBoard, TbTypeOK, FinishedStay, WaitersStay
<1>. QED BY <1>1, <1>2, <1>3, <1>4

LEMMA StillRows ==
    ASSUME TbInv, UNCHANGED <<tbStatus, tbDispatch, tbWaiters, tbRevived>>
    PROVE  /\ tbDispatch' \in [DispatchKeys -> {"none", "handed_off", "terminal"}] /\ RowsStay
           /\ tbStatus' \in [Tasks -> {"open", "blocked", "done", "cancelled"}] /\ FinishedStay
           /\ tbWaiters' \in [AllRows -> {"none", "waiting", "ready", "consumed"}]
           /\ \A tm \in TaskTimers : WaitersStay(tm)
BY DEF TbInv, TbTypeOK, RowsStay, FinishedStay, WaitersStay

(* The rows of a timer are set: no other timer is forgotten. *)
LEMMA SetKeepsOthers ==
    ASSUME TbInv, NEW tm \in TaskTimers, TaskOf[tm] # NoTask, NEW state \in {"waiting", "consumed"},
           tbWaiters' = SetWaiters(tm, state), state = "consumed" => ~Wanted(tm)
    PROVE  /\ tbWaiters' \in [AllRows -> {"none", "waiting", "ready", "consumed"}]
           /\ \A other \in TaskTimers : Wanted(other) => Remembered(other)' \/ WaitersStay(other)
<1>1. /\ tbWaiters' \in [AllRows -> {"none", "waiting", "ready", "consumed"}]
      /\ \A w \in RowsOf(tm) : tbWaiters'[w] = IF tbWaiters[w] # "none" THEN state ELSE "none"
      /\ \A other \in TaskTimers \ {tm} : TaskOf[other] # NoTask =>
            \A w \in RowsOf(other) : tbWaiters'[w] = tbWaiters[w]
  BY SetWaitersIs DEF TbInv
<1>2. ASSUME NEW other \in TaskTimers \ {tm}, Wanted(other) PROVE WaitersStay(other)
  BY <1>1, <1>2 DEF Wanted, WaitersStay
<1>3. ASSUME Wanted(tm) PROVE Remembered(tm)' \/ WaitersStay(tm)
  BY <1>1, <1>3 DEF Remembered, WaitersStay
<1>. QED BY <1>1, <1>2, <1>3

LEMMA ReadyIsParked ==
    ASSUME NEW tm \in TaskTimers, tm \in ReadyTimers
    PROVE  TaskOf[tm] # NoTask /\ Parked(tm)
<1>1. PICK x \in AllRows : tbWaiters[x] = "ready" /\ x[1] = tm
  BY DEF ReadyTimers
<1>2. PICK other \in TaskTimers : TaskOf[other] # NoTask /\ x \in RowsOf(other)
  BY <1>1 DEF AllRows
<1>3. other = tm
  BY <1>1, <1>2, RowsAre
<1>. QED BY <1>1, <1>2, <1>3 DEF Parked

LEMMA WakeStep ==
    ASSUME TbInv, NEW tm \in TaskTimers, DispatchWake(tm)
    PROVE  TbInv'
<1> DEFINE t == TaskOf[tm]
           key == WakeKey(tm)
<1>0. /\ TbTypeOK /\ tbPass \in Pass /\ tbPass.pc = "wakes" /\ tm \in ReadyTimers
      /\ UNCHANGED <<tbBoard, tbAck, tbReceipts, tbGrants, tbSpent>>
      /\ key \in DispatchKeys /\ t # NoTask /\ t \in Tasks /\ Parked(tm)
  BY KeysDiffer, RowsAre, ReadyIsParked DEF DispatchWake, TbInv, PassStands
<1>a. /\ tbStatus' \in [Tasks -> {"open", "blocked", "done", "cancelled"}] /\ FinishedStay
      /\ UNCHANGED <<tbTimers, tbEvents>>
  BY <1>0 DEF tbBoard, TbTypeOK, FinishedStay
<1>1. CASE /\ tbDispatch[key] = "terminal" /\ tbWaiters' = SetWaiters(tm, "consumed")
           /\ UNCHANGED <<tbDispatch, tbPass>>
  <2>1. ~Wanted(tm)
    BY <1>1 DEF Wanted
  <2>2. /\ tbWaiters' \in [AllRows -> {"none", "waiting", "ready", "consumed"}]
        /\ \A other \in TaskTimers : Wanted(other) => Remembered(other)' \/ WaitersStay(other)
    BY <1>0, <1>1, <2>1, SetKeepsOthers
  <2>. QED BY <1>0, <1>a, <1>1, <2>2, FreeStep DEF TbTypeOK, RowsStay
<1>2. CASE tbDispatch' = [tbDispatch EXCEPT ![key] = "terminal"] /\ UNCHANGED <<tbWaiters, tbPass>>
  <2>1. tbDispatch' \in [DispatchKeys -> {"none", "handed_off", "terminal"}] /\ RowsStay
    BY <1>0, <1>2 DEF TbTypeOK, RowsStay
  <2>. QED BY <1>0, <1>a, <1>2, <2>1, FreeStep DEF TbTypeOK, WaitersStay
<1>3. CASE /\ tbStatus[t] \in TerminalStatuses \/ t \in Orphans
           /\ tbWaiters' = SetWaiters(tm, "consumed") /\ tbPass' = Busy("finalise", key) /\ UNCHANGED tbDispatch
  <2>1. ~Wanted(tm)
    BY <1>3 DEF Wanted
  <2>2. /\ tbWaiters' \in [AllRows -> {"none", "waiting", "ready", "consumed"}]
        /\ \A other \in TaskTimers : Wanted(other) => Remembered(other)' \/ WaitersStay(other)
    BY <1>0, <1>3, <2>1, SetKeepsOthers
  <2>3. tbPass' \in Pass /\ tbPass'.pc = "finalise" /\ tbPass'.key = key
    BY <1>0, <1>3, PassIs DEF Pcs
  <2>4. PassStands'
    BY <1>0, <2>3 DEF PassStands, AtWake
  <2>. QED BY <1>0, <1>a, <1>3, <2>2, <2>4, TableStep DEF TbTypeOK, RowsStay
<1>4. CASE tbWaiters' = SetWaiters(tm, "waiting") /\ UNCHANGED <<tbDispatch, tbPass>>
  <2>1. /\ tbWaiters' \in [AllRows -> {"none", "waiting", "ready", "consumed"}]
        /\ \A other \in TaskTimers : Wanted(other) => Remembered(other)' \/ WaitersStay(other)
    BY <1>0, <1>4, SetKeepsOthers
  <2>. QED BY <1>0, <1>a, <1>4, <2>1, FreeStep DEF TbTypeOK, RowsStay
<1>5. CASE tbDispatch[key] = "none" /\ tbPass' = Busy("compose", key) /\ UNCHANGED <<tbDispatch, tbWaiters>>
  <2>1. tbPass' \in Pass /\ tbPass'.pc = "compose" /\ tbPass'.key = key
    BY <1>0, <1>5, PassIs DEF Pcs
  <2>2. PassStands'
    BY <1>0, <1>5, <2>1 DEF PassStands, AtWake
  <2>. QED BY <1>0, <1>a, <1>5, <2>2, TableStep DEF TbTypeOK, RowsStay, WaitersStay
<1>6. CASE tbDispatch[key] = "terminal"
  BY <1>1, <1>6 DEF DispatchWake
<1>7. CASE tbDispatch[key] = "handed_off"
  BY <1>2, <1>7 DEF DispatchWake
<1>8. CASE tbDispatch[key] = "none" /\ (tbStatus[t] \in TerminalStatuses \/ t \in Orphans)
  BY <1>3, <1>8 DEF DispatchWake
<1>9. CASE tbDispatch[key] = "none" /\ tbStatus[t] \notin TerminalStatuses /\ t \notin Orphans
  BY <1>4, <1>5, <1>9 DEF DispatchWake
<1>. QED BY <1>0, <1>6, <1>7, <1>8, <1>9 DEF TbTypeOK

LEMMA NothingToReplay ==
  ASSUME NextEvent, tbAck = Len(tbEvents) PROVE tbPass' = Idle /\ tbDispatch' = tbDispatch
<1>1. (IF tbAck = Len(tbEvents) THEN tbPass' = Idle /\ UNCHANGED tbDispatch ELSE TRUE)
  BY DEF NextEvent
<1>. QED BY <1>1

LEMMA NextEventStep == ASSUME TbInv, NextEvent PROVE TbInv'
<1> DEFINE tm == Current
           t == TaskOf[tm]
           key == EventKey(tm)
<1>0. /\ TbTypeOK /\ UNCHANGED <<tbBoard, tbAck, tbReceipts, tbGrants, tbWaiters, tbSpent>>
      /\ tbPass.pc = "replay"
  BY DEF NextEvent, TbInv
<1>a. /\ UNCHANGED <<tbStatus, tbTimers, tbEvents, tbRevived>> /\ tbAck \in 0..Len(tbEvents)
      /\ tbEvents \in Seq(TaskTimers) /\ Len(tbEvents) \in Nat
  BY <1>0 DEF tbBoard, TbTypeOK
<1>1. CASE tbAck = Len(tbEvents)
  <2>1. tbPass' = Idle /\ tbDispatch' = tbDispatch
    BY <1>1, NothingToReplay
  <2>2. tbPass' \in Pass /\ tbPass'.pc = "recover"
    BY <2>1 DEF Idle, Pass, Pcs
  <2>. QED BY <1>0, <1>a, <2>1, <2>2, StillRows, FreeStep
<1>2. CASE tbAck # Len(tbEvents)
  <2>1. tbAck < Len(tbEvents) /\ tm \in TaskTimers /\ key \in DispatchKeys /\ Current' = Current
    <3>1. tbAck < Len(tbEvents) /\ tm \in TaskTimers
      BY <1>a, <1>2 DEF Current
    <3>2. Current' = Current
      BY <1>0, <1>a DEF Current
    <3>. QED BY <3>1, <3>2, KeysDiffer
  <2>2. ASSUME NEW pc \in {"ack", "compose", "wait"}, tbPass'.pc = pc, tbPass'.key = key
        PROVE  AtEvent'
    BY <1>0, <1>a, <2>1, <2>2 DEF AtEvent
  <2>3. CASE tbDispatch' = [tbDispatch EXCEPT ![key] = "terminal"] /\ tbPass' = Busy("ack", key)
    <3>1. tbDispatch' \in [DispatchKeys -> {"none", "handed_off", "terminal"}] /\ RowsStay
          /\ tbDispatch'[key] = "terminal"
      BY <1>0, <2>1, <2>3 DEF TbTypeOK, RowsStay
    <3>2. tbPass' \in Pass /\ tbPass'.pc = "ack" /\ tbPass'.key = key
      BY <2>1, <2>3, PassIs DEF Pcs
    <3>3. PassStands'
      BY <2>2, <3>1, <3>2 DEF PassStands
    <3>. QED BY <1>0, <1>a, <3>1, <3>3, TableStep DEF TbTypeOK, FinishedStay, WaitersStay
  <2>4. CASE tbDispatch[key] # "none" /\ tbPass' = Busy("ack", key) /\ UNCHANGED tbDispatch
    <3>1. tbPass' \in Pass /\ tbPass'.pc = "ack" /\ tbPass'.key = key
      BY <2>1, <2>4, PassIs DEF Pcs
    <3>2. PassStands'
      BY <2>2, <2>4, <3>1 DEF PassStands
    <3>. QED BY <1>0, <1>a, <2>4, <3>2, StillRows, TableStep DEF TbTypeOK
  <2>5. CASE /\ t # NoTask /\ tbDispatch[key] = "none" /\ UNCHANGED tbDispatch
             /\ \/ tbPass' = [Busy("wait", key) EXCEPT !.unmet = Unmet(t)]
                \/ tbPass' = Busy("compose", key)
    <3>1. t \in Tasks /\ Unmet(t) \subseteq Deps[t] /\ Unmet(t) \in SUBSET Tasks
      BY <2>1, <2>5, TaskBoardAssumption DEF Unmet
    <3>2. /\ tbPass' \in Pass /\ tbPass'.pc \in {"wait", "compose"} /\ tbPass'.key = key
          /\ tbPass'.pc = "wait" => tbPass'.unmet = Unmet(t)
      <4>2. CASE tbPass' = [Busy("wait", key) EXCEPT !.unmet = Unmet(t)]
        BY <2>1, <3>1, <4>2 DEF Busy, Pass, Pcs
      <4>3. CASE tbPass' = Busy("compose", key)
        BY <2>1, <4>3 DEF Busy, Pass, Pcs
      <4>. QED BY <2>5, <4>2, <4>3
    <3>3. PassStands'
      BY <2>1, <2>2, <2>5, <3>1, <3>2 DEF PassStands
    <3>. QED BY <1>0, <1>a, <2>5, <3>3, StillRows, TableStep DEF TbTypeOK
  <2>6. t \in Tasks \/ t = NoTask
    BY <2>1, TaskBoardAssumption
  <2>7. CASE t = NoTask \/ tbStatus[t] \in TerminalStatuses \/ (tbDispatch[key] = "none" /\ t \in Orphans)
    BY <1>2, <2>3, <2>6, <2>7, TaskBoardAssumption DEF NextEvent, Current
  <2>8. CASE t # NoTask /\ tbStatus[t] \notin TerminalStatuses /\ tbDispatch[key] # "none"
    BY <1>2, <2>4, <2>8 DEF NextEvent, Current
  <2>9. CASE t # NoTask /\ tbStatus[t] \notin TerminalStatuses /\ tbDispatch[key] = "none" /\ t \notin Orphans
    BY <1>2, <2>5, <2>9 DEF NextEvent, Current
  <2>. QED BY <2>7, <2>8, <2>9
<1>. QED BY <1>1, <1>2

LEMMA InsertStep == ASSUME TbInv, InsertWaiter PROVE TbInv'
<1>. PICK tm : tm = Current
  OBVIOUS
<1>0. /\ TbTypeOK /\ tbPass \in Pass /\ tbPass.pc = "wait" /\ AtEvent
      /\ UNCHANGED <<tbBoard, tbAck, tbDispatch, tbReceipts, tbGrants, tbSpent>>
      /\ TaskOf[tm] \in Tasks /\ tbPass.unmet \subseteq Deps[TaskOf[tm]]
  BY DEF TbInv, PassStands, InsertWaiter
<1>1. PICK d \in tbPass.unmet :
          /\ tbWaiters' = [tbWaiters EXCEPT ![<<tbPass.key[2], d>>] = "waiting"]
          /\ tbPass' = [tbPass EXCEPT !.unmet = @ \ {d}, !.pc = IF tbPass.unmet = {d} THEN "block" ELSE "wait"]
  BY Zenon DEF InsertWaiter
<1>2. tm \in TaskTimers /\ tbPass.key = EventKey(tm) /\ tbPass.key[2] = tm /\ TaskOf[tm] # NoTask
  BY <1>0, KeysDiffer, TaskBoardAssumption DEF AtEvent, TbTypeOK, Current
<1>3. <<tm, d>> \in RowsOf(tm) /\ <<tm, d>> \in AllRows
  BY <1>0, <1>2, RowsAre
<1>4. /\ tbWaiters' \in [AllRows -> {"none", "waiting", "ready", "consumed"}]
      /\ \A other \in TaskTimers : Wanted(other) => Remembered(other)' \/ WaitersStay(other)
  <2>0. PICK row : row = <<tm, d>>
    OBVIOUS
  <2>a. row \in AllRows /\ tbWaiters' = [tbWaiters EXCEPT ![row] = "waiting"]
        /\ tbWaiters \in [AllRows -> {"none", "waiting", "ready", "consumed"}]
    BY <1>0, <1>1, <1>2, <1>3, <2>0 DEF TbTypeOK
  <2>b. /\ tbWaiters' \in [AllRows -> {"none", "waiting", "ready", "consumed"}] /\ tbWaiters'[row] = "waiting"
        /\ \A w \in AllRows \ {row} : tbWaiters'[w] = tbWaiters[w]
    BY ONLY <2>a
  <2>1. /\ tbWaiters' \in [AllRows -> {"none", "waiting", "ready", "consumed"}] /\ tbWaiters'[<<tm, d>>] = "waiting"
        /\ \A w \in AllRows \ {<<tm, d>>} : tbWaiters'[w] = tbWaiters[w]
    BY <2>0, <2>b
  <2>2. Remembered(tm)'
    BY <1>3, <2>1 DEF Remembered
  <2>3. ASSUME NEW other \in TaskTimers \ {tm}, Wanted(other) PROVE WaitersStay(other)
    <3>1. \A w \in RowsOf(other) : w \in AllRows /\ w[1] = other
      BY <2>3, RowsAre DEF Wanted, RowsOf
    <3>2. \A w \in RowsOf(other) : w # <<tm, d>>
      BY <2>3, <3>1
    <3>. QED BY <2>1, <3>1, <3>2 DEF WaitersStay
  <2>. QED BY <2>1, <2>2, <2>3
<1>5. tbPass' \in Pass /\ tbPass'.pc \in {"wait", "block"} /\ tbPass'.key = tbPass.key /\ tbPass'.unmet \subseteq tbPass.unmet
  <2> DEFINE pc == IF tbPass.unmet = {d} THEN "block" ELSE "wait"
             left == tbPass.unmet \ {d}
  <2>1. pc \in {"wait", "block"} /\ left \subseteq tbPass.unmet
    OBVIOUS
  <2>2. tbPass' = [tbPass EXCEPT !.unmet = left, !.pc = pc]
    BY <1>1
  <2>. HIDE DEF pc, left
  <2>3. tbPass' = [pc |-> pc, key |-> tbPass.key, unmet |-> left]
    BY <1>0, <2>2 DEF Pass
  <2>. QED BY <1>0, <2>1, <2>3 DEF Pass, Pcs
<1>6. UNCHANGED <<tbStatus, tbTimers, tbEvents, tbRevived>> /\ Current' = Current
  BY <1>0 DEF tbBoard, Current
<1>7. PassStands'
  BY <1>0, <1>2, <1>5, <1>6 DEF PassStands, AtEvent
<1>. QED BY <1>0, <1>4, <1>6, <1>7, TableStep DEF TbTypeOK, RowsStay, FinishedStay

LEMMA ParkStep == ASSUME TbInv, MarkTaskBlocked \/ MarkParked PROVE TbInv'
<1> DEFINE tm == Current
<1>0. /\ TbTypeOK /\ tbPass \in Pass /\ tbPass.pc \in {"block", "parked"} /\ AtEvent /\ TaskOf[tm] \in Tasks
      /\ UNCHANGED <<tbTimers, tbEvents, tbAck, tbReceipts, tbGrants, tbWaiters>>
  BY DEF TbInv, PassStands, MarkTaskBlocked, MarkParked, tbBoard
<1>1. tm \in TaskTimers /\ tbPass.key = EventKey(tm) /\ tbPass.key[2] = tm /\ tbPass.key \in DispatchKeys
      /\ Current' = Current
  BY <1>0, KeysDiffer DEF AtEvent, TbTypeOK, Current
<1>2. tbPass' \in Pass /\ tbPass'.key = tbPass.key /\ tbPass'.pc \in {"parked", "ack"}
  BY <1>0 DEF MarkTaskBlocked, MarkParked, Pass, Pcs
<1>3. AtEvent'
  BY <1>0, <1>1, <1>2 DEF AtEvent
<1>4. CASE MarkTaskBlocked
  <2>1. /\ tbStatus' \in [Tasks -> {"open", "blocked", "done", "cancelled"}] /\ FinishedStay
        /\ tbDispatch' = tbDispatch
    BY <1>0, <1>1, <1>4 DEF MarkTaskBlocked, TbTypeOK, FinishedStay
  <2>2. tbPass'.pc = "parked"
    BY <1>0, <1>4 DEF MarkTaskBlocked, Pass
  <2>3. PassStands'
    BY <1>0, <1>1, <1>2, <1>3, <2>2 DEF PassStands
  <2>. QED BY <1>0, <2>1, <2>3, TableStep DEF TbTypeOK, RowsStay, WaitersStay
<1>5. CASE MarkParked
  <2>1. /\ tbDispatch' \in [DispatchKeys -> {"none", "handed_off", "terminal"}] /\ RowsStay
        /\ tbDispatch'[tbPass.key] = "terminal" /\ UNCHANGED <<tbStatus, tbRevived>>
    BY <1>0, <1>1, <1>5 DEF MarkParked, TbTypeOK, RowsStay, tbBoard
  <2>2. tbPass'.pc = "ack"
    BY <1>0, <1>5 DEF MarkParked, Pass
  <2>3. PassStands'
    BY <1>2, <1>3, <2>1, <2>2 DEF PassStands
  <2>. QED BY <1>0, <2>1, <2>3, TableStep DEF TbTypeOK, FinishedStay, WaitersStay
<1>. QED BY <1>4, <1>5

LEMMA DenyStep == ASSUME TbInv, PipelineDenies \/ ConsumeWake PROVE TbInv'
<1>0. /\ TbTypeOK /\ PassStands /\ UNCHANGED <<tbStatus, tbTimers, tbEvents, tbRevived, tbAck, tbDispatch, tbReceipts, tbGrants>>
      /\ tbPass.pc \in {"compose", "consume"}
  BY DEF TbInv, PipelineDenies, ConsumeWake, tbBoard
<1>1. tbPass' \in Pass /\ tbPass'.pc \in {"recover", "wakes"}
  BY DEF PipelineDenies, ConsumeWake, Idle, Pass, Pcs
<1>2. /\ tbWaiters' \in [AllRows -> {"none", "waiting", "ready", "consumed"}]
      /\ \A other \in TaskTimers : Wanted(other) => Remembered(other)' \/ WaitersStay(other)
  <2>1. CASE tbWaiters' = tbWaiters
    BY <1>0, <2>1 DEF TbTypeOK, WaitersStay
  <2>2. CASE tbWaiters' # tbWaiters
    <3>1. \/ tbPass.pc = "compose" /\ tbPass.key[1] = "wake" /\ tbWaiters' = SetWaiters(tbPass.key[2], "waiting")
          \/ tbPass.pc = "consume" /\ tbWaiters' = SetWaiters(tbPass.key[2], "consumed")
      BY <2>2 DEF PipelineDenies, ConsumeWake
    <3>2. AtWake
      <4>1. AtEvent => tbPass.key[1] = "event"
        BY <1>0, KeysDiffer DEF AtEvent, TbTypeOK, Current
      <4>. QED BY <1>0, <3>1, <4>1 DEF PassStands
    <3>3. PICK tm \in TaskTimers : TaskOf[tm] # NoTask /\ tbPass.key = WakeKey(tm) /\ tbPass.key[2] = tm
      BY <3>2, KeysDiffer DEF AtWake
    <3>4. tbPass.pc = "consume" => ~Wanted(tm)
      BY <1>0, <3>3 DEF PassStands, Wanted
    <3>. QED BY <3>1, <3>3, <3>4, SetKeepsOthers
  <2>. QED BY <2>1, <2>2
<1>. QED BY <1>0, <1>1, <1>2, FreeStep DEF TbTypeOK, RowsStay, FinishedStay

LEMMA ShellStep == ASSUME TbInv, ShellReturns PROVE TbInv'
<1>0. /\ TbTypeOK /\ PassStands /\ UNCHANGED <<tbStatus, tbTimers, tbEvents, tbRevived, tbAck, tbGrants, tbWaiters>>
      /\ tbPass.pc = "spawned" /\ tbPass \in Pass /\ (AtEvent \/ AtWake) /\ tbDispatch[tbPass.key] # "none"
  BY DEF TbInv, PassStands, ShellReturns, tbBoard
<1>1. /\ AtEvent => tbPass.key[1] = "event"
      /\ AtWake => tbPass.key[1] = "wake"
      /\ tbPass.key \in DispatchKeys
  <2>1. AtEvent => tbPass.key[1] = "event" /\ tbPass.key \in DispatchKeys
    BY <1>0, KeysDiffer DEF AtEvent, TbTypeOK, Current
  <2>2. AtWake => tbPass.key[1] = "wake" /\ tbPass.key \in DispatchKeys
    BY KeysDiffer DEF AtWake
  <2>. QED BY <1>0, <2>1, <2>2
<1>2. /\ tbDispatch' \in [DispatchKeys -> {"none", "handed_off", "terminal"}] /\ RowsStay
      /\ tbDispatch'[tbPass.key] # "none" /\ tbReceipts' \subseteq DispatchKeys
  <2>1. CASE tbDispatch' = [tbDispatch EXCEPT ![tbPass.key] = "terminal"] /\ tbReceipts' = tbReceipts \cup {tbPass.key}
    BY <1>0, <1>1, <2>1 DEF TbTypeOK, RowsStay
  <2>2. CASE UNCHANGED <<tbDispatch, tbReceipts>>
    BY <1>0, <2>2 DEF TbTypeOK, RowsStay
  <2>. QED BY <2>1, <2>2 DEF ShellReturns
<1>3. /\ tbPass' \in Pass /\ tbPass'.key = tbPass.key
      /\ tbPass'.pc = IF tbPass.key[1] = "wake" THEN "consume" ELSE "ack"
  BY <1>0 DEF ShellReturns, Pass, Pcs
<1>4. (AtEvent => AtEvent') /\ (AtWake => AtWake')
  BY <1>0, <1>3 DEF AtEvent, AtWake, Current
<1>5. PassStands'
  <2>1. CASE AtWake
    BY <1>1, <1>2, <1>3, <1>4, <2>1 DEF PassStands
  <2>2. CASE AtEvent
    BY <1>1, <1>2, <1>3, <1>4, <2>2 DEF PassStands
  <2>. QED BY <1>0, <2>1, <2>2
<1>. QED BY <1>0, <1>2, <1>5, TableStep DEF TbTypeOK, FinishedStay, WaitersStay

(* The grant is the first of its key, and its row is written with it. *)
LEMMA GrantStep == ASSUME TbInv, PersistGrant PROVE TbInv'
<1>0. /\ TbTypeOK /\ PassStands /\ UNCHANGED <<tbStatus, tbTimers, tbEvents, tbRevived, tbAck, tbReceipts, tbWaiters>>
      /\ tbPass.pc = "compose" /\ tbPass \in Pass /\ (AtEvent \/ AtWake) /\ tbDispatch[tbPass.key] = "none"
      /\ GrantsHaveRows /\ AckedIsDispatched /\ ParkedWait
  BY DEF TbInv, PassStands, PersistGrant, tbBoard
<1>1. tbPass.key \in DispatchKeys
  BY <1>0, KeysDiffer DEF AtEvent, AtWake, TbTypeOK, Current
<1>2. /\ tbDispatch' \in [DispatchKeys -> {"none", "handed_off", "terminal"}] /\ RowsStay
      /\ tbDispatch'[tbPass.key] = "handed_off"
  BY <1>0, <1>1 DEF PersistGrant, TbTypeOK, RowsStay
<1>3. /\ tbGrants' \in [DispatchKeys -> Nat] /\ tbGrants'[tbPass.key] = 1
      /\ \A k \in DispatchKeys \ {tbPass.key} : tbGrants'[k] = tbGrants[k]
  <2>1. tbGrants \in [DispatchKeys -> Nat] /\ tbGrants' = [tbGrants EXCEPT ![tbPass.key] = @ + 1]
    BY <1>0 DEF PersistGrant, TbTypeOK
  <2>2. tbGrants[tbPass.key] = 0
    BY <1>0, <1>1, <2>1 DEF GrantsHaveRows
  <2>. QED BY <1>1, <2>1, <2>2
<1>4. GrantsHaveRows'
  BY <1>0, <1>1, <1>2, <1>3 DEF GrantsHaveRows, RowsStay
<1>5. tbPass' \in Pass /\ tbPass'.pc = "spawned" /\ tbPass'.key = tbPass.key
  BY <1>0 DEF PersistGrant, Pass, Pcs
<1>6. (AtEvent => AtEvent') /\ (AtWake => AtWake')
  BY <1>0, <1>5 DEF AtEvent, AtWake, Current
<1>7. PassStands'
  BY <1>0, <1>2, <1>5, <1>6 DEF PassStands
<1>8. AckedIsDispatched'
  BY <1>0, <1>2, AckedKept
<1>9. ParkedWait'
  BY <1>0, <1>2, WaitKept DEF FinishedStay, WaitersStay
<1>10. TbTypeOK'
  BY <1>0, <1>2, <1>3, <1>5 DEF TbTypeOK, Pcs, Pass
<1>. QED BY <1>4, <1>7, <1>8, <1>9, <1>10 DEF TbInv

LEMMA AckStep == ASSUME TbInv, AckEvent PROVE TbInv'
<1>0. /\ TbTypeOK /\ PassStands /\ UNCHANGED <<tbStatus, tbTimers, tbEvents, tbRevived, tbDispatch, tbGrants, tbReceipts, tbWaiters>>
      /\ AtEvent /\ tbDispatch[tbPass.key] # "none" /\ tbAck' = tbAck + 1
      /\ GrantsHaveRows /\ AckedIsDispatched /\ ParkedWait
  BY DEF TbInv, PassStands, AckEvent, tbBoard
<1>1. tbPass' \in Pass /\ tbPass'.pc = "replay"
  BY DEF AckEvent, Idle, Pass, Pcs
<1>2. PassStands'
  BY <1>1 DEF PassStands
<1>3. tbAck \in Nat /\ Len(tbEvents) \in Nat /\ tbAck + 1 <= Len(tbEvents)
  BY <1>0 DEF AtEvent, TbTypeOK
<1>4. AckedIsDispatched'
  <2>1. ASSUME NEW i \in 1..(tbAck + 1) PROVE tbDispatch[EventKey(tbEvents[i])] # "none"
    <3>1. CASE i = tbAck + 1
      BY <1>0, <3>1 DEF AtEvent, Current
    <3>2. CASE i \in 1..tbAck
      BY <1>0, <3>2 DEF AckedIsDispatched
    <3>. QED BY <1>3, <3>1, <3>2
  <2>. QED BY <1>0, <2>1 DEF AckedIsDispatched
<1>5. GrantsHaveRows'
  BY <1>0 DEF GrantsHaveRows
<1>6. ParkedWait'
  BY <1>0, WaitKept DEF RowsStay, FinishedStay, WaitersStay
<1>7. TbTypeOK'
  BY <1>0, <1>1, <1>3 DEF TbTypeOK, Pcs, Pass
<1>. QED BY <1>2, <1>4, <1>5, <1>6, <1>7 DEF TbInv

LEMMA TbInitHolds == TbInit => TbInv
<1> SUFFICES ASSUME TbInit PROVE TbInv
  OBVIOUS
<1>1. TbTypeOK
  <2>1. /\ tbStatus \in [Tasks -> {"open", "blocked", "done", "cancelled"}]
        /\ tbTimers \in [TaskTimers -> {"unset", "pending", "fired"}]
        /\ tbDispatch \in [DispatchKeys -> {"none", "handed_off", "terminal"}]
        /\ tbReceipts \subseteq DispatchKeys /\ tbGrants \in [DispatchKeys -> Nat]
        /\ tbWaiters \in [AllRows -> {"none", "waiting", "ready", "consumed"}]
    BY DEF TbInit
  <2>2. tbEvents \in Seq(TaskTimers) /\ tbAck \in 0..Len(tbEvents)
    BY DEF TbInit
  <2>. QED BY <2>1, <2>2 DEF TbInit, TbTypeOK, Idle
<1>2. PassStands
  BY DEF TbInit, PassStands, Idle, Pass, Pcs
<1>3. GrantsHaveRows /\ AckedIsDispatched
  BY DEF TbInit, GrantsHaveRows, AckedIsDispatched
<1>4. ParkedWait
  <2>1. \A tm \in TaskTimers : TaskOf[tm] # NoTask => RowsOf(tm) \subseteq AllRows
    BY RowsAre
  <2>. QED BY <2>1 DEF TbInit, ParkedWait, Parked, Wanted
<1>. QED BY <1>1, <1>2, <1>3, <1>4 DEF TbInv

LEMMA TbStepHolds == TbInv /\ [TbNext]_tbVars => TbInv'
<1> SUFFICES ASSUME TbInv, [TbNext]_tbVars PROVE TbInv'
  OBVIOUS
<1>1. CASE tbVars' = tbVars
  <2>1. UNCHANGED <<tbStatus, tbTimers, tbEvents, tbAck, tbDispatch, tbReceipts, tbGrants, tbWaiters, tbPass, tbRevived>>
    BY <1>1 DEF tbVars
  <2>2. PassStands'
    BY <2>1 DEF TbInv, PassStands, AtEvent, AtWake, Current
  <2>. QED BY <2>1, <2>2, StillRows, TableStep DEF TbInv, TbTypeOK
<1>2. CASE Consumer
  BY <1>2, RecoverStep, WakeStep, NextEventStep, InsertStep, ParkStep, DenyStep, GrantStep, ShellStep, AckStep, Zenon
     DEF Consumer
<1>. QED BY <1>1, <1>2, BoardStep, RecoverStep DEF TbNext

LEMMA TbInvIsEnough == TbInv => DispatchIsSound
<1> SUFFICES ASSUME TbInv PROVE DispatchIsSound
  OBVIOUS
<1>1. ParkedIsRemembered
  BY DEF TbInv, ParkedWait, ParkedIsRemembered, Wanted, Parked, Remembered
<1>2. OneGrantPerKey
  BY DEF TbInv, GrantsHaveRows, OneGrantPerKey
<1>. QED BY <1>1, <1>2 DEF TbInv, DispatchIsSound

(* The consumer of the board's timers (dispatch_task_timer_event, dispatch_task_wake,
   recover_timer_dispatches): one event and one wake start at most one worker, the checkpoint
   passes no event without a row, and a parked task keeps a row that waits or is ready. *)
THEOREM BoardDispatches == TbSpec => []DispatchIsSound
BY TbInitHolds, TbStepHolds, TbInvIsEnough, PTL DEF TbSpec

------------------------------------------------------------------------------
(* Workflow run: lemmas about the ledger of a run (begin_step_raw, append_step_once,
   pair_steps).  A row is one of three phases; On says it is on the ledger. *)
Phases == {"pending", "receipt", "completed"}
IsLedger(L) == \E S : L \in Seq(S)
On(L, r) == \E i \in DOMAIN L : L[i] = r

LEMMA AppendedIs ==
    ASSUME NEW L, IsLedger(L), NEW r
    PROVE  /\ IsLedger(Append(L, r)) /\ DOMAIN L = 1..Len(L) /\ Len(L) \in Nat
           /\ DOMAIN Append(L, r) = 1..(Len(L) + 1)
           /\ Append(L, r)[Len(L) + 1] = r
           /\ \A i \in 1..Len(L) : Append(L, r)[i] = L[i]
<1>1. PICK S : L \in Seq(S)
  BY DEF IsLedger
<1>2. L \in Seq(S \cup {r}) /\ r \in S \cup {r}
  BY <1>1
<1>3. Append(L, r) \in Seq(S \cup {r})
  BY <1>2
<1>. QED BY <1>2, <1>3 DEF IsLedger

LEMMA OneRow ==
    ASSUME NEW L, IsLedger(L), Replayable(L), NEW i \in DOMAIN L, NEW j \in DOMAIN L,
           L[i].phase \in Phases, L[i].phase = L[j].phase, L[i].step = L[j].step
    PROVE  i = j
<1>1. DOMAIN L = 1..Len(L) /\ Len(L) \in Nat
  BY AppendedIs
<1>2. ASSUME NEW a \in DOMAIN L, NEW b \in DOMAIN L, a < b, L[b].phase \in Phases,
             L[a].phase = L[b].phase, L[a].step = L[b].step
      PROVE  FALSE
  <2>1. RecordFits(L, b) /\ a \in 1..(b - 1)
    BY <1>1, <1>2 DEF Replayable
  <2>. QED BY <1>2, <2>1 DEF RecordFits, Phases
<1>. QED BY <1>1, <1>2

Formed(r) ==
    /\ r = Record(r.phase, r.step, r.kind, r.digest, r.out)
    /\ r.phase \in Phases
    /\ r.phase = "pending" => r.out = None
PendingOf(r) == Record("pending", r.step, r.kind, r.digest, None)

(* A ledger that pair_steps accepts, of rows of the three phases. *)
Sound(L) == IsLedger(L) /\ Replayable(L) /\ \A i \in DOMAIN L : Formed(L[i])

LEMMA RowsUnique ==
    ASSUME NEW L, Sound(L), NEW r, NEW q, On(L, r), On(L, q), r.phase = q.phase, r.step = q.step
    PROVE  r = q
BY OneRow DEF Sound, On, Formed

LEMMA RowIs == \A phase, step, kind, digest, out :
    /\ Record(phase, step, kind, digest, out).phase = phase
    /\ Record(phase, step, kind, digest, out).step = step
    /\ Record(phase, step, kind, digest, out).kind = kind
    /\ Record(phase, step, kind, digest, out).digest = digest
    /\ Record(phase, step, kind, digest, out).out = out
BY DEF Record

LEMMA RowHasPending ==
    ASSUME NEW L, Sound(L), NEW r, On(L, r)
    PROVE  On(L, PendingOf(r)) /\ Formed(r)
<1>1. PICK i \in DOMAIN L : L[i] = r
  BY DEF On
<1>2. Formed(r) /\ RecordFits(L, i) /\ DOMAIN L = 1..Len(L) /\ Len(L) \in Nat
  BY <1>1, AppendedIs DEF Sound, Replayable
<1>3. CASE r.phase = "pending"
  BY <1>1, <1>2, <1>3 DEF Formed, PendingOf, On
<1>4. CASE r.phase \in {"receipt", "completed"}
  <2>1. \E j \in 1..(i - 1) : L[j] = PendingOf(r)
    BY <1>1, <1>2, <1>4 DEF RecordFits, PendingOf
  <2>. QED BY <1>2, <2>1 DEF On
<1>. QED BY <1>2, <1>3, <1>4 DEF Formed, Phases

LEMMA HasIsOn ==
    ASSUME NEW L, NEW phase, NEW step
    PROVE  HasRecord(L, phase, step) <=> \E r : On(L, r) /\ r.phase = phase /\ r.step = step
BY DEF HasRecord, On

LEMMA TheRecordIs ==
    ASSUME NEW L, Sound(L), NEW phase, NEW step, HasRecord(L, phase, step)
    PROVE  /\ On(L, TheRecord(L, phase, step)) /\ Formed(TheRecord(L, phase, step))
           /\ TheRecord(L, phase, step).phase = phase /\ TheRecord(L, phase, step).step = step
<1>1. PICK i : i = CHOOSE k \in DOMAIN L : L[k].phase = phase /\ L[k].step = step
  OBVIOUS
<1>2. i \in DOMAIN L /\ L[i].phase = phase /\ L[i].step = step
  BY <1>1 DEF HasRecord
<1>3. TheRecord(L, phase, step) = L[i]
  BY <1>1 DEF TheRecord
<1>. QED BY <1>2, <1>3 DEF On, Sound

LEMMA OutIs ==
    ASSUME NEW L, Sound(L), NEW r, On(L, r)
    PROVE  OutOf(L, r.phase, r.step) = r.out /\ TheRecord(L, r.phase, r.step) = r
<1>1. HasRecord(L, r.phase, r.step)
  BY HasIsOn
<1>2. TheRecord(L, r.phase, r.step) = r
  BY <1>1, TheRecordIs, RowsUnique
<1>. QED BY <1>1, <1>2 DEF OutOf

(* Appending keeps what is there and stays acceptable. *)
LEMMA AppendOnceIs ==
    ASSUME NEW L, Sound(L), NEW r, Formed(r),
           r.phase # "pending" => On(L, PendingOf(r)),
           r.phase = "receipt" => ~HasRecord(L, "completed", r.step)
    PROVE  /\ Sound(AppendOnce(L, r))
           /\ \A q : On(L, q) => On(AppendOnce(L, r), q)
           /\ \A q : On(AppendOnce(L, r), q) => On(L, q) \/ (q = r /\ ~HasRecord(L, r.phase, r.step))
           /\ On(AppendOnce(L, r), Canonical(L, r))
           /\ Canonical(L, r).phase = r.phase /\ Canonical(L, r).step = r.step
<1> DEFINE M == AppendOnce(L, r)
<1>1. CASE HasRecord(L, r.phase, r.step)
  <2>1. M = L
    BY <1>1 DEF AppendOnce
  <2>. QED BY <1>1, <2>1, TheRecordIs DEF Canonical
<1>2. CASE ~HasRecord(L, r.phase, r.step)
  <2>1. M = Append(L, r)
    BY <1>2 DEF AppendOnce
  <2>2. /\ IsLedger(M) /\ DOMAIN L = 1..Len(L) /\ Len(L) \in Nat
        /\ DOMAIN M = 1..(Len(L) + 1) /\ M[Len(L) + 1] = r
        /\ \A i \in 1..Len(L) : M[i] = L[i]
    BY <2>1, AppendedIs DEF Sound
  <2>3. \A i \in DOMAIN M : Formed(M[i])
    BY <2>2 DEF Sound
  <2>4. ASSUME NEW i \in 1..Len(L) PROVE RecordFits(M, i)
    <3>1. RecordFits(L, i) /\ M[i] = L[i] /\ \A j \in 1..(i - 1) : M[j] = L[j]
      BY <2>2, <2>4 DEF Sound, Replayable
    <3>2. Formed(L[i])
      BY <2>2 DEF Sound
    <3>3. CASE L[i].phase = "pending"
      BY <3>1, <3>3 DEF RecordFits
    <3>4. CASE L[i].phase = "receipt"
      BY <3>1, <3>4 DEF RecordFits
    <3>5. CASE L[i].phase = "completed"
      BY <3>1, <3>5 DEF RecordFits
    <3>. QED BY <3>2, <3>3, <3>4, <3>5 DEF Formed, Phases
  <2>5. RecordFits(M, Len(L) + 1)
    <3>1. ASSUME NEW phase, ~HasRecord(L, phase, r.step)
          PROVE  ~\E j \in 1..(Len(L) + 1 - 1) : M[j].phase = phase /\ M[j].step = r.step
      BY <2>2, <3>1 DEF HasRecord
    <3>2. CASE r.phase = "pending"
      <4>1. ~HasRecord(L, "completed", r.step)
        <5>1. SUFFICES ASSUME NEW q, On(L, q), q.phase = "completed", q.step = r.step PROVE FALSE
          BY HasIsOn
        <5>2. On(L, PendingOf(q)) /\ PendingOf(q).phase = "pending" /\ PendingOf(q).step = r.step
          BY <5>1, RowHasPending, RowIs DEF PendingOf
        <5>. QED BY <1>2, <3>2, <5>2, HasIsOn
      <4>. QED BY <1>2, <2>2, <3>1, <3>2, <4>1 DEF RecordFits
    <3>3. r.phase # "pending" => \E j \in 1..(Len(L) + 1 - 1) : M[j] = PendingOf(r)
      BY <2>2 DEF On
    <3>4. CASE r.phase = "receipt"
      BY <1>2, <2>2, <3>1, <3>3, <3>4 DEF RecordFits, PendingOf
    <3>5. CASE r.phase = "completed"
      BY <1>2, <2>2, <3>1, <3>3, <3>5 DEF RecordFits, PendingOf
    <3>. QED BY <3>2, <3>4, <3>5 DEF Formed, Phases
  <2>6. Sound(M)
    BY <2>2, <2>3, <2>4, <2>5 DEF Sound, Replayable
  <2>7. /\ \A q : On(L, q) => On(M, q)
        /\ \A q : On(M, q) => On(L, q) \/ q = r
        /\ On(M, r)
    BY <2>2 DEF On
  <2>8. Canonical(L, r) = r
    BY <2>6, <2>7, OutIs DEF Canonical
  <2>. QED BY <1>2, <2>6, <2>7, <2>8
<1>. QED BY <1>1, <1>2

(* What a context holds of a step is on the ledger. *)
EntryStands(L, s, e) ==
    /\ e = [kind |-> e.kind, digest |-> e.digest, receipt |-> e.receipt, completed |-> e.completed]
    /\ On(L, Record("pending", s, e.kind, e.digest, None))
    /\ e.receipt # None => On(L, Record("receipt", s, e.kind, e.digest, e.receipt))
    /\ e.completed # None => On(L, Record("completed", s, e.kind, e.digest, e.completed))
ViewStands(L, view) == \A s \in DOMAIN view : EntryStands(L, s, view[s])

LEMMA ViewKept ==
    ASSUME NEW L, NEW M, NEW view, ViewStands(L, view), \A q : On(L, q) => On(M, q)
    PROVE  ViewStands(M, view)
BY DEF ViewStands, EntryStands

LEMMA PairedStands ==
    ASSUME NEW L, Sound(L)
    PROVE  ViewStands(L, PairSteps(L)) /\ DOMAIN PairSteps(L) = {L[i].step : i \in DOMAIN L}
<1>1. DOMAIN PairSteps(L) = {L[i].step : i \in DOMAIN L}
  BY DEF PairSteps
<1>2. ASSUME NEW s \in DOMAIN PairSteps(L) PROVE EntryStands(L, s, PairSteps(L)[s])
  <2>1. PICK r : On(L, r) /\ r.step = s
    BY <1>1 DEF On
  <2>2. HasRecord(L, "pending", s)
    <3>1. On(L, PendingOf(r)) /\ PendingOf(r).phase = "pending" /\ PendingOf(r).step = s
      BY <2>1, RowHasPending, RowIs DEF PendingOf
    <3>. QED BY <3>1, HasIsOn
  <2>3. PICK p : p = TheRecord(L, "pending", s)
    OBVIOUS
  <2>4. On(L, p) /\ p = Record("pending", s, p.kind, p.digest, None)
    BY <2>2, <2>3, TheRecordIs DEF Formed
  <2>5. ASSUME NEW phase, HasRecord(L, phase, s)
        PROVE  On(L, Record(phase, s, p.kind, p.digest, OutOf(L, phase, s)))
    <3>1. PICK q : q = TheRecord(L, phase, s)
      OBVIOUS
    <3>2. On(L, q) /\ q = Record(phase, s, q.kind, q.digest, q.out) /\ q.step = s
      BY <2>5, <3>1, TheRecordIs DEF Formed
    <3>3. On(L, PendingOf(q)) /\ PendingOf(q).phase = "pending" /\ PendingOf(q).step = s
          /\ PendingOf(q).kind = q.kind /\ PendingOf(q).digest = q.digest
      BY <3>2, RowHasPending, RowIs DEF PendingOf
    <3>4. PendingOf(q) = p
      BY <2>4, <3>3, RowsUnique, RowIs
    <3>. QED BY <2>5, <3>1, <3>2, <3>3, <3>4 DEF OutOf
  <2>6. PairSteps(L)[s] = [kind |-> p.kind, digest |-> p.digest, receipt |-> OutOf(L, "receipt", s),
                           completed |-> OutOf(L, "completed", s)]
    BY <1>1, <2>3 DEF PairSteps
  <2>. QED BY <2>4, <2>5, <2>6 DEF EntryStands, OutOf
<1>. QED BY <1>1, <1>2 DEF ViewStands

LEMMA ViewIsFinite ==
    ASSUME NEW L, Sound(L), NEW view, ViewStands(L, view)
    PROVE  Cardinality(DOMAIN view) \in Nat
<1>1. DOMAIN L = 1..Len(L) /\ Len(L) \in Nat
  BY AppendedIs DEF Sound
<1>2. IsFiniteSet({L[i].step : i \in DOMAIN L})
  <2>1. IsFiniteSet(DOMAIN L)
    BY <1>1, FS_Interval
  <2>2. [i \in DOMAIN L |-> L[i].step] \in Surjection(DOMAIN L, {L[i].step : i \in DOMAIN L})
    BY DEF Surjection
  <2>. QED BY <2>1, <2>2, FS_Surjection
<1>3. DOMAIN view \subseteq {L[i].step : i \in DOMAIN L}
  <2>1. SUFFICES ASSUME NEW s \in DOMAIN view PROVE s \in {L[i].step : i \in DOMAIN L}
    OBVIOUS
  <2>2. On(L, Record("pending", s, view[s].kind, view[s].digest, None))
    BY DEF ViewStands, EntryStands
  <2>. QED BY <2>2, RowIs DEF On
<1>. QED BY <1>2, <1>3, FS_Subset, FS_CardinalityType

(* A step is begun: its intent is on the ledger, once, and in the view. *)
LEMMA BegunIs ==
    ASSUME NEW L, Sound(L), NEW view, ViewStands(L, view), NEW cursor \in Nat, NEW kind, NEW digest,
           NEW b, b = BeginStepRaw(L, view, cursor, kind, digest)
    PROVE  /\ b.res \in {"diverged", "resuming", "replayed", "fresh"}
           /\ Sound(b.ledger) /\ ViewStands(b.ledger, b.view)
           /\ \A q : On(L, q) => On(b.ledger, q)
           /\ \A q : On(b.ledger, q) =>
                  On(L, q) \/ (q = Record("pending", cursor, kind, digest, None) /\ b.res = "fresh")
           /\ b.res = "fresh" => /\ ~HasRecord(L, "pending", cursor)
                                 /\ b.view[cursor].receipt = None
           /\ b.res # "diverged" => /\ DOMAIN b.view = DOMAIN view \cup {cursor}
                                    /\ b.view[cursor].kind = kind /\ b.view[cursor].digest = digest
           /\ b.res = "diverged" => b.view = view
           /\ \A s \in DOMAIN view : b.view[s] = view[s]
<1> DEFINE intent == Record("pending", cursor, kind, digest, None)
<1>0. ASSUME NEW res, NEW l, NEW v
      PROVE  Begun(res, l, v).res = res /\ Begun(res, l, v).ledger = l /\ Begun(res, l, v).view = v
  BY DEF Begun
<1>4. PICK size \in Nat : size = Cardinality(DOMAIN view)
  BY ViewIsFinite
<1>1. CASE cursor \in DOMAIN view
  <2>1. CASE view[cursor].kind # kind \/ view[cursor].digest # digest
    <3>1. b = Begun("diverged", L, view)
      BY <1>1, <2>1 DEF BeginStepRaw
    <3>. QED BY <1>0, <3>1
  <2>2. CASE ~(view[cursor].kind # kind \/ view[cursor].digest # digest)
    <3>1. \/ b = Begun("resuming", L, view)
          \/ b = Begun("replayed", L, view)
      BY <1>1, <2>2 DEF BeginStepRaw
    <3>. QED BY <1>0, <1>1, <2>2, <3>1
  <2>. QED BY <2>1, <2>2
<1>2. CASE cursor \notin DOMAIN view /\ cursor < size
  <2>1. b = Begun("diverged", L, view)
    BY <1>2, <1>4 DEF BeginStepRaw
  <2>. QED BY <1>0, <2>1
<1>3. CASE cursor \notin DOMAIN view /\ cursor >= size
  <2> DEFINE entry == [kind |-> kind, digest |-> digest, receipt |-> None, completed |-> None]
  <2>1. PICK seen : seen = [s \in DOMAIN view \cup {cursor} |->
                               IF s \in DOMAIN view THEN view[s] ELSE entry]
    OBVIOUS
  <2>2. /\ DOMAIN seen = DOMAIN view \cup {cursor} /\ seen[cursor] = entry
        /\ \A s \in DOMAIN view : seen[s] = view[s]
    BY <1>3, <2>1
  <2>3. Formed(intent) /\ intent.phase = "pending" /\ intent.step = cursor
    BY RowIs DEF Formed, Phases
  <2>4. CASE Canonical(L, intent) # intent
    <3>1. b = Begun("diverged", L, view)
      BY <1>3, <1>4, <2>4 DEF BeginStepRaw
    <3>. QED BY <1>0, <3>1
  <2>5. CASE Canonical(L, intent) = intent
    <3>1. b = Begun(IF HasRecord(L, "pending", cursor) THEN "resuming" ELSE "fresh",
                    AppendOnce(L, intent), seen)
      BY <1>3, <1>4, <2>1, <2>5 DEF BeginStepRaw
    <3>2. /\ Sound(b.ledger) /\ b.ledger = AppendOnce(L, intent) /\ b.view = seen
          /\ \A q : On(L, q) => On(b.ledger, q)
          /\ \A q : On(b.ledger, q) => On(L, q) \/ (q = intent /\ ~HasRecord(L, "pending", cursor))
          /\ On(b.ledger, intent)
          /\ b.res = IF HasRecord(L, "pending", cursor) THEN "resuming" ELSE "fresh"
      BY <1>0, <2>3, <2>5, <3>1, AppendOnceIs
    <3>3. EntryStands(b.ledger, cursor, entry)
      BY <3>2 DEF EntryStands
    <3>4. ViewStands(b.ledger, seen)
      <4>1. ViewStands(b.ledger, view)
        BY <3>2, ViewKept
      <4>. QED BY <2>2, <3>3, <4>1 DEF ViewStands
    <3>. QED BY <2>2, <3>2, <3>4
  <2>. QED BY <2>4, <2>5
<1>. QED BY <1>1, <1>2, <1>3, <1>4

(* A receipt or a completion is stored: the row is claimed once. *)
LEMMA StoredIs ==
    ASSUME NEW L, Sound(L), NEW view, ViewStands(L, view), NEW s \in DOMAIN view, NEW value,
           NEW phase \in {"receipt", "completed"},
           phase = "receipt" => ~HasRecord(L, "completed", s),
           NEW st, st = Stored(L, view, phase, s, value)
    PROVE  /\ st.ok \in BOOLEAN /\ Sound(st.ledger) /\ ViewStands(st.ledger, st.view)
           /\ \A q : On(L, q) => On(st.ledger, q)
           /\ \A q : On(st.ledger, q) =>
                  \/ On(L, q)
                  \/ /\ q = Record(phase, s, view[s].kind, view[s].digest, value)
                     /\ ~HasRecord(L, phase, s) /\ st.ok
           /\ DOMAIN st.view = DOMAIN view /\ \A x \in DOMAIN view \ {s} : st.view[x] = view[x]
           /\ st.view[s].kind = view[s].kind /\ st.view[s].digest = view[s].digest
           /\ st.view[s].receipt = IF st.ok /\ phase = "receipt" THEN value ELSE view[s].receipt
           /\ st.view[s].completed = IF st.ok /\ phase = "completed" THEN value ELSE view[s].completed
           /\ ~HasRecord(L, phase, s) => st.ok
<1>1. PICK e : e = view[s]
  OBVIOUS
<1>2. PICK r : r = Record(phase, s, e.kind, e.digest, value)
  OBVIOUS
<1>3. /\ r.phase = phase /\ r.step = s /\ r.kind = e.kind /\ r.digest = e.digest /\ r.out = value
      /\ Formed(r) /\ PendingOf(r) = Record("pending", s, e.kind, e.digest, None)
  BY <1>2, RowIs DEF Formed, Phases, PendingOf
<1>4. EntryStands(L, s, e)
  BY <1>1 DEF ViewStands
<1>5. PICK M : M = AppendOnce(L, r)
  OBVIOUS
<1>6. /\ Sound(M) /\ \A q : On(L, q) => On(M, q)
      /\ \A q : On(M, q) => On(L, q) \/ (q = r /\ ~HasRecord(L, phase, s))
      /\ On(M, Canonical(L, r))
  BY <1>3, <1>4, <1>5, AppendOnceIs DEF EntryStands
<1>7. ViewStands(M, view) /\ EntryStands(M, s, e)
  BY <1>1, <1>6, ViewKept DEF ViewStands
<1>8. st.ok = (Canonical(L, r) = r) /\ st.ledger = M
  BY <1>1, <1>2, <1>5 DEF Stored
<1>9. ~HasRecord(L, phase, s) => Canonical(L, r) = r
  <2>1. SUFFICES ASSUME ~HasRecord(L, phase, s) PROVE Canonical(L, r) = r
    OBVIOUS
  <2>2. M = Append(L, r) /\ IsLedger(L)
    BY <1>3, <1>5, <2>1 DEF AppendOnce, Sound
  <2>3. On(M, r)
    BY <2>2, AppendedIs DEF On
  <2>. QED BY <1>3, <1>5, <1>6, <2>3, OutIs DEF Canonical
<1>10. CASE ~(Canonical(L, r) = r)
  <2>1. st.view = view /\ ~st.ok
    BY <1>1, <1>2, <1>8, <1>10 DEF Stored
  <2>. QED BY <1>1, <1>6, <1>7, <1>8, <1>9, <1>10, <2>1
<1>11. CASE Canonical(L, r) = r
  <2>1. On(M, r)
    BY <1>6, <1>11
  <2>2. CASE phase = "receipt"
    <3>1. PICK n : n = [e EXCEPT !.receipt = value]
      OBVIOUS
    <3>2. /\ n = [kind |-> e.kind, digest |-> e.digest, receipt |-> value, completed |-> e.completed]
          /\ n.kind = e.kind /\ n.digest = e.digest /\ n.receipt = value /\ n.completed = e.completed
      BY <1>4, <3>1 DEF EntryStands
    <3>3. EntryStands(M, s, n)
      BY <1>2, <1>7, <2>1, <2>2, <3>2 DEF EntryStands
    <3>4. st.view = [view EXCEPT ![s] = n] /\ st.ok
      BY <1>1, <1>2, <1>8, <1>11, <2>2, <3>1 DEF Stored
    <3>5. ViewStands(M, st.view)
      BY <1>7, <3>3, <3>4 DEF ViewStands
    <3>. QED BY <1>1, <1>2, <1>6, <1>8, <1>9, <2>2, <3>2, <3>4, <3>5
  <2>3. CASE phase = "completed"
    <3>1. PICK n : n = [e EXCEPT !.completed = value]
      OBVIOUS
    <3>2. /\ n = [kind |-> e.kind, digest |-> e.digest, receipt |-> e.receipt, completed |-> value]
          /\ n.kind = e.kind /\ n.digest = e.digest /\ n.receipt = e.receipt /\ n.completed = value
      BY <1>4, <3>1 DEF EntryStands
    <3>3. EntryStands(M, s, n)
      BY <1>2, <1>7, <2>1, <2>3, <3>2 DEF EntryStands
    <3>4. st.view = [view EXCEPT ![s] = n] /\ st.ok
      BY <1>1, <1>2, <1>8, <1>11, <2>3, <3>1 DEF Stored
    <3>5. ViewStands(M, st.view)
      BY <1>7, <3>3, <3>4 DEF ViewStands
    <3>. QED BY <1>1, <1>2, <1>6, <1>8, <1>9, <2>3, <3>2, <3>4, <3>5
  <2>. QED BY <2>2, <2>3
<1>. QED BY <1>10, <1>11

------------------------------------------------------------------------------
(* Workflow run: the invariant. *)
(* A context: what it holds is on the ledger, and between begin_step and the end of the
   step it stands on that step. *)
At(x) == x.cursor - 1
Working == {"dispatch", "landed", "completing", "schedule"}
Shaped(x) ==
    /\ x = [pc |-> x.pc, prog |-> x.prog, cursor |-> x.cursor, view |-> x.view, out |-> x.out]
    /\ CtxRecord(x)
Stepping(x) ==
    /\ At(x) \in DOMAIN x.view /\ x.cursor >= 1
    /\ x.pc \in {"dispatch", "landed"} => x.view[At(x)].kind = "effect"
    /\ x.pc = "schedule" => x.view[At(x)].kind = "timer"
    /\ x.pc = "completing" => x.view[At(x)].kind \in {"effect", "time"}
CtxStands(L, x) ==
    /\ Shaped(x) /\ ViewStands(L, x.view)
    /\ x.pc \in Working => Stepping(x)

(* A context that has begun an effect, and whose receipt is not recorded. *)
Holding(x) ==
    \/ x.pc \in {"dispatch", "landed"}
    \/ x.pc = "completing" /\ x.view[At(x)].kind = "effect" /\ x.view[At(x)].receipt = None
Bare(L, s) == ~HasRecord(L, "receipt", s) /\ ~HasRecord(L, "completed", s)

CtxsStand == \A c \in Contexts : CtxStands(wfLedger, wfCtx[c])
HoldersStand ==
    \A c \in Contexts : Holding(wfCtx[c]) =>
        /\ Bare(wfLedger, At(wfCtx[c]))
        /\ wfCtx[c].pc = "dispatch" => wfDispatched[At(wfCtx[c])] = 0
        /\ \A d \in Contexts : Holding(wfCtx[d]) /\ At(wfCtx[d]) = At(wfCtx[c]) => c = d
EffectsStand ==
    /\ EffectAtMostOnce
    /\ \A s \in Steps : ~HasRecord(wfLedger, "pending", s) => wfDispatched[s] = 0
LedgerStands ==
    /\ Sound(wfLedger)
    /\ \A q : On(wfLedger, q) => q.step \in Steps /\ (q.phase = "receipt" => q.kind = "effect")
    /\ \A q, r : (/\ On(wfLedger, q) /\ On(wfLedger, r) /\ q.step = r.step
                  /\ q.phase = "receipt" /\ r.phase = "completed") => q.out = r.out
Timer == [id : Steps \X Contexts, at : 0..MaxTime, status : {"pending", "fired"}]
Bounds ==
    /\ DOMAIN wfCtx = Contexts /\ wfDispatched \in [Steps -> Nat]
    /\ wfTimers \subseteq Timer
    /\ wfClock \in 0..MaxTime /\ wfHigh \in 0..MaxTime /\ wfUp \in BOOLEAN
WfInv == Bounds /\ LedgerStands /\ CtxsStand /\ HoldersStand /\ EffectsStand

(* A program is a sequence of steps. *)
LEMMA ProgramIs ==
    ASSUME NEW p \in Programs
    PROVE  /\ Len(p) \in Nat /\ DOMAIN p = 1..Len(p)
           /\ \A i \in 1..Len(p) : p[i].kind \in {"time", "effect", "timer"} /\ p[i].at \in 0..MaxTime
<1>1. p \in Seq({p[i] : i \in DOMAIN p})
  BY WorkflowRunAssumption
<1>2. Len(p) \in Nat /\ DOMAIN p = 1..Len(p)
  BY <1>1
<1>. QED BY <1>2, WorkflowRunAssumption

LEMMA CursorIs ==
    ASSUME NEW x, Shaped(x)
    PROVE  /\ x.cursor \in Nat /\ Len(x.prog) \in Nat /\ x.cursor <= Len(x.prog)
           /\ x.cursor < Len(x.prog) => x.prog \in Programs /\ x.cursor \in Steps
           /\ x.cursor >= 1 => x.prog \in Programs
<1>1. Len(<<>>) = 0
  OBVIOUS
<1>2. x.prog \in Programs \/ x.prog = <<>>
  BY DEF Shaped, CtxRecord
<1>3. Len(x.prog) \in Nat
  BY <1>1, <1>2, ProgramIs
<1>4. x.cursor \in 0..Len(x.prog)
  BY DEF Shaped, CtxRecord
<1>5. x.cursor < Len(x.prog) => x.prog \in Programs /\ x.cursor \in 0..(Len(x.prog) - 1)
  BY <1>1, <1>2, <1>3, <1>4
<1>. QED BY <1>1, <1>2, <1>3, <1>4, <1>5 DEF Steps

LEMMA CtxKept ==
    ASSUME NEW L, NEW M, NEW x, CtxStands(L, x), \A q : On(L, q) => On(M, q)
    PROVE  CtxStands(M, x)
BY ViewKept DEF CtxStands

(* Two views of one step are of one kind. *)
LEMMA OneKind ==
    ASSUME NEW L, Sound(L), NEW v, NEW w, ViewStands(L, v), ViewStands(L, w),
           NEW s, s \in DOMAIN v, s \in DOMAIN w
    PROVE  v[s].kind = w[s].kind
<1>1. /\ On(L, Record("pending", s, v[s].kind, v[s].digest, None))
      /\ On(L, Record("pending", s, w[s].kind, w[s].digest, None))
  BY DEF ViewStands, EntryStands
<1>. QED BY <1>1, RowsUnique, RowIs

LEMMA ViewHasPending ==
    ASSUME NEW L, NEW v, ViewStands(L, v), NEW s \in DOMAIN v
    PROVE  HasRecord(L, "pending", s)
BY HasIsOn, RowIs DEF ViewStands, EntryStands

(* A context that is held by a step holds it wherever its program is in the step. *)
LEMMA HoldingIs ==
    ASSUME NEW L, NEW x, CtxStands(L, x), Holding(x)
    PROVE  At(x) \in DOMAIN x.view /\ x.view[At(x)].kind = "effect" /\ x.pc \in Working
BY DEF CtxStands, Stepping, Holding, Working

(* One row is added. *)
LEMMA RowAdded ==
    ASSUME WfInv, Sound(wfLedger'), NEW r, \A q : On(wfLedger', q) => On(wfLedger, q) \/ q = r,
           r.step \in Steps,
           r.phase = "receipt" => r.kind = "effect" /\ ~HasRecord(wfLedger, "completed", r.step),
           r.phase = "completed" =>
               \A q : On(wfLedger, q) /\ q.phase = "receipt" /\ q.step = r.step => q.out = r.out
    PROVE  LedgerStands'
<1>1. \A q : On(wfLedger', q) => q.step \in Steps /\ (q.phase = "receipt" => q.kind = "effect")
  BY DEF WfInv, LedgerStands
<1>2. ASSUME NEW q, NEW p, On(wfLedger', q), On(wfLedger', p), q.step = p.step,
             q.phase = "receipt", p.phase = "completed"
      PROVE  q.out = p.out
  <2>1. CASE On(wfLedger, q) /\ On(wfLedger, p)
    BY <1>2, <2>1 DEF WfInv, LedgerStands
  <2>2. CASE q = r
    <3>1. ~HasRecord(wfLedger, "completed", p.step) /\ p # r
      BY <1>2, <2>2
    <3>. QED BY <1>2, <3>1, HasIsOn
  <2>3. CASE p = r /\ q # r
    BY <1>2, <2>3
  <2>. QED BY <1>2, <2>1, <2>2, <2>3
<1>. QED BY <1>1, <1>2 DEF LedgerStands

(* One context moves. *)
LEMMA CtxMoves ==
    ASSUME WfInv, NEW c \in Contexts, NEW y, wfCtx' = [wfCtx EXCEPT ![c] = y],
           CtxStands(wfLedger', y), LedgerStands', EffectsStand', Bounds',
           \A q : On(wfLedger, q) => On(wfLedger', q),
           Holding(y) =>
               /\ Bare(wfLedger', At(y))
               /\ y.pc = "dispatch" => wfDispatched'[At(y)] = 0
               /\ \A d \in Contexts \ {c} : Holding(wfCtx[d]) => At(wfCtx[d]) # At(y),
           \A d \in Contexts \ {c} : Holding(wfCtx[d]) =>
               /\ Bare(wfLedger', At(wfCtx[d]))
               /\ wfDispatched'[At(wfCtx[d])] = wfDispatched[At(wfCtx[d])]
    PROVE  WfInv'
<1>1. wfCtx'[c] = y /\ \A d \in Contexts : d # c => wfCtx'[d] = wfCtx[d]
  BY DEF WfInv, Bounds
<1>2. CtxsStand'
  <2>1. ASSUME NEW d \in Contexts PROVE CtxStands(wfLedger', wfCtx'[d])
    BY <1>1, CtxKept DEF WfInv, CtxsStand
  <2>. QED BY <2>1 DEF CtxsStand
<1>3. HoldersStand'
  <2>1. ASSUME NEW a \in Contexts, Holding(wfCtx'[a])
        PROVE  /\ Bare(wfLedger', At(wfCtx'[a]))
               /\ wfCtx'[a].pc = "dispatch" => wfDispatched'[At(wfCtx'[a])] = 0
    BY <1>1, <2>1 DEF WfInv, HoldersStand
  <2>2. ASSUME NEW a \in Contexts, NEW d \in Contexts, Holding(wfCtx'[a]), Holding(wfCtx'[d]),
               At(wfCtx'[d]) = At(wfCtx'[a])
        PROVE  a = d
    BY <1>1, <2>2 DEF WfInv, HoldersStand
  <2>. QED BY <2>1, <2>2 DEF HoldersStand
<1>. QED BY <1>2, <1>3 DEF WfInv

LEMMA RehydrateStep == ASSUME WfInv, NEW c \in Contexts, Rehydrate(c) PROVE WfInv'
<1>1. PICK p \in Programs :
        wfCtx' = [wfCtx EXCEPT ![c] = [OffCtx EXCEPT !.pc = "ready", !.prog = p,
                                                     !.view = PairSteps(wfLedger)]]
  BY DEF Rehydrate
<1>2. PICK y : y = [OffCtx EXCEPT !.pc = "ready", !.prog = p, !.view = PairSteps(wfLedger)]
  OBVIOUS
<1>3. /\ y = [pc |-> "ready", prog |-> p, cursor |-> 0, view |-> PairSteps(wfLedger), out |-> None]
      /\ y.pc = "ready" /\ y.prog = p /\ y.cursor = 0 /\ y.view = PairSteps(wfLedger) /\ y.out = None
  BY <1>2 DEF OffCtx
<1>4. ViewStands(wfLedger, y.view) /\ DOMAIN y.view \subseteq Steps
  <2>1. ViewStands(wfLedger, y.view) /\ DOMAIN y.view = {wfLedger[i].step : i \in DOMAIN wfLedger}
    BY <1>3, PairedStands DEF WfInv, LedgerStands
  <2>2. \A i \in DOMAIN wfLedger : wfLedger[i].step \in Steps
    BY DEF WfInv, LedgerStands, On
  <2>. QED BY <2>1, <2>2
<1>5. Len(p) \in Nat
  BY ProgramIs
<1>6. CtxStands(wfLedger, y)
  BY <1>3, <1>4, <1>5 DEF CtxStands, Shaped, CtxRecord, Working
<1>7. ~Holding(y)
  BY <1>3 DEF Holding
<1>8. /\ UNCHANGED <<wfLedger, wfDispatched, wfTimers, wfClock, wfHigh, wfUp>>
      /\ wfCtx' = [wfCtx EXCEPT ![c] = y]
  BY <1>1, <1>2 DEF Rehydrate, KernelUnchanged
<1>9. LedgerStands' /\ EffectsStand' /\ Bounds'
  BY <1>8 DEF WfInv, LedgerStands, EffectsStand, EffectAtMostOnce, Bounds
<1>10. \A d \in Contexts : Holding(wfCtx[d]) => Bare(wfLedger, At(wfCtx[d]))
  BY DEF WfInv, HoldersStand
<1>. QED BY <1>6, <1>7, <1>8, <1>9, <1>10, CtxMoves

(* The fields of a context that is given a new record. *)
LEMMA CtxIs == \A pc, prog, cursor, view, out :
    LET y == [pc |-> pc, prog |-> prog, cursor |-> cursor, view |-> view, out |-> out]
    IN  /\ y.pc = pc /\ y.prog = prog /\ y.cursor = cursor /\ y.view = view /\ y.out = out
        /\ y = [pc |-> y.pc, prog |-> y.prog, cursor |-> y.cursor, view |-> y.view, out |-> y.out]
OBVIOUS

LEMMA BeginStepStep == ASSUME WfInv, NEW c \in Contexts, BeginStep(c) PROVE WfInv'
<1>1. PICK x : x = wfCtx[c]
  OBVIOUS
<1>2. CtxStands(wfLedger, x) /\ Shaped(x) /\ x.pc = "ready" /\ x.cursor < Len(x.prog)
  BY <1>1 DEF WfInv, CtxsStand, CtxStands, BeginStep, Live
<1>3. /\ x.cursor \in Nat /\ Len(x.prog) \in Nat /\ x.prog \in Programs /\ x.cursor \in Steps
      /\ DOMAIN x.view \subseteq Steps
  BY <1>2, CursorIs DEF Shaped, CtxRecord
<1>4. PICK step : step = x.prog[x.cursor + 1]
  OBVIOUS
<1>5. step.kind \in {"time", "effect", "timer"}
  BY <1>2, <1>3, <1>4, ProgramIs
<1>6. PICK b : b = BeginStepRaw(wfLedger, x.view, x.cursor, step.kind, step.digest)
  OBVIOUS
<1>7. PICK y : y = [x EXCEPT !.view = b.view,
                             !.cursor = IF b.res = "diverged" THEN @ ELSE @ + 1,
                             !.pc = NextPc(step.kind, b.res, b.view[x.cursor]),
                             !.out = IF step.kind = "time" THEN <<"time", wfClock>>
                                     ELSE IF b.res = "resuming" THEN b.view[x.cursor].receipt ELSE None]
  OBVIOUS
<1>8. /\ wfLedger' = b.ledger /\ wfCtx' = [wfCtx EXCEPT ![c] = y]
      /\ UNCHANGED <<wfDispatched, wfTimers, wfClock, wfHigh, wfUp>>
  BY <1>1, <1>4, <1>6, <1>7 DEF BeginStep, KernelUnchanged
<1>9. /\ y.view = b.view /\ y.prog = x.prog
      /\ y.cursor = (IF b.res = "diverged" THEN x.cursor ELSE x.cursor + 1)
      /\ y.pc = NextPc(step.kind, b.res, b.view[x.cursor])
      /\ y = [pc |-> y.pc, prog |-> y.prog, cursor |-> y.cursor, view |-> y.view, out |-> y.out]
  <2>1. x = [pc |-> x.pc, prog |-> x.prog, cursor |-> x.cursor, view |-> x.view, out |-> x.out]
    BY <1>2 DEF Shaped
  <2>. QED BY <1>7, <2>1
<1>10. ViewStands(wfLedger, x.view) /\ Sound(wfLedger)
  BY <1>2 DEF WfInv, LedgerStands, CtxStands
<1>11. /\ b.res \in {"diverged", "resuming", "replayed", "fresh"}
       /\ Sound(b.ledger) /\ ViewStands(b.ledger, b.view)
       /\ \A q : On(wfLedger, q) => On(b.ledger, q)
       /\ \A q : On(b.ledger, q) => On(wfLedger, q)
              \/ (q = Record("pending", x.cursor, step.kind, step.digest, None) /\ b.res = "fresh")
       /\ b.res = "fresh" => /\ ~HasRecord(wfLedger, "pending", x.cursor)
                             /\ b.view[x.cursor].receipt = None
       /\ b.res # "diverged" => /\ DOMAIN b.view = DOMAIN x.view \cup {x.cursor}
                                /\ b.view[x.cursor].kind = step.kind
       /\ b.res = "diverged" => b.view = x.view
  BY <1>3, <1>6, <1>10, BegunIs
<1>12. LedgerStands'
  <2>1. PICK r : r = Record("pending", x.cursor, step.kind, step.digest, None)
    OBVIOUS
  <2>2. r.phase = "pending" /\ r.step = x.cursor
    BY <2>1, RowIs
  <2>. QED BY <1>3, <1>8, <1>11, <2>1, <2>2, RowAdded
<1>13. y.pc \in {"off", "ready", "dispatch", "landed", "completing", "schedule", "failed"}
  BY <1>5, <1>9, <1>11 DEF NextPc
<1>14. Shaped(y)
  <2>1. y.cursor \in 0..Len(y.prog)
    BY <1>2, <1>3, <1>9
  <2>2. DOMAIN y.view \subseteq Steps
    BY <1>3, <1>9, <1>11
  <2>. QED BY <1>3, <1>9, <1>13, <2>1, <2>2 DEF Shaped, CtxRecord
<1>15. y.pc \in Working => /\ b.res \in {"fresh", "resuming"} /\ y.cursor = x.cursor + 1 /\ At(y) = x.cursor
                           /\ y.pc \in {"dispatch", "landed"} =>
                                y.pc = "dispatch" /\ step.kind = "effect" /\ b.res = "fresh"
                           /\ y.pc = "schedule" => step.kind = "timer"
                           /\ y.pc = "completing" =>
                                \/ step.kind = "time"
                                \/ step.kind = "effect" /\ b.view[x.cursor].receipt # None
  BY <1>3, <1>5, <1>9, <1>11 DEF NextPc, Working, At
<1>16. y.pc \in Working => Stepping(y)
  BY <1>3, <1>9, <1>11, <1>15 DEF Stepping
<1>17. CtxStands(wfLedger', y)
  BY <1>8, <1>9, <1>11, <1>14, <1>16 DEF CtxStands
<1>18. ASSUME NEW phase, NEW s, HasRecord(wfLedger', phase, s), phase # "pending"
       PROVE  HasRecord(wfLedger, phase, s)
  BY <1>8, <1>11, <1>18, HasIsOn, RowIs
<1>19. ASSUME NEW s, Bare(wfLedger, s) PROVE Bare(wfLedger', s)
  BY <1>18, <1>19 DEF Bare
<1>20. Holding(y) => y.pc = "dispatch" /\ b.res = "fresh" /\ At(y) = x.cursor
  BY <1>9, <1>11, <1>15 DEF Holding, Working
<1>21. ASSUME b.res = "fresh"
       PROVE  /\ Bare(wfLedger, x.cursor) /\ wfDispatched[x.cursor] = 0
              /\ \A d \in Contexts : Holding(wfCtx[d]) => At(wfCtx[d]) # x.cursor
  <2>1. ~HasRecord(wfLedger, "pending", x.cursor)
    BY <1>11, <1>21
  <2>2. ASSUME NEW phase, HasRecord(wfLedger, phase, x.cursor) PROVE FALSE
    <3>1. PICK q : On(wfLedger, q) /\ q.step = x.cursor
      BY <2>2, HasIsOn
    <3>2. On(wfLedger, PendingOf(q)) /\ PendingOf(q).phase = "pending" /\ PendingOf(q).step = x.cursor
      BY <1>10, <3>1, RowHasPending, RowIs DEF PendingOf
    <3>. QED BY <2>1, <3>2, HasIsOn
  <2>3. ASSUME NEW d \in Contexts, Holding(wfCtx[d]), At(wfCtx[d]) = x.cursor PROVE FALSE
    <3>1. x.cursor \in DOMAIN wfCtx[d].view /\ ViewStands(wfLedger, wfCtx[d].view)
      BY <2>3, HoldingIs DEF WfInv, CtxsStand, CtxStands
    <3>. QED BY <2>1, <3>1, ViewHasPending
  <2>. QED BY <1>3, <2>1, <2>2, <2>3 DEF Bare, WfInv, EffectsStand
<1>22. EffectsStand'
  <2>1. \A s \in Steps : HasRecord(wfLedger, "pending", s) => HasRecord(wfLedger', "pending", s)
    BY <1>8, <1>11, HasIsOn
  <2>. QED BY <1>8, <2>1 DEF WfInv, EffectsStand, EffectAtMostOnce
<1>23. Bounds'
  BY <1>8 DEF WfInv, Bounds
<1>24. \A d \in Contexts : Holding(wfCtx[d]) => Bare(wfLedger', At(wfCtx[d]))
  BY <1>19 DEF WfInv, HoldersStand
<1>25. Holding(y) => /\ Bare(wfLedger', At(y)) /\ wfDispatched'[At(y)] = 0
                     /\ \A d \in Contexts \ {c} : Holding(wfCtx[d]) => At(wfCtx[d]) # At(y)
  BY <1>8, <1>19, <1>20, <1>21
<1>. QED BY <1>8, <1>11, <1>12, <1>17, <1>22, <1>23, <1>24, <1>25, CtxMoves

LEMMA DispatchStep == ASSUME WfInv, NEW c \in Contexts, Dispatch(c) PROVE WfInv'
<1>1. PICK x : x = wfCtx[c]
  OBVIOUS
<1>2. CtxStands(wfLedger, x) /\ Shaped(x) /\ x.pc = "dispatch" /\ Holding(x) /\ Stepping(x)
  BY <1>1 DEF WfInv, CtxsStand, CtxStands, Dispatch, Live, Holding, Working
<1>3. PICK reached \in {TRUE, FALSE}, allowed \in {TRUE, FALSE} :
          /\ wfDispatched' = [wfDispatched EXCEPT ![At(x)] = IF reached THEN @ + 1 ELSE @]
          /\ wfCtx' = [wfCtx EXCEPT ![c].pc = IF allowed THEN "landed" ELSE "completing",
                                    ![c].out = IF allowed THEN None ELSE FailedCode]
  BY <1>1 DEF Dispatch, StepOf, At
<1>4. PICK y : y = [x EXCEPT !.pc = IF allowed THEN "landed" ELSE "completing",
                             !.out = IF allowed THEN None ELSE FailedCode]
  OBVIOUS
<1>5. /\ y.view = x.view /\ y.prog = x.prog /\ y.cursor = x.cursor /\ y.pc \in {"landed", "completing"}
      /\ y = [pc |-> y.pc, prog |-> y.prog, cursor |-> y.cursor, view |-> y.view, out |-> y.out]
  <2>1. x = [pc |-> x.pc, prog |-> x.prog, cursor |-> x.cursor, view |-> x.view, out |-> x.out]
    BY <1>2 DEF Shaped
  <2>. QED BY <1>4, <2>1
<1>6. wfCtx' = [wfCtx EXCEPT ![c] = y]
  BY <1>1, <1>3, <1>4 DEF WfInv, Bounds
<1>7. UNCHANGED <<wfLedger, wfTimers, wfClock, wfHigh, wfUp>>
  BY DEF Dispatch, KernelUnchanged
<1>8. PICK s : s = At(x)
  OBVIOUS
<1>9. s \in Steps /\ s \in DOMAIN x.view /\ x.view[s].kind = "effect" /\ ViewStands(wfLedger, x.view)
  BY <1>2, <1>8 DEF Stepping, Shaped, CtxRecord, CtxStands
<1>10. wfDispatched[s] = 0 /\ Bare(wfLedger, s)
       /\ \A d \in Contexts \ {c} : Holding(wfCtx[d]) => At(wfCtx[d]) # s
  BY <1>1, <1>2, <1>8 DEF WfInv, HoldersStand
<1>11. /\ wfDispatched' \in [Steps -> Nat] /\ wfDispatched'[s] \in {0, 1}
       /\ \A u \in Steps : u # s => wfDispatched'[u] = wfDispatched[u]
  BY <1>3, <1>8, <1>9, <1>10 DEF WfInv, Bounds
<1>12. CtxStands(wfLedger', y)
  BY <1>2, <1>5, <1>7, <1>8, <1>9 DEF CtxStands, Shaped, CtxRecord, Stepping, At
<1>13. LedgerStands' /\ Bounds'
  BY <1>6, <1>7, <1>11 DEF WfInv, LedgerStands, Bounds
<1>14. EffectsStand'
  <2>1. HasRecord(wfLedger, "pending", s)
    BY <1>9, ViewHasPending
  <2>. QED BY <1>7, <1>11, <2>1 DEF WfInv, EffectsStand, EffectAtMostOnce
<1>15. \A d \in Contexts \ {c} : Holding(wfCtx[d]) =>
         Bare(wfLedger', At(wfCtx[d])) /\ wfDispatched'[At(wfCtx[d])] = wfDispatched[At(wfCtx[d])]
  <2>1. ASSUME NEW d \in Contexts \ {c}, Holding(wfCtx[d]) PROVE At(wfCtx[d]) \in Steps
    BY <2>1, HoldingIs DEF WfInv, CtxsStand, CtxStands, Shaped, CtxRecord
  <2>. QED BY <1>7, <1>10, <1>11, <2>1 DEF WfInv, HoldersStand
<1>16. At(y) = s
  BY <1>5, <1>8 DEF At
<1>. QED BY <1>5, <1>6, <1>7, <1>10, <1>12, <1>13, <1>14, <1>15, <1>16, CtxMoves

(* Whoever works on a step that is not an effect, or an effect whose receipt is in hand,
   works on a step nobody holds. *)
LEMMA OthersHoldElsewhere ==
    ASSUME WfInv, NEW c \in Contexts, wfCtx[c].pc \in Working,
           NEW d \in Contexts \ {c}, Holding(wfCtx[d])
    PROVE  At(wfCtx[d]) # At(wfCtx[c])
<1>1. SUFFICES ASSUME At(wfCtx[d]) = At(wfCtx[c]) PROVE FALSE
  OBVIOUS
<1>2. PICK s : s = At(wfCtx[c])
  OBVIOUS
<1>3. /\ ViewStands(wfLedger, wfCtx[c].view) /\ s \in DOMAIN wfCtx[c].view /\ Stepping(wfCtx[c])
  BY <1>2 DEF WfInv, CtxsStand, CtxStands, Stepping
<1>4. /\ ViewStands(wfLedger, wfCtx[d].view) /\ s \in DOMAIN wfCtx[d].view
      /\ wfCtx[d].view[s].kind = "effect"
  BY <1>1, <1>2, HoldingIs DEF WfInv, CtxsStand, CtxStands
<1>5. wfCtx[c].view[s].kind = "effect"
  BY <1>3, <1>4, OneKind DEF WfInv, LedgerStands
<1>6. ~Holding(wfCtx[c]) /\ Bare(wfLedger, s)
  BY <1>1, <1>2 DEF WfInv, HoldersStand
<1>7. wfCtx[c].pc = "completing" /\ wfCtx[c].view[s].receipt # None
  BY <1>2, <1>3, <1>5, <1>6 DEF Holding, Stepping, Working
<1>8. On(wfLedger, Record("receipt", s, wfCtx[c].view[s].kind, wfCtx[c].view[s].digest,
                          wfCtx[c].view[s].receipt))
  BY <1>3, <1>7 DEF ViewStands, EntryStands
<1>. QED BY <1>6, <1>8, HasIsOn, RowIs DEF Bare

LEMMA RecordReceiptStep == ASSUME WfInv, NEW c \in Contexts, RecordReceipt(c) PROVE WfInv'
<1>1. PICK x, s : x = wfCtx[c] /\ s = At(x)
  OBVIOUS
<1>2. /\ CtxStands(wfLedger, x) /\ Shaped(x) /\ x.pc = "landed" /\ Holding(x) /\ Stepping(x)
      /\ ViewStands(wfLedger, x.view) /\ Sound(wfLedger)
  BY <1>1 DEF WfInv, CtxsStand, CtxStands, RecordReceipt, Live, Holding, Working, LedgerStands
<1>3. s \in Steps /\ s \in DOMAIN x.view /\ x.view[s].kind = "effect" /\ x.cursor >= 1
  BY <1>1, <1>2 DEF Stepping, Shaped, CtxRecord
<1>4. Bare(wfLedger, s)
  BY <1>1, <1>2 DEF WfInv, HoldersStand
<1>5. \A d \in Contexts \ {c} : Holding(wfCtx[d]) => At(wfCtx[d]) # s
  BY <1>1, <1>2, OthersHoldElsewhere DEF Working
<1>6. UNCHANGED <<wfDispatched, wfTimers, wfClock, wfHigh, wfUp>>
  BY DEF RecordReceipt, KernelUnchanged
<1>7. PICK value : value = <<"artifact", c>>
  OBVIOUS
<1>8. value # None
  BY <1>7, WorkflowRunAssumption
<1>9. PICK r : r = Stored(wfLedger, x.view, "receipt", s, value)
  OBVIOUS
<1>10. /\ Sound(r.ledger) /\ ViewStands(r.ledger, r.view) /\ r.ok \in BOOLEAN
       /\ \A q : On(wfLedger, q) => On(r.ledger, q)
       /\ \A q : On(r.ledger, q) =>
              \/ On(wfLedger, q)
              \/ q = Record("receipt", s, x.view[s].kind, x.view[s].digest, value)
       /\ DOMAIN r.view = DOMAIN x.view
       /\ r.view[s].kind = x.view[s].kind
       /\ r.view[s].receipt = (IF r.ok THEN value ELSE x.view[s].receipt)
       /\ r.ok
  BY <1>2, <1>3, <1>4, <1>9, StoredIs DEF Bare
<1>11. x = [pc |-> x.pc, prog |-> x.prog, cursor |-> x.cursor, view |-> x.view, out |-> x.out]
  BY <1>2 DEF Shaped
<1>12. CASE /\ wfLedger' = r.ledger
            /\ wfCtx' = [wfCtx EXCEPT ![c].pc = "completing", ![c].view = r.view,
                                      ![c].out = IF r.ok THEN value ELSE FailedCode]
  <2>1. PICK y : y = [x EXCEPT !.pc = "completing", !.view = r.view,
                               !.out = IF r.ok THEN value ELSE FailedCode]
    OBVIOUS
  <2>2. /\ y.view = r.view /\ y.prog = x.prog /\ y.cursor = x.cursor /\ y.pc = "completing"
        /\ y = [pc |-> y.pc, prog |-> y.prog, cursor |-> y.cursor, view |-> y.view, out |-> y.out]
    BY <1>11, <2>1
  <2>3. wfCtx' = [wfCtx EXCEPT ![c] = y]
    BY <1>1, <1>12, <2>1 DEF WfInv, Bounds
  <2>4. CtxStands(wfLedger', y)
    BY <1>1, <1>2, <1>3, <1>10, <1>12, <2>2 DEF CtxStands, Shaped, CtxRecord, Stepping, At
  <2>5. ~Holding(y)
    BY <1>1, <1>8, <1>10, <2>2 DEF Holding, At
  <2>6. PICK q0 : q0 = Record("receipt", s, x.view[s].kind, x.view[s].digest, value)
    OBVIOUS
  <2>7. q0.phase = "receipt" /\ q0.step = s /\ q0.kind = "effect"
    BY <1>3, <2>6, RowIs
  <2>8. LedgerStands'
    BY <1>3, <1>4, <1>10, <1>12, <2>6, <2>7, RowAdded DEF Bare
  <2>9. \A d \in Contexts \ {c} : Holding(wfCtx[d]) => Bare(wfLedger', At(wfCtx[d]))
    <3>1. ASSUME NEW u, u # s, Bare(wfLedger, u) PROVE Bare(wfLedger', u)
      BY <1>10, <1>12, <2>6, <2>7, <3>1, HasIsOn DEF Bare
    <3>. QED BY <1>5, <3>1 DEF WfInv, HoldersStand
  <2>10. EffectsStand'
    <3>1. \A u \in Steps : HasRecord(wfLedger, "pending", u) => HasRecord(wfLedger', "pending", u)
      BY <1>10, <1>12, HasIsOn
    <3>. QED BY <1>6, <3>1 DEF WfInv, EffectsStand, EffectAtMostOnce
  <2>11. Bounds'
    BY <1>6, <2>3 DEF WfInv, Bounds
  <2>. QED BY <1>6, <1>10, <1>12, <2>3, <2>4, <2>5, <2>8, <2>9, <2>10, <2>11, CtxMoves
<1>13. CASE /\ UNCHANGED wfLedger
            /\ wfCtx' = [wfCtx EXCEPT ![c].pc = "completing", ![c].out = FailedCode]
  <2>1. PICK y : y = [x EXCEPT !.pc = "completing", !.out = FailedCode]
    OBVIOUS
  <2>2. /\ y.view = x.view /\ y.prog = x.prog /\ y.cursor = x.cursor /\ y.pc = "completing"
        /\ y = [pc |-> y.pc, prog |-> y.prog, cursor |-> y.cursor, view |-> y.view, out |-> y.out]
    BY <1>11, <2>1
  <2>3. wfCtx' = [wfCtx EXCEPT ![c] = y]
    BY <1>1, <1>13, <2>1 DEF WfInv, Bounds
  <2>4. CtxStands(wfLedger', y) /\ At(y) = s
    BY <1>1, <1>2, <1>3, <1>13, <2>2 DEF CtxStands, Shaped, CtxRecord, Stepping, At
  <2>5. LedgerStands' /\ EffectsStand' /\ Bounds'
    BY <1>6, <1>13, <2>3 DEF WfInv, LedgerStands, EffectsStand, EffectAtMostOnce, Bounds
  <2>6. \A d \in Contexts \ {c} : Holding(wfCtx[d]) => Bare(wfLedger, At(wfCtx[d]))
    BY DEF WfInv, HoldersStand
  <2>. QED BY <1>4, <1>5, <1>6, <1>13, <2>2, <2>3, <2>4, <2>5, <2>6, CtxMoves
<1>. QED BY <1>1, <1>7, <1>9, <1>12, <1>13 DEF RecordReceipt, StepOf, At

(* A row of a step a context holds is of the kind the context holds. *)
LEMMA RowKind ==
    ASSUME NEW L, Sound(L), NEW v, ViewStands(L, v), NEW s \in DOMAIN v, NEW q, On(L, q), q.step = s
    PROVE  q.kind = v[s].kind /\ q.digest = v[s].digest
<1>1. /\ On(L, PendingOf(q)) /\ PendingOf(q).phase = "pending" /\ PendingOf(q).step = s
      /\ PendingOf(q).kind = q.kind /\ PendingOf(q).digest = q.digest
  BY RowHasPending, RowIs DEF PendingOf
<1>2. On(L, Record("pending", s, v[s].kind, v[s].digest, None))
  BY DEF ViewStands, EntryStands
<1>3. PendingOf(q) = Record("pending", s, v[s].kind, v[s].digest, None)
  BY <1>1, <1>2, RowsUnique, RowIs
<1>. QED BY <1>1, <1>3, RowIs

(* A completion, claimed or lost, leaves the context between steps. *)
Completes(c, y, s, r) ==
    LET x == wfCtx[c] IN
    /\ x.pc \in Working /\ s \in DOMAIN x.view /\ s = At(x)
    /\ wfCtx' = [wfCtx EXCEPT ![c] = y]
    /\ Sound(wfLedger') /\ r.phase = "completed" /\ r.step = s
    /\ \A q : On(wfLedger, q) => On(wfLedger', q)
    /\ \A q : On(wfLedger', q) => On(wfLedger, q) \/ q = r
    /\ \A q : On(wfLedger, q) /\ q.phase = "receipt" /\ q.step = s => q.out = r.out
    /\ y.pc \in {"ready", "failed"} /\ y.prog = x.prog /\ y.cursor = x.cursor
    /\ ViewStands(wfLedger', y.view) /\ DOMAIN y.view = DOMAIN x.view
    /\ y = [pc |-> y.pc, prog |-> y.prog, cursor |-> y.cursor, view |-> y.view, out |-> y.out]
    /\ Bounds' /\ UNCHANGED wfDispatched

LEMMA CompletedStep ==
    ASSUME WfInv, NEW c \in Contexts, NEW y, NEW s, NEW r, Completes(c, y, s, r)
    PROVE  WfInv'
<1> USE DEF Completes
<1>1. Shaped(wfCtx[c])
  BY DEF WfInv, CtxsStand, CtxStands
<1>2. CtxStands(wfLedger', y) /\ ~Holding(y)
  BY <1>1 DEF CtxStands, Shaped, CtxRecord, Holding, Working
<1>3. LedgerStands'
  BY <1>1, RowAdded DEF Shaped, CtxRecord
<1>4. \A d \in Contexts \ {c} : Holding(wfCtx[d]) => Bare(wfLedger', At(wfCtx[d]))
  <2>1. ASSUME NEW u, u # s, Bare(wfLedger, u) PROVE Bare(wfLedger', u)
    BY <2>1, HasIsOn DEF Bare
  <2>. QED BY <2>1, OthersHoldElsewhere DEF WfInv, HoldersStand
<1>5. EffectsStand'
  <2>1. \A u \in Steps : HasRecord(wfLedger, "pending", u) => HasRecord(wfLedger', "pending", u)
    BY HasIsOn
  <2>. QED BY <2>1 DEF WfInv, EffectsStand, EffectAtMostOnce
<1>. QED BY <1>2, <1>3, <1>4, <1>5, CtxMoves

LEMMA CompleteStepStep == ASSUME WfInv, NEW c \in Contexts, CompleteStep(c) PROVE WfInv'
<1>1. PICK x, s : x = wfCtx[c] /\ s = At(x)
  OBVIOUS
<1>2. /\ CtxStands(wfLedger, x) /\ Shaped(x) /\ x.pc = "completing" /\ x.pc \in Working /\ Stepping(x)
      /\ ViewStands(wfLedger, x.view) /\ Sound(wfLedger)
  BY <1>1 DEF WfInv, CtxsStand, CtxStands, CompleteStep, Live, Working, LedgerStands
<1>3. s \in Steps /\ s \in DOMAIN x.view /\ x.view[s].kind \in {"effect", "time"}
  BY <1>1, <1>2 DEF Stepping, Shaped, CtxRecord
<1>4. UNCHANGED <<wfDispatched, wfTimers, wfClock, wfHigh, wfUp>>
  BY DEF CompleteStep, KernelUnchanged
<1>5. x = [pc |-> x.pc, prog |-> x.prog, cursor |-> x.cursor, view |-> x.view, out |-> x.out]
  BY <1>2 DEF Shaped
<1>6. PICK r : r = Stored(wfLedger, x.view, "completed", s, x.out)
  OBVIOUS
<1>7. CASE x.view[s].receipt # None /\ x.out # x.view[s].receipt
  <2>1. PICK y : y = [x EXCEPT !.pc = "failed"]
    OBVIOUS
  <2>2. /\ y.view = x.view /\ y.prog = x.prog /\ y.cursor = x.cursor /\ y.pc = "failed"
        /\ y = [pc |-> y.pc, prog |-> y.prog, cursor |-> y.cursor, view |-> y.view, out |-> y.out]
    BY <1>5, <2>1
  <2>3. wfCtx' = [wfCtx EXCEPT ![c] = y] /\ UNCHANGED wfLedger
    <3>1. wfCtx' = [wfCtx EXCEPT ![c].pc = "failed"] /\ UNCHANGED wfLedger
      BY <1>1, <1>7 DEF CompleteStep, StepOf, At
    <3>. QED BY <1>1, <2>1, <3>1 DEF WfInv, Bounds
  <2>4. CtxStands(wfLedger', y) /\ ~Holding(y)
    BY <1>2, <2>2, <2>3 DEF CtxStands, Shaped, CtxRecord, Holding, Working
  <2>5. LedgerStands' /\ EffectsStand' /\ Bounds'
    BY <1>4, <2>3 DEF WfInv, LedgerStands, EffectsStand, EffectAtMostOnce, Bounds
  <2>6. \A d \in Contexts \ {c} : Holding(wfCtx[d]) => Bare(wfLedger, At(wfCtx[d]))
    BY DEF WfInv, HoldersStand
  <2>. QED BY <1>4, <2>3, <2>4, <2>5, <2>6, CtxMoves
<1>8. CASE ~(x.view[s].receipt # None /\ x.out # x.view[s].receipt)
  <2>1. PICK y : y = [x EXCEPT !.view = r.view,
                               !.pc = IF r.ok /\ x.out # FailedCode THEN "ready" ELSE "failed"]
    OBVIOUS
  <2>2. /\ y.view = r.view /\ y.prog = x.prog /\ y.cursor = x.cursor /\ y.pc \in {"ready", "failed"}
        /\ y = [pc |-> y.pc, prog |-> y.prog, cursor |-> y.cursor, view |-> y.view, out |-> y.out]
    BY <1>5, <2>1
  <2>3. wfCtx' = [wfCtx EXCEPT ![c] = y] /\ wfLedger' = r.ledger
    <3>1. /\ wfLedger' = r.ledger
          /\ wfCtx' = [wfCtx EXCEPT ![c].view = r.view,
                         ![c].pc = IF r.ok /\ x.out # FailedCode THEN "ready" ELSE "failed"]
      BY <1>1, <1>6, <1>8 DEF CompleteStep, StepOf, At
    <3>. QED BY <1>1, <2>1, <3>1 DEF WfInv, Bounds
  <2>4. PICK q0 : q0 = Record("completed", s, x.view[s].kind, x.view[s].digest, x.out)
    OBVIOUS
  <2>5. q0.phase = "completed" /\ q0.step = s /\ q0.out = x.out
    BY <2>4, RowIs
  <2>6. /\ Sound(r.ledger) /\ ViewStands(r.ledger, r.view)
        /\ \A q : On(wfLedger, q) => On(r.ledger, q)
        /\ \A q : On(r.ledger, q) => On(wfLedger, q) \/ q = q0
        /\ DOMAIN r.view = DOMAIN x.view
    BY <1>2, <1>3, <1>6, <2>4, StoredIs
  <2>7. ASSUME NEW q, On(wfLedger, q), q.phase = "receipt", q.step = s PROVE q.out = x.out
    <3>1. x.view[s].kind = "effect"
      BY <1>2, <1>3, <2>7, RowKind DEF WfInv, LedgerStands
    <3>2. ~Bare(wfLedger, s)
      BY <2>7, HasIsOn DEF Bare
    <3>3. x.view[s].receipt # None
      BY <1>1, <1>2, <3>1, <3>2 DEF WfInv, HoldersStand, Holding
    <3>4. PICK p : p = Record("receipt", s, x.view[s].kind, x.view[s].digest, x.view[s].receipt)
      OBVIOUS
    <3>7. On(wfLedger, p)
      BY <1>2, <1>3, <3>3, <3>4 DEF ViewStands, EntryStands
    <3>5. On(wfLedger, p) /\ p.phase = "receipt" /\ p.step = s /\ p.out = x.view[s].receipt
      BY <3>4, <3>7, RowIs
    <3>6. p = q
      BY <1>2, <2>7, <3>5, RowsUnique
    <3>. QED BY <1>8, <3>3, <3>5, <3>6
  <2>8. Bounds'
    BY <1>4, <2>3 DEF WfInv, Bounds
  <2>9. Completes(c, y, s, q0)
    BY <1>1, <1>2, <1>3, <1>4, <2>2, <2>3, <2>5, <2>6, <2>7, <2>8 DEF Completes
  <2>. QED BY <2>9, CompletedStep
<1>. QED BY <1>7, <1>8

LEMMA ScheduleTimerStep == ASSUME WfInv, NEW c \in Contexts, ScheduleTimer(c) PROVE WfInv'
<1>1. PICK x, s : x = wfCtx[c] /\ s = At(x)
  OBVIOUS
<1>2. /\ CtxStands(wfLedger, x) /\ Shaped(x) /\ x.pc = "schedule" /\ x.pc \in Working /\ Stepping(x)
      /\ ViewStands(wfLedger, x.view) /\ Sound(wfLedger)
  BY <1>1 DEF WfInv, CtxsStand, CtxStands, ScheduleTimer, Live, Working, LedgerStands
<1>3. /\ s \in Steps /\ s \in DOMAIN x.view /\ x.view[s].kind = "timer" /\ x.cursor >= 1
      /\ s + 1 = x.cursor /\ x.prog \in Programs /\ x.cursor \in 1..Len(x.prog)
  BY <1>1, <1>2, CursorIs DEF Stepping, Shaped, CtxRecord, At
<1>4. UNCHANGED <<wfDispatched, wfClock, wfHigh, wfUp>>
  BY DEF ScheduleTimer, KernelUnchanged
<1>5. x = [pc |-> x.pc, prog |-> x.prog, cursor |-> x.cursor, view |-> x.view, out |-> x.out]
  BY <1>2 DEF Shaped
<1>6. PICK e : e = x.view[s]
  OBVIOUS
<1>7. PICK r : r = Record("completed", s, e.kind, e.digest, <<"timer", <<s, c>>>>)
  OBVIOUS
<1>8. /\ r.phase = "completed" /\ r.step = s /\ Formed(r)
      /\ PendingOf(r) = Record("pending", s, e.kind, e.digest, None)
  BY <1>7, RowIs DEF Formed, Phases, PendingOf
<1>9. EntryStands(wfLedger, s, e)
  BY <1>2, <1>3, <1>6 DEF ViewStands
<1>10. PICK k : k = Canonical(wfLedger, r)
  OBVIOUS
<1>11. /\ wfLedger' = AppendOnce(wfLedger, r)
       /\ wfCtx' = [wfCtx EXCEPT ![c] = Adopted(x, s, r)]
       /\ \A t \in wfTimers' : \/ t \in wfTimers
                               \/ t = [id |-> <<s, c>>, at |-> x.prog[s + 1].at, status |-> "pending"]
  BY <1>1, <1>6, <1>7 DEF ScheduleTimer, StepOf, At
<1>12. /\ Sound(wfLedger') /\ On(wfLedger', k) /\ k.phase = "completed" /\ k.step = s
       /\ \A q : On(wfLedger, q) => On(wfLedger', q)
       /\ \A q : On(wfLedger', q) => On(wfLedger, q) \/ q = r
  BY <1>2, <1>8, <1>9, <1>10, <1>11, AppendOnceIs DEF EntryStands
<1>13. ViewStands(wfLedger', x.view)
  BY <1>2, <1>12, ViewKept
<1>14. k = Record("completed", s, e.kind, e.digest, k.out)
  <2>1. k.kind = e.kind /\ k.digest = e.digest
    BY <1>3, <1>6, <1>12, <1>13, RowKind
  <2>2. Formed(k)
    BY <1>12, RowHasPending
  <2>. QED BY <1>12, <2>1, <2>2 DEF Formed
<1>15. PICK n : n = [e EXCEPT !.completed = k.out]
  OBVIOUS
<1>16. /\ n = [kind |-> e.kind, digest |-> e.digest, receipt |-> e.receipt, completed |-> k.out]
       /\ n.kind = e.kind /\ n.digest = e.digest /\ n.receipt = e.receipt /\ n.completed = k.out
  BY <1>9, <1>15 DEF EntryStands
<1>17. EntryStands(wfLedger', s, n)
  <2>1. EntryStands(wfLedger', s, e)
    BY <1>3, <1>6, <1>13 DEF ViewStands
  <2>. QED BY <1>12, <1>14, <1>16, <2>1 DEF EntryStands
<1>18. PICK v : v = [x.view EXCEPT ![s] = n]
  OBVIOUS
<1>19. ViewStands(wfLedger', v) /\ DOMAIN v = DOMAIN x.view
  BY <1>13, <1>17, <1>18 DEF ViewStands
<1>20. PICK y : y = Adopted(x, s, r)
  OBVIOUS
<1>21. /\ y.view = v /\ y.prog = x.prog /\ y.cursor = x.cursor /\ y.pc = "ready"
       /\ y = [pc |-> y.pc, prog |-> y.prog, cursor |-> y.cursor, view |-> y.view, out |-> y.out]
  <2>1. y = [x EXCEPT !.pc = "ready", !.view[s].completed = k.out]
    BY <1>10, <1>20 DEF Adopted
  <2>2. y = [pc |-> "ready", prog |-> x.prog, cursor |-> x.cursor, view |-> v, out |-> x.out]
    BY <1>5, <1>6, <1>15, <1>18, <2>1
  <2>. QED BY <2>2, CtxIs
<1>22. ASSUME NEW q, On(wfLedger, q), q.phase = "receipt", q.step = s PROVE q.out = r.out
  BY <1>2, <1>3, <1>22, RowKind DEF WfInv, LedgerStands
<1>23. Bounds'
  <2>1. x.prog[s + 1].at \in 0..MaxTime
    BY <1>3, ProgramIs
  <2>2. [id |-> <<s, c>>, at |-> x.prog[s + 1].at, status |-> "pending"] \in Timer
    BY <1>3, <2>1 DEF Timer
  <2>3. wfTimers' \subseteq Timer
    BY <1>11, <2>2 DEF WfInv, Bounds
  <2>. QED BY <1>4, <1>11, <2>3 DEF WfInv, Bounds
<1>24. wfCtx' = [wfCtx EXCEPT ![c] = y] /\ y.pc \in {"ready", "failed"}
  BY <1>11, <1>20, <1>21
<1>25. Completes(c, y, s, r)
  BY <1>1, <1>2, <1>3, <1>4, <1>8, <1>12, <1>19, <1>21, <1>22, <1>23, <1>24 DEF Completes
<1>. QED BY <1>25, CompletedStep

LEMMA OffStands == \A L : CtxStands(L, OffCtx) /\ ~Holding(OffCtx)
<1>1. Len(<<>>) = 0 /\ DOMAIN <<>> = {}
  OBVIOUS
<1>2. /\ OffCtx.pc = "off" /\ OffCtx.prog = <<>> /\ OffCtx.cursor = 0 /\ OffCtx.view = <<>>
      /\ OffCtx = [pc |-> OffCtx.pc, prog |-> OffCtx.prog, cursor |-> OffCtx.cursor,
                   view |-> OffCtx.view, out |-> OffCtx.out]
  BY DEF OffCtx
<1>3. CtxRecord(OffCtx)
  BY <1>1, <1>2 DEF CtxRecord
<1>. QED BY <1>1, <1>2, <1>3 DEF CtxStands, Shaped, ViewStands, Holding, Working

(* A step that leaves the ledger, and every context or none. *)
LEMMA KernelMoves ==
    ASSUME WfInv, UNCHANGED <<wfLedger, wfDispatched>>, wfCtx' \in {wfCtx, AllOff},
           wfTimers' \subseteq Timer, wfClock' \in 0..MaxTime, wfHigh' \in 0..MaxTime, wfUp' \in BOOLEAN
    PROVE  WfInv'
<1>1. LedgerStands' /\ EffectsStand'
  BY DEF WfInv, LedgerStands, EffectsStand, EffectAtMostOnce
<1>2. Bounds'
  BY DEF WfInv, Bounds, AllOff
<1>3. CASE UNCHANGED wfCtx
  BY <1>1, <1>2, <1>3 DEF WfInv, CtxsStand, HoldersStand
<1>4. CASE wfCtx' = AllOff
  <2>1. \A c \in Contexts : wfCtx'[c] = OffCtx
    BY <1>4 DEF AllOff
  <2>. QED BY <1>1, <1>2, <2>1, OffStands DEF WfInv, CtxsStand, HoldersStand
<1>. QED BY <1>3, <1>4

LEMMA LaterIs == ASSUME NEW a \in 0..MaxTime, NEW b \in 0..MaxTime PROVE Later(a, b) \in 0..MaxTime
BY DEF Later

LEMMA FireTimerStep == ASSUME WfInv, NEW id, FireTimer(id) PROVE WfInv'
<1>1. UNCHANGED <<wfLedger, wfCtx, wfDispatched, wfClock, wfHigh, wfUp>>
  BY DEF FireTimer
<1>2. wfTimers' \subseteq Timer
  <2>1. SUFFICES ASSUME NEW t \in wfTimers' PROVE t \in Timer
    OBVIOUS
  <2>2. t \in wfTimers \/ \E u \in wfTimers : t = [u EXCEPT !.status = "fired"]
    BY <2>1 DEF FireTimer
  <2>. QED BY <2>2 DEF WfInv, Bounds, Timer
<1>. QED BY <1>1, <1>2, KernelMoves DEF WfInv, Bounds

LEMMA ProcessSteps ==
    ASSUME WfInv, DriverPass \/ WfTick \/ StepBack \/ WfCrash \/ Boot
    PROVE  WfInv'
<1>1. /\ UNCHANGED <<wfLedger, wfDispatched, wfTimers>> /\ wfCtx' \in {wfCtx, AllOff}
      /\ wfUp' \in BOOLEAN
  BY DEF DriverPass, WfTick, StepBack, WfCrash, Boot, WfInv, Bounds
<1>2. wfClock' \in 0..MaxTime
  BY WorkflowRunAssumption DEF DriverPass, WfTick, StepBack, WfCrash, Boot, WfInv, Bounds
<1>3. wfHigh' \in 0..MaxTime
  BY LaterIs DEF DriverPass, WfTick, StepBack, WfCrash, Boot, WfInv, Bounds
<1>. QED BY <1>1, <1>2, <1>3, KernelMoves DEF WfInv, Bounds

LEMMA WfInitHolds == WfInit => WfInv
<1> SUFFICES ASSUME WfInit PROVE WfInv
  OBVIOUS
<1>1. wfLedger = <<>> /\ DOMAIN wfLedger = {}
  BY DEF WfInit
<1>2. Sound(wfLedger) /\ \A q : ~On(wfLedger, q)
  <2>1. wfLedger \in Seq({})
    BY <1>1
  <2>. QED BY <1>1, <2>1 DEF Sound, IsLedger, Replayable, On
<1>3. LedgerStands
  BY <1>2 DEF LedgerStands
<1>4. CtxsStand /\ HoldersStand
  BY OffStands DEF WfInit, AllOff, CtxsStand, HoldersStand
<1>5. EffectsStand
  BY DEF WfInit, EffectsStand, EffectAtMostOnce
<1>6. Bounds
  BY WorkflowRunAssumption DEF WfInit, Bounds, AllOff
<1>. QED BY <1>3, <1>4, <1>5, <1>6 DEF WfInv

LEMMA WfStepHolds == WfInv /\ [WfNext]_wfVars => WfInv'
<1> SUFFICES ASSUME WfInv, [WfNext]_wfVars PROVE WfInv'
  OBVIOUS
<1>1. CASE UNCHANGED wfVars
  BY <1>1, KernelMoves DEF wfVars, WfInv, Bounds
<1>2. ASSUME NEW c \in Contexts,
             \/ Rehydrate(c)     \/ BeginStep(c)    \/ Dispatch(c)
             \/ RecordReceipt(c) \/ CompleteStep(c) \/ ScheduleTimer(c)
      PROVE  WfInv'
  BY <1>2, RehydrateStep, BeginStepStep, DispatchStep, RecordReceiptStep, CompleteStepStep, ScheduleTimerStep
<1>3. ASSUME NEW id \in wfDriver.due, FireTimer(id) PROVE WfInv'
  BY <1>3, FireTimerStep
<1>4. CASE DriverPass \/ WfTick \/ StepBack \/ WfCrash \/ Boot
  BY <1>4, ProcessSteps
<1>. QED BY <1>1, <1>2, <1>3, <1>4 DEF WfNext

LEMMA WfInvIsEnough == WfInv => RunIsReplayable
<1> SUFFICES ASSUME WfInv PROVE RunIsReplayable
  OBVIOUS
<1>1. Sound(wfLedger)
  BY DEF WfInv, LedgerStands
<1>2. WfTypeOK
  <2>1. \A i \in DOMAIN wfLedger : /\ wfLedger[i].phase \in {"pending", "receipt", "completed"}
                                   /\ wfLedger[i].step \in Steps
    BY <1>1 DEF WfInv, LedgerStands, On, Sound, Formed, Phases
  <2>2. \A c \in Contexts : CtxRecord(wfCtx[c])
    BY DEF WfInv, CtxsStand, CtxStands, Shaped
  <2>. QED BY <2>1, <2>2 DEF WfInv, Bounds, WfTypeOK, Timer
<1>3. EffectAtMostOnce /\ RunAlwaysRehydrates
  BY DEF WfInv, EffectsStand, LedgerStands, Sound, RunAlwaysRehydrates
<1>4. ContextsAgree
  <2>1. SUFFICES ASSUME NEW c \in Contexts, NEW s \in DOMAIN wfCtx[c].view,
                        wfCtx[c].view[s].completed # None
                 PROVE  wfCtx[c].view[s].completed = OutOf(wfLedger, "completed", s)
    BY DEF ContextsAgree
  <2>2. PICK e : e = wfCtx[c].view[s]
    OBVIOUS
  <2>3. PICK q : q = Record("completed", s, e.kind, e.digest, e.completed)
    OBVIOUS
  <2>4. On(wfLedger, q)
    BY <2>1, <2>2, <2>3 DEF WfInv, CtxsStand, CtxStands, ViewStands, EntryStands
  <2>5. q.phase = "completed" /\ q.step = s /\ q.out = e.completed
    BY <2>3, RowIs
  <2>. QED BY <1>1, <2>2, <2>4, <2>5, OutIs
<1>5. ReceiptDecides
  <2>1. SUFFICES ASSUME NEW i \in DOMAIN wfLedger, NEW j \in DOMAIN wfLedger,
                        wfLedger[i].phase = "receipt", wfLedger[j].phase = "completed",
                        wfLedger[i].step = wfLedger[j].step
                 PROVE  i < j /\ wfLedger[i].out = wfLedger[j].out
    BY DEF ReceiptDecides
  <2>2. wfLedger[i].out = wfLedger[j].out
    BY <2>1 DEF WfInv, LedgerStands, On
  <2>3. DOMAIN wfLedger = 1..Len(wfLedger) /\ Len(wfLedger) \in Nat /\ RecordFits(wfLedger, i)
    BY <1>1, AppendedIs DEF Sound, Replayable
  <2>4. ~\E k \in 1..(i - 1) : wfLedger[k].phase = "completed" /\ wfLedger[k].step = wfLedger[i].step
    BY <2>1, <2>3 DEF RecordFits
  <2>. QED BY <2>1, <2>2, <2>3, <2>4
<1>. QED BY <1>2, <1>3, <1>4, <1>5 DEF RunIsReplayable

(* Whatever contexts drive a run, and wherever the process dies, the ledger they leave
   replays, for every context to the outcomes it holds, a receipt decides its step and no
   effect happens twice (begin_step_raw, run_gated_step, complete_step). *)
THEOREM RunReplays == WfSpec => []RunIsReplayable
BY WfInitHolds, WfStepHolds, WfInvIsEnough, PTL DEF WfSpec

(* Timers: a completed step owns its row, a fire its fired row, and the pass of the driver
   is not ahead of the high-water mark. *)
TimerIds == Steps \X Contexts
RowsOwned ==
    /\ \A t \in wfTimers : HasRecord(wfLedger, "completed", t.id[1])
    /\ \A t, u \in wfTimers : t.id[1] = u.id[1] => t = u
PassBehind ==
    /\ wfDriver \in [at : 0..MaxTime, due : SUBSET TimerIds]
    /\ wfDriver.due # {} => wfDriver.at <= wfHigh
FiresOwned ==
    /\ wfFires \in Seq([id : TimerIds, at : 0..MaxTime])
    /\ \A i, j \in DOMAIN wfFires : wfFires[i].id = wfFires[j].id => i = j
    /\ \A i \in DOMAIN wfFires : \E t \in wfTimers :
          /\ t.id = wfFires[i].id /\ t.status = "fired"
          /\ t.at <= wfFires[i].at /\ wfFires[i].at <= wfHigh
TimersInv == WfInv /\ RowsOwned /\ PassBehind /\ FiresOwned

(* Every step keeps the rows of the ledger, and the high-water mark does not fall. *)
LEMMA FiresKept ==
    ASSUME TimersInv, UNCHANGED wfFires, wfHigh' >= wfHigh, wfHigh' \in 0..MaxTime,
           wfTimers \subseteq wfTimers'
    PROVE  FiresOwned'
<1>1. ASSUME NEW i \in DOMAIN wfFires PROVE wfFires[i].at \in 0..MaxTime
  <2>1. PICK R : R = [id : TimerIds, at : 0..MaxTime]
    OBVIOUS
  <2>2. wfFires \in Seq(R)
    BY <2>1 DEF TimersInv, FiresOwned
  <2>3. wfFires[i] \in R
    BY <2>2
  <2>. QED BY <2>1, <2>3
<1>2. wfHigh \in 0..MaxTime
  BY DEF TimersInv, WfInv, Bounds
<1>3. MaxTime \in Nat
  BY WorkflowRunAssumption
<1>4. ASSUME NEW i \in DOMAIN wfFires
      PROVE  \E t \in wfTimers' : /\ t.id = wfFires[i].id /\ t.status = "fired"
                                  /\ t.at <= wfFires[i].at /\ wfFires[i].at <= wfHigh'
  <2>1. PICK t \in wfTimers : /\ t.id = wfFires[i].id /\ t.status = "fired"
                              /\ t.at <= wfFires[i].at /\ wfFires[i].at <= wfHigh
    BY DEF TimersInv, FiresOwned
  <2>2. wfFires[i].at <= wfHigh'
    BY <1>1, <1>2, <1>3, <2>1
  <2>. QED BY <2>1, <2>2
<1>. QED BY <1>4 DEF TimersInv, FiresOwned

LEMMA TimerStepSchedules ==
    ASSUME TimersInv, NEW c \in Contexts, ScheduleTimer(c)
    PROVE  RowsOwned' /\ PassBehind' /\ FiresOwned'
<1>1. PICK x, s : x = wfCtx[c] /\ s = At(x)
  OBVIOUS
<1>2. PICK r : r = Record("completed", s, x.view[s].kind, x.view[s].digest, <<"timer", <<s, c>>>>)
  OBVIOUS
<1>3. PICK n : n = [id |-> <<s, c>>, at |-> x.prog[s + 1].at, status |-> "pending"]
  OBVIOUS
<1>4. /\ wfLedger' = AppendOnce(wfLedger, r)
      /\ wfTimers' = IF HasRecord(wfLedger, "completed", s) THEN wfTimers ELSE wfTimers \cup {n}
      /\ UNCHANGED <<wfFires, wfDriver, wfHigh>>
  BY <1>1, <1>2, <1>3 DEF ScheduleTimer, StepOf, At, KernelUnchanged
<1>5. r.phase = "completed" /\ r.step = s /\ n.id[1] = s
  BY <1>2, <1>3, RowIs
<1>6. \A u : HasRecord(wfLedger, "completed", u) => HasRecord(wfLedger', "completed", u)
  <2>1. \A q : On(wfLedger, q) => On(wfLedger', q)
    <3>1. CASE HasRecord(wfLedger, r.phase, r.step)
      BY <1>4, <3>1 DEF AppendOnce
    <3>2. CASE ~HasRecord(wfLedger, r.phase, r.step)
      <4>1. wfLedger' = Append(wfLedger, r) /\ IsLedger(wfLedger)
        BY <1>4, <3>2 DEF AppendOnce, TimersInv, WfInv, LedgerStands, Sound
      <4>. QED BY <4>1, AppendedIs DEF On
    <3>. QED BY <3>1, <3>2
  <2>. QED BY <2>1, HasIsOn
<1>7. HasRecord(wfLedger', "completed", s)
  <2>1. CASE ~HasRecord(wfLedger, "completed", s)
    <3>1. wfLedger' = Append(wfLedger, r) /\ IsLedger(wfLedger)
      BY <1>4, <1>5, <2>1 DEF AppendOnce, TimersInv, WfInv, LedgerStands, Sound
    <3>2. On(wfLedger', r)
      BY <3>1, AppendedIs DEF On
    <3>. QED BY <1>5, <3>2, HasIsOn
  <2>. QED BY <1>6, <2>1
<1>8. RowsOwned'
  <2>1. ASSUME NEW t \in wfTimers' PROVE HasRecord(wfLedger', "completed", t.id[1])
    BY <1>4, <1>5, <1>6, <1>7 DEF TimersInv, RowsOwned
  <2>2. ASSUME NEW t \in wfTimers', NEW u \in wfTimers', t.id[1] = u.id[1] PROVE t = u
    BY <1>4, <1>5, <2>2 DEF TimersInv, RowsOwned
  <2>. QED BY <2>1, <2>2 DEF RowsOwned
<1>9. PassBehind'
  BY <1>4 DEF TimersInv, PassBehind
<1>10. wfHigh \in 0..MaxTime /\ MaxTime \in Nat
  BY WorkflowRunAssumption DEF TimersInv, WfInv, Bounds
<1>11. FiresOwned'
  BY <1>4, <1>10, FiresKept
<1>. QED BY <1>8, <1>9, <1>11

LEMMA TimerStepFires ==
    ASSUME TimersInv, NEW id \in wfDriver.due, FireTimer(id)
    PROVE  RowsOwned' /\ PassBehind' /\ FiresOwned'
<1>1. PICK at : at = wfDriver.at
  OBVIOUS
<1>2. PICK claimed : claimed = {t \in wfTimers : t.id = id /\ t.status = "pending" /\ t.at <= at}
  OBVIOUS
<1>3. /\ wfTimers' = (wfTimers \ claimed) \cup {[t EXCEPT !.status = "fired"] : t \in claimed}
      /\ wfFires' = IF claimed = {} THEN wfFires ELSE Append(wfFires, [id |-> id, at |-> at])
      /\ wfDriver' = IF wfDriver.due = {id} THEN NoPass ELSE [wfDriver EXCEPT !.due = @ \ {id}]
      /\ UNCHANGED <<wfLedger, wfHigh>>
  BY <1>1, <1>2 DEF FireTimer
<1>4. /\ id \in TimerIds /\ at \in 0..MaxTime /\ at <= wfHigh /\ wfHigh \in 0..MaxTime /\ MaxTime \in Nat
      /\ wfTimers \subseteq Timer
  BY <1>1, WorkflowRunAssumption DEF TimersInv, PassBehind, WfInv, Bounds
<1>5. PassBehind'
  BY <1>3, <1>4 DEF TimersInv, PassBehind, NoPass
<1>6. \A t \in claimed : [t EXCEPT !.status = "fired"].id = t.id /\ [t EXCEPT !.status = "fired"].at = t.at
                         /\ [t EXCEPT !.status = "fired"].status = "fired"
  BY <1>2, <1>4 DEF Timer
<1>7. \A t, u \in wfTimers : t.id[1] = u.id[1] => t = u
  BY DEF TimersInv, RowsOwned
<1>8. \A t \in wfTimers' : \E u \in wfTimers :
         u.id = t.id /\ t = (IF u \in claimed THEN [u EXCEPT !.status = "fired"] ELSE u)
  <2>1. ASSUME NEW t \in wfTimers', t \in wfTimers \ claimed
        PROVE  \E u \in wfTimers :
                  u.id = t.id /\ t = (IF u \in claimed THEN [u EXCEPT !.status = "fired"] ELSE u)
    BY <2>1
  <2>2. ASSUME NEW t \in wfTimers', NEW u \in claimed, t = [u EXCEPT !.status = "fired"]
        PROVE  u \in wfTimers /\ u.id = t.id
    BY <1>2, <1>6, <2>2
  <2>. QED BY <1>3, <2>1, <2>2
<1>9. RowsOwned'
  <2>1. ASSUME NEW t \in wfTimers' PROVE HasRecord(wfLedger', "completed", t.id[1])
    BY <1>3, <1>8 DEF TimersInv, RowsOwned
  <2>2. ASSUME NEW t \in wfTimers', NEW u \in wfTimers', t.id[1] = u.id[1] PROVE t = u
    BY <1>7, <1>8, <2>2
  <2>. QED BY <2>1, <2>2 DEF RowsOwned
<1>10. ASSUME NEW i \in DOMAIN wfFires
       PROVE  \E t \in wfTimers' : /\ t.id = wfFires[i].id /\ t.status = "fired"
                                   /\ t.at <= wfFires[i].at /\ wfFires[i].at <= wfHigh
  <2>1. PICK t \in wfTimers : /\ t.id = wfFires[i].id /\ t.status = "fired"
                              /\ t.at <= wfFires[i].at /\ wfFires[i].at <= wfHigh
    BY DEF TimersInv, FiresOwned
  <2>2. t \in wfTimers'
    BY <1>2, <1>3, <2>1
  <2>. QED BY <2>1, <2>2
<1>11. CASE claimed = {}
  <2>1. UNCHANGED wfFires
    BY <1>3, <1>11
  <2>. QED BY <1>3, <1>5, <1>9, <1>10, <2>1 DEF TimersInv, FiresOwned
<1>12. CASE claimed # {}
  <2>1. PICK t : t \in claimed
    BY <1>12
  <2>2. t \in wfTimers /\ t.id = id /\ t.status = "pending" /\ t.at <= at
    BY <1>2, <2>1
  <2>3. \A i \in DOMAIN wfFires : wfFires[i].id # id
    BY <1>7, <2>2 DEF TimersInv, FiresOwned
  <2>4. PICK e : e = [id |-> id, at |-> at]
    OBVIOUS
  <2>5. wfFires' = Append(wfFires, e) /\ e \in [id : TimerIds, at : 0..MaxTime] /\ e.id = id /\ e.at = at
    BY <1>3, <1>4, <1>12, <2>4
  <2>6. PICK n \in Nat : n = Len(wfFires)
    BY DEF TimersInv, FiresOwned
  <2>7. /\ wfFires' \in Seq([id : TimerIds, at : 0..MaxTime])
        /\ DOMAIN wfFires = 1..n /\ DOMAIN wfFires' = 1..(n + 1) /\ wfFires'[n + 1] = e
        /\ \A i \in 1..n : wfFires'[i] = wfFires[i]
    BY <2>5, <2>6 DEF TimersInv, FiresOwned
  <2>8. ASSUME NEW i \in DOMAIN wfFires', NEW j \in DOMAIN wfFires', wfFires'[i].id = wfFires'[j].id
        PROVE  i = j
    BY <2>3, <2>5, <2>7, <2>8 DEF TimersInv, FiresOwned
  <2>9. ASSUME NEW i \in DOMAIN wfFires'
        PROVE  \E u \in wfTimers' : /\ u.id = wfFires'[i].id /\ u.status = "fired"
                                    /\ u.at <= wfFires'[i].at /\ wfFires'[i].at <= wfHigh'
    <3>1. CASE i = n + 1
      <4>1. PICK u : u = [t EXCEPT !.status = "fired"]
        OBVIOUS
      <4>2. u \in wfTimers' /\ u.id = id /\ u.at = t.at /\ u.status = "fired"
        BY <1>3, <1>6, <2>1, <2>2, <4>1
      <4>3. wfFires'[i] = e /\ wfHigh' = wfHigh
        BY <1>3, <2>7, <3>1
      <4>4. u.at <= e.at /\ e.at <= wfHigh
        <5>1. e.at = at /\ at <= wfHigh
          BY <1>4, <2>5
        <5>2. u.at = t.at /\ t.at <= at
          BY <2>2, <4>2
        <5>. QED BY <5>1, <5>2
      <4>. QED BY <2>5, <4>2, <4>3, <4>4
    <3>2. CASE i # n + 1
      <4>1. i \in 1..n
        BY <2>6, <2>7, <3>2
      <4>2. i \in DOMAIN wfFires /\ wfFires'[i] = wfFires[i] /\ wfHigh' = wfHigh
        BY <1>3, <2>7, <4>1
      <4>. QED BY <1>10, <4>2
    <3>. QED BY <3>1, <3>2
  <2>10. FiresOwned'
    BY <2>7, <2>8, <2>9 DEF FiresOwned
  <2>. QED BY <1>5, <1>9, <2>10
<1>. QED BY <1>11, <1>12

LEMMA TimerStepElse ==
    ASSUME TimersInv, UNCHANGED <<wfTimers, wfFires>>,
           \A u : HasRecord(wfLedger, "completed", u) => HasRecord(wfLedger', "completed", u),
           wfHigh' >= wfHigh, wfHigh' \in 0..MaxTime, PassBehind'
    PROVE  RowsOwned' /\ PassBehind' /\ FiresOwned'
BY FiresKept DEF TimersInv, RowsOwned

(* The rows a context's step finds on the ledger are on it after the step. *)
LEMMA LedgerGrows ==
    ASSUME WfInv, NEW c \in Contexts,
           Rehydrate(c) \/ BeginStep(c) \/ Dispatch(c) \/ RecordReceipt(c) \/ CompleteStep(c)
    PROVE  \A u : HasRecord(wfLedger, "completed", u) => HasRecord(wfLedger', "completed", u)
<1>1. PICK x, s : x = wfCtx[c] /\ s = At(x)
  OBVIOUS
<1>2. CtxStands(wfLedger, x) /\ Shaped(x) /\ ViewStands(wfLedger, x.view) /\ Sound(wfLedger)
  BY <1>1 DEF WfInv, LedgerStands, CtxsStand, CtxStands
<1>3. CASE Rehydrate(c) \/ Dispatch(c)
  BY <1>3 DEF Rehydrate, Dispatch
<1>4. CASE BeginStep(c)
  <2>1. PICK step : step = x.prog[x.cursor + 1]
    OBVIOUS
  <2>2. PICK b : b = BeginStepRaw(wfLedger, x.view, x.cursor, step.kind, step.digest)
    OBVIOUS
  <2>3. x.cursor \in Nat
    BY <1>2, CursorIs
  <2>4. \A q : On(wfLedger, q) => On(b.ledger, q)
    BY <1>2, <2>2, <2>3, BegunIs
  <2>5. wfLedger' = b.ledger
    BY <1>1, <1>4, <2>1, <2>2 DEF BeginStep
  <2>. QED BY <2>4, <2>5, HasIsOn
<1>5. CASE RecordReceipt(c)
  <2>1. x.pc = "landed" /\ x.pc \in Working /\ Holding(x)
    BY <1>1, <1>5 DEF RecordReceipt, Live, Working, Holding
  <2>2. s \in DOMAIN x.view /\ ~HasRecord(wfLedger, "completed", s)
    BY <1>1, <1>2, <2>1 DEF CtxStands, Stepping, WfInv, HoldersStand, Bare
  <2>3. PICK r : r = Stored(wfLedger, x.view, "receipt", s, <<"artifact", c>>)
    OBVIOUS
  <2>4. \A q : On(wfLedger, q) => On(r.ledger, q)
    BY <1>2, <2>2, <2>3, StoredIs
  <2>5. wfLedger' = r.ledger \/ UNCHANGED wfLedger
    BY <1>1, <1>5, <2>3 DEF RecordReceipt, StepOf, At
  <2>. QED BY <2>4, <2>5, HasIsOn
<1>6. CASE CompleteStep(c)
  <2>1. x.pc = "completing" /\ x.pc \in Working
    BY <1>1, <1>6 DEF CompleteStep, Live, Working
  <2>2. s \in DOMAIN x.view
    BY <1>1, <1>2, <2>1 DEF CtxStands, Stepping
  <2>3. PICK r : r = Stored(wfLedger, x.view, "completed", s, x.out)
    OBVIOUS
  <2>4. \A q : On(wfLedger, q) => On(r.ledger, q)
    BY <1>2, <2>2, <2>3, StoredIs
  <2>5. wfLedger' = r.ledger \/ UNCHANGED wfLedger
    BY <1>1, <1>6, <2>3 DEF CompleteStep, StepOf, At
  <2>. QED BY <2>4, <2>5, HasIsOn
<1>. QED BY <1>3, <1>4, <1>5, <1>6

LEMMA HighRises == ASSUME WfInv PROVE wfHigh \in 0..MaxTime /\ wfHigh >= wfHigh
BY WorkflowRunAssumption DEF WfInv, Bounds

(* A pass is listed at the clock it has just raised the high-water mark to. *)
LEMMA TimerStepPasses == ASSUME TimersInv, DriverPass PROVE RowsOwned' /\ PassBehind' /\ FiresOwned'
<1>1. UNCHANGED <<wfTimers, wfFires, wfLedger>>
  BY DEF DriverPass
<1>2. /\ wfHigh \in 0..MaxTime /\ wfClock \in 0..MaxTime /\ MaxTime \in Nat
      /\ wfTimers \subseteq Timer
  BY WorkflowRunAssumption DEF TimersInv, WfInv, Bounds
<1>3. wfHigh' = wfHigh \/ wfHigh' = Later(wfHigh, wfClock)
  BY DEF DriverPass
<1>4. wfHigh' >= wfHigh /\ wfHigh' \in 0..MaxTime
  BY <1>2, <1>3 DEF Later
<1>5. DueTimers(wfClock) \subseteq TimerIds
  BY <1>2 DEF DueTimers, Timer, TimerIds
<1>6. PassBehind'
  <2>1. CASE Regressed
    BY <2>1 DEF DriverPass, TimersInv, PassBehind
  <2>2. CASE ~Regressed
    <3>1. wfHigh' = Later(wfHigh, wfClock) /\ wfClock <= wfHigh'
      BY <1>2, <2>2 DEF DriverPass, Later
    <3>2. wfDriver' = NoPass \/ wfDriver' = [at |-> wfClock, due |-> DueTimers(wfClock)]
      BY <2>2 DEF DriverPass
    <3>. QED BY <1>2, <1>5, <3>1, <3>2 DEF PassBehind, NoPass
  <2>. QED BY <2>1, <2>2
<1>. QED BY <1>1, <1>4, <1>6, TimerStepElse

LEMMA TimersInvHolds == TimersInv /\ [WfNext]_wfVars => TimersInv'
<1> SUFFICES ASSUME TimersInv, [WfNext]_wfVars PROVE RowsOwned' /\ PassBehind' /\ FiresOwned'
  BY WfStepHolds DEF TimersInv
<1>1. WfInv /\ wfHigh \in 0..MaxTime /\ wfHigh >= wfHigh
  BY HighRises DEF TimersInv
<1>2. CASE UNCHANGED wfVars
  BY <1>1, <1>2, TimerStepElse DEF wfVars, TimersInv, PassBehind
<1>3. ASSUME NEW c \in Contexts,
             Rehydrate(c) \/ BeginStep(c) \/ Dispatch(c) \/ RecordReceipt(c) \/ CompleteStep(c)
      PROVE  RowsOwned' /\ PassBehind' /\ FiresOwned'
  <2>1. UNCHANGED <<wfTimers, wfFires, wfDriver, wfHigh>>
    BY <1>3 DEF Rehydrate, BeginStep, Dispatch, RecordReceipt, CompleteStep, KernelUnchanged
  <2>2. \A u : HasRecord(wfLedger, "completed", u) => HasRecord(wfLedger', "completed", u)
    BY <1>1, <1>3, LedgerGrows
  <2>3. PassBehind'
    BY <2>1 DEF TimersInv, PassBehind
  <2>. QED BY <1>1, <2>1, <2>2, <2>3, TimerStepElse
<1>4. ASSUME NEW c \in Contexts, ScheduleTimer(c) PROVE RowsOwned' /\ PassBehind' /\ FiresOwned'
  BY <1>4, TimerStepSchedules
<1>5. ASSUME NEW id \in wfDriver.due, FireTimer(id) PROVE RowsOwned' /\ PassBehind' /\ FiresOwned'
  BY <1>5, TimerStepFires
<1>6. CASE DriverPass
  BY <1>6, TimerStepPasses
<1>7. CASE WfTick \/ StepBack \/ WfCrash \/ Boot
  <2>1. UNCHANGED <<wfTimers, wfFires, wfLedger>>
    BY <1>7 DEF WfTick, StepBack, WfCrash, Boot
  <2>2. wfHigh' >= wfHigh /\ wfHigh' \in 0..MaxTime
    <3>1. wfHigh' = wfHigh \/ wfHigh' = Later(wfHigh, wfClock)
      BY <1>7 DEF WfTick, StepBack, WfCrash, Boot
    <3>2. wfClock \in 0..MaxTime /\ MaxTime \in Nat
      BY <1>1, WorkflowRunAssumption DEF WfInv, Bounds
    <3>. QED BY <1>1, <3>1, <3>2 DEF Later
  <2>3. PassBehind'
    <3>1. CASE wfDriver' = NoPass
      <4>1. MaxTime \in Nat
        BY WorkflowRunAssumption
      <4>. QED BY <3>1, <4>1 DEF PassBehind, NoPass
    <3>2. CASE UNCHANGED wfDriver
      <4>1. /\ wfDriver.at \in 0..MaxTime
            /\ wfDriver \in [at : 0..MaxTime, due : SUBSET TimerIds]
            /\ wfDriver.due # {} => wfDriver.at <= wfHigh
        BY DEF TimersInv, PassBehind
      <4>2. wfDriver.due # {} => wfDriver.at <= wfHigh'
        BY <1>1, <2>2, <4>1
      <4>. QED BY <3>2, <4>1, <4>2 DEF PassBehind
    <3>. QED BY <1>7, <3>1, <3>2 DEF WfTick, StepBack, WfCrash, Boot
  <2>. QED BY <2>1, <2>2, <2>3, TimerStepElse
<1>. QED BY <1>2, <1>3, <1>4, <1>5, <1>6, <1>7 DEF WfNext

LEMMA TimersInvStarts == WfInit => TimersInv
<1> SUFFICES ASSUME WfInit PROVE TimersInv
  OBVIOUS
<1>1. wfTimers = {} /\ wfDriver = NoPass /\ wfFires = <<>>
  BY DEF WfInit
<1>2. RowsOwned /\ PassBehind
  BY <1>1, WorkflowRunAssumption DEF RowsOwned, PassBehind, NoPass
<1>3. FiresOwned
  BY <1>1 DEF FiresOwned
<1>. QED BY <1>2, <1>3, WfInitHolds DEF TimersInv

(* Whatever contexts schedule and wherever the process dies, a timer step owns one timer
   row and a timer fires at most once, at a trusted time not before its deadline and not
   after the persisted high-water mark (schedule_workflow_timer_step, fire_workflow_timer,
   observe_runtime_clock). *)
THEOREM OneFirePerTimer == WfSpec => []OneTimerOneFire
<1>1. TimersInv => OneTimerOneFire
  BY DEF TimersInv, RowsOwned, FiresOwned, OneTimerOneFire
<1>. QED BY <1>1, TimersInvStarts, TimersInvHolds, PTL DEF WfSpec

------------------------------------------------------------------------------
(* State machine: a view whose steps below n are complete, and that may hold the intent
   of step n. *)
Stepped(v, n) ==
    /\ n \in Nat /\ CompletedSteps(v) = 0..(n - 1)
    /\ DOMAIN v = 0..(n - 1) \/ DOMAIN v = 0..n
KindsFit(v) ==
    \A s \in DOMAIN v : /\ v[s].kind \in TransitionKinds \cup {"definition"}
                        /\ v[s].kind = "definition" <=> s = 0
(* The state in which step n is begun. *)
StateIn(m, v, n) == IF n <= 1 THEN Manifests[m].initial ELSE v[n - 1].completed.target

LEMMA LastIs == ASSUME NEW n \in Nat, n >= 2 PROVE LastOf(1..(n - 1)) = n - 1
<1>1. n - 1 \in 1..(n - 1) /\ \A t \in 1..(n - 1) : t <= n - 1
  OBVIOUS
<1>2. PICK k : k = LastOf(1..(n - 1))
  OBVIOUS
<1>3. k \in 1..(n - 1) /\ \A t \in 1..(n - 1) : t <= k
  BY <1>1, <1>2 DEF LastOf
<1>4. k = n - 1
  BY <1>1, <1>3
<1>. QED BY <1>2, <1>4

LEMMA MovesAre ==
    ASSUME NEW v, NEW n, Stepped(v, n), KindsFit(v)
    PROVE  Moves(v) = 1..(n - 1)
<1>1. \A s : s \in CompletedSteps(v) => s \in DOMAIN v
  BY DEF CompletedSteps
<1>2. \A s \in CompletedSteps(v) : v[s].kind \in TransitionKinds <=> s # 0
  BY <1>1 DEF KindsFit, TransitionKinds
<1>3. n \in Nat /\ CompletedSteps(v) = 0..(n - 1)
  BY DEF Stepped
<1>. QED BY <1>2, <1>3 DEF Moves

LEMMA EarlierIs ==
    ASSUME NEW v, NEW n, Stepped(v, n), KindsFit(v), NEW s \in 0..n
    PROVE  /\ Stepped(Earlier(v, s), s) /\ KindsFit(Earlier(v, s))
           /\ \A t \in 0..(s - 1) : Earlier(v, s)[t] = v[t]
<1>1. n \in Nat /\ s \in Nat /\ s <= n /\ CompletedSteps(v) = 0..(n - 1)
  BY DEF Stepped
<1>2. {u \in DOMAIN v : u < s} = 0..(s - 1)
  <2>1. CASE DOMAIN v = 0..(n - 1)
    BY <1>1, <2>1
  <2>2. CASE DOMAIN v = 0..n
    BY <1>1, <2>2
  <2>. QED BY <2>1, <2>2 DEF Stepped
<1>3. PICK e : e = Earlier(v, s)
  OBVIOUS
<1>4. DOMAIN e = 0..(s - 1) /\ \A t \in 0..(s - 1) : e[t] = v[t]
  BY <1>2, <1>3 DEF Earlier
<1>5. \A t \in 0..(s - 1) : t \in DOMAIN v /\ t \in CompletedSteps(v)
  BY <1>1, <1>2
<1>6. CompletedSteps(e) = 0..(s - 1)
  BY <1>4, <1>5 DEF CompletedSteps
<1>7. KindsFit(e)
  BY <1>4, <1>5 DEF KindsFit
<1>. QED BY <1>1, <1>3, <1>4, <1>6, <1>7 DEF Stepped

LEMMA StateIs ==
    ASSUME NEW m, NEW v, NEW n, Stepped(v, n), KindsFit(v)
    PROVE  StateAfter(m, v) = StateIn(m, v, n)
<1>1. Moves(v) = 1..(n - 1) /\ n \in Nat
  BY MovesAre DEF Stepped
<1>2. CASE n <= 1
  <2>1. Moves(v) = {}
    <3>1. 1..(n - 1) = {}
      BY <1>1, <1>2
    <3>. QED BY <1>1, <3>1, Zenon
  <2>. QED BY <1>2, <2>1 DEF StateAfter, StateIn
<1>3. CASE n >= 2
  <2>1. LastOf(Moves(v)) = n - 1 /\ Moves(v) # {} /\ ~(n <= 1)
    <3>1. LastOf(1..(n - 1)) = n - 1 /\ n - 1 \in 1..(n - 1) /\ ~(n <= 1)
      BY <1>1, <1>3, LastIs
    <3>. QED BY <1>1, <3>1, Zenon
  <2>. QED BY <2>1 DEF StateAfter, StateIn
<1>. QED BY <1>1, <1>2, <1>3

LEMMA StateBeforeIs ==
    ASSUME NEW m, NEW v, NEW n, Stepped(v, n), KindsFit(v), NEW s \in 0..n
    PROVE  StateBefore(m, v, s) = StateIn(m, v, s)
<1>1. PICK e : e = Earlier(v, s)
  OBVIOUS
<1>2. Stepped(e, s) /\ KindsFit(e) /\ \A t \in 0..(s - 1) : e[t] = v[t]
  BY <1>1, EarlierIs
<1>3. StateAfter(m, e) = StateIn(m, e, s)
  BY <1>2, StateIs
<1>4. StateIn(m, e, s) = StateIn(m, v, s)
  <2>1. CASE s <= 1
    BY <2>1 DEF StateIn
  <2>2. CASE ~(s <= 1)
    <3>1. s - 1 \in 0..(s - 1)
      BY <2>2 DEF Stepped
    <3>. QED BY <1>2, <2>2, <3>1 DEF StateIn
  <2>. QED BY <2>1, <2>2
<1>. QED BY <1>1, <1>3, <1>4 DEF StateBefore

LEMMA FirstIs ==
    ASSUME NEW v, NEW n, Stepped(v, n)
    PROVE  FirstIncomplete(v) = n
<1>1. n \in Nat /\ CompletedSteps(v) = 0..(n - 1)
  BY DEF Stepped
<1>2. PICK z \in Nat : z = Cardinality(DOMAIN v) /\ n <= z
  <2>1. CASE DOMAIN v = 0..(n - 1)
    <3>1. Cardinality(0..(n - 1)) = IF 0 <= n - 1 THEN (n - 1) - 0 + 1 ELSE 0
      BY <1>1, FS_Interval
    <3>. QED BY <1>1, <2>1, <3>1
  <2>2. CASE DOMAIN v = 0..n
    <3>1. Cardinality(0..n) = IF 0 <= n THEN n - 0 + 1 ELSE 0
      BY <1>1, FS_Interval
    <3>. QED BY <1>1, <2>2, <3>1
  <2>. QED BY <2>1, <2>2 DEF Stepped
<1>3. PICK f : f = FirstIncomplete(v)
  OBVIOUS
<1>4. f = CHOOSE k \in 0..z : k \notin CompletedSteps(v) /\ \A j \in 0..(k - 1) : j \in CompletedSteps(v)
  BY <1>2, <1>3 DEF FirstIncomplete
<1>5. n \in 0..z /\ n \notin CompletedSteps(v) /\ \A j \in 0..(n - 1) : j \in CompletedSteps(v)
  BY <1>1, <1>2
<1>6. f \in 0..z /\ f \notin CompletedSteps(v) /\ \A j \in 0..(f - 1) : j \in CompletedSteps(v)
  BY <1>4, <1>5
<1>7. f = n
  <2>1. f \in Nat /\ ~(f < n)
    BY <1>1, <1>2, <1>6
  <2>2. ~(n < f)
    BY <1>1, <1>2, <1>5, <1>6
  <2>. QED BY <1>1, <2>1, <2>2
<1>. QED BY <1>3, <1>7

(* What a completed step holds, by the kind and the digest of its intent. *)
OutFor(kind, digest) ==
    CASE kind = "definition"    -> [target |-> digest]
      [] kind = "entry_binding" -> digest[2]
      [] kind = "transition"    -> [target |-> digest[2]]
      [] kind = "approval"      -> [target |-> digest[3]]
OutAt(v, s) == OutFor(v[s].kind, v[s].digest)

(* Step s is the intent, or the record, of a declared move out of its state, and a
   departure of the approval that the state's entry bound. *)
MoveFits(m, v, s) ==
    /\ <<StateIn(m, v, s), OutAt(v, s).target>> \in Manifests[m].edges
    /\ Required(m, StateIn(m, v, s)) <=> v[s].kind = "approval"
    /\ Required(m, OutAt(v, s).target) <=> v[s].kind = "entry_binding"
    /\ v[s].kind = "approval" =>
          /\ s >= 2 /\ v[s - 1].kind = "entry_binding"
          /\ v[s].digest = DepartureDigest(StateIn(m, v, s), OutAt(v, s).target, v[s - 1].completed)
DepartureApproved(v, s, approvals) ==
    v[s].kind = "approval" =>
        \E r \in DOMAIN ActionRequests :
            /\ approvals[r] # None /\ v[s - 1].completed.request = r
            /\ v[s - 1].completed.digest = approvals[r].digest

(* The run is a path of the manifest of its step 0. *)
PathStands(v, approvals) ==
    /\ \E n : Stepped(v, n)
    /\ KindsFit(v)
    /\ \A s \in DOMAIN v : OutAt(v, s) # None /\ v[s].completed \in {None, OutAt(v, s)}
    /\ 0 \in DOMAIN v => v[0].digest \in DOMAIN Manifests
    /\ \A s \in DOMAIN v \ {0} : MoveFits(v[0].digest, v, s) /\ DepartureApproved(v, s, approvals)

(* What a view holds, another holds too. *)
Below(v, w) ==
    \A s \in DOMAIN v : /\ s \in DOMAIN w /\ v[s].kind = w[s].kind /\ v[s].digest = w[s].digest
                        /\ v[s].completed # None => v[s].completed = w[s].completed
SameView(v, w) == Below(v, w) /\ Below(w, v)
Begins(v, w, s, kind, digest) ==
    /\ s \notin DOMAIN v /\ DOMAIN w = DOMAIN v \cup {s} /\ Below(v, w)
    /\ \A t \in DOMAIN v : w[t].completed = v[t].completed
    /\ w[s].kind = kind /\ w[s].digest = digest /\ w[s].completed = None
Finishes(v, w, s, out) ==
    /\ s \in DOMAIN v /\ DOMAIN w = DOMAIN v /\ Below(v, w)
    /\ \A t \in DOMAIN v \ {s} : w[t].completed = v[t].completed
    /\ v[s].completed = None /\ w[s].completed = out

LEMMA SameOut ==
    ASSUME NEW v, NEW w, Below(v, w), NEW s \in DOMAIN v
    PROVE  OutAt(v, s) = OutAt(w, s)
BY DEF Below, OutAt

(* The fit of a step rests on the step and the one before. *)
LEMMA FitKept ==
    ASSUME NEW m, NEW v, NEW w, NEW s \in Nat \ {0}, s \in DOMAIN v, Below(v, w), s >= 2 => s - 1 \in CompletedSteps(v)
    PROVE  /\ StateIn(m, v, s) = StateIn(m, w, s)
           /\ MoveFits(m, v, s) => MoveFits(m, w, s)
           /\ \A approvals : MoveFits(m, v, s) /\ DepartureApproved(v, s, approvals)
                => DepartureApproved(w, s, approvals)
<1>1. s >= 2 => s - 1 \in DOMAIN v /\ w[s - 1].completed = v[s - 1].completed /\ w[s - 1].kind = v[s - 1].kind
  BY DEF Below, CompletedSteps
<1>2. StateIn(m, v, s) = StateIn(m, w, s)
  BY <1>1 DEF StateIn
<1>3. v[s].kind = w[s].kind /\ v[s].digest = w[s].digest /\ OutAt(v, s) = OutAt(w, s)
  BY SameOut DEF Below
<1>4. ASSUME MoveFits(m, v, s) PROVE MoveFits(m, w, s)
  BY <1>1, <1>2, <1>3, <1>4 DEF MoveFits
<1>5. ASSUME NEW approvals, MoveFits(m, v, s), DepartureApproved(v, s, approvals)
      PROVE  DepartureApproved(w, s, approvals)
  BY <1>1, <1>3, <1>5 DEF DepartureApproved, MoveFits
<1>. QED BY <1>2, <1>4, <1>5

LEMMA PathSteps ==
    ASSUME NEW v, NEW approvals, PathStands(v, approvals), NEW s \in DOMAIN v
    PROVE  s \in Nat /\ (s >= 2 => s - 1 \in CompletedSteps(v))
<1>1. PICK n : Stepped(v, n)
  BY DEF PathStands
<1>2. n \in Nat /\ CompletedSteps(v) = 0..(n - 1) /\ s \in 0..n
  BY <1>1 DEF Stepped
<1>. QED BY <1>2

LEMMA PathSame ==
    ASSUME NEW v, NEW w, NEW approvals, PathStands(v, approvals), SameView(v, w)
    PROVE  PathStands(w, approvals)
<1>1. DOMAIN w = DOMAIN v /\ \A s \in DOMAIN v : w[s].kind = v[s].kind /\ w[s].digest = v[s].digest
  BY DEF SameView, Below
<1>2. \A s \in DOMAIN v : w[s].completed = v[s].completed
  BY DEF SameView, Below
<1>3. CompletedSteps(w) = CompletedSteps(v)
  BY <1>1, <1>2 DEF CompletedSteps
<1>4. (\E n : Stepped(w, n)) /\ KindsFit(w)
  BY <1>1, <1>3 DEF PathStands, Stepped, KindsFit
<1>5. \A s \in DOMAIN w : OutAt(w, s) # None /\ w[s].completed \in {None, OutAt(w, s)}
  BY <1>1, <1>2, SameOut DEF PathStands, SameView
<1>6. \A s \in DOMAIN w \ {0} : MoveFits(w[0].digest, w, s) /\ DepartureApproved(w, s, approvals)
  <2>1. SUFFICES ASSUME NEW s \in DOMAIN w \ {0}
                 PROVE  MoveFits(w[0].digest, w, s) /\ DepartureApproved(w, s, approvals)
    OBVIOUS
  <2>2. s \in Nat \ {0} /\ s \in DOMAIN v /\ (s >= 2 => s - 1 \in CompletedSteps(v)) /\ Below(v, w)
    BY <1>1, PathSteps DEF SameView
  <2>3. 0 \in DOMAIN v
    BY <2>2 DEF PathStands, Stepped
  <2>4. MoveFits(v[0].digest, v, s) /\ DepartureApproved(v, s, approvals) /\ w[0].digest = v[0].digest
    BY <1>1, <2>2, <2>3 DEF PathStands
  <2>. QED BY <2>2, <2>4, FitKept
<1>. QED BY <1>1, <1>4, <1>5, <1>6 DEF PathStands

LEMMA PathBegins ==
    ASSUME NEW v, NEW w, NEW approvals, PathStands(v, approvals), NEW s, NEW kind, NEW digest,
           Begins(v, w, s, kind, digest),
           CompletedSteps(v) = 0..(s - 1), DOMAIN v = 0..(s - 1), s \in Nat,
           kind \in TransitionKinds \cup {"definition"}, kind = "definition" <=> s = 0,
           OutFor(kind, digest) # None,
           s = 0 => digest \in DOMAIN Manifests,
           s # 0 => MoveFits(w[0].digest, w, s) /\ DepartureApproved(w, s, approvals)
    PROVE  PathStands(w, approvals)
<1>1. DOMAIN w = 0..s
  BY DEF Begins
<1>2. CompletedSteps(w) = 0..(s - 1)
  BY DEF Begins, CompletedSteps
<1>3. Stepped(w, s)
  BY <1>1, <1>2 DEF Stepped
<1>4. \A t \in DOMAIN w : t = s \/ t \in DOMAIN v
  BY DEF Begins
<1>5. \A t \in DOMAIN v : w[t].kind = v[t].kind /\ w[t].digest = v[t].digest /\ w[t].completed = v[t].completed
  BY DEF Begins, Below
<1>6. w[s].kind = kind /\ w[s].digest = digest /\ w[s].completed = None /\ Below(v, w)
  BY DEF Begins
<1>7. KindsFit(w)
  BY <1>4, <1>5, <1>6 DEF KindsFit, PathStands
<1>8. \A t \in DOMAIN w : OutAt(w, t) # None /\ w[t].completed \in {None, OutAt(w, t)}
  <2>1. ASSUME NEW t \in DOMAIN v PROVE OutAt(w, t) # None /\ w[t].completed \in {None, OutAt(w, t)}
    BY <1>5, <1>6, SameOut DEF PathStands
  <2>2. OutAt(w, s) # None /\ w[s].completed \in {None, OutAt(w, s)}
    BY <1>6 DEF OutAt
  <2>. QED BY <1>4, <2>1, <2>2
<1>9. w[0].digest \in DOMAIN Manifests
  <2>1. CASE s = 0
    BY <1>6, <2>1
  <2>2. CASE s # 0
    <3>1. 0 \in DOMAIN v
      BY <2>2
    <3>. QED BY <1>5, <3>1 DEF PathStands
  <2>. QED BY <2>1, <2>2
<1>10. ASSUME NEW t \in DOMAIN w \ {0}
       PROVE  MoveFits(w[0].digest, w, t) /\ DepartureApproved(w, t, approvals)
  <2>1. CASE t = s
    BY <1>10, <2>1
  <2>2. CASE t # s
    <3>1. t \in DOMAIN v /\ t \in Nat \ {0} /\ (t >= 2 => t - 1 \in CompletedSteps(v)) /\ 0 \in DOMAIN v
      BY <1>1, <1>4, <1>10, <2>2
    <3>2. MoveFits(v[0].digest, v, t) /\ DepartureApproved(v, t, approvals) /\ w[0].digest = v[0].digest
      BY <1>5, <3>1 DEF PathStands
    <3>. QED BY <1>6, <3>1, <3>2, FitKept
  <2>. QED BY <2>1, <2>2
<1>. QED BY <1>3, <1>7, <1>8, <1>9, <1>10 DEF PathStands

LEMMA PathFinishes ==
    ASSUME NEW v, NEW w, NEW approvals, PathStands(v, approvals), NEW s,
           Finishes(v, w, s, OutAt(v, s))
    PROVE  PathStands(w, approvals)
<1>1. PICK n : Stepped(v, n)
  BY DEF PathStands
<1>2. /\ s \in DOMAIN v /\ DOMAIN w = DOMAIN v /\ Below(v, w) /\ v[s].completed = None
      /\ w[s].completed = OutAt(v, s) /\ OutAt(v, s) # None
      /\ \A t \in DOMAIN v \ {s} : w[t].completed = v[t].completed
      /\ \A t \in DOMAIN v : w[t].kind = v[t].kind /\ w[t].digest = v[t].digest
  BY DEF Finishes, Below, PathStands
<1>3. n \in Nat /\ CompletedSteps(v) = 0..(n - 1) /\ s \notin CompletedSteps(v)
  BY <1>1, <1>2 DEF Stepped, CompletedSteps
<1>4. s = n /\ DOMAIN v = 0..n
  BY <1>1, <1>2, <1>3 DEF Stepped
<1>5. CompletedSteps(w) = 0..((n + 1) - 1)
  <2>1. CompletedSteps(w) = CompletedSteps(v) \cup {s}
    BY <1>2 DEF CompletedSteps
  <2>. QED BY <1>3, <1>4, <2>1
<1>6. Stepped(w, n + 1)
  <2>1. DOMAIN w = 0..((n + 1) - 1)
    BY <1>2, <1>3, <1>4
  <2>. QED BY <1>3, <1>5, <2>1 DEF Stepped
<1>7. KindsFit(w)
  BY <1>2 DEF KindsFit, PathStands
<1>8. \A t \in DOMAIN w : OutAt(w, t) # None /\ w[t].completed \in {None, OutAt(w, t)}
  BY <1>2, SameOut DEF PathStands
<1>9. ASSUME NEW t \in DOMAIN w \ {0}
      PROVE  MoveFits(w[0].digest, w, t) /\ DepartureApproved(w, t, approvals)
  <2>1. t \in DOMAIN v /\ t \in Nat \ {0} /\ (t >= 2 => t - 1 \in CompletedSteps(v)) /\ 0 \in DOMAIN v
    BY <1>2, <1>3, <1>4, <1>9, PathSteps
  <2>2. MoveFits(v[0].digest, v, t) /\ DepartureApproved(v, t, approvals) /\ w[0].digest = v[0].digest
    BY <1>2, <2>1 DEF PathStands
  <2>. QED BY <1>2, <2>1, <2>2, FitKept
<1>10. 0 \in DOMAIN w => w[0].digest \in DOMAIN Manifests
  BY <1>2 DEF PathStands
<1>. QED BY <1>6, <1>7, <1>8, <1>9, <1>10 DEF PathStands

(* A run that is paired holds the rows of its ledger. *)
LEMMA PairIs ==
    ASSUME NEW L, Sound(L), NEW v, v = PairSteps(L)
    PROVE  /\ ViewStands(L, v)
           /\ \A s : s \in DOMAIN v <=> HasRecord(L, "pending", s)
           /\ \A q : On(L, q) /\ q.phase = "completed" =>
                 q.step \in DOMAIN v /\ v[q.step].completed = q.out
<1>1. ViewStands(L, v) /\ DOMAIN v = {L[i].step : i \in DOMAIN L}
  BY PairedStands
<1>2. ASSUME NEW q, On(L, q) PROVE q.step \in DOMAIN v
  BY <1>1, <1>2 DEF On
<1>3. ASSUME NEW s, HasRecord(L, "pending", s) PROVE s \in DOMAIN v
  BY <1>2, <1>3, HasIsOn
<1>4. ASSUME NEW s \in DOMAIN v PROVE HasRecord(L, "pending", s)
  <2>1. On(L, Record("pending", s, v[s].kind, v[s].digest, None))
    BY <1>1 DEF ViewStands, EntryStands
  <2>. QED BY <2>1, HasIsOn, RowIs
<1>5. ASSUME NEW q, On(L, q), q.phase = "completed" PROVE v[q.step].completed = q.out
  <2>1. OutOf(L, "completed", q.step) = q.out
    BY <1>5, OutIs
  <2>2. v[q.step].completed = OutOf(L, "completed", q.step)
    BY <1>1, <1>2, <1>5 DEF PairSteps
  <2>. QED BY <2>1, <2>2
<1>. QED BY <1>1, <1>2, <1>3, <1>4, <1>5

LEMMA ViewBelow ==
    ASSUME NEW L, Sound(L), NEW v, ViewStands(L, v), NEW w, w = PairSteps(L)
    PROVE  Below(v, w)
<1>1. SUFFICES ASSUME NEW s \in DOMAIN v
      PROVE  /\ s \in DOMAIN w /\ v[s].kind = w[s].kind /\ v[s].digest = w[s].digest
             /\ v[s].completed # None => v[s].completed = w[s].completed
  BY DEF Below
<1>2. PICK e : e = v[s]
  OBVIOUS
<1>3. PICK p : p = Record("pending", s, e.kind, e.digest, None)
  OBVIOUS
<1>4. On(L, p) /\ p.phase = "pending" /\ p.step = s /\ p.kind = e.kind /\ p.digest = e.digest
  BY <1>2, <1>3, RowIs DEF ViewStands, EntryStands
<1>5. s \in DOMAIN w
  BY <1>4, PairIs, HasIsOn
<1>6. PICK r : r = Record("pending", s, w[s].kind, w[s].digest, None)
  OBVIOUS
<1>7. On(L, r) /\ r.phase = "pending" /\ r.step = s /\ r.kind = w[s].kind /\ r.digest = w[s].digest
  BY <1>5, <1>6, PairIs, RowIs DEF ViewStands, EntryStands
<1>8. p = r
  BY <1>4, <1>7, RowsUnique
<1>9. ASSUME e.completed # None PROVE e.completed = w[s].completed
  <2>1. PICK q : q = Record("completed", s, e.kind, e.digest, e.completed)
    OBVIOUS
  <2>2. On(L, q) /\ q.phase = "completed" /\ q.step = s /\ q.out = e.completed
    BY <1>2, <1>9, <2>1, RowIs DEF ViewStands, EntryStands
  <2>. QED BY <2>2, PairIs
<1>. QED BY <1>2, <1>4, <1>5, <1>7, <1>8, <1>9

(* What the view of a context is told of a step it begins. *)
LEMMA BegunEntry ==
    ASSUME NEW L, Sound(L), NEW view, ViewStands(L, view), NEW cursor \in Nat, NEW kind, NEW digest,
           NEW b, b = BeginStepRaw(L, view, cursor, kind, digest)
    PROVE  /\ b.res = "replayed" => cursor \in DOMAIN view /\ view[cursor].completed # None
           /\ b.res \in {"fresh", "resuming"} => b.view[cursor].completed = None
           /\ b.res = "resuming" => HasRecord(L, "pending", cursor)
           /\ b.res = "fresh" => cursor \notin DOMAIN view
           /\ b.res # "diverged" => b.view[cursor].digest = digest
<1>0. ASSUME NEW res, NEW l, NEW v
      PROVE  Begun(res, l, v).res = res /\ Begun(res, l, v).ledger = l /\ Begun(res, l, v).view = v
  BY DEF Begun
<1>1. PICK size \in Nat : size = Cardinality(DOMAIN view)
  BY ViewIsFinite
<1>2. CASE cursor \in DOMAIN view
  <2>1. HasRecord(L, "pending", cursor)
    BY <1>2, HasIsOn, RowIs DEF ViewStands, EntryStands
  <2>2. CASE view[cursor].kind # kind \/ view[cursor].digest # digest
    <3>1. b = Begun("diverged", L, view)
      BY <1>2, <2>2 DEF BeginStepRaw
    <3>. QED BY <1>0, <3>1
  <2>3. CASE ~(view[cursor].kind # kind \/ view[cursor].digest # digest)
    <3>1. b = Begun(IF view[cursor].completed = None THEN "resuming" ELSE "replayed", L, view)
      BY <1>2, <2>3 DEF BeginStepRaw
    <3>2. b.res = (IF view[cursor].completed = None THEN "resuming" ELSE "replayed") /\ b.view = view
      BY <1>0, <3>1
    <3>. QED BY <1>2, <2>1, <2>3, <3>2
  <2>. QED BY <2>2, <2>3
<1>3. CASE cursor \notin DOMAIN view /\ cursor < size
  <2>1. b = Begun("diverged", L, view)
    BY <1>1, <1>3 DEF BeginStepRaw
  <2>. QED BY <1>0, <2>1
<1>4. CASE cursor \notin DOMAIN view /\ cursor >= size
  <2> DEFINE entry == [kind |-> kind, digest |-> digest, receipt |-> None, completed |-> None]
  <2> DEFINE intent == Record("pending", cursor, kind, digest, None)
  <2>1. PICK seen : seen = [s \in DOMAIN view \cup {cursor} |->
                               IF s \in DOMAIN view THEN view[s] ELSE entry]
    OBVIOUS
  <2>2. seen[cursor] = entry
    BY <1>4, <2>1
  <2>3. CASE Canonical(L, intent) # intent
    <3>1. b = Begun("diverged", L, view)
      BY <1>1, <1>4, <2>3 DEF BeginStepRaw
    <3>. QED BY <1>0, <3>1
  <2>4. CASE Canonical(L, intent) = intent
    <3>1. b = Begun(IF HasRecord(L, "pending", cursor) THEN "resuming" ELSE "fresh",
                    AppendOnce(L, intent), seen)
      BY <1>1, <1>4, <2>1, <2>4 DEF BeginStepRaw
    <3>2. b.res = (IF HasRecord(L, "pending", cursor) THEN "resuming" ELSE "fresh") /\ b.view = seen
      BY <1>0, <3>1
    <3>. QED BY <1>4, <2>2, <3>2
  <2>. QED BY <2>3, <2>4
<1>. QED BY <1>1, <1>2, <1>3, <1>4

(* Beginning a step adds its intent to the run, or nothing. *)
LEMMA RunBegins ==
    ASSUME NEW L, Sound(L), NEW view, ViewStands(L, view), NEW cursor \in Nat, NEW kind, NEW digest,
           NEW b, b = BeginStepRaw(L, view, cursor, kind, digest),
           NEW v, v = PairSteps(L), NEW w, w = PairSteps(b.ledger)
    PROVE  /\ b.res # "fresh" => SameView(v, w)
           /\ b.res = "fresh" => Begins(v, w, cursor, kind, digest)
<1>1. PICK r : r = Record("pending", cursor, kind, digest, None)
  OBVIOUS
<1>2. r.phase = "pending" /\ r.step = cursor
  BY <1>1, RowIs
<1>3. /\ Sound(b.ledger) /\ ViewStands(b.ledger, b.view)
      /\ \A q : On(L, q) => On(b.ledger, q)
      /\ \A q : On(b.ledger, q) => On(L, q) \/ (q = r /\ b.res = "fresh")
      /\ b.res = "fresh" => ~HasRecord(L, "pending", cursor)
      /\ b.res # "diverged" => /\ DOMAIN b.view = DOMAIN view \cup {cursor}
                               /\ b.view[cursor].kind = kind /\ b.view[cursor].digest = digest
  BY <1>1, BegunIs
<1>4. ViewStands(L, v) /\ Below(v, w)
  <2>1. ViewStands(L, v)
    BY PairIs
  <2>2. ViewStands(b.ledger, v)
    BY <1>3, <2>1, ViewKept
  <2>. QED BY <1>3, <2>1, <2>2, ViewBelow
<1>5. ASSUME NEW s \in DOMAIN v PROVE w[s].completed = v[s].completed
  <2>1. CASE v[s].completed # None
    BY <1>4, <2>1 DEF Below
  <2>2. CASE w[s].completed # None
    <3>1. PICK q : q = Record("completed", s, w[s].kind, w[s].digest, w[s].completed)
      OBVIOUS
    <3>2. On(b.ledger, q) /\ q.phase = "completed" /\ q.step = s /\ q.out = w[s].completed
      BY <1>3, <1>4, <2>2, <3>1, PairIs, RowIs DEF Below, ViewStands, EntryStands
    <3>3. On(L, q)
      BY <1>2, <1>3, <3>2
    <3>. QED BY <3>2, <3>3, PairIs
  <2>. QED BY <2>1, <2>2
<1>6. \A s : s \in DOMAIN w => s \in DOMAIN v \/ (s = cursor /\ b.res = "fresh")
  BY <1>2, <1>3, PairIs, HasIsOn
<1>7. CASE b.res # "fresh"
  BY <1>4, <1>5, <1>6, <1>7 DEF SameView, Below
<1>8. CASE b.res = "fresh"
  <2>1. cursor \notin DOMAIN v
    BY <1>3, <1>8, PairIs
  <2>2. Below(b.view, w)
    BY <1>3, ViewBelow
  <2>3. cursor \in DOMAIN w /\ w[cursor].kind = kind /\ w[cursor].digest = digest
    BY <1>3, <1>8, <2>2 DEF Below
  <2>4. w[cursor].completed = None
    <3>1. SUFFICES ASSUME w[cursor].completed # None PROVE FALSE
      OBVIOUS
    <3>2. PICK q : q = Record("completed", cursor, w[cursor].kind, w[cursor].digest, w[cursor].completed)
      OBVIOUS
    <3>3. On(b.ledger, q) /\ q.phase = "completed" /\ q.step = cursor
      BY <1>3, <2>3, <3>1, <3>2, PairIs, RowIs DEF ViewStands, EntryStands
    <3>4. On(L, q)
      BY <1>2, <1>3, <3>3
    <3>. QED BY <2>1, <3>3, <3>4, PairIs
  <2>5. DOMAIN w = DOMAIN v \cup {cursor}
    BY <1>4, <1>6, <2>3 DEF Below
  <2>. QED BY <1>8, <1>4, <1>5, <2>1, <2>3, <2>4, <2>5 DEF Begins
<1>. QED BY <1>7, <1>8

(* Storing a completion completes the step of the run, or nothing. *)
LEMMA RunFinishes ==
    ASSUME NEW L, Sound(L), NEW view, ViewStands(L, view), NEW s \in DOMAIN view, NEW value, value # None,
           NEW st, st = Stored(L, view, "completed", s, value),
           NEW v, v = PairSteps(L), NEW w, w = PairSteps(st.ledger)
    PROVE  SameView(v, w) \/ Finishes(v, w, s, value)
<1>1. PICK r : r = Record("completed", s, view[s].kind, view[s].digest, value)
  OBVIOUS
<1>2. r.phase = "completed" /\ r.step = s /\ r.out = value
  BY <1>1, RowIs
<1>3. /\ Sound(st.ledger) /\ \A q : On(L, q) => On(st.ledger, q)
      /\ \A q : On(st.ledger, q) => On(L, q) \/ (q = r /\ ~HasRecord(L, "completed", s))
  BY <1>1, StoredIs
<1>4. ViewStands(L, v) /\ Below(v, w)
  <2>1. ViewStands(L, v)
    BY PairIs
  <2>2. ViewStands(st.ledger, v)
    BY <1>3, <2>1, ViewKept
  <2>. QED BY <1>3, <2>1, <2>2, ViewBelow
<1>5. DOMAIN w = DOMAIN v
  <2>1. \A t : HasRecord(st.ledger, "pending", t) => HasRecord(L, "pending", t)
    BY <1>2, <1>3, HasIsOn
  <2>2. \A t : t \in DOMAIN w => t \in DOMAIN v
    BY <1>3, <2>1, PairIs
  <2>. QED BY <1>4, <2>2 DEF Below
<1>6. ASSUME NEW t \in DOMAIN v, w[t].completed # v[t].completed
      PROVE  /\ t = s /\ v[t].completed = None /\ w[t].completed = value
  <2>1. v[t].completed = None /\ w[t].completed # None
    BY <1>4, <1>6 DEF Below
  <2>2. PICK q : q = Record("completed", t, w[t].kind, w[t].digest, w[t].completed)
    OBVIOUS
  <2>3. On(st.ledger, q) /\ q.phase = "completed" /\ q.step = t /\ q.out = w[t].completed
    BY <1>3, <1>5, <2>1, <2>2, PairIs, RowIs DEF ViewStands, EntryStands
  <2>4. ~On(L, q)
    BY <2>1, <2>3, PairIs
  <2>. QED BY <1>2, <1>3, <2>1, <2>3, <2>4
<1>7. CASE \A t \in DOMAIN v : w[t].completed = v[t].completed
  BY <1>4, <1>5, <1>7 DEF SameView, Below
<1>8. CASE \E t \in DOMAIN v : w[t].completed # v[t].completed
  BY <1>4, <1>5, <1>6, <1>8 DEF Finishes
<1>. QED BY <1>7, <1>8

(* An open machine, by the point it has reached. *)
MachineFits(x) ==
    /\ x = [pc |-> x.pc, manifest |-> x.manifest, cursor |-> x.cursor, view |-> x.view,
            state |-> x.state, out |-> x.out]
    /\ x.pc \in {"closed", "binding", "opening", "ready", "moving"} /\ x.cursor \in Nat
    /\ x.pc # "closed" =>
          x.manifest \in DOMAIN Manifests /\ 0 \in DOMAIN x.view /\ x.view[0].digest = x.manifest
    /\ x.pc = "binding" => /\ DOMAIN x.view = {0} /\ x.view[0].completed = None
                           /\ x.out = [target |-> x.manifest]
    /\ x.pc = "opening" => \E n \in Nat \ {0} : Stepped(x.view, n)
    /\ x.pc = "ready" => /\ x.cursor >= 1 /\ Stepped(x.view, x.cursor)
                         /\ x.state = StateIn(x.manifest, x.view, x.cursor)
    /\ x.pc = "moving" => /\ x.cursor >= 2 /\ Stepped(x.view, x.cursor - 1)
                          /\ DOMAIN x.view = 0..(x.cursor - 1)
                          /\ x.state = StateIn(x.manifest, x.view, x.cursor - 1)
                          /\ x.out = OutAt(x.view, x.cursor - 1)
MachineStands(L, x) == MachineFits(x) /\ ViewStands(L, x.view)
RunRows(L) == Sound(L) /\ \A q : On(L, q) => q.phase \in {"pending", "completed"}
SmBounds ==
    /\ DOMAIN smCtx = Machines /\ DOMAIN smApprovals = DOMAIN ActionRequests
    /\ smClock \in 0..SmMaxTime
SmInv ==
    /\ SmBounds /\ RunRows(smLedger) /\ PathStands(LedgerView, smApprovals)
    /\ \A c \in Machines : MachineStands(smLedger, smCtx[c])

LEMMA MachineMoves ==
    ASSUME SmInv, NEW c \in Machines, NEW y, smCtx' = [smCtx EXCEPT ![c] = y],
           MachineStands(smLedger', y), RunRows(smLedger'), \A q : On(smLedger, q) => On(smLedger', q),
           PathStands(PairSteps(smLedger'), smApprovals), UNCHANGED <<smApprovals, smClock>>
    PROVE  SmInv'
<1>1. DOMAIN smCtx = Machines /\ \A d \in Machines : MachineStands(smLedger, smCtx[d])
  BY DEF SmInv, SmBounds
<1>2. smCtx'[c] = y /\ DOMAIN smCtx' = Machines /\ \A d \in Machines \ {c} : smCtx'[d] = smCtx[d]
  BY <1>1
<1>3. ASSUME NEW d \in Machines PROVE MachineStands(smLedger', smCtx'[d])
  <2>1. CASE d = c
    BY <1>2, <2>1
  <2>2. CASE d # c
    <3>1. smCtx'[d] = smCtx[d] /\ MachineStands(smLedger, smCtx[d])
      BY <1>1, <1>2, <2>2
    <3>2. ViewStands(smLedger', smCtx[d].view)
      BY <3>1, ViewKept DEF MachineStands
    <3>. QED BY <3>1, <3>2 DEF MachineStands
  <2>. QED BY <2>1, <2>2
<1>4. SmBounds'
  BY <1>2 DEF SmInv, SmBounds
<1>5. PathStands(LedgerView, smApprovals)'
  BY DEF LedgerView
<1>. QED BY <1>3, <1>4, <1>5 DEF SmInv

LEMMA ClosedStands == \A L : MachineStands(L, Closed)
<1>1. DOMAIN Closed.view = {} /\ Closed.pc = "closed" /\ Closed.cursor = 0
  BY DEF Closed
<1>2. MachineFits(Closed)
  BY <1>1 DEF MachineFits, Closed
<1>. QED BY <1>1, <1>2 DEF MachineStands, ViewStands

(* The rows of a run after a step is begun, or completed. *)
LEMMA RowsBegun ==
    ASSUME NEW L, RunRows(L), NEW view, ViewStands(L, view), NEW cursor \in Nat, NEW kind, NEW digest,
           NEW b, b = BeginStepRaw(L, view, cursor, kind, digest)
    PROVE  RunRows(b.ledger) /\ \A q : On(L, q) => On(b.ledger, q)
<1>1. /\ Sound(b.ledger) /\ \A q : On(L, q) => On(b.ledger, q)
      /\ \A q : On(b.ledger, q) => On(L, q) \/ q = Record("pending", cursor, kind, digest, None)
  BY BegunIs DEF RunRows
<1>. QED BY <1>1, RowIs DEF RunRows

LEMMA RowsStored ==
    ASSUME NEW L, RunRows(L), NEW view, ViewStands(L, view), NEW s \in DOMAIN view, NEW value,
           NEW st, st = Stored(L, view, "completed", s, value)
    PROVE  RunRows(st.ledger) /\ \A q : On(L, q) => On(st.ledger, q)
<1>1. /\ Sound(st.ledger) /\ \A q : On(L, q) => On(st.ledger, q)
      /\ \A q : On(st.ledger, q) =>
            On(L, q) \/ q = Record("completed", s, view[s].kind, view[s].digest, value)
  BY StoredIs DEF RunRows
<1>. QED BY <1>1, RowIs DEF RunRows

LEMMA OpenStep == ASSUME SmInv, NEW c \in Machines, Open(c) PROVE SmInv'
<1>1. PICK m \in DOMAIN Manifests :
        /\ smLedger' = BeginStepRaw(smLedger, PairSteps(smLedger), 0, "definition", m).ledger
        /\ smCtx' = [smCtx EXCEPT ![c] =
              IF BeginStepRaw(smLedger, PairSteps(smLedger), 0, "definition", m).res = "diverged" THEN Closed
              ELSE [Closed EXCEPT
                      !.pc = IF BeginStepRaw(smLedger, PairSteps(smLedger), 0, "definition", m).res = "replayed"
                             THEN "opening" ELSE "binding",
                      !.manifest = m,
                      !.view = BeginStepRaw(smLedger, PairSteps(smLedger), 0, "definition", m).view,
                      !.out = [target |-> m]]]
        /\ UNCHANGED <<smApprovals, smClock>>
  BY DEF Open
<1>2. PICK v, w : v = PairSteps(smLedger) /\ w = PairSteps(smLedger')
  OBVIOUS
<1>3. PICK b : b = BeginStepRaw(smLedger, v, 0, "definition", m)
  OBVIOUS
<1>4. PICK y : y = IF b.res = "diverged" THEN Closed
                   ELSE [Closed EXCEPT !.pc = IF b.res = "replayed" THEN "opening" ELSE "binding",
                                       !.manifest = m, !.view = b.view, !.out = [target |-> m]]
  OBVIOUS
<1>5. smLedger' = b.ledger /\ smCtx' = [smCtx EXCEPT ![c] = y] /\ UNCHANGED <<smApprovals, smClock>>
  BY <1>1, <1>2, <1>3, <1>4
<1>6. RunRows(smLedger) /\ Sound(smLedger) /\ ViewStands(smLedger, v) /\ PathStands(v, smApprovals)
  BY <1>2, PairIs DEF SmInv, RunRows, LedgerView
<1>7. RunRows(smLedger') /\ \A q : On(smLedger, q) => On(smLedger', q)
  BY <1>3, <1>5, <1>6, RowsBegun
<1>8. /\ b.res \in {"diverged", "resuming", "replayed", "fresh"}
      /\ ViewStands(smLedger', b.view)
      /\ b.res # "diverged" => /\ DOMAIN b.view = DOMAIN v \cup {0}
                               /\ b.view[0].kind = "definition" /\ b.view[0].digest = m
      /\ \A s \in DOMAIN v : b.view[s] = v[s]
  BY <1>3, <1>5, <1>6, BegunIs
<1>9. /\ b.res = "replayed" => 0 \in DOMAIN v /\ v[0].completed # None
      /\ b.res \in {"fresh", "resuming"} => b.view[0].completed = None
      /\ b.res = "resuming" => HasRecord(smLedger, "pending", 0)
      /\ b.res = "fresh" => 0 \notin DOMAIN v
  BY <1>3, <1>6, BegunEntry
<1>10. /\ b.res # "fresh" => SameView(v, w)
       /\ b.res = "fresh" => Begins(v, w, 0, "definition", m)
  BY <1>2, <1>3, <1>5, <1>6, RunBegins
<1>11. PICK n : Stepped(v, n)
  BY <1>6 DEF PathStands
<1>12. n \in Nat /\ CompletedSteps(v) = 0..(n - 1) /\ (DOMAIN v = 0..(n - 1) \/ DOMAIN v = 0..n)
  BY <1>11 DEF Stepped
<1>13. b.res = "fresh" => CompletedSteps(v) = 0..(0 - 1) /\ DOMAIN v = 0..(0 - 1)
  <2>1. SUFFICES ASSUME b.res = "fresh" PROVE CompletedSteps(v) = 0..(0 - 1) /\ DOMAIN v = 0..(0 - 1)
    OBVIOUS
  <2>2. 0 \notin DOMAIN v
    BY <1>9, <2>1
  <2>3. n = 0
    BY <1>12, <2>2
  <2>. QED BY <1>12, <2>2, <2>3
<1>14. PathStands(w, smApprovals)
  <2>1. CASE b.res # "fresh"
    BY <1>6, <1>10, <2>1, PathSame
  <2>2. CASE b.res = "fresh"
    <3>1. OutFor("definition", m) # None
      BY WorkflowMachineAssumption DEF OutFor
    <3>. QED BY <1>6, <1>10, <1>13, <2>2, <3>1, PathBegins
  <2>. QED BY <2>1, <2>2
<1>15. b.res \in {"resuming", "fresh"} => DOMAIN b.view = {0}
  <2>1. CASE b.res = "fresh"
    BY <1>8, <1>13, <2>1
  <2>2. CASE b.res = "resuming"
    <3>1. 0 \in DOMAIN v
      BY <1>2, <1>6, <1>9, <2>2, PairIs
    <3>2. v[0].completed = None
      BY <1>8, <1>9, <2>2, <3>1
    <3>3. n = 0
      BY <1>12, <3>2 DEF CompletedSteps
    <3>. QED BY <1>8, <1>12, <2>2, <3>1, <3>3
  <2>. QED BY <2>1, <2>2
<1>16. MachineStands(smLedger', y)
  <2>1. CASE b.res = "diverged"
    BY <1>4, <2>1, ClosedStands
  <2>2. CASE b.res # "diverged"
    <3>1. /\ y.pc = (IF b.res = "replayed" THEN "opening" ELSE "binding") /\ y.manifest = m
          /\ y.view = b.view /\ y.out = [target |-> m] /\ y.cursor = 0
          /\ y = [pc |-> y.pc, manifest |-> y.manifest, cursor |-> y.cursor, view |-> y.view,
                  state |-> y.state, out |-> y.out]
      BY <1>4, <2>2 DEF Closed
    <3>2. b.res = "replayed" => \E k \in Nat \ {0} : Stepped(b.view, k)
      <4>1. SUFFICES ASSUME b.res = "replayed" PROVE \E k \in Nat \ {0} : Stepped(b.view, k)
        OBVIOUS
      <4>2. 0 \in DOMAIN v /\ v[0].completed # None
        BY <1>9, <4>1
      <4>3. DOMAIN b.view = DOMAIN v /\ \A s \in DOMAIN v : b.view[s] = v[s]
        BY <1>8, <4>1, <4>2
      <4>4. CompletedSteps(b.view) = CompletedSteps(v)
        BY <4>3 DEF CompletedSteps
      <4>5. Stepped(b.view, n)
        BY <1>11, <4>3, <4>4 DEF Stepped
      <4>6. n # 0
        BY <1>12, <4>2 DEF CompletedSteps
      <4>. QED BY <1>12, <4>5, <4>6
    <3>3. MachineFits(y)
      BY <1>8, <1>9, <1>15, <2>2, <3>1, <3>2 DEF MachineFits
    <3>. QED BY <1>8, <3>1, <3>3 DEF MachineStands
  <2>. QED BY <2>1, <2>2
<1>. QED BY <1>2, <1>5, <1>7, <1>14, <1>16, MachineMoves

(* The run under a machine: what the machine's view holds, the run holds. *)
LEMMA UnderMachine ==
    ASSUME SmInv, NEW c \in Machines, NEW x, x = smCtx[c], NEW v, v = PairSteps(smLedger)
    PROVE  /\ MachineFits(x) /\ ViewStands(smLedger, x.view) /\ RunRows(smLedger) /\ Sound(smLedger)
           /\ PathStands(v, smApprovals) /\ Below(x.view, v) /\ KindsFit(x.view)
<1>1. /\ MachineFits(x) /\ ViewStands(smLedger, x.view) /\ RunRows(smLedger) /\ Sound(smLedger)
      /\ PathStands(v, smApprovals)
  BY DEF SmInv, MachineStands, RunRows, LedgerView
<1>2. Below(x.view, v)
  BY <1>1, ViewBelow
<1>3. KindsFit(x.view)
  BY <1>1, <1>2 DEF PathStands, KindsFit, Below
<1>. QED BY <1>1, <1>2, <1>3

(* A completion that is stored is of the step's one outcome. *)
LEMMA PathStored ==
    ASSUME NEW L, RunRows(L), NEW view, ViewStands(L, view), NEW s \in DOMAIN view,
           NEW v, v = PairSteps(L), PathStands(v, smApprovals),
           NEW st, st = Stored(L, view, "completed", s, OutAt(view, s))
    PROVE  /\ PathStands(PairSteps(st.ledger), smApprovals) /\ OutAt(view, s) # None
<1>1. Below(view, v) /\ Sound(L)
  BY ViewBelow DEF RunRows
<1>2. OutAt(view, s) = OutAt(v, s) /\ s \in DOMAIN v
  BY <1>1, SameOut DEF Below
<1>3. OutAt(v, s) # None
  BY <1>2 DEF PathStands
<1>4. PICK w : w = PairSteps(st.ledger)
  OBVIOUS
<1>5. SameView(v, w) \/ Finishes(v, w, s, OutAt(v, s))
  BY <1>1, <1>2, <1>3, <1>4, RunFinishes
<1>6. PathStands(w, smApprovals)
  BY <1>5, PathSame, PathFinishes
<1>. QED BY <1>2, <1>3, <1>4, <1>6

LEMMA BindStep == ASSUME SmInv, NEW c \in Machines, BindDefinition(c) PROVE SmInv'
<1>1. PICK x : x = smCtx[c]
  OBVIOUS
<1>2. PICK v : v = PairSteps(smLedger)
  OBVIOUS
<1>3. /\ MachineFits(x) /\ ViewStands(smLedger, x.view) /\ RunRows(smLedger) /\ Sound(smLedger)
      /\ PathStands(v, smApprovals) /\ KindsFit(x.view)
  BY <1>1, <1>2, UnderMachine
<1>4. /\ x.pc = "binding" /\ DOMAIN x.view = {0} /\ x.view[0].completed = None
      /\ x.out = [target |-> x.manifest] /\ x.manifest \in DOMAIN Manifests /\ x.view[0].digest = x.manifest
  BY <1>1, <1>3 DEF BindDefinition, MachineFits
<1>5. x.out = OutAt(x.view, 0)
  <2>1. x.view[0].kind = "definition"
    BY <1>3, <1>4 DEF KindsFit
  <2>. QED BY <1>4, <2>1 DEF OutAt, OutFor
<1>6. PICK r : r = Stored(smLedger, x.view, "completed", 0, x.out)
  OBVIOUS
<1>7. PICK y : y = IF r.ok THEN [x EXCEPT !.pc = "opening", !.view = r.view] ELSE Closed
  OBVIOUS
<1>8. smLedger' = r.ledger /\ smCtx' = [smCtx EXCEPT ![c] = y] /\ UNCHANGED <<smApprovals, smClock>>
  BY <1>1, <1>6, <1>7 DEF BindDefinition
<1>9. RunRows(smLedger') /\ \A q : On(smLedger, q) => On(smLedger', q)
  BY <1>3, <1>4, <1>6, <1>8, RowsStored
<1>10. PathStands(PairSteps(smLedger'), smApprovals) /\ x.out # None
  BY <1>2, <1>3, <1>4, <1>5, <1>6, <1>8, PathStored
<1>11. /\ ViewStands(r.ledger, r.view) /\ DOMAIN r.view = DOMAIN x.view
       /\ r.view[0].digest = x.view[0].digest
       /\ r.ok => r.view[0].completed = x.out
  BY <1>3, <1>4, <1>6, StoredIs
<1>12. MachineStands(smLedger', y)
  <2>1. CASE ~r.ok
    BY <1>7, <2>1, ClosedStands
  <2>2. CASE r.ok
    <3>1. /\ y.pc = "opening" /\ y.manifest = x.manifest /\ y.cursor = x.cursor /\ y.view = r.view
          /\ y = [pc |-> y.pc, manifest |-> y.manifest, cursor |-> y.cursor, view |-> y.view,
                  state |-> y.state, out |-> y.out]
      <4>1. x = [pc |-> x.pc, manifest |-> x.manifest, cursor |-> x.cursor, view |-> x.view,
                 state |-> x.state, out |-> x.out]
        BY <1>3 DEF MachineFits
      <4>. QED BY <1>7, <2>2, <4>1
    <3>2. Stepped(r.view, 1)
      <4>1. CompletedSteps(r.view) = {0}
        BY <1>4, <1>10, <1>11, <2>2 DEF CompletedSteps
      <4>. QED BY <1>4, <1>11, <4>1 DEF Stepped
    <3>3. MachineFits(y)
      BY <1>3, <1>4, <1>11, <3>1, <3>2 DEF MachineFits
    <3>. QED BY <1>8, <1>11, <3>1, <3>3 DEF MachineStands
  <2>. QED BY <2>1, <2>2
<1>. QED BY <1>8, <1>9, <1>10, <1>12, MachineMoves

LEMMA ReadyStep == ASSUME SmInv, NEW c \in Machines, OpenReady(c) PROVE SmInv'
<1>1. PICK x : x = smCtx[c]
  OBVIOUS
<1>2. PICK v : v = PairSteps(smLedger)
  OBVIOUS
<1>3. /\ MachineFits(x) /\ ViewStands(smLedger, x.view) /\ RunRows(smLedger)
      /\ PathStands(v, smApprovals) /\ KindsFit(x.view)
  BY <1>1, <1>2, UnderMachine
<1>4. PICK y : y = IF ReplayValid(x.manifest, x.view)
                   THEN [x EXCEPT !.pc = "ready", !.cursor = FirstIncomplete(x.view),
                                  !.state = StateAfter(x.manifest, x.view), !.out = None]
                   ELSE Closed
  OBVIOUS
<1>5. /\ x.pc = "opening" /\ smCtx' = [smCtx EXCEPT ![c] = y]
      /\ UNCHANGED <<smLedger, smApprovals, smClock>>
  BY <1>1, <1>4 DEF OpenReady
<1>6. PICK n \in Nat \ {0} : Stepped(x.view, n)
  BY <1>3, <1>5 DEF MachineFits
<1>7. FirstIncomplete(x.view) = n /\ StateAfter(x.manifest, x.view) = StateIn(x.manifest, x.view, n)
  BY <1>3, <1>6, FirstIs, StateIs
<1>8. MachineStands(smLedger, y)
  <2>1. CASE ~ReplayValid(x.manifest, x.view)
    BY <1>4, <2>1, ClosedStands
  <2>2. CASE ReplayValid(x.manifest, x.view)
    <3>1. /\ y.pc = "ready" /\ y.manifest = x.manifest /\ y.cursor = n /\ y.view = x.view
          /\ y.state = StateIn(x.manifest, x.view, n)
          /\ y = [pc |-> y.pc, manifest |-> y.manifest, cursor |-> y.cursor, view |-> y.view,
                  state |-> y.state, out |-> y.out]
      <4>1. x = [pc |-> x.pc, manifest |-> x.manifest, cursor |-> x.cursor, view |-> x.view,
                 state |-> x.state, out |-> x.out]
        BY <1>3 DEF MachineFits
      <4>. QED BY <1>4, <1>7, <2>2, <4>1
    <3>2. MachineFits(y)
      BY <1>3, <1>5, <1>6, <3>1 DEF MachineFits
    <3>. QED BY <1>3, <3>1, <3>2 DEF MachineStands
  <2>. QED BY <2>1, <2>2
<1>. QED BY <1>2, <1>3, <1>5, <1>8, MachineMoves

LEMMA CompleteStepSm == ASSUME SmInv, NEW c \in Machines, CompleteTransition(c) PROVE SmInv'
<1>1. PICK x : x = smCtx[c]
  OBVIOUS
<1>2. PICK v : v = PairSteps(smLedger)
  OBVIOUS
<1>3. /\ MachineFits(x) /\ ViewStands(smLedger, x.view) /\ RunRows(smLedger) /\ Sound(smLedger)
      /\ PathStands(v, smApprovals) /\ KindsFit(x.view)
  BY <1>1, <1>2, UnderMachine
<1>4. PICK s : s = x.cursor - 1
  OBVIOUS
<1>5. /\ x.pc = "moving" /\ x.cursor \in Nat /\ x.cursor >= 2 /\ s \in Nat /\ s >= 1 /\ s + 1 = x.cursor
      /\ Stepped(x.view, s) /\ DOMAIN x.view = 0..s /\ x.out = OutAt(x.view, s)
      /\ x.manifest \in DOMAIN Manifests /\ x.view[0].digest = x.manifest
  <2>1. x.pc = "moving"
    BY <1>1 DEF CompleteTransition
  <2>. QED BY <1>3, <1>4, <2>1 DEF MachineFits
<1>6. s \in DOMAIN x.view /\ x.out = OutAt(x.view, s)
  BY <1>5
<1>7. PICK r : r = Stored(smLedger, x.view, "completed", s, x.out)
  OBVIOUS
<1>8. PICK y : y = IF r.ok THEN [x EXCEPT !.pc = "ready", !.view = r.view,
                                          !.state = x.out.target, !.out = None]
                   ELSE Closed
  OBVIOUS
<1>9. smLedger' = r.ledger /\ smCtx' = [smCtx EXCEPT ![c] = y] /\ UNCHANGED <<smApprovals, smClock>>
  BY <1>1, <1>4, <1>7, <1>8 DEF CompleteTransition
<1>10. RunRows(smLedger') /\ \A q : On(smLedger, q) => On(smLedger', q)
  BY <1>3, <1>6, <1>7, <1>9, RowsStored
<1>11. PathStands(PairSteps(smLedger'), smApprovals) /\ x.out # None
  BY <1>2, <1>3, <1>6, <1>7, <1>9, PathStored
<1>12. /\ ViewStands(r.ledger, r.view) /\ DOMAIN r.view = DOMAIN x.view
       /\ \A t \in DOMAIN x.view \ {s} : r.view[t] = x.view[t]
       /\ r.ok => r.view[s].completed = x.out
  BY <1>3, <1>6, <1>7, StoredIs
<1>13. MachineStands(smLedger', y)
  <2>1. CASE ~r.ok
    BY <1>8, <2>1, ClosedStands
  <2>2. CASE r.ok
    <3>1. /\ y.pc = "ready" /\ y.manifest = x.manifest /\ y.cursor = s + 1 /\ y.view = r.view
          /\ y.state = x.out.target
          /\ y = [pc |-> y.pc, manifest |-> y.manifest, cursor |-> y.cursor, view |-> y.view,
                  state |-> y.state, out |-> y.out]
      <4>1. x = [pc |-> x.pc, manifest |-> x.manifest, cursor |-> x.cursor, view |-> x.view,
                 state |-> x.state, out |-> x.out]
        BY <1>3 DEF MachineFits
      <4>. QED BY <1>5, <1>8, <2>2, <4>1
    <3>2. Stepped(r.view, s + 1)
      <4>1. \A t \in DOMAIN x.view : t = s \/ t \in DOMAIN x.view \ {s}
        OBVIOUS
      <4>2. CompletedSteps(r.view) = CompletedSteps(x.view) \cup {s}
        BY <1>5, <1>11, <1>12, <2>2, <4>1 DEF CompletedSteps
      <4>3. CompletedSteps(x.view) = 0..(s - 1)
        BY <1>5 DEF Stepped
      <4>4. CompletedSteps(r.view) = 0..((s + 1) - 1)
        BY <1>5, <4>2, <4>3
      <4>5. DOMAIN r.view = 0..((s + 1) - 1) /\ s + 1 \in Nat
        BY <1>5, <1>12
      <4>. QED BY <4>4, <4>5 DEF Stepped
    <3>3. y.state = StateIn(y.manifest, y.view, s + 1)
      <4>1. ~(s + 1 <= 1) /\ (s + 1) - 1 = s
        BY <1>5
      <4>. QED BY <1>12, <2>2, <3>1, <4>1 DEF StateIn
    <3>4. 0 \in DOMAIN r.view /\ r.view[0] = x.view[0]
      BY <1>5, <1>12
    <3>5. MachineFits(y)
      BY <1>5, <3>1, <3>2, <3>3, <3>4 DEF MachineFits
    <3>. QED BY <1>9, <1>12, <3>1, <3>5 DEF MachineStands
  <2>. QED BY <2>1, <2>2
<1>. QED BY <1>9, <1>10, <1>11, <1>13, MachineMoves

(* The step an edge is recorded by: its kind says what the ends of the edge call for, and
   its digest says where it leads. *)
LEMMA MoveIs ==
    ASSUME NEW x, x.manifest \in DOMAIN Manifests, NEW to, NEW request \in DOMAIN ActionRequests,
           <<x.state, to>> \in Manifests[x.manifest].edges,
           NEW mv, mv = MoveStep(x, to, request)
    PROVE  /\ mv.kind \in TransitionKinds
           /\ OutFor(mv.kind, mv.digest) = mv.out /\ mv.out.target = to /\ mv.out # None
           /\ Required(x.manifest, x.state) <=> mv.kind = "approval"
           /\ Required(x.manifest, to) <=> mv.kind = "entry_binding"
           /\ mv.kind = "approval" =>
                mv.digest = DepartureDigest(x.state, to, BindingFor(x.view, x.state))
<1>1. ~(Required(x.manifest, x.state) /\ Required(x.manifest, to))
  <2>1. PICK e : e = <<x.state, to>>
    OBVIOUS
  <2>2. e \in Manifests[x.manifest].edges /\ e[1] = x.state /\ e[2] = to
    BY <2>1
  <2>3. ValidManifest(x.manifest)
    BY WorkflowMachineAssumption
  <2>. QED BY <2>2, <2>3 DEF ValidManifest
<1>2. to \in AllStates
  <2>1. PICK e : e = <<x.state, to>>
    OBVIOUS
  <2>2. e \in Manifests[x.manifest].edges /\ e[2] = to
    BY <2>1
  <2>. QED BY <2>2 DEF AllStates
<1>3. None # [target |-> to] /\ None # EntryBinding(to, request)
  BY <1>2, WorkflowMachineAssumption
<1>4. CASE Required(x.manifest, to)
  <2>1. mv = [kind |-> "entry_binding", digest |-> <<x.state, EntryBinding(to, request)>>,
              out |-> EntryBinding(to, request)]
    BY <1>1, <1>4 DEF MoveStep
  <2>2. EntryBinding(to, request).target = to
    BY DEF EntryBinding
  <2>. QED BY <1>1, <1>3, <1>4, <2>1, <2>2 DEF OutFor, TransitionKinds
<1>5. CASE Required(x.manifest, x.state)
  <2>1. mv = [kind |-> "approval", out |-> [target |-> to],
              digest |-> DepartureDigest(x.state, to, BindingFor(x.view, x.state))]
    BY <1>1, <1>5 DEF MoveStep
  <2>2. \A b : DepartureDigest(x.state, to, b)[3] = to
    BY DEF DepartureDigest
  <2>. QED BY <1>1, <1>3, <1>5, <2>1, <2>2 DEF OutFor, TransitionKinds
<1>6. CASE ~Required(x.manifest, to) /\ ~Required(x.manifest, x.state)
  <2>1. mv = [kind |-> "transition", digest |-> <<x.state, to>>, out |-> [target |-> to]]
    BY <1>6 DEF MoveStep
  <2>. QED BY <1>3, <1>6, <2>1 DEF OutFor, TransitionKinds
<1>. QED BY <1>4, <1>5, <1>6

(* A departure finds the binding its state was entered with. *)
LEMMA DepartsFrom ==
    ASSUME NEW m, NEW view, NEW n, Stepped(view, n), KindsFit(view), n >= 1,
           n >= 2 => view[n - 1].kind = "entry_binding",
           BindingFor(view, StateIn(m, view, n)) # None
    PROVE  n >= 2 /\ BindingFor(view, StateIn(m, view, n)) = view[n - 1].completed
<1>1. n \in Nat /\ CompletedSteps(view) = 0..(n - 1)
  BY DEF Stepped
<1>2. PICK S : S = BindingsOf(view, StateIn(m, view, n))
  OBVIOUS
<1>3. S # {} /\ BindingFor(view, StateIn(m, view, n)) = view[LastOf(S)].completed
  BY <1>2 DEF BindingFor
<1>4. \A s \in S : s \in 0..(n - 1) /\ s # 0
  <2>1. \A s \in S : s \in CompletedSteps(view) /\ view[s].kind = "entry_binding"
    BY <1>2 DEF BindingsOf
  <2>2. \A s \in S : s # 0
    BY <2>1 DEF KindsFit, CompletedSteps
  <2>. QED BY <1>1, <2>1, <2>2
<1>5. n >= 2
  BY <1>1, <1>3, <1>4
<1>6. n - 1 \in S
  <2>1. n - 1 \in CompletedSteps(view)
    BY <1>1, <1>5
  <2>2. StateIn(m, view, n) = view[n - 1].completed.target
    BY <1>1, <1>5 DEF StateIn
  <2>. QED BY <1>2, <1>5, <2>1, <2>2 DEF BindingsOf
<1>7. PICK k : k = LastOf(S)
  OBVIOUS
<1>8. n - 1 \in S /\ \A t \in S : t <= n - 1
  BY <1>1, <1>4, <1>6
<1>9. k \in S /\ \A t \in S : t <= k
  BY <1>7, <1>8 DEF LastOf
<1>10. k = n - 1
  BY <1>1, <1>4, <1>8, <1>9
<1>. QED BY <1>3, <1>5, <1>7, <1>10

(* A state that needs approval was entered by a binding. *)
LEMMA EnteredBy ==
    ASSUME NEW v, NEW approvals, PathStands(v, approvals), NEW n \in Nat, n >= 2,
           n - 1 \in CompletedSteps(v)
    PROVE  Required(v[0].digest, StateIn(v[0].digest, v, n)) <=> v[n - 1].kind = "entry_binding"
<1>1. n - 1 \in DOMAIN v \ {0} /\ v[n - 1].completed # None
  BY DEF CompletedSteps
<1>2. v[n - 1].completed = OutAt(v, n - 1) /\ MoveFits(v[0].digest, v, n - 1)
  BY <1>1 DEF PathStands
<1>3. StateIn(v[0].digest, v, n) = OutAt(v, n - 1).target
  <2>1. ~(n <= 1)
    OBVIOUS
  <2>. QED BY <1>2, <2>1 DEF StateIn
<1>. QED BY <1>2, <1>3 DEF MoveFits

(* What a machine has completed, the run has. *)
LEMMA CompletedBelow ==
    ASSUME NEW v, NEW w, Below(v, w)
    PROVE  /\ CompletedSteps(v) \subseteq CompletedSteps(w)
           /\ \A s \in CompletedSteps(v) : w[s].completed = v[s].completed /\ w[s].kind = v[s].kind
BY DEF Below, CompletedSteps

(* The intent of a transition fits the run it is added to. *)
LEMMA IntentFits ==
    ASSUME NEW v, NEW w, NEW view, NEW n \in Nat \ {0}, PathStands(v, smApprovals), Below(view, v),
           Stepped(view, n), KindsFit(view), 0 \in DOMAIN view,
           NEW x, x.view = view, x.manifest = view[0].digest, x.manifest \in DOMAIN Manifests,
           x.state = StateIn(x.manifest, view, n),
           NEW to, NEW request \in DOMAIN ActionRequests,
           <<x.state, to>> \in Manifests[x.manifest].edges,
           Required(x.manifest, x.state) => MayDepart(x, request),
           NEW mv, mv = MoveStep(x, to, request),
           Begins(v, w, n, mv.kind, mv.digest)
    PROVE  MoveFits(w[0].digest, w, n) /\ DepartureApproved(w, n, smApprovals)
<1>1. /\ mv.kind \in TransitionKinds
      /\ OutFor(mv.kind, mv.digest) = mv.out /\ mv.out.target = to /\ mv.out # None
      /\ Required(x.manifest, x.state) <=> mv.kind = "approval"
      /\ Required(x.manifest, to) <=> mv.kind = "entry_binding"
      /\ mv.kind = "approval" =>
           mv.digest = DepartureDigest(x.state, to, BindingFor(x.view, x.state))
  BY MoveIs
<1>2. w[n].kind = mv.kind /\ w[n].digest = mv.digest /\ Below(v, w)
  BY DEF Begins
<1>3. v[0].digest = x.manifest /\ w[0].digest = x.manifest
  BY <1>2 DEF Below
<1>4. \A s \in CompletedSteps(view) :
        /\ s \in CompletedSteps(v) /\ v[s].completed = view[s].completed /\ v[s].kind = view[s].kind
        /\ w[s].completed = view[s].completed /\ w[s].kind = view[s].kind
  BY <1>2, CompletedBelow
<1>5. n >= 2 => n - 1 \in CompletedSteps(view)
  BY DEF Stepped
<1>6. StateIn(x.manifest, w, n) = x.state /\ StateIn(x.manifest, v, n) = x.state
  <2>1. CASE n <= 1
    BY <2>1 DEF StateIn
  <2>2. CASE n >= 2
    <3>1. ~(n <= 1)
      BY <2>2
    <3>. QED BY <1>4, <1>5, <2>2, <3>1 DEF StateIn
  <2>. QED BY <2>1, <2>2
<1>7. OutAt(w, n) = mv.out
  BY <1>1, <1>2 DEF OutAt
<1>8. ASSUME mv.kind = "approval"
      PROVE  /\ n >= 2 /\ w[n - 1].kind = "entry_binding"
             /\ BindingFor(view, x.state) = w[n - 1].completed
             /\ smApprovals[request] # None /\ w[n - 1].completed.request = request
             /\ w[n - 1].completed.digest = smApprovals[request].digest
  <2>1. MayDepart(x, request) /\ Required(x.manifest, x.state)
    BY <1>1, <1>8
  <2>2. PICK b : b = BindingFor(view, x.state)
    OBVIOUS
  <2>3. b # None /\ request = b.request /\ Approved(b)
    BY <2>1, <2>2 DEF MayDepart, DepartureAuthorized
  <2>4. n >= 2 => view[n - 1].kind = "entry_binding"
    <3>1. SUFFICES ASSUME n >= 2 PROVE view[n - 1].kind = "entry_binding"
      OBVIOUS
    <3>2. n - 1 \in CompletedSteps(view) /\ n - 1 \in CompletedSteps(v)
      BY <1>4, <1>5, <3>1
    <3>3. Required(x.manifest, x.state) <=> v[n - 1].kind = "entry_binding"
      BY <1>3, <1>6, <3>1, <3>2, EnteredBy
    <3>. QED BY <1>4, <2>1, <3>2, <3>3
  <2>5. n >= 2 /\ b = view[n - 1].completed
    <3>1. BindingFor(view, StateIn(x.manifest, view, n)) # None
      BY <2>2, <2>3
    <3>. QED BY <2>2, <2>4, <3>1, DepartsFrom
  <2>6. w[n - 1].completed = b /\ w[n - 1].kind = "entry_binding"
    BY <1>4, <1>5, <2>4, <2>5
  <2>7. smApprovals[request] # None /\ smApprovals[request].digest = b.digest
    BY <2>3 DEF Approved
  <2>. QED BY <2>2, <2>3, <2>5, <2>6, <2>7
<1>9. MoveFits(x.manifest, w, n)
  <2>1. <<StateIn(x.manifest, w, n), OutAt(w, n).target>> \in Manifests[x.manifest].edges
    BY <1>1, <1>6, <1>7
  <2>2. /\ Required(x.manifest, StateIn(x.manifest, w, n)) <=> w[n].kind = "approval"
        /\ Required(x.manifest, OutAt(w, n).target) <=> w[n].kind = "entry_binding"
    BY <1>1, <1>2, <1>6, <1>7
  <2>3. ASSUME w[n].kind = "approval"
        PROVE  w[n].digest = DepartureDigest(StateIn(x.manifest, w, n), OutAt(w, n).target, w[n - 1].completed)
    BY <1>1, <1>2, <1>6, <1>7, <1>8, <2>3
  <2>. QED BY <1>2, <1>8, <2>1, <2>2, <2>3 DEF MoveFits
<1>10. DepartureApproved(w, n, smApprovals)
  BY <1>2, <1>8 DEF DepartureApproved
<1>. QED BY <1>3, <1>9, <1>10

LEMMA MoveStepHolds ==
    ASSUME SmInv, NEW c \in Machines, NEW to, NEW request \in DOMAIN ActionRequests,
           BeginTransition(c, to, request)
    PROVE  SmInv'
<1>1. PICK x : x = smCtx[c]
  OBVIOUS
<1>2. PICK v : v = PairSteps(smLedger)
  OBVIOUS
<1>3. /\ MachineFits(x) /\ ViewStands(smLedger, x.view) /\ RunRows(smLedger) /\ Sound(smLedger)
      /\ PathStands(v, smApprovals) /\ KindsFit(x.view) /\ Below(x.view, v)
  BY <1>1, <1>2, UnderMachine
<1>4. PICK n : n = x.cursor
  OBVIOUS
<1>5. /\ x.pc = "ready" /\ <<x.state, to>> \in Manifests[x.manifest].edges
      /\ Required(x.manifest, x.state) => MayDepart(x, request)
  BY <1>1 DEF BeginTransition
<1>6. /\ n \in Nat /\ n >= 1 /\ Stepped(x.view, n) /\ x.state = StateIn(x.manifest, x.view, n)
      /\ x.manifest \in DOMAIN Manifests /\ 0 \in DOMAIN x.view /\ x.view[0].digest = x.manifest
  BY <1>3, <1>4, <1>5 DEF MachineFits
<1>7. PICK mv : mv = MoveStep(x, to, request)
  OBVIOUS
<1>8. PICK b : b = BeginStepRaw(smLedger, x.view, n, mv.kind, mv.digest)
  OBVIOUS
<1>9. PICK y : y = IF b.res = "diverged" THEN Closed
                   ELSE [x EXCEPT !.pc = IF b.res = "replayed" THEN "ready" ELSE "moving",
                                  !.state = IF b.res = "replayed" THEN to ELSE @,
                                  !.view = b.view, !.cursor = @ + 1, !.out = mv.out]
  OBVIOUS
<1>10. smLedger' = b.ledger /\ smCtx' = [smCtx EXCEPT ![c] = y] /\ UNCHANGED <<smApprovals, smClock>>
  BY <1>1, <1>4, <1>7, <1>8, <1>9 DEF BeginTransition
<1>11. RunRows(smLedger') /\ \A q : On(smLedger, q) => On(smLedger', q)
  BY <1>3, <1>6, <1>8, <1>10, RowsBegun
<1>12. /\ b.res \in {"diverged", "resuming", "replayed", "fresh"}
       /\ ViewStands(smLedger', b.view)
       /\ b.res # "diverged" => /\ DOMAIN b.view = DOMAIN x.view \cup {n}
                                /\ b.view[n].kind = mv.kind /\ b.view[n].digest = mv.digest
       /\ \A s \in DOMAIN x.view : b.view[s] = x.view[s]
       /\ b.res = "fresh" => ~HasRecord(smLedger, "pending", n)
  BY <1>3, <1>6, <1>8, <1>10, BegunIs
<1>13. /\ b.res = "replayed" => n \in DOMAIN x.view /\ x.view[n].completed # None
       /\ b.res \in {"fresh", "resuming"} => b.view[n].completed = None
  BY <1>3, <1>6, <1>8, BegunEntry
<1>14. b.res # "replayed"
  <2>1. n \notin CompletedSteps(x.view)
    BY <1>6 DEF Stepped
  <2>. QED BY <1>13, <2>1 DEF CompletedSteps
<1>15. /\ mv.kind \in TransitionKinds /\ OutFor(mv.kind, mv.digest) = mv.out /\ mv.out # None
  BY <1>5, <1>6, <1>7, MoveIs
<1>16. PICK w : w = PairSteps(smLedger')
  OBVIOUS
<1>17. /\ b.res # "fresh" => SameView(v, w)
       /\ b.res = "fresh" => Begins(v, w, n, mv.kind, mv.digest)
  BY <1>2, <1>3, <1>6, <1>8, <1>10, <1>16, RunBegins
<1>18. PathStands(w, smApprovals)
  <2>1. CASE b.res # "fresh"
    BY <1>3, <1>17, <2>1, PathSame
  <2>2. CASE b.res = "fresh"
    <3>1. Begins(v, w, n, mv.kind, mv.digest) /\ n \notin DOMAIN v
      BY <1>17, <2>2 DEF Begins
    <3>2. PICK k : Stepped(v, k)
      BY <1>3 DEF PathStands
    <3>3. CompletedSteps(x.view) \subseteq CompletedSteps(v)
      BY <1>3, CompletedBelow
    <3>4. k = n
      <4>1. /\ k \in Nat /\ CompletedSteps(v) = 0..(k - 1) /\ CompletedSteps(x.view) = 0..(n - 1)
            /\ (DOMAIN v = 0..(k - 1) \/ DOMAIN v = 0..k)
        BY <1>6, <3>2 DEF Stepped
      <4>2. n - 1 \in 0..(k - 1)
        BY <1>6, <3>3, <4>1
      <4>3. k >= n
        BY <1>6, <4>1, <4>2
      <4>4. k <= n
        BY <1>6, <3>1, <4>1
      <4>. QED BY <1>6, <4>1, <4>3, <4>4
    <3>5. CompletedSteps(v) = 0..(n - 1) /\ DOMAIN v = 0..(n - 1)
      BY <1>6, <3>1, <3>2, <3>4 DEF Stepped
    <3>6. MoveFits(w[0].digest, w, n) /\ DepartureApproved(w, n, smApprovals)
      BY <1>3, <1>5, <1>6, <1>7, <3>1, IntentFits
    <3>7. mv.kind # "definition" /\ n # 0
      BY <1>6, <1>15 DEF TransitionKinds
    <3>. QED BY <1>3, <1>6, <1>15, <3>1, <3>5, <3>6, <3>7, PathBegins
  <2>. QED BY <2>1, <2>2
<1>19. MachineStands(smLedger', y)
  <2>1. CASE b.res = "diverged"
    BY <1>9, <2>1, ClosedStands
  <2>2. CASE b.res # "diverged"
    <3>1. /\ y.pc = "moving" /\ y.manifest = x.manifest /\ y.cursor = n + 1 /\ y.view = b.view
          /\ y.state = x.state /\ y.out = mv.out
          /\ y = [pc |-> y.pc, manifest |-> y.manifest, cursor |-> y.cursor, view |-> y.view,
                  state |-> y.state, out |-> y.out]
      <4>1. x = [pc |-> x.pc, manifest |-> x.manifest, cursor |-> x.cursor, view |-> x.view,
                 state |-> x.state, out |-> x.out]
        BY <1>3 DEF MachineFits
      <4>. QED BY <1>4, <1>9, <1>14, <2>2, <4>1
    <3>2. DOMAIN b.view = 0..n
      <4>1. DOMAIN x.view = 0..(n - 1) \/ DOMAIN x.view = 0..n
        BY <1>6 DEF Stepped
      <4>2. 0..n = 0..(n - 1) \cup {n}
        BY <1>6
      <4>3. 0..n = 0..n \cup {n}
        BY <1>6
      <4>4. DOMAIN b.view = DOMAIN x.view \cup {n}
        BY <1>12, <2>2
      <4>. QED BY <4>1, <4>2, <4>3, <4>4, Zenon
    <3>3. CompletedSteps(b.view) = CompletedSteps(x.view)
      <4>1. \A s \in DOMAIN b.view : s \in DOMAIN x.view \/ s = n
        BY <1>12, <2>2
      <4>2. b.view[n].completed = None
        BY <1>12, <1>13, <1>14, <2>2
      <4>3. \A s \in DOMAIN x.view : s \in DOMAIN b.view
        BY <1>12, <2>2
      <4>4. n \notin CompletedSteps(x.view)
        BY <1>6 DEF Stepped
      <4>. QED BY <1>12, <4>1, <4>2, <4>3, <4>4 DEF CompletedSteps
    <3>4. Stepped(b.view, n)
      BY <1>6, <3>2, <3>3 DEF Stepped
    <3>5. StateIn(x.manifest, b.view, n) = x.state
      <4>1. CASE n <= 1
        BY <1>6, <4>1 DEF StateIn
      <4>2. CASE n >= 2
        <5>1. n - 1 \in DOMAIN x.view /\ ~(n <= 1)
          BY <1>6, <4>2 DEF Stepped
        <5>. QED BY <1>6, <1>12, <5>1 DEF StateIn
      <4>. QED BY <1>6, <4>1, <4>2
    <3>6. mv.out = OutAt(b.view, n)
      BY <1>12, <1>15, <2>2 DEF OutAt
    <3>7. (n + 1) - 1 = n /\ n + 1 \in Nat /\ n + 1 >= 2
      BY <1>6
    <3>8. 0 \in DOMAIN b.view /\ b.view[0].digest = x.manifest
      BY <1>6, <1>12, <2>2
    <3>9. MachineFits(y)
      BY <1>6, <3>1, <3>2, <3>4, <3>5, <3>6, <3>7, <3>8 DEF MachineFits
    <3>. QED BY <1>12, <3>1, <3>9 DEF MachineStands
  <2>. QED BY <2>1, <2>2
<1>. QED BY <1>10, <1>11, <1>16, <1>18, <1>19, MachineMoves

LEMMA SmInvStarts == SmInit => SmInv
<1> SUFFICES ASSUME SmInit PROVE SmInv
  OBVIOUS
<1>1. smLedger = <<>> /\ DOMAIN smLedger = {}
  BY DEF SmInit
<1>2. RunRows(smLedger)
  <2>1. smLedger \in Seq({})
    BY <1>1
  <2>. QED BY <1>1, <2>1 DEF RunRows, Sound, IsLedger, Replayable, On
<1>3. DOMAIN LedgerView = {}
  BY <1>1 DEF LedgerView, PairSteps
<1>4. Stepped(LedgerView, 0)
  BY <1>3 DEF Stepped, CompletedSteps
<1>5. PathStands(LedgerView, smApprovals)
  BY <1>3, <1>4 DEF PathStands, KindsFit
<1>6. SmBounds
  BY WorkflowMachineAssumption DEF SmInit, SmBounds
<1>7. \A c \in Machines : MachineStands(smLedger, smCtx[c])
  BY ClosedStands DEF SmInit
<1>. QED BY <1>2, <1>5, <1>6, <1>7 DEF SmInv

LEMMA SmInvHolds == SmInv /\ [SmNext]_smVars => SmInv'
<1> SUFFICES ASSUME SmInv, [SmNext]_smVars PROVE SmInv'
  OBVIOUS
<1>1. CASE UNCHANGED smVars
  BY <1>1 DEF smVars, SmInv, SmBounds, LedgerView
<1>2. ASSUME NEW c \in Machines, Open(c) \/ BindDefinition(c) \/ OpenReady(c) \/ CompleteTransition(c)
      PROVE  SmInv'
  BY <1>2, OpenStep, BindStep, ReadyStep, CompleteStepSm
<1>3. ASSUME NEW c \in Machines, Drop(c) PROVE SmInv'
  <2>1. UNCHANGED <<smLedger, smApprovals, smClock>> /\ smCtx' = [smCtx EXCEPT ![c] = Closed]
    BY <1>3 DEF Drop
  <2>2. RunRows(smLedger') /\ PathStands(PairSteps(smLedger'), smApprovals)
    BY <2>1 DEF SmInv, LedgerView
  <2>. QED BY <2>1, <2>2, ClosedStands, MachineMoves
<1>4. ASSUME NEW c \in Machines, NEW to \in AllStates, NEW r \in DOMAIN ActionRequests,
             BeginTransition(c, to, r)
      PROVE  SmInv'
  BY <1>4, MoveStepHolds
<1>5. ASSUME NEW r \in DOMAIN ActionRequests, Approve(r) PROVE SmInv'
  <2>1. /\ UNCHANGED <<smLedger, smCtx, smClock>> /\ DOMAIN smApprovals' = DOMAIN smApprovals
        /\ \A q \in DOMAIN smApprovals : smApprovals[q] # None => smApprovals'[q] = smApprovals[q]
    BY <1>5 DEF Approve
  <2>2. ASSUME NEW v, NEW s, DepartureApproved(v, s, smApprovals) PROVE DepartureApproved(v, s, smApprovals')
    BY <2>1, <2>2 DEF DepartureApproved, SmInv, SmBounds
  <2>3. PathStands(LedgerView, smApprovals')
    BY <2>2 DEF SmInv, PathStands
  <2>. QED BY <2>1, <2>3 DEF SmInv, SmBounds, LedgerView
<1>6. CASE SmTick
  <2>1. UNCHANGED <<smLedger, smCtx, smApprovals>> /\ smClock' \in 0..SmMaxTime
    BY <1>6, WorkflowMachineAssumption DEF SmTick, SmInv, SmBounds
  <2>. QED BY <2>1 DEF SmInv, SmBounds, LedgerView
<1>. QED BY <1>1, <1>2, <1>3, <1>4, <1>5, <1>6 DEF SmNext

(* The last completed move before a departure is the entry that bound its approval. *)
LEMMA PathReplays ==
    ASSUME NEW v, NEW approvals, PathStands(v, approvals), NEW s \in Moves(v)
    PROVE  /\ s \in Nat \ {0} /\ v[s].completed = OutAt(v, s)
           /\ MoveFits(v[0].digest, v, s) /\ DepartureApproved(v, s, approvals)
           /\ StateBefore(v[0].digest, v, s) = StateIn(v[0].digest, v, s)
           /\ Moves(Earlier(v, s)) = 1..(s - 1)
           /\ s >= 2 => LastOf(Moves(Earlier(v, s))) = s - 1 /\ s - 1 \in Moves(v)
           /\ s >= 2 => Earlier(v, s)[s - 1] = v[s - 1]
<1>1. PICK n : Stepped(v, n)
  BY DEF PathStands
<1>2. n \in Nat /\ Moves(v) = 1..(n - 1) /\ CompletedSteps(v) = 0..(n - 1) /\ KindsFit(v)
  BY <1>1, MovesAre DEF Stepped, PathStands
<1>3. s \in Nat /\ s >= 1 /\ s <= n - 1 /\ s \in 0..n
  BY <1>2
<1>4. s \in DOMAIN v /\ v[s].completed # None
  BY DEF Moves, CompletedSteps
<1>5. v[s].completed = OutAt(v, s) /\ MoveFits(v[0].digest, v, s) /\ DepartureApproved(v, s, approvals)
  BY <1>3, <1>4 DEF PathStands
<1>6. StateBefore(v[0].digest, v, s) = StateIn(v[0].digest, v, s)
  BY <1>1, <1>2, <1>3, StateBeforeIs
<1>7. PICK e : e = Earlier(v, s)
  OBVIOUS
<1>8. Stepped(e, s) /\ KindsFit(e) /\ \A t \in 0..(s - 1) : e[t] = v[t]
  BY <1>1, <1>2, <1>3, <1>7, EarlierIs
<1>9. Moves(e) = 1..(s - 1)
  BY <1>8, MovesAre
<1>10. ASSUME s >= 2 PROVE LastOf(Moves(e)) = s - 1 /\ s - 1 \in Moves(v) /\ e[s - 1] = v[s - 1]
  <2>1. LastOf(1..(s - 1)) = s - 1
    BY <1>3, <1>10, LastIs
  <2>2. s - 1 \in 1..(n - 1) /\ s - 1 \in 0..(s - 1)
    BY <1>2, <1>3, <1>10
  <2>3. LastOf(Moves(e)) = s - 1
    BY <1>9, <2>1, Zenon
  <2>. QED BY <1>2, <1>8, <2>2, <2>3
<1>. QED BY <1>3, <1>5, <1>6, <1>7, <1>9, <1>10

LEMMA SmInvIsEnough == SmInv => MachineIsSound
<1> SUFFICES ASSUME SmInv PROVE MachineIsSound
  OBVIOUS
<1>1. PICK v : v = LedgerView
  OBVIOUS
<1>2. /\ RunRows(smLedger) /\ Sound(smLedger) /\ PathStands(v, smApprovals) /\ v = PairSteps(smLedger)
  BY <1>1 DEF SmInv, RunRows, LedgerView
<1>3. 0 \in CompletedSteps(v) => BoundManifest = v[0].digest /\ v[0].digest \in DOMAIN Manifests
  <2>1. SUFFICES ASSUME 0 \in CompletedSteps(v)
                 PROVE  BoundManifest = v[0].digest /\ v[0].digest \in DOMAIN Manifests
    OBVIOUS
  <2>2. 0 \in DOMAIN v /\ v[0].completed # None
    BY <2>1 DEF CompletedSteps
  <2>3. v[0].completed = OutAt(v, 0) /\ v[0].kind = "definition" /\ v[0].digest \in DOMAIN Manifests
    BY <1>2, <2>2 DEF PathStands, KindsFit
  <2>. QED BY <1>1, <2>3 DEF OutAt, OutFor, BoundManifest
<1>4. SmTypeOK
  <2>1. \A i \in DOMAIN smLedger :
          /\ smLedger[i].phase \in {"pending", "completed"}
          /\ smLedger[i].kind \in TransitionKinds \cup {"definition"}
    <3>1. SUFFICES ASSUME NEW q, On(smLedger, q)
                   PROVE  q.phase \in {"pending", "completed"} /\ q.kind \in TransitionKinds \cup {"definition"}
      BY DEF On
    <3>2. PICK p : p = PendingOf(q)
      OBVIOUS
    <3>3. On(smLedger, p) /\ p.phase = "pending" /\ p.step = q.step /\ p.kind = q.kind
      BY <1>2, <3>1, <3>2, RowHasPending, RowIs DEF PendingOf
    <3>4. p.step \in DOMAIN v
      BY <1>2, <3>3, PairIs, HasIsOn
    <3>5. PICK r : r = Record("pending", p.step, v[p.step].kind, v[p.step].digest, None)
      OBVIOUS
    <3>6. On(smLedger, r) /\ r.phase = "pending" /\ r.step = p.step /\ r.kind = v[p.step].kind
      BY <1>2, <3>4, <3>5, PairIs, RowIs DEF ViewStands, EntryStands
    <3>7. p = r
      BY <1>2, <3>3, <3>6, RowsUnique
    <3>8. v[p.step].kind \in TransitionKinds \cup {"definition"}
      BY <1>2, <3>4 DEF PathStands, KindsFit
    <3>. QED BY <1>2, <3>1, <3>3, <3>6, <3>7, <3>8 DEF RunRows
  <2>2. \A c \in Machines :
          /\ smCtx[c].pc \in {"closed", "binding", "opening", "ready", "moving"}
          /\ smCtx[c].pc # "closed" => smCtx[c].manifest \in DOMAIN Manifests
          /\ smCtx[c].cursor \in Nat
    BY DEF SmInv, MachineStands, MachineFits
  <2>. QED BY <2>1, <2>2 DEF SmTypeOK, SmInv, SmBounds
<1>5. MachineReopens
  <2>1. SUFFICES ASSUME 0 \in CompletedSteps(v), NEW s \in Moves(v) PROVE MoveReplays(v[0].digest, v, s)
    BY <1>1, <1>2, <1>3 DEF MachineReopens, ReplayValid, Sound
  <2>2. PICK m : m = v[0].digest
    OBVIOUS
  <2>3. /\ s \in Nat \ {0} /\ v[s].completed = OutAt(v, s) /\ MoveFits(m, v, s)
        /\ StateBefore(m, v, s) = StateIn(m, v, s)
        /\ Moves(Earlier(v, s)) = 1..(s - 1)
        /\ s >= 2 => LastOf(Moves(Earlier(v, s))) = s - 1
    BY <1>2, <2>2, PathReplays
  <2>4. s >= 2 => Moves(Earlier(v, s)) # {}
    <3>1. s >= 2 => s - 1 \in 1..(s - 1)
      BY <2>3
    <3>. QED BY <2>3, <3>1, Zenon
  <2>5. MoveReplays(m, v, s)
    BY <2>3, <2>4 DEF MoveReplays, MoveFits
  <2>. QED BY <2>2, <2>5
<1>6. ASSUME NEW c \in Machines, smCtx[c].pc \in {"opening", "ready", "moving"}
      PROVE  /\ 0 \in CompletedSteps(v) /\ smCtx[c].manifest = v[0].digest
             /\ Below(smCtx[c].view, v) /\ KindsFit(smCtx[c].view) /\ MachineFits(smCtx[c])
  <2>1. PICK x : x = smCtx[c]
    OBVIOUS
  <2>2. MachineFits(x) /\ Below(x.view, v) /\ KindsFit(x.view)
    BY <1>2, <2>1, UnderMachine
  <2>3. 0 \in CompletedSteps(x.view)
    BY <1>6, <2>1, <2>2 DEF MachineFits, Stepped
  <2>4. 0 \in CompletedSteps(v)
    BY <2>2, <2>3, CompletedBelow
  <2>5. x.manifest = v[0].digest
    BY <1>6, <2>1, <2>2 DEF MachineFits, Below
  <2>. QED BY <2>1, <2>2, <2>4, <2>5
<1>7. OneDefinition
  BY <1>1, <1>3, <1>6 DEF OneDefinition
<1>8. StateOnPath
  <2>1. SUFFICES ASSUME NEW c \in Machines, smCtx[c].pc \in {"ready", "moving"},
                        smCtx[c].state # Manifests[BoundManifest].initial
                 PROVE  \E s \in Moves(v) : v[s].completed.target = smCtx[c].state
    BY <1>1 DEF StateOnPath
  <2>2. PICK x : x = smCtx[c]
    OBVIOUS
  <2>3. MachineFits(x) /\ Below(x.view, v) /\ KindsFit(x.view) /\ x.manifest = BoundManifest
    BY <1>3, <1>6, <2>1, <2>2
  <2>4. PICK n \in Nat \ {0} : Stepped(x.view, n) /\ x.state = StateIn(x.manifest, x.view, n)
    <3>1. CASE x.pc = "ready"
      <4>1. x.cursor \in Nat \ {0} /\ Stepped(x.view, x.cursor) /\ x.state = StateIn(x.manifest, x.view, x.cursor)
        BY <2>3, <3>1 DEF MachineFits
      <4>. QED BY <4>1
    <3>2. CASE x.pc = "moving"
      <4>1. x.cursor - 1 \in Nat \ {0} /\ Stepped(x.view, x.cursor - 1)
            /\ x.state = StateIn(x.manifest, x.view, x.cursor - 1)
        BY <2>3, <3>2 DEF MachineFits
      <4>. QED BY <4>1
    <3>. QED BY <2>1, <2>2, <3>1, <3>2
  <2>5. n >= 2 /\ x.state = x.view[n - 1].completed.target
    BY <2>1, <2>2, <2>3, <2>4 DEF StateIn
  <2>6. n - 1 \in CompletedSteps(x.view) /\ n - 1 # 0
    BY <2>4, <2>5 DEF Stepped
  <2>7. n - 1 \in CompletedSteps(v) /\ v[n - 1].completed = x.view[n - 1].completed
    BY <2>3, <2>6, CompletedBelow
  <2>8. n - 1 \in Moves(v)
    <3>1. n - 1 \in DOMAIN v
      BY <2>7 DEF CompletedSteps
    <3>2. v[n - 1].kind \in TransitionKinds
      BY <1>2, <2>6, <3>1 DEF PathStands, KindsFit
    <3>. QED BY <2>7, <3>2 DEF Moves
  <2>. QED BY <2>2, <2>5, <2>7, <2>8
<1>9. LeftOnlyApproved
  <2>1. SUFFICES ASSUME NEW s \in Moves(v), v[s].kind = "approval"
        PROVE  \E r \in DOMAIN ActionRequests :
                 /\ smApprovals[r] # None
                 /\ \E t \in Moves(v) :
                       /\ t < s /\ v[t].kind = "entry_binding"
                       /\ v[t].completed.request = r
                       /\ v[t].completed.digest = smApprovals[r].digest
                       /\ v[t].completed.target = StateBefore(BoundManifest, v, s)
                       /\ \A u \in Moves(v) : ~(t < u /\ u < s)
    BY <1>1 DEF LeftOnlyApproved
  <2>2. PICK m : m = v[0].digest
    OBVIOUS
  <2>3. /\ s \in Nat \ {0} /\ MoveFits(m, v, s) /\ DepartureApproved(v, s, smApprovals)
        /\ StateBefore(m, v, s) = StateIn(m, v, s)
        /\ s >= 2 => s - 1 \in Moves(v)
    BY <1>2, <2>2, PathReplays
  <2>4. s >= 2 /\ v[s - 1].kind = "entry_binding"
    BY <2>1, <2>3 DEF MoveFits
  <2>5. PICK r \in DOMAIN ActionRequests : /\ smApprovals[r] # None /\ v[s - 1].completed.request = r
                                           /\ v[s - 1].completed.digest = smApprovals[r].digest
    BY <2>1, <2>3 DEF DepartureApproved
  <2>6. m = BoundManifest
    <3>1. PICK n : Stepped(v, n)
      BY <1>2 DEF PathStands
    <3>2. s \in CompletedSteps(v)
      BY DEF Moves
    <3>3. 0 \in CompletedSteps(v)
      BY <2>3, <3>1, <3>2 DEF Stepped
    <3>. QED BY <1>3, <2>2, <3>3
  <2>7. v[s - 1].completed.target = StateBefore(m, v, s)
    <3>1. ~(s <= 1)
      BY <2>3, <2>4
    <3>. QED BY <2>3, <3>1 DEF StateIn
  <2>8. \A u \in Moves(v) : u \in Nat
    BY <1>2, PathReplays
  <2>9. s - 1 < s /\ \A u \in Moves(v) : ~(s - 1 < u /\ u < s)
    BY <2>3, <2>8
  <2>. QED BY <2>3, <2>4, <2>5, <2>6, <2>7, <2>9
<1>. QED BY <1>4, <1>5, <1>7, <1>8, <1>9 DEF MachineIsSound

(* Whatever machines are opened on a run, and wherever they are dropped, the run can be
   opened again under the manifest it was started with, every open machine stands on a
   state the run has passed, and an approval state was left only with the owner's approval
   of the request its entry bound (WorkflowStateMachine::new, transition_to). *)
THEOREM MachineHolds == SmSpec => []MachineIsSound
BY SmInvStarts, SmInvHolds, SmInvIsEnough, PTL DEF SmSpec
==============================================================================
