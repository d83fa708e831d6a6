------------------------------ MODULE MCWorkflow ------------------------------
(* The step program, the declarative machine, the board whose timers the same driver
   fires, and the nerves that the ledger they all write is replayed to, explored side
   by side: they share operations and no state, so a behaviour moves one of them. *)
EXTENDS WorkflowRun, WorkflowMachine, TaskBoard, Nerves, TLC

CONSTANTS r1, r2, r3, t1, t2, t3, m1, m2, n1, n2, agent

Step(kind, at) == [kind |-> kind, digest |-> <<kind, at>>, at |-> at]
(* The program, and a later build of it that put another step second. *)
TwoPrograms ==
    {<<Step("effect", 0), Step("timer", 1)>>, <<Step("effect", 0), Step("time", 0)>>}

(* A draft that needs an approval to leave "review", reworked or sent from there;
   and an edited manifest that needs none. *)
Edges == {<<"draft", "review">>, <<"review", "draft">>, <<"review", "sent">>}
TwoManifests ==
    ("gated" :> [initial |-> "draft", required |-> "review" :> "send", edges |-> Edges]) @@
    ("open"  :> [initial |-> "draft", required |-> <<>>, edges |-> Edges])
ThreeRequests ==
    (r1 :> [action |-> "send", digest |-> <<"d1">>]) @@
    (r2 :> [action |-> "send", digest |-> <<"d2">>]) @@
    (r3 :> [action |-> "read", digest |-> <<"d1">>])

(* t3 waits for t1 and t2; t2 and t3 have a timer each. *)
FanIn == (t1 :> {}) @@ (t2 :> {}) @@ (t3 :> {t1, t2})
TwoTimers == (m1 :> t2) @@ (m2 :> t3)

(* A screener, and a nerve nothing dispatches; a manifest that lets the screener see
   its signals, and one that does not. *)
Nerve(scope, screener) ==
    [advisee |-> agent, scope |-> scope, filter |-> scope, tier |-> 1,
     screener |-> screener, speaks |-> TRUE, max |-> 1]
ScreenerAndMiner == (n1 :> Nerve({"signal"}, TRUE)) @@ (n2 :> Nerve({"plain"}, FALSE))
Grant(scope) == agent :> [scope |-> scope, tier |-> 1]
WithAndWithoutSignals == {Grant({"signal", "plain"}), Grant({"plain"})}

VARIABLE part
mcVars == <<part, wfVars, smVars, tbVars, nvVars>>

McInit ==
    /\ WfInit /\ SmInit /\ TbInit /\ NvInit
    /\ part \in {"run", "machine", "board", "nerves"}
    /\ part # "nerves" => nvLimits = Grant({"plain"})
McNext ==
    \/ part = "run"     /\ WfNext /\ UNCHANGED <<part, smVars, tbVars, nvVars>>
    \/ part = "machine" /\ SmNext /\ UNCHANGED <<part, wfVars, tbVars, nvVars>>
    \/ part = "board"   /\ TbNext /\ UNCHANGED <<part, wfVars, smVars, nvVars>>
    \/ part = "nerves"  /\ NvNext /\ UNCHANGED <<part, wfVars, smVars, tbVars>>
(* The fairness of each component, where it moves. *)
McSpec ==
    /\ McInit /\ [][McNext]_mcVars
    /\ WF_wfVars(part = "run" /\ DriverPass) /\ WF_wfVars(part = "run" /\ FireDue)
    /\ WF_wfVars(part = "run" /\ WfTick) /\ WF_wfVars(part = "run" /\ Boot)
    /\ WF_tbVars(part = "board" /\ Consumer)
    /\ WF_nvVars(part = "nerves" /\ DispatcherStep) /\ WF_nvVars(part = "nerves" /\ DeliveryStep)
================================================================================
