------------------------------ MODULE MCSurfacing ------------------------------
(* A worker nobody settles, which the sweeps hand to the dead letters, beside what
   becomes of a dead letter. The sweeps write the row and never read it again, so a
   behaviour moves one of them. *)
EXTENDS MCWorkerDispatch, FailureSurfacing

VARIABLE part
mcVars == <<part, vars, fsVars>>

McInit ==
    /\ Init /\ FsInit /\ part \in {"sweeps", "letters"}
    /\ part = "letters" => minted = {} \* no legacy row waits for sweeps that do not come
McNext ==
    \/ part = "sweeps"  /\ Next   /\ UNCHANGED <<part, fsVars>>
    \/ part = "letters" /\ FsNext /\ UNCHANGED <<part, vars>>
(* The fairness of FairSpec and of FsSpec, each where its part moves. *)
McSpec ==
    /\ McInit /\ [][McNext]_mcVars
    /\ WF_vars(part = "sweeps" /\ Tick) /\ WF_vars(part = "sweeps" /\ WatchdogSweep)
    /\ \A l \in Lanes : WF_vars(part = "sweeps" /\ LaneStep(l))
    /\ \A w \in Workers : /\ SF_vars(part = "sweeps" /\ SurfaceStrandedWorker("watchdog", w))
                          /\ WF_vars(part = "sweeps" /\ SkipStrandedWorker("watchdog", w))
                          /\ WF_vars(part = "sweeps" /\ HandleReportResult(w))
                          /\ WF_vars(part = "sweeps" /\ HandleWorkerFailed(w))
    /\ WF_fsVars(part = "letters" /\ Complete) /\ WF_fsVars(part = "letters" /\ Reschedule)
    /\ SF_fsVars(part = "letters" /\ Resend(TRUE, TRUE))
    /\ \A m \in MsgIds : /\ WF_fsVars(part = "letters" /\ TimePasses(m))
                         /\ SF_fsVars(part = "letters" /\ Claim(m))
================================================================================
