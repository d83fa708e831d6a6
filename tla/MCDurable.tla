------------------------------- MODULE MCDurable -------------------------------
(* Five protocols that go on where a dead process left them: the result relay, the
   erasure of a counterparty's key, the restore of a data root, the review of a mined
   rule and the overlay of learned artifacts. They share no state here, so a
   behaviour moves one of them. *)
EXTENDS WorkerRelay, CounterpartyKeys, OverlayRestore, OwnerReview, MCArtifacts

VARIABLE part
mcVars == <<part, vars, ckVars, orVars, rvVars, alVars>>

McInit ==
    /\ Init /\ CkInit /\ OrInit /\ RvInit /\ AlInit
    /\ part \in {"relay", "keys", "restore", "review", "overlay"}
    /\ part # "overlay" => alBase = {}
McNext ==
    \/ part = "relay"   /\ Next   /\ UNCHANGED <<part, ckVars, orVars, rvVars, alVars>>
    \/ part = "keys"    /\ CkNext /\ UNCHANGED <<part, vars, orVars, rvVars, alVars>>
    \/ part = "restore" /\ OrNext /\ UNCHANGED <<part, vars, ckVars, rvVars, alVars>>
    \/ part = "review"  /\ (RvNext \/ UNCHANGED rvVars) \* an owner may have nothing left to say
                        /\ UNCHANGED <<part, vars, ckVars, orVars, alVars>>
    \/ part = "overlay" /\ (AlNext \/ UNCHANGED alVars) \* nor a startup requests left to ask
                         /\ UNCHANGED <<part, vars, ckVars, orVars, rvVars>>
(* The fairness of FairSpec, where the relay moves. *)
McSpec ==
    /\ McInit /\ [][McNext]_mcVars
    /\ WF_vars(part = "relay" /\ RelayStep) /\ WF_vars(part = "relay" /\ RouterStep)
    /\ SF_vars(part = "relay" /\ FailRelay)
    /\ \A i \in Seqs :
         SF_vars(part = "relay" /\ RouteFailure(i)) /\ WF_vars(part = "relay" /\ NoticeFails(i))
================================================================================
