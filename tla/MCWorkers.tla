------------------------------ MODULE MCWorkers ------------------------------
(* The commission handlers beside the minting of the grants they hand out. The
   dispatch rows name a grant and read nothing of its chain, and minting reads no
   dispatch row, so a behaviour moves one of them. *)
EXTENDS MCWorkerDispatch, MCDelegation

VARIABLE part
mcVars == <<part, vars, dgVars>>

McInit == Init /\ DgInit /\ part \in {"handlers", "grants"}
McNext ==
    \/ part = "handlers" /\ Next   /\ UNCHANGED <<part, dgVars>>
    \/ part = "grants"   /\ DgNext /\ UNCHANGED <<part, vars>>
McSpec == McInit /\ [][McNext]_mcVars

McSymmetry == Interchangeable \cup GrantSymmetry
==============================================================================
