-------------------------- MODULE MCDraftApproval --------------------------
(* Instances of DraftApproval for TLC. *)
EXTENDS DraftApproval, TLC

CONSTANTS l1, l2, g1, t1, a1, a2, p1, r1, r2, r3, f1, f2, s1, s2

(* One grant whose token dies first, then the grant, then its row. *)
OneGrant == (g1 :> [thread |-> t1, surface |-> s1, expires |-> 2, tokenExpires |-> 1])

Interchangeable == Permutations({l1, l2}) \cup Permutations({r1, r2, r3})
                     \cup Permutations({f1, f2}) \cup Permutations({a1, a2})
==============================================================================
