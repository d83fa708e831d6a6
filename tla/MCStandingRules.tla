--------------------------- MODULE MCStandingRules ---------------------------
(* Instances of StandingRules for TLC. *)
EXTENDS StandingRules, TLC

CONSTANTS r1, r2, act, cp, f1, f2, a1, a2, a3

(* A manifest without a dark window, and one with. *)
Plain(scope, quota, rate, expires) ==
    [action |-> act, scope |-> scope, quota |-> quota, quotaWin |-> 2,
     rate |-> rate, rateWin |-> 1, expires |-> expires,
     dwMax |-> 0, dwTime |-> 1, dwAllow |-> FALSE]
Dark(scope, quota, allow) ==
    [Plain(scope, quota, 1, 3) EXCEPT !.rateWin = 2, !.dwMax = 1, !.dwAllow = allow]

(* budget: one scoped rule; the rate window is narrower than the quota window, and
   the second version is tighter *)
BudgetManifest == r1 :> <<Plain(cp, 2, 1, 2), Plain(cp, 1, 1, 2)>>

(* dark: one rule with an Allow default *)
DarkManifest == r1 :> <<Dark(None, 0, TRUE)>>

(* live: a dark rule and a plain one of the same action *)
TwoLives == (r1 :> <<Dark(None, 0, TRUE)>>) @@ (r2 :> <<Plain(None, 1, 1, 2)>>)

(* overspend: one scoped rule that admits a single effect per window *)
ScopedManifest == r1 :> <<Plain(cp, 1, 1, 3)>>

OnePrintAction  == f1 :> act
OnePrintScope   == f1 :> cp
OneExpiry       == f1 :> 9
NoPrintScope    == f1 :> None
TwoPrintAction  == (f1 :> act) @@ (f2 :> act)
TwoPrintScope   == (f1 :> None) @@ (f2 :> cp)
TwoExpiry       == (f1 :> 9) @@ (f2 :> 2)
AllOnOne        == [a \in Attempts |-> f1]
OneEach         == (a1 :> f1) @@ (a2 :> f2)
AttemptSymmetry == Permutations(Attempts)
==============================================================================
