------------------------------- MODULE MCCustody -------------------------------
(* What the owner put in the kernel's hands: the exceptions of a rule, a secret that is
   being handed over, a credential that is being renewed. They share no state here, so
   a behaviour moves one of them. *)
EXTENDS MCStandingRules, SecretIntake, OAuthRefresh

CONSTANTS w1, w2, t1, t2, c1, c2

TwoOnOne == [a \in Attempts |-> IF a = a3 THEN f2 ELSE f1]

(* The model calls are alike. *)
McSymmetry == Permutations({c1, c2})

VARIABLE part
mcVars == <<part, vars, siVars, oaVars>>

McInit ==
    /\ Init /\ SiInit /\ OaInit /\ part \in {"crashes", "requests", "secrets", "oauth"}
    /\ siVault.live["bot"] = w1 \* the two accounts are alike
    /\ part \in {"secrets", "oauth"} => eligible = {}
    /\ part # "secrets" => siVault.live["client"] = "none" /\ siVault.live["refresh"] = "none"

(* One dark rule. Either two attempts of one request and a crash; or an attempt
   of each of two requests, one of them with a payload that cannot be read back and a
   grant that expires, no crash and a clock that moves once. *)
DarkNext ==
    /\ Next
    /\ IF part = "crashes" THEN att'[a3] = att[a3]
       ELSE att'[a2] = att[a2] /\ crashes' = crashes /\ now' <= 1
McNext ==
    \/ part \in {"crashes", "requests"} /\ DarkNext /\ UNCHANGED <<part, siVars, oaVars>>
    \/ part = "secrets" /\ SiNext /\ UNCHANGED <<part, vars, oaVars>>
    \/ part = "oauth"   /\ OaNext /\ UNCHANGED <<part, vars, siVars>>
McSpec == McInit /\ [][McNext]_mcVars
================================================================================
