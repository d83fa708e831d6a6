----------------------------- MODULE CustodyProofs -----------------------------
(***************************************************************************)
(* What the owner put in the kernel's hands, for every set of callers,     *)
(* accounts and surfaces and every bound on faults, restarts and commands. *)
(*                                                                         *)
(* Renewals: the in-flight key is set before a call becomes a flier and    *)
(* cleared by the flier alone, so there is one; the token it presents is   *)
(* therefore the one in the vault, unless a token was lost on the way.     *)
(*                                                                         *)
(* Secrets: a capture remembers the store it began with, and how far the   *)
(* store has left it is a function of the step the capture stands at.      *)
(***************************************************************************)
EXTENDS SecretIntake, OAuthRefresh, FiniteSetTheorems, TLAPS

(* Model calls. *)

Calls ==
    [pc : {"idle", "renew", "wait", "ready", "put_enabled", "disable", "land"}]
        \cup [pc : {"send"}, key : Issue] \cup [pc : {"ask"}, token : Issue]
        \cup [pc : {"put_refresh", "put_access"}, token : Issue, access : Issue]
Logins == {NoCall} \cup [pc : {"put_refresh", "put_access", "put_enabled"}, token : Issue, access : Issue]

OaTyped ==
    /\ oaVault \in [refresh : Issue, access : Issue, disabled : BOOLEAN]
    /\ oaCalls \in [Callers -> Calls] /\ oaFlight \in BOOLEAN
    /\ oaLogin \in Logins /\ oaIssued \in Issue /\ oaLate \subseteq Issue
    /\ oaHonours \in [refresh : SUBSET (1..oaIssued), access : SUBSET (1..oaIssued)]
    /\ oaExcused \subseteq Befalls

Flies(c) ==
    oaCalls[c].pc \in {"ready", "ask", "put_refresh", "put_access", "put_enabled", "disable", "land"}
OneFlies == \A c, d \in Callers : Flies(c) /\ Flies(d) => c = d
KeyIsHeld ==
    /\ \A c \in Callers : Flies(c) => oaFlight
    /\ oaFlight /\ "leaked" \notin oaExcused => \E c \in Callers : Flies(c)

(* Unless a token was lost, what a call presents is what the vault holds and what it is
   about to write is honoured; what it is about to disable has a cause. *)
Lost == "lost" \in oaExcused
CallStands(c) ==
    /\ Pc(c, "ask") => oaCalls[c].token = oaVault.refresh \/ Lost
    /\ Pc(c, "put_refresh") => oaCalls[c].token \in oaHonours.refresh \/ Lost
    /\ Pc(c, "disable") => oaExcused \cap {"lost", "barred"} # {}
TokensStand == RefreshTokenIsKept /\ \A c \in Callers : CallStands(c)

OaInv == OaTyped /\ OneFlies /\ KeyIsHeld /\ TokensStand /\ CredentialSurvives

(* A state of the invariant is one of the property. *)
LEMMA OaInvIsEnough == OaInv => RenewalIsSound
<1> SUFFICES ASSUME OaInv PROVE RenewalIsSound
  OBVIOUS
<1> DEFINE F == {c \in Callers : oaCalls[c].pc = "ready"} \cup Renewers
<1>1. \A c : c \in F <=> c \in Callers /\ Flies(c)
  BY DEF Renewers, Flies
<1>2. OneRenewal
  <2>1. CASE F = {}
    BY <2>1, FS_EmptySet DEF OneRenewal
  <2>2. CASE F # {}
    <3>1. PICK c \in F : TRUE
      BY <2>2
    <3>2. F = {c}
      BY <1>1, <3>1 DEF OaInv, OneFlies
    <3>3. Cardinality(F) <= 1
      <4> HIDE DEF F
      <4>. QED BY <3>2, FS_Singleton
    <3>. QED BY <3>3 DEF OneRenewal
  <2>. QED BY <2>1, <2>2
<1>3. FlightIsFlown
  BY <1>1 DEF FlightIsFlown, OaInv, KeyIsHeld
<1>4. OaTypeOK
  BY DEF OaInv, OaTyped, OaTypeOK
<1>. QED BY <1>2, <1>3, <1>4 DEF RenewalIsSound, OaInv, TokensStand

LEMMA OaInitHolds == OaInit => OaInv
<1> SUFFICES ASSUME OaInit PROVE OaInv
  OBVIOUS
<1>1. NoCall \in Calls /\ 1 \in Issue
  BY OAuthAssumption DEF NoCall, Calls, Issue
<1>2. OaTyped
  <2>1. oaCalls \in [Callers -> Calls] /\ oaLogin \in Logins /\ oaLogin = NoCall
    BY <1>1 DEF OaInit, Logins
  <2>2. oaHonours \in [refresh : SUBSET (1..oaIssued), access : SUBSET (1..oaIssued)]
    BY DEF OaInit
  <2>. QED BY <1>1, <2>1, <2>2 DEF OaInit, OaTyped
<1>3. \A c \in Callers : oaCalls[c].pc = "idle"
  BY DEF OaInit, NoCall
<1>4. OneFlies /\ KeyIsHeld
  BY <1>3 DEF OaInit, OneFlies, KeyIsHeld, Flies
<1>5. TokensStand /\ CredentialSurvives
  BY <1>3 DEF OaInit, TokensStand, RefreshTokenIsKept, CallStands, CredentialSurvives, Pc
<1>. QED BY <1>2, <1>4, <1>5 DEF OaInv

(* One call moves. *)
LEMMA CallTyped ==
    ASSUME OaTyped, NEW c \in Callers, NEW call \in Calls, Step(c, call)
    PROVE  oaCalls' \in [Callers -> Calls]
BY DEF OaTyped, Step

(* A grant adds one credential. *)
LEMMA GrantTyped ==
    ASSUME OaTyped, NEW token, NEW rotated \in BOOLEAN, Grant(token, rotated)
    PROVE  /\ oaIssued' = oaIssued + 1 /\ oaIssued' \in Issue
           /\ oaHonours' \in [refresh : SUBSET (1..oaIssued'), access : SUBSET (1..oaIssued')]
<1>1. oaIssued' = oaIssued + 1 /\ oaIssued' \in Issue
  BY OAuthAssumption DEF OaTyped, Grant, Issue
<1>2. oaHonours.refresh \subseteq 1..oaIssued /\ oaHonours.access \subseteq 1..oaIssued
  BY DEF OaTyped
<1>3. 1..oaIssued \subseteq 1..oaIssued' /\ oaIssued' \in 1..oaIssued'
  BY <1>1 DEF OaTyped, Issue
<1>. QED BY ONLY <1>1, <1>2, <1>3, Grant(token, rotated) DEF Grant

LEMMA HonouredIsIssued ==
    ASSUME OaTyped
    PROVE  oaHonours.refresh \subseteq Issue
<1>1. oaHonours.refresh \subseteq 1..oaIssued /\ oaIssued \in 1..MaxIssue
  BY DEF OaTyped, Issue
<1>. QED BY <1>1, OAuthAssumption DEF Issue

LEMMA LoginRuns ==
    ASSUME OaTyped, LoginWrites \/ LoginFails
    PROVE  oaLogin \in [pc : {"put_refresh", "put_access", "put_enabled"}, token : Issue, access : Issue]
<1>1. oaLogin # NoCall
  <2>1. CASE LoginFails
    BY <2>1 DEF LoginFails
  <2>2. CASE LoginWrites
    <3>1. oaLogin.pc \in {"put_refresh", "put_access", "put_enabled"}
      BY <2>2 DEF LoginWrites
    <3>2. NoCall.pc = "idle"
      BY DEF NoCall
    <3>. QED BY <3>1, <3>2
  <2>. QED BY <2>1, <2>2
<1>. QED BY <1>1 DEF OaTyped, Logins

LEMMA OaStepTyped ==
    ASSUME OaTyped, [OaNext]_oaVars
    PROVE  OaTyped'
<1> USE OAuthAssumption
<1>1. CASE UNCHANGED oaVars
  BY <1>1 DEF OaTyped, oaVars
<1>2. CASE AccessExpires \/ Revoke
  BY <1>2 DEF OaTyped, AccessExpires, Revoke, Befalls
<1>3. ASSUME NEW reissued \in BOOLEAN, Login(reissued) PROVE OaTyped'
  <2>1. oaIssued' = oaIssued + 1 /\ oaIssued' \in Issue
    BY <1>3 DEF OaTyped, Login, Issue
  <2>2. oaLogin' \in Logins
    BY <1>3, <2>1 DEF OaTyped, Login, Logins
  <2>3. oaHonours' \in [refresh : SUBSET (1..oaIssued'), access : SUBSET (1..oaIssued')]
    <3>1. oaHonours.refresh \subseteq 1..oaIssued /\ oaHonours.access \subseteq 1..oaIssued
      BY DEF OaTyped
    <3>2. 1..oaIssued \subseteq 1..oaIssued' /\ oaIssued' \in 1..oaIssued'
      BY <2>1 DEF OaTyped, Issue
    <3>. QED BY ONLY <1>3, <3>1, <3>2 DEF Login
  <2>. QED BY <1>3, <2>1, <2>2, <2>3 DEF OaTyped, Login
<1>4. CASE LoginWrites \/ LoginFails
  <2>2. oaLogin \in [pc : {"put_refresh", "put_access", "put_enabled"}, token : Issue, access : Issue]
    BY <1>4, LoginRuns
  <2>3. oaLogin' \in Logins
    BY <1>4, <2>2 DEF LoginWrites, LoginFails, Logins
  <2>4. oaVault' \in [refresh : Issue, access : Issue, disabled : BOOLEAN]
    BY <1>4, <2>2 DEF LoginWrites, LoginFails, PutSlot, OaTyped
  <2>5. oaExcused' \subseteq Befalls
    BY <1>4 DEF LoginWrites, LoginFails, OaTyped, Befalls
  <2>. QED BY <1>4, <2>3, <2>4, <2>5 DEF OaTyped, LoginWrites, LoginFails, PutSlot, Provider
<1>5. CASE OaRestart
  <2>1. oaLate' \subseteq oaLate \cup oaHonours.refresh
    BY <1>5 DEF OaRestart, Live
  <2>2. oaLate' \subseteq Issue
    BY <2>1, HonouredIsIssued DEF OaTyped
  <2>. QED BY <1>5, <2>2 DEF OaTyped, OaRestart, NoCall, Calls, Befalls, Lose
<1>6. ASSUME NEW c \in Callers,
             Generate(c) \/ Served(c) \/ Unauthorized(c) \/ Fly(c) \/ Wait(c) \/ WaitEnds(c)
             \/ Present(c) \/ Refused(c) \/ Unreachable(c) \/ PutFails(c) \/ Disable(c)
             \/ EndFlight(c) \/ Drop(c)
      PROVE  OaTyped'
  <2>1. PICK call \in Calls : Step(c, call)
    BY <1>6 DEF OaTyped, Generate, Served, Unauthorized, Fly, Wait, WaitEnds, Present, Refused,
                Unreachable, PutFails, Disable, EndFlight, Drop, NoCall, Calls
  <2>2. oaCalls' \in [Callers -> Calls]
    BY <2>1, CallTyped
  <2>3. oaVault' \in [refresh : Issue, access : Issue, disabled : BOOLEAN] /\ oaFlight' \in BOOLEAN
    BY <1>6 DEF OaTyped, Generate, Served, Unauthorized, Fly, Wait, WaitEnds, Present, Refused,
                Unreachable, PutFails, Disable, EndFlight, Drop
  <2>4. UNCHANGED <<oaLogin, oaIssued, oaHonours>> /\ oaExcused' \subseteq oaExcused \cup Befalls
    BY <1>6 DEF Generate, Served, Unauthorized, Fly, Wait, WaitEnds, Present, Refused,
                Unreachable, PutFails, Disable, EndFlight, Drop, Provider, Befalls, Lose
  <2>5. oaLate' \subseteq oaLate \cup oaHonours.refresh
    BY <1>6 DEF Generate, Served, Unauthorized, Fly, Wait, WaitEnds, Present, Refused,
                Unreachable, PutFails, Disable, EndFlight, Drop, Provider, Live
  <2>6. oaLate' \subseteq Issue
    BY <2>5, HonouredIsIssued DEF OaTyped
  <2>. QED BY <2>2, <2>3, <2>4, <2>6 DEF OaTyped
<1>7. ASSUME NEW c \in Callers, NEW rotated \in BOOLEAN, Renewed(c, rotated) \/ Unspendable(c, rotated)
      PROVE  OaTyped'
  <2>1. oaCalls[c] \in [pc : {"ask"}, token : Issue] /\ Grant(oaCalls[c].token, rotated)
    BY <1>7 DEF OaTyped, Calls, Renewed, Unspendable, Pc
  <2>2. /\ oaIssued' \in Issue
        /\ oaHonours' \in [refresh : SUBSET (1..oaIssued'), access : SUBSET (1..oaIssued')]
    BY <2>1, GrantTyped
  <2>3. oaCalls' \in [Callers -> Calls]
    BY <1>7, <2>1, <2>2, CallTyped DEF Renewed, Unspendable, Calls
  <2>. QED BY <1>7, <2>2, <2>3 DEF OaTyped, Renewed, Unspendable, Befalls
<1>8. ASSUME NEW c \in Callers, PutRefreshed(c)
      PROVE  OaTyped'
  <2>1. oaCalls[c] \in Calls
    BY DEF OaTyped
  <2>2. oaCalls' \in [Callers -> Calls]
    <3>1. PICK call \in Calls : Step(c, call)
      BY <1>8, <2>1 DEF PutRefreshed, Calls
    <3>. QED BY <3>1, CallTyped
  <2>3. oaVault' \in [refresh : Issue, access : Issue, disabled : BOOLEAN]
    BY <1>8, <2>1 DEF OaTyped, PutRefreshed, PutSlot, Calls
  <2>. QED BY <1>8, <2>2, <2>3 DEF OaTyped, PutRefreshed, PutSlot, Provider
<1>9. ASSUME NEW token \in Issue, GrantUnheard(token) PROVE OaTyped'
  <2>1. Grant(token, TRUE)
    BY <1>9 DEF GrantUnheard
  <2>2. /\ oaIssued' \in Issue
        /\ oaHonours' \in [refresh : SUBSET (1..oaIssued'), access : SUBSET (1..oaIssued')]
    BY <2>1, GrantTyped
  <2>. QED BY <1>9, <2>2 DEF OaTyped, GrantUnheard, Befalls
<1>. QED BY <1>1, <1>2, <1>3, <1>4, <1>5, <1>6, <1>7, <1>8, <1>9 DEF OaNext

LEMMA CallMoves ==
    ASSUME OaTyped, NEW c \in Callers, NEW call, Step(c, call)
    PROVE  oaCalls'[c] = call /\ \A d \in Callers \ {c} : oaCalls'[d] = oaCalls[d]
BY DEF OaTyped, Step

LEMMA PutMoves ==
    ASSUME OaTyped, NEW c \in Callers, PutRefreshed(c)
    PROVE  /\ oaCalls'[c].pc \in {"put_access", "put_enabled", "land"}
           /\ \A d \in Callers \ {c} : oaCalls'[d] = oaCalls[d]
<1>1. CASE Pc(c, "put_refresh")
  <2> DEFINE next == [oaCalls[c] EXCEPT !.pc = "put_access"]
  <2>1. oaCalls[c] \in Calls
    BY DEF OaTyped
  <2>2. next.pc = "put_access"
    BY <1>1, <2>1 DEF Calls, Pc
  <2>3. Step(c, next)
    BY <1>1 DEF PutRefreshed, Pc
  <2>. QED BY <2>2, <2>3, CallMoves
<1>2. CASE ~Pc(c, "put_refresh")
  <2>1. Step(c, [pc |-> "put_enabled"]) \/ Step(c, [pc |-> "land"])
    BY <1>2 DEF PutRefreshed, Pc
  <2>2. CASE Step(c, [pc |-> "put_enabled"])
    BY <2>2, CallMoves
  <2>3. CASE Step(c, [pc |-> "land"])
    BY <2>3, CallMoves
  <2>. QED BY <2>1, <2>2, <2>3
<1>. QED BY <1>1, <1>2

(* Nobody takes off or lands. *)
LEMMA CruiseKeepsKey ==
    ASSUME OneFlies, KeyIsHeld, \A d \in Callers : Flies(d)' <=> Flies(d), oaFlight' = oaFlight,
           "leaked" \in oaExcused' <=> "leaked" \in oaExcused
    PROVE  OneFlies' /\ KeyIsHeld'
<1>1. OneFlies'
  BY DEF OneFlies
<1>2. KeyIsHeld'
  BY DEF KeyIsHeld
<1>. QED BY <1>1, <1>2

LEMMA OaStepKey ==
    ASSUME OaTyped, OneFlies, KeyIsHeld, [OaNext]_oaVars
    PROVE  OneFlies' /\ KeyIsHeld'
<1>1. CASE \/ UNCHANGED oaVars \/ AccessExpires \/ Revoke \/ LoginWrites \/ LoginFails
           \/ (\E reissued \in BOOLEAN : Login(reissued)) \/ (\E token \in Issue : GrantUnheard(token))
  <2>1. UNCHANGED <<oaCalls, oaFlight>> /\ ("leaked" \in oaExcused' <=> "leaked" \in oaExcused)
    BY <1>1 DEF oaVars, AccessExpires, Revoke, Login, LoginWrites, LoginFails, GrantUnheard, PutSlot
  <2>. QED BY <2>1, CruiseKeepsKey DEF Flies
<1>2. CASE OaRestart
  <2>1. \A d \in Callers : ~Flies(d)'
    BY <1>2 DEF OaRestart, Flies, NoCall
  <2>2. ~oaFlight'
    BY <1>2 DEF OaRestart
  <2>. QED BY <2>1, <2>2 DEF OneFlies, KeyIsHeld
<1>3. ASSUME NEW c \in Callers, Fly(c)
      PROVE  OneFlies' /\ KeyIsHeld'
  <2>1. \A d \in Callers : Flies(d)' <=> d = c
    BY <1>3, CallMoves DEF Fly, KeyIsHeld, Flies
  <2>. QED BY <1>3, <2>1 DEF OneFlies, KeyIsHeld, Fly
<1>4. ASSUME NEW c \in Callers, EndFlight(c) \/ (Drop(c) /\ c \in Renewers)
      PROVE  OneFlies' /\ KeyIsHeld'
  <2>1. Flies(c) /\ ~Flies(c)' /\ \A d \in Callers \ {c} : Flies(d)' <=> Flies(d)
    BY <1>4, CallMoves DEF EndFlight, Drop, Flies, Pc, NoCall, Renewers
  <2>2. \A d \in Callers : ~Flies(d)'
    BY <2>1 DEF OneFlies
  <2>3. CASE EndFlight(c)
    BY <2>2, <2>3 DEF OneFlies, KeyIsHeld, EndFlight
  <2>4. CASE Drop(c) /\ c \in Renewers
    BY <2>2, <2>4 DEF OneFlies, KeyIsHeld, Drop
  <2>. QED BY <1>4, <2>3, <2>4
<1>5. ASSUME NEW c \in Callers,
             Generate(c) \/ Served(c) \/ Unauthorized(c) \/ Wait(c) \/ WaitEnds(c)
             \/ Present(c) \/ (\E rotated \in BOOLEAN : Renewed(c, rotated) \/ Unspendable(c, rotated))
             \/ Refused(c) \/ Unreachable(c) \/ PutRefreshed(c) \/ PutFails(c) \/ Disable(c)
             \/ (Drop(c) /\ c \notin Renewers)
      PROVE  OneFlies' /\ KeyIsHeld'
  <2>1. PICK call : Step(c, call)
    BY <1>5 DEF Generate, Served, Unauthorized, Wait, WaitEnds, Present, Renewed, Unspendable, Refused,
                Unreachable, PutRefreshed, PutFails, Disable, Drop
  <2>2. Flies(c)' <=> Flies(c)
    <3>1. CASE Generate(c) \/ Served(c) \/ Wait(c) \/ WaitEnds(c) \/ Unauthorized(c)
      BY <3>1, CallMoves DEF Generate, Served, Unauthorized, Wait, WaitEnds, Flies, Pc, NoCall
    <3>2. CASE Present(c) \/ Refused(c) \/ Unreachable(c) \/ Disable(c)
      BY <3>2, CallMoves DEF Present, Refused, Unreachable, Disable, Flies, Pc
    <3>3. CASE \E rotated \in BOOLEAN : Renewed(c, rotated) \/ Unspendable(c, rotated)
      BY <3>3, CallMoves DEF Renewed, Unspendable, Flies, Pc
    <3>4. CASE PutRefreshed(c)
      <4>1. oaCalls[c].pc \in {"put_refresh", "put_access", "put_enabled"}
        BY <3>4 DEF PutRefreshed
      <4>. QED BY <3>4, <4>1, PutMoves DEF Flies
    <3>5. CASE PutFails(c)
      BY <3>5, CallMoves DEF PutFails, Flies
    <3>6. CASE Drop(c) /\ c \notin Renewers
      BY <3>6, CallMoves DEF Drop, Flies, Pc, NoCall, Renewers
    <3>. QED BY <1>5, <3>1, <3>2, <3>3, <3>4, <3>5, <3>6
  <2>3. \A d \in Callers : Flies(d)' <=> Flies(d)
    BY <2>1, <2>2, CallMoves DEF Flies
  <2>4. oaFlight' = oaFlight /\ ("leaked" \in oaExcused' <=> "leaked" \in oaExcused)
    BY <1>5 DEF Generate, Served, Unauthorized, Wait, WaitEnds, Present, Renewed, Unspendable, Refused,
                Unreachable, PutRefreshed, PutFails, Disable, Drop, PutSlot, Lose
  <2>. QED BY <2>3, <2>4, CruiseKeepsKey
<1>. QED BY <1>1, <1>2, <1>3, <1>4, <1>5 DEF OaNext

(* Calls that end or wait, with whatever they had not written already counted as lost. *)
Quiet(c) == oaCalls[c].pc \notin {"ask", "put_refresh", "disable"}
Kept == oaExcused \ {"leaked"} \subseteq oaExcused'
LEMMA QuietCallsKeepTokens ==
    ASSUME TokensStand, Kept, oaVault'.refresh = oaVault.refresh,
           oaHonours.refresh \subseteq oaHonours'.refresh,
           \A d \in Callers : \/ oaCalls'[d] = oaCalls[d]
                              \/ Quiet(d)' /\ (Lost' \/ ~Unwritten(d))
    PROVE  TokensStand'
<1>1. Lost => Lost'
  BY DEF Kept, Lost
<1>2. \A d \in Callers : CallStands(d)'
  BY <1>1 DEF TokensStand, CallStands, Quiet, Pc, Kept
<1>3. RefreshTokenIsKept'
  <2>1. CASE oaVault.refresh \in oaHonours.refresh \/ Lost
    BY <1>1, <2>1 DEF RefreshTokenIsKept, Lost
  <2>2. ASSUME NEW d \in Callers, Pc(d, "put_refresh") PROVE RefreshTokenIsKept'
    <3>1. CASE oaCalls'[d] = oaCalls[d] \/ Lost'
      BY <2>2, <3>1 DEF RefreshTokenIsKept, Pc, Lost
    <3>2. CASE ~Unwritten(d)
      BY <1>1, <2>2, <3>2 DEF TokensStand, CallStands, RefreshTokenIsKept, Unwritten, Lost
    <3>. QED BY <3>1, <3>2
  <2>. QED BY <2>1, <2>2 DEF TokensStand, RefreshTokenIsKept, Lost
<1>. QED BY <1>2, <1>3 DEF TokensStand

(* A renewal under way is alone: the others neither present a token nor write one. *)
LEMMA OthersAreQuiet ==
    ASSUME OaTyped, OneFlies, NEW c \in Callers, Flies(c), NEW call, Step(c, call)
    PROVE  \A d \in Callers \ {c} : Quiet(d)' /\ oaCalls'[d] = oaCalls[d]
BY CallMoves DEF OneFlies, Flies, Quiet

LEMMA OaStepTokens ==
    ASSUME OaInv, [OaNext]_oaVars
    PROVE  TokensStand'
<1>0. OaTyped /\ OneFlies /\ TokensStand
  BY DEF OaInv
<1>v. oaVault \in [refresh : Issue, access : Issue, disabled : BOOLEAN]
  BY <1>0 DEF OaTyped
<1>1. CASE \/ UNCHANGED oaVars \/ AccessExpires \/ LoginFails \/ (LoginWrites /\ oaLogin.pc # "put_refresh")
           \/ (\E reissued \in BOOLEAN : Login(reissued))
  <2>1. UNCHANGED oaCalls
    BY <1>1 DEF oaVars, AccessExpires, LoginFails, LoginWrites, Login
  <2>2. oaVault'.refresh = oaVault.refresh /\ Kept
    BY <1>1, <1>v DEF oaVars, AccessExpires, LoginFails, LoginWrites, Login, PutSlot, Kept
  <2>3. oaHonours.refresh \subseteq oaHonours'.refresh
    BY <1>0, <1>1 DEF oaVars, AccessExpires, LoginFails, LoginWrites, Login, PutSlot, Provider, OaTyped
  <2>. QED BY <1>0, <2>1, <2>2, <2>3, QuietCallsKeepTokens
<1>2. CASE Revoke
  BY <1>0, <1>2 DEF Revoke, TokensStand, RefreshTokenIsKept, CallStands, Lost, Pc
<1>3. CASE LoginWrites /\ oaLogin.pc = "put_refresh"
  <2>1. oaVault'.refresh = oaLogin.token /\ UNCHANGED <<oaCalls, oaHonours>>
    BY <1>3, <1>v DEF LoginWrites, PutSlot, Provider
  <2>2. CASE oaLogin.token \in oaHonours.refresh /\ Unsettled = {}
    <3>1. \A d \in Callers : CallStands(d)'
      BY <2>1, <2>2 DEF Unsettled, CallStands, Pc
    <3>. QED BY <2>1, <2>2, <3>1 DEF TokensStand, RefreshTokenIsKept
  <2>3. CASE ~(oaLogin.token \in oaHonours.refresh /\ Unsettled = {})
    <3>1. "lost" \in oaExcused'
      BY <1>3, <2>3 DEF LoginWrites
    <3>. QED BY <3>1 DEF TokensStand, RefreshTokenIsKept, CallStands, Lost
  <2>. QED BY <2>2, <2>3
<1>4. CASE OaRestart
  <2>1. UNCHANGED <<oaVault, oaHonours>> /\ Kept
    BY <1>4 DEF OaRestart, Kept
  <2>2. \A d \in Callers : Quiet(d)' /\ (Lost' \/ ~Unwritten(d))
    BY <1>4 DEF OaRestart, Quiet, Lost, Lose, NoCall
  <2>. QED BY <1>0, <2>1, <2>2, QuietCallsKeepTokens
<1>5. ASSUME NEW token \in Issue, GrantUnheard(token) PROVE TokensStand'
  <2>1. UNCHANGED <<oaVault, oaCalls>> /\ oaExcused \subseteq oaExcused'
        /\ oaHonours.refresh \ {token} \subseteq oaHonours'.refresh
    BY <1>5 DEF GrantUnheard, Grant
  <2>2. CASE token = oaVault.refresh \/ \E c \in Callers : Pc(c, "put_refresh") /\ oaCalls[c].token = token
    <3>1. "lost" \in oaExcused'
      BY <1>5, <2>2 DEF GrantUnheard, Pc
    <3>. QED BY <3>1 DEF TokensStand, RefreshTokenIsKept, CallStands, Lost
  <2>3. CASE token # oaVault.refresh /\ \A c \in Callers : Pc(c, "put_refresh") => oaCalls[c].token # token
    BY <1>0, <2>1, <2>3 DEF TokensStand, RefreshTokenIsKept, CallStands, Lost, Pc
  <2>. QED BY <2>2, <2>3 DEF Pc
<1>6. ASSUME NEW c \in Callers,
             Generate(c) \/ Served(c) \/ Unauthorized(c) \/ Fly(c) \/ Wait(c) \/ WaitEnds(c)
             \/ Unreachable(c) \/ PutFails(c) \/ Disable(c) \/ EndFlight(c) \/ Drop(c)
             \/ (PutRefreshed(c) /\ ~Pc(c, "put_refresh"))
      PROVE  TokensStand'
  <2>1. PICK call : Step(c, call) /\ call.pc \notin {"ask", "put_refresh", "disable"}
    <3>1. CASE PutRefreshed(c) /\ ~Pc(c, "put_refresh")
      <4>1. Step(c, [pc |-> "put_enabled"]) \/ Step(c, [pc |-> "land"])
        BY <3>1 DEF PutRefreshed, Pc
      <4>2. CASE Step(c, [pc |-> "put_enabled"])
        BY <4>2
      <4>3. CASE Step(c, [pc |-> "land"])
        BY <4>3
      <4>. QED BY <4>1, <4>2, <4>3
    <3>2. CASE Unauthorized(c)
      <4>1. Step(c, NoCall) \/ Step(c, [pc |-> "renew"])
        BY <3>2 DEF Unauthorized
      <4>. QED BY <4>1 DEF NoCall
    <3>3. CASE Generate(c) \/ Served(c) \/ Fly(c) \/ Wait(c) \/ WaitEnds(c)
      BY <3>3 DEF Generate, Served, Fly, Wait, WaitEnds, NoCall
    <3>4. CASE Unreachable(c) \/ PutFails(c) \/ Disable(c) \/ EndFlight(c) \/ Drop(c)
      BY <3>4 DEF Unreachable, PutFails, Disable, EndFlight, Drop, NoCall
    <3>. QED BY <1>6, <3>1, <3>2, <3>3, <3>4
  <2>2. oaVault'.refresh = oaVault.refresh /\ oaHonours' = oaHonours /\ Kept
    BY <1>6, <1>v DEF Generate, Served, Unauthorized, Fly, Wait, WaitEnds, Unreachable, PutFails, Disable,
                EndFlight, Drop, PutRefreshed, PutSlot, Provider, Kept, Pc
  <2>3. Lost' \/ ~Unwritten(c)
    <3>1. CASE PutFails(c)
      BY <3>1 DEF PutFails, Lose, Lost
    <3>2. CASE ~PutFails(c)
      BY <1>6, <3>2 DEF Generate, Served, Unauthorized, Fly, Wait, WaitEnds, Unreachable, Disable,
                EndFlight, Drop, Unwritten, Pc
    <3>. QED BY <3>1, <3>2
  <2>4. \A d \in Callers : oaCalls'[d] = oaCalls[d] \/ (Quiet(d)' /\ (Lost' \/ ~Unwritten(d)))
    BY <1>0, <2>1, <2>3, CallMoves DEF Quiet
  <2>. QED BY <1>0, <2>2, <2>4, QuietCallsKeepTokens
<1>7. ASSUME NEW c \in Callers,
             Present(c) \/ Refused(c) \/ (\E rotated \in BOOLEAN : Renewed(c, rotated) \/ Unspendable(c, rotated))
             \/ (PutRefreshed(c) /\ Pc(c, "put_refresh"))
      PROVE  TokensStand'
  <2>1. PICK call : Step(c, call)
    BY <1>7 DEF Present, Refused, Renewed, Unspendable, PutRefreshed
  <2>2. Flies(c)
    BY <1>7 DEF Flies, Present, Refused, Renewed, Unspendable, Pc
  <2>3. oaCalls'[c] = call /\ \A d \in Callers \ {c} : Quiet(d)' /\ Quiet(d)
    BY <1>0, <2>1, <2>2, OthersAreQuiet, CallMoves DEF Quiet
  <2>4. \A d \in Callers \ {c} : CallStands(d)' /\ ~Pc(d, "put_refresh")
    BY <2>3 DEF CallStands, Quiet, Pc
  <2>5. CallStands(c)
    BY <1>0 DEF TokensStand
  <2>6. CASE Present(c)
    <3>1. UNCHANGED <<oaVault, oaHonours, oaExcused>> /\ ~Pc(c, "put_refresh")
      BY <2>6 DEF Present, Provider, Pc
    <3>2. oaCalls'[c] \in {[pc |-> "land"], [pc |-> "ask", token |-> oaVault.refresh]}
      BY <1>0, <2>6, CallMoves DEF Present
    <3>3. CallStands(c)'
      BY <3>1, <3>2 DEF CallStands, Pc
    <3>4. RefreshTokenIsKept'
      BY <1>0, <2>4, <3>1 DEF TokensStand, RefreshTokenIsKept, Pc
    <3>. QED BY <2>4, <3>3, <3>4 DEF TokensStand
  <2>7. CASE Refused(c)
    <3>1. UNCHANGED <<oaVault, oaHonours>> /\ Pc(c, "ask") /\ oaExcused \subseteq oaExcused'
          /\ (oaCalls[c].token \in oaHonours.refresh => "barred" \in oaExcused')
      BY <2>7 DEF Refused, Live
    <3>2. oaVault.refresh \in oaHonours.refresh \/ Lost
      BY <1>0, <2>4, <3>1 DEF TokensStand, RefreshTokenIsKept, Pc, Lost
    <3>3. RefreshTokenIsKept'
      BY <3>1, <3>2 DEF RefreshTokenIsKept, Lost
    <3>4. oaCalls'[c] = [pc |-> "disable"]
      BY <1>0, <2>7, CallMoves DEF Refused
    <3>5. oaExcused' \cap {"lost", "barred"} # {}
      BY <2>5, <3>1, <3>2 DEF CallStands, Lost
    <3>. QED BY <2>4, <3>3, <3>4, <3>5 DEF TokensStand, CallStands, Pc
  <2>8. ASSUME NEW rotated \in BOOLEAN, Renewed(c, rotated) PROVE TokensStand'
    <3>1. oaCalls'[c].pc = "put_refresh"
          /\ oaCalls'[c].token = (IF rotated THEN oaIssued' ELSE oaCalls[c].token)
      BY <1>0, <2>8, CallMoves DEF Renewed
    <3>2. oaCalls'[c].token \in oaHonours'.refresh
      BY <2>8, <3>1 DEF Renewed, Grant
    <3>3. CallStands(c)' /\ RefreshTokenIsKept'
      BY <3>1, <3>2 DEF CallStands, RefreshTokenIsKept, Pc
    <3>. QED BY <2>4, <3>3 DEF TokensStand
  <2>9. ASSUME NEW rotated \in BOOLEAN, Unspendable(c, rotated) PROVE TokensStand'
    <3>1. oaCalls'[c] = [pc |-> "disable"]
      BY <1>0, <2>9, CallMoves DEF Unspendable
    <3>2. oaVault' = oaVault /\ Pc(c, "ask") /\ oaExcused \subseteq oaExcused' /\ "barred" \in oaExcused'
      BY <2>9 DEF Unspendable
    <3>3. CASE rotated
      BY <2>4, <2>9, <3>1, <3>2, <3>3 DEF Unspendable, TokensStand, RefreshTokenIsKept, CallStands, Pc
    <3>4. CASE ~rotated
      <4>1. oaHonours'.refresh = oaHonours.refresh
        BY <2>9, <3>4 DEF Unspendable, Grant
      <4>2. RefreshTokenIsKept'
        BY <1>0, <2>4, <3>2, <4>1 DEF TokensStand, RefreshTokenIsKept, Pc
      <4>. QED BY <2>4, <3>1, <3>2, <4>2 DEF TokensStand, CallStands, Pc
    <3>. QED BY <3>3, <3>4
  <2>10. CASE PutRefreshed(c) /\ Pc(c, "put_refresh")
    <3>1. oaVault'.refresh = oaCalls[c].token /\ UNCHANGED <<oaHonours, oaExcused>>
      BY <1>v, <2>10 DEF PutRefreshed, PutSlot, Provider, Pc
    <3>2. oaCalls'[c].pc \in {"put_access", "put_enabled", "land"}
      BY <1>0, <2>10, PutMoves
    <3>3. RefreshTokenIsKept'
      BY <2>5, <2>10, <3>1 DEF CallStands, RefreshTokenIsKept, Lost
    <3>. QED BY <2>4, <3>2, <3>3 DEF TokensStand, CallStands, Pc
  <2>. QED BY <1>7, <2>6, <2>7, <2>8, <2>9, <2>10
<1>. QED BY <1>1, <1>2, <1>3, <1>4, <1>5, <1>6, <1>7 DEF OaNext

LEMMA OaStepSurvives ==
    ASSUME OaInv, [OaNext]_oaVars
    PROVE  CredentialSurvives'
<1>0. OaTyped /\ CredentialSurvives /\ \A c \in Callers : CallStands(c)
  BY DEF OaInv, TokensStand
<1>v. oaVault \in [refresh : Issue, access : Issue, disabled : BOOLEAN]
  BY <1>0 DEF OaTyped
<1>1. ASSUME UNCHANGED oaLogin, Kept, oaVault'.disabled => oaVault.disabled PROVE CredentialSurvives'
  BY <1>0, <1>1 DEF CredentialSurvives, Kept
<1>2. CASE UNCHANGED oaVars \/ AccessExpires \/ Revoke \/ OaRestart \/ (\E token \in Issue : GrantUnheard(token))
  <2>1. UNCHANGED <<oaLogin, oaVault>> /\ Kept
    BY <1>2 DEF oaVars, AccessExpires, Revoke, OaRestart, GrantUnheard, Kept
  <2>. QED BY <1>1, <2>1
<1>3. ASSUME NEW reissued \in BOOLEAN, Login(reissued) PROVE CredentialSurvives'
  BY <1>0, <1>3 DEF Login, CredentialSurvives, NoCall
<1>4. CASE LoginWrites \/ LoginFails
  <2>1. oaLogin \in [pc : {"put_refresh", "put_access", "put_enabled"}, token : Issue, access : Issue]
    BY <1>0, <1>4, LoginRuns
  <2>2. CASE LoginFails
    BY <1>0, <2>1, <2>2 DEF LoginFails, CredentialSurvives, NoCall
  <2>3. CASE LoginWrites /\ oaLogin.pc \in {"put_refresh", "put_access"}
    BY <2>1, <2>3 DEF LoginWrites, CredentialSurvives
  <2>4. CASE LoginWrites /\ oaLogin.pc = "put_enabled"
    BY <1>v, <2>4 DEF LoginWrites, PutSlot, CredentialSurvives
  <2>. QED BY <1>4, <2>1, <2>2, <2>3, <2>4
<1>5. ASSUME NEW c \in Callers, Disable(c) PROVE CredentialSurvives'
  BY <1>0, <1>5 DEF Disable, CallStands, CredentialSurvives
<1>6. ASSUME NEW c \in Callers,
             Generate(c) \/ Served(c) \/ Unauthorized(c) \/ Fly(c) \/ Wait(c) \/ WaitEnds(c)
             \/ Present(c) \/ (\E rotated \in BOOLEAN : Renewed(c, rotated) \/ Unspendable(c, rotated))
             \/ Refused(c) \/ Unreachable(c) \/ PutRefreshed(c) \/ PutFails(c) \/ EndFlight(c) \/ Drop(c)
      PROVE  CredentialSurvives'
  <2>1. UNCHANGED oaLogin /\ Kept
    BY <1>6 DEF Generate, Served, Unauthorized, Fly, Wait, WaitEnds, Present, Renewed, Unspendable, Refused,
                Unreachable, PutRefreshed, PutFails, EndFlight, Drop, Kept
  <2>2. oaVault'.disabled => oaVault.disabled
    BY <1>v, <1>6 DEF Generate, Served, Unauthorized, Fly, Wait, WaitEnds, Present, Renewed, Unspendable,
                Refused, Unreachable, PutRefreshed, PutSlot, PutFails, EndFlight, Drop
  <2>. QED BY <1>1, <2>1, <2>2
<1>. QED BY <1>2, <1>3, <1>4, <1>5, <1>6 DEF OaNext

(* Renewals of refresh_provider_now: at most one is in flight; its key is set exactly while a
   call that will clear it runs, unless one was dropped; the vault's refresh token is one the
   provider honours, or is about to be written, unless one was lost; and the credential is
   disabled only when a token was lost or an answer about a working one was taken for a
   definitive failure. *)
THEOREM RenewalHolds == OaSpec => []RenewalIsSound
<1>1. OaInv /\ [OaNext]_oaVars => OaInv'
  BY OaStepTyped, OaStepKey, OaStepTokens, OaStepSurvives DEF OaInv
<1>. QED BY <1>1, OaInitHolds, OaInvIsEnough, PTL DEF OaSpec

-----------------------------------------------------------------------------
(* The capture of a secret. *)

Metas == {NoMeta} \cup [mode : Modes, corr : 1..siArmed, fresh : BOOLEAN]
Vaults == [live : [Slots -> Held], staged : [Gmail -> Held]]
Armed == [slot : Slots, mode : Modes, talk : Talks, fresh : BOOLEAN, arming : 1..siArmed,
          corr : 0..siArmed]
Stages == {"route", "put", "bot_id", "audit", "promote_own", "promote_other", "unstage", "forget",
           "stage", "stage_meta", "staged"}
Captures ==
    [pc : Stages,
     slot : Slots, mode : Modes, value : Accounts, corr : 0..siArmed, arming : 1..siArmed,
     was : [vault : Vaults, meta : [Gmail -> Metas], bot : Held]]

SiTyped ==
    /\ siArmed \in 0..MaxArmings
    /\ siPending \in {NoPending} \cup Armed
    /\ siVault \in Vaults /\ siMeta \in [Gmail -> Metas] /\ siBot \in Held
    /\ siLog \in [Slots -> Held]
    /\ siRun \in {Ready} \cup Captures

(* No arming that is still to be used, or to come, took a message. *)
ArmingsAreFresh ==
    /\ siTaken \in [Armings -> 0..1]
    /\ \A a \in Armings : a > siArmed => siTaken[a] = 0
    /\ siPending # NoPending => siTaken[siPending.arming] = 0

IsPair(live) == "none" \notin {live["client"], live["refresh"]} => ValidPair(live["client"], live["refresh"])
(* What holds of the store between two captures, unless it was torn. *)
Settled(live, bot) ==
    /\ "pair" \notin siTorn => IsPair(live)
    /\ "log" \notin siTorn => siLog = live /\ bot = live["bot"]

(* How far a capture has taken the store from the one it began with. *)
Untouched == siVault.live = siRun.was.vault.live /\ siBot = siRun.was.bot
OwnWritten == siVault.live = [siRun.was.vault.live EXCEPT ![Own] = siRun.value]
PairWritten == siVault.live = [siRun.was.vault.live EXCEPT ![Own] = siRun.value, ![Other] = siRun.value]
CaptureStands ==
    /\ Settled(siRun.was.vault.live, siRun.was.bot)
    /\ siRun.pc \in {"route", "put", "promote_own", "stage", "stage_meta", "staged"} => Untouched
    /\ siRun.pc \in {"promote_own", "promote_other", "unstage", "forget", "stage", "stage_meta", "staged"}
        => Own \in Gmail
    /\ At("put") /\ Own \in Gmail => siVault.live[Other] \in {"none", siRun.value}
    /\ siRun.pc \in {"promote_own", "promote_other"} => siVault.staged[Other] = siRun.value
    /\ At("promote_other") => OwnWritten /\ siBot = siRun.was.bot
    /\ siRun.pc \in {"unstage", "forget"} => PairWritten /\ siBot = siRun.was.bot
    /\ At("bot_id") => Own = "bot" /\ OwnWritten
    /\ At("audit") =>
        /\ siBot = IF Own = "bot" THEN siRun.value ELSE siRun.was.bot
        /\ IF Own \in Gmail
           THEN (OwnWritten \/ PairWritten) /\ siVault.live[Other] \in {"none", siRun.value}
           ELSE OwnWritten

SiInv ==
    /\ SiTyped /\ ArmingsAreFresh
    /\ IF siRun = Ready THEN Settled(siVault.live, siBot) ELSE CaptureStands

LEMMA RunningIsCapture == SiTyped /\ siRun.pc # "idle" => siRun \in Captures /\ siRun # Ready
BY DEF SiTyped, Ready

LEMMA CaptureRuns == ASSUME NEW r \in Captures PROVE r.pc # "idle" /\ r # Ready
<1>1. r.pc # "idle"
  BY DEF Captures, Stages
<1>. QED BY <1>1 DEF Ready

LEMMA OtherIsApart == \A s \in Gmail : Counterpart(s) \in Gmail /\ Counterpart(s) # s /\ s \in Slots
BY DEF Gmail, Counterpart, Slots

(* A state of the invariant is one of the property. *)
LEMMA SiInvIsEnough == SiInv => SecretsAreSound
<1> SUFFICES ASSUME SiInv PROVE SecretsAreSound
  OBVIOUS
<1>1. SiTypeOK
  <2>1. siPending # NoPending => siPending.arming \in 1..siArmed
    BY DEF SiInv, SiTyped, Armed
  <2>2. \A s \in Gmail : siMeta[s] # NoMeta => siMeta[s].corr \in 1..siArmed
    BY DEF SiInv, SiTyped, Metas
  <2>. QED BY <2>1, <2>2 DEF SiInv, SiTyped, SiTypeOK, Vaults
<1>2. PairIsWhole /\ LogIsLive
  BY DEF SiInv, PairIsWhole, LogIsLive, Settled, IsPair
<1>3. StoredIsAPair
  <2> SUFFICES ASSUME At("audit"), Own \in Gmail, siVault.live[Other] # "none"
               PROVE  siVault.live[Own] = siVault.live[Other]
    BY DEF StoredIsAPair, ValidPair
  <2>1. siRun \in Captures /\ siRun # Ready
    BY RunningIsCapture DEF SiInv, At
  <2>2. siVault.live[Other] = siRun.value /\ (OwnWritten \/ PairWritten)
    BY <2>1 DEF SiInv, CaptureStands, At
  <2>3. siRun.was.vault.live \in [Slots -> Held] /\ Own # Other /\ Own \in Slots
    BY <2>1, OtherIsApart DEF Captures, Vaults, Own, Other
  <2>. QED BY <2>2, <2>3 DEF OwnWritten, PairWritten
<1>4. OneMessagePerArming
  BY DEF SiInv, ArmingsAreFresh, OneMessagePerArming
<1>. QED BY <1>1, <1>2, <1>3, <1>4 DEF SecretsAreSound

LEMMA SiInitHolds == SiInit => SiInv
<1> SUFFICES ASSUME SiInit PROVE SiInv
  OBVIOUS
<1>1. siVault \in Vaults /\ siLog \in [Slots -> Held] /\ siBot \in Held
  BY DEF SiInit, Vaults, Slots, Held
<1>2. siMeta \in [Gmail -> Metas]
  BY DEF SiInit, Metas
<1>3. SiTyped
  BY <1>1, <1>2, SecretAssumption DEF SiInit, SiTyped
<1>4. ArmingsAreFresh
  BY DEF SiInit, ArmingsAreFresh
<1>5. Settled(siVault.live, siBot)
  BY DEF SiInit, Settled, IsPair
<1>. QED BY <1>3, <1>4, <1>5 DEF SiInv, SiInit

(* Every step but an arming and the message that uses it leaves the armings alone. *)
ArmingsKept == UNCHANGED <<siArmed, siTaken>> /\ siPending' \in {siPending, NoPending}
LEMMA CaptureKeepsArmings ==
    ASSUME \/ UNCHANGED siVars \/ (\E s \in Gmail : StageExpires(s)) \/ (\E t \in Talks : RefuseMessage(t))
           \/ (\E yes \in BOOLEAN, swept \in Sweeps : RouteBotToken(yes) \/ RoutePair(yes) \/ RouteAlone(yes, swept))
           \/ RoutePlain \/ PutValue \/ SetBotId \/ AuditStored \/ PromoteOwn \/ PromoteOther \/ Unstage
           \/ ForgetStage \/ Stage \/ StageRecord \/ AuditStaged \/ FailsPlainly
           \/ (\E lost \in SUBSET Written : RollsBack(lost))
           \/ (\E undone \in BOOLEAN : UnstagesUnaudited(undone)) \/ SiCrash
    PROVE  ArmingsKept
<1>1. CASE \/ UNCHANGED siVars \/ (\E s \in Gmail : StageExpires(s)) \/ (\E t \in Talks : RefuseMessage(t))
           \/ RoutePlain \/ PutValue \/ SetBotId \/ AuditStored \/ PromoteOwn \/ PromoteOther \/ Unstage
           \/ ForgetStage \/ Stage \/ StageRecord \/ AuditStaged \/ FailsPlainly \/ SiCrash
  BY <1>1 DEF siVars, siStore, StageExpires, RefuseMessage, RoutePlain, PutValue, Put, SetBotId, AuditStored,
              PromoteOwn, PromoteOther, Unstage, ForgetStage, Stage, StageRecord, AuditStaged, FailsPlainly,
              SiCrash, ArmingsKept
<1>2. CASE \E yes \in BOOLEAN, swept \in Sweeps : RouteBotToken(yes) \/ RoutePair(yes) \/ RouteAlone(yes, swept)
  <2>1. PICK yes \in BOOLEAN, swept \in Sweeps : RouteBotToken(yes) \/ RoutePair(yes) \/ RouteAlone(yes, swept)
    BY <1>2
  <2>2. CASE RouteBotToken(yes) \/ RoutePair(yes)
    BY <2>2 DEF RouteBotToken, RoutePair, siStore, ArmingsKept
  <2>3. CASE RouteAlone(yes, swept)
    BY <2>3, Zenon DEF RouteAlone, ArmingsKept
  <2>. QED BY <2>1, <2>2, <2>3
<1>3. CASE \/ (\E lost \in SUBSET Written : RollsBack(lost))
           \/ (\E undone \in BOOLEAN : UnstagesUnaudited(undone))
  BY <1>3 DEF RollsBack, UnstagesUnaudited, ArmingsKept
<1>. QED BY <1>1, <1>2, <1>3

LEMMA SiStepArmings ==
    ASSUME SiTyped, ArmingsAreFresh, [SiNext]_siVars
    PROVE  ArmingsAreFresh'
<1>0. siArmed \in Nat /\ (siPending # NoPending => siPending \in Armed)
  BY SecretAssumption DEF SiTyped
<1>1. ASSUME NEW m \in Modes, NEW s \in Slots, NEW t \in Talks, NEW audited \in BOOLEAN,
             NEW undone \in BOOLEAN, Arm(m, s, t, audited, undone)
      PROVE  ArmingsAreFresh'
  <2>1. siArmed' = siArmed + 1 /\ siTaken' = siTaken /\ siArmed' \in Armings
    BY <1>0, <1>1, SecretAssumption DEF Arm, Armings
  <2>2. siPending' # NoPending => siPending'.arming = siArmed'
    BY <1>1 DEF Arm
  <2>3. siTaken[siArmed'] = 0
    BY <1>0, <2>1 DEF ArmingsAreFresh, Armings
  <2>4. \A a \in Armings : a > siArmed' => siTaken[a] = 0
    BY <1>0, <2>1 DEF ArmingsAreFresh, Armings
  <2>. QED BY <2>1, <2>2, <2>3, <2>4 DEF ArmingsAreFresh
<1>2. CASE PendingExpires
  <2>1. siPending'.arming = siPending.arming
    BY <1>0, <1>2 DEF PendingExpires, Clean, Armed
  <2>. QED BY <1>2, <2>1 DEF PendingExpires, ArmingsAreFresh
<1>3. ASSUME NEW t \in Talks, NEW v \in Accounts, TakeMessage(t, v)
      PROVE  ArmingsAreFresh'
  <2>1. /\ siPending' = NoPending /\ siArmed' = siArmed
        /\ siTaken' = [siTaken EXCEPT ![siPending.arming] = @ + 1]
    BY <1>3 DEF TakeMessage
  <2>2. siPending # NoPending /\ siTaken[siPending.arming] = 0 /\ siPending.arming \in 1..siArmed
    BY <1>0, <1>3 DEF TakeMessage, ArmingsAreFresh, Armed
  <2>3. siPending.arming \in Armings /\ \A a \in Armings : a > siArmed => a # siPending.arming
    BY <1>0, <2>2, SecretAssumption DEF SiTyped, Armings
  <2>4. siTaken' \in [Armings -> 0..1] /\ \A a \in Armings : a # siPending.arming => siTaken'[a] = siTaken[a]
    BY <2>1, <2>2, <2>3 DEF ArmingsAreFresh
  <2>. QED BY <2>1, <2>3, <2>4 DEF ArmingsAreFresh
<1>4. CASE ArmingsKept
  BY <1>4 DEF ArmingsKept, ArmingsAreFresh
<1>. QED BY <1>1, <1>2, <1>3, <1>4, CaptureKeepsArmings DEF SiNext

(* rollback_secret and the restores: what is not lost is what the capture began with. *)
LEMMA RestoredIs ==
    ASSUME NEW S, NEW T, NEW now \in [S -> T], NEW was \in [S -> T], NEW lost, NEW kind
    PROVE  /\ Restored(lost, kind, now, was) \in [S -> T]
           /\ lost = {} => Restored(lost, kind, now, was) = was
BY DEF Restored

(* A capture without a staged counterpart begins again from the swept store. *)
Begun(pc) ==
    /\ siRun'.pc = pc /\ siRun' \in Captures /\ siRun'.slot = siRun.slot /\ siRun'.value = siRun.value
    /\ siRun'.was.vault = siVault' /\ siRun'.was.bot = siRun.was.bot
LEMMA RouteAloneBegins ==
    ASSUME SiTyped, NEW answers \in BOOLEAN, NEW swept \in Sweeps, RouteAlone(answers, swept)
    PROVE  /\ At("route") /\ siRun \in Captures /\ Own \in Gmail
           /\ UNCHANGED <<siPending, siBot, siLog, siArmed, siTaken, siTorn>>
           /\ siVault' \in Vaults /\ siVault'.live = siVault.live /\ siMeta' \in [Gmail -> Metas]
           /\ \/ siRun' = Ready
              \/ Begun("stage")
              \/ Begun("put") /\ siVault'.live[Other] = siRun.value
<1>1. At("route") /\ Own \in Gmail /\ UNCHANGED <<siPending, siBot, siLog, siArmed, siTaken, siTorn>>
  BY Zenon DEF RouteAlone
<1>2. siRun \in Captures
  BY <1>1, RunningIsCapture DEF At
<1>3. /\ siVault' = siVault \/ siVault' = [siVault EXCEPT !.staged[Other] = "none"]
      /\ siMeta' = siMeta \/ siMeta' = [siMeta EXCEPT ![Other] = NoMeta]
  BY Zenon DEF RouteAlone, DropStage
<1>4. siVault' \in Vaults /\ siVault'.live = siVault.live /\ siMeta' \in [Gmail -> Metas]
  <2>1. siVault \in Vaults /\ siMeta \in [Gmail -> Metas] /\ Other \in Gmail
    BY <1>1, OtherIsApart DEF SiTyped, Other
  <2>2. [siVault EXCEPT !.staged[Other] = "none"] \in Vaults
    BY <2>1 DEF Vaults, Held
  <2>3. [siMeta EXCEPT ![Other] = NoMeta] \in [Gmail -> Metas]
    BY <2>1 DEF Metas
  <2>4. [siVault EXCEPT !.staged[Other] = "none"].live = siVault.live
    BY <2>1 DEF Vaults
  <2>. QED BY <1>3, <2>1, <2>2, <2>3, <2>4
<1>5. \/ siRun' = Ready
      \/ \E pc \in {"stage", "put"} :
            /\ siRun' = [siRun EXCEPT !.pc = pc, !.was.vault = siVault', !.was.meta = siMeta']
            /\ pc = "put" => ValidPair(siRun.value, siVault.live[Other])
  <2> DEFINE live == siVault.live[Other]
             pc == IF live = "none" THEN "stage"
                   ELSE IF answers /\ ValidPair(siRun.value, live) THEN "put" ELSE "idle"
  <2>1. siRun' = IF pc = "idle" THEN Ready
                 ELSE [siRun EXCEPT !.pc = pc, !.was.vault = siVault', !.was.meta = siMeta']
    BY Zenon DEF RouteAlone
  <2>2. pc \in {"stage", "put", "idle"} /\ (pc = "put" => ValidPair(siRun.value, live))
    OBVIOUS
  <2> HIDE DEF pc
  <2>. QED BY <2>1, <2>2
<1>6. CASE siRun' # Ready
  <2>1. PICK pc \in {"stage", "put"} :
            /\ siRun' = [siRun EXCEPT !.pc = pc, !.was.vault = siVault', !.was.meta = siMeta']
            /\ pc = "put" => ValidPair(siRun.value, siVault.live[Other])
    BY <1>5, <1>6
  <2> DEFINE was == [vault |-> siVault', meta |-> siMeta', bot |-> siRun.was.bot]
  <2>2. siRun' = [pc |-> pc, slot |-> siRun.slot, mode |-> siRun.mode, value |-> siRun.value,
                  corr |-> siRun.corr, arming |-> siRun.arming, was |-> was]
    BY <1>2, <2>1 DEF Captures
  <2>3. was \in [vault : Vaults, meta : [Gmail -> Metas], bot : Held]
    BY <1>2, <1>4 DEF Captures
  <2>4. Begun(pc)
    BY <1>2, <2>2, <2>3 DEF Begun, Captures, Stages
  <2>. QED BY <1>1, <1>2, <1>4, <2>1, <2>4 DEF ValidPair
<1>. QED BY <1>1, <1>2, <1>4, <1>6

LEMMA ProceedIs ==
    ASSUME siRun \in Captures, NEW pc \in Stages, Proceed(pc)
    PROVE  /\ siRun' \in Captures /\ siRun'.pc = pc /\ siRun'.slot = siRun.slot
           /\ siRun'.value = siRun.value /\ siRun'.was = siRun.was
BY DEF Proceed, Captures

LEMMA SiStepTyped ==
    ASSUME SiTyped, [SiNext]_siVars
    PROVE  SiTyped'
<1>0. /\ siArmed \in 0..MaxArmings /\ MaxArmings \in Nat /\ siArmed \in Nat
      /\ siPending \in {NoPending} \cup Armed /\ siMeta \in [Gmail -> Metas] /\ siVault \in Vaults
      /\ siBot \in Held /\ siLog \in [Slots -> Held] /\ siRun \in {Ready} \cup Captures
  BY SecretAssumption DEF SiTyped
<1> DEFINE parts == /\ siPending' \in {NoPending} \cup Armed /\ siMeta' \in [Gmail -> Metas]
                    /\ siVault' \in Vaults /\ siBot' \in Held /\ siLog' \in [Slots -> Held]
                    /\ siRun' \in {Ready} \cup Captures
<1>a. ASSUME siArmed' = siArmed, parts PROVE SiTyped'
  BY ONLY <1>0, <1>a DEF SiTyped, Armed, Metas, Captures
<1>1. CASE UNCHANGED siVars
  BY <1>0, <1>1, <1>a DEF siVars, siStore
<1>2. ASSUME NEW m \in Modes, NEW s \in Slots, NEW t \in Talks, NEW audited \in BOOLEAN,
             NEW undone \in BOOLEAN, Arm(m, s, t, audited, undone)
      PROVE  SiTyped'
  <2>1. siArmed' = siArmed + 1 /\ siArmed' \in 0..MaxArmings /\ 1..siArmed \subseteq 1..siArmed'
        /\ siArmed' \in 1..siArmed'
    BY <1>0, <1>2 DEF Arm
  <2>2. UNCHANGED <<siVault, siMeta, siBot, siLog, siRun>> /\ siRun = Ready
    BY <1>2 DEF Arm
  <2>3. siMeta \in [Gmail -> Metas']
    BY <1>0, <2>1 DEF Metas
  <2> DEFINE other == IF s \in Gmail THEN siMeta[Counterpart(s)] ELSE NoMeta
             corr == IF other = NoMeta THEN 0 ELSE other.corr
  <2>4. other \in Metas
    BY <1>0, OtherIsApart DEF Metas
  <2>5. corr \in 0..siArmed'
    BY <1>0, <2>1, <2>4 DEF Metas
  <2>6. siPending' \in {NoPending, [slot |-> s, mode |-> m, talk |-> t, fresh |-> TRUE,
                                    arming |-> siArmed', corr |-> corr]}
    BY <1>2 DEF Arm
  <2> HIDE DEF corr
  <2>7. siPending' \in {NoPending} \cup Armed'
    <3>1. [slot |-> s, mode |-> m, talk |-> t, fresh |-> TRUE, arming |-> siArmed', corr |-> corr]
            \in [slot : Slots, mode : Modes, talk : Talks, fresh : BOOLEAN, arming : 1..siArmed',
                 corr : 0..siArmed']
      BY <2>1, <2>5
    <3>. QED BY <2>6, <3>1 DEF Armed
  <2>. QED BY <1>0, <2>1, <2>2, <2>3, <2>7 DEF SiTyped, Vaults, Held
<1>3. CASE PendingExpires
  BY <1>0, <1>3, <1>a DEF PendingExpires, Clean, Armed
<1>4. ASSUME NEW s \in Gmail, StageExpires(s) PROVE SiTyped'
  <2>1. Clean(siMeta[s]) \in Metas
    BY <1>0, <1>4 DEF StageExpires, Clean, Metas
  <2>. QED BY <1>0, <1>4, <1>a, <2>1 DEF StageExpires
<1>5. ASSUME NEW t \in Talks, RefuseMessage(t) PROVE SiTyped'
  BY <1>0, <1>5, <1>a DEF RefuseMessage
<1>6. ASSUME NEW t \in Talks, NEW v \in Accounts, TakeMessage(t, v) PROVE SiTyped'
  <2>1. siPending \in Armed
    BY <1>0, <1>6 DEF TakeMessage
  <2> DEFINE was == [vault |-> siVault, meta |-> siMeta, bot |-> siBot]
  <2>2. was \in [vault : Vaults, meta : [Gmail -> Metas], bot : Held]
    BY <1>0
  <2>3. siRun' = [pc |-> "route", slot |-> siPending.slot, mode |-> siPending.mode, value |-> v,
                  corr |-> siPending.corr, arming |-> siPending.arming, was |-> was]
    BY <1>6 DEF TakeMessage
  <2> HIDE DEF was
  <2>4. siRun' \in Captures
    BY <2>1, <2>2, <2>3 DEF Captures, Armed, Stages
  <2>. QED BY <1>0, <1>6, <1>a, <2>4 DEF TakeMessage
<1>7. ASSUME NEW yes \in BOOLEAN, RouteBotToken(yes) \/ RoutePair(yes) PROVE SiTyped'
  <2>1. siRun' = Ready \/ Proceed("put") \/ Proceed("promote_own")
    BY <1>7 DEF RouteBotToken, RoutePair
  <2>2. siRun \in Captures
    BY <1>7, RunningIsCapture DEF RouteBotToken, RoutePair, At
  <2>3. siRun' \in {Ready} \cup Captures
    BY <2>1, <2>2, ProceedIs DEF Stages
  <2>. QED BY <1>0, <1>7, <1>a, <2>3 DEF RouteBotToken, RoutePair, siStore
<1>8. ASSUME NEW yes \in BOOLEAN, NEW swept \in Sweeps, RouteAlone(yes, swept) PROVE SiTyped'
  <2>1. siRun' \in {Ready} \cup Captures
    BY <1>8, RouteAloneBegins DEF Begun
  <2>. QED BY <1>0, <1>8, <1>a, <2>1, RouteAloneBegins
<1>9. ASSUME siRun.pc \in Stages, \E pc \in Stages : Proceed(pc) PROVE siRun \in Captures /\ siRun' \in Captures
  <2>1. siRun \in Captures
    BY <1>0, <1>9 DEF Ready, Stages
  <2>. QED BY <1>9, <2>1, ProceedIs
<1>10. CASE RoutePlain
  <2>1. siRun' \in Captures
    BY <1>9, <1>10 DEF RoutePlain, At, Stages
  <2>. QED BY <1>0, <1>10, <1>a, <2>1 DEF RoutePlain, siStore
<1>11. CASE PutValue \/ PromoteOwn
  <2>1. siRun \in Captures /\ siRun' \in Captures
    BY <1>9, <1>11 DEF PutValue, PromoteOwn, Put, At, Stages
  <2>2. siVault' = [siVault EXCEPT !.live[Own] = siRun.value] /\ UNCHANGED <<siPending, siMeta, siBot, siLog, siArmed>>
    BY <1>11 DEF PutValue, PromoteOwn, Put
  <2>3. siVault' \in Vaults
    BY <1>0, <2>1, <2>2 DEF Vaults, Captures, Held
  <2>. QED BY <1>0, <1>a, <2>1, <2>2, <2>3
<1>12. CASE SetBotId
  <2>1. siRun \in Captures /\ siRun' \in Captures
    BY <1>9, <1>12 DEF SetBotId, At, Stages
  <2>2. siRun.value \in Held
    BY <2>1 DEF Captures, Held
  <2>. QED BY <1>0, <1>12, <1>a, <2>1, <2>2 DEF SetBotId
<1>13. CASE AuditStored
  <2>1. siLog' \in [Slots -> Held]
    BY <1>0, <1>13 DEF AuditStored, Vaults
  <2>. QED BY <1>0, <1>13, <1>a, <2>1 DEF AuditStored
<1>14. CASE PromoteOther \/ Unstage
  <2>1. siRun' \in Captures
    BY <1>9, <1>14 DEF PromoteOther, Unstage, At, Stages
  <2>2. UNCHANGED <<siPending, siMeta, siBot, siLog, siArmed>>
    BY <1>14 DEF PromoteOther, Unstage
  <2>3. Other \in Gmail /\ Other \in Slots
    BY DEF Other, Counterpart, Gmail, Slots
  <2>4. [siVault EXCEPT !.live[Other] = siVault.staged[Other]] \in Vaults
    BY <1>0, <2>3 DEF Vaults
  <2>5. [siVault EXCEPT !.staged[Other] = "none"] \in Vaults
    BY <1>0, <2>3 DEF Vaults, Held
  <2>6. siVault' \in Vaults
    BY <1>14, <2>4, <2>5 DEF PromoteOther, Unstage
  <2>. QED BY <1>0, <1>a, <2>1, <2>2, <2>6
<1>15. CASE ForgetStage
  <2>1. siRun' \in Captures
    BY <1>9, <1>15 DEF ForgetStage, At, Stages
  <2>2. siMeta' \in [Gmail -> Metas]
    BY <1>0, <1>15 DEF ForgetStage, Metas
  <2>. QED BY <1>0, <1>15, <1>a, <2>1, <2>2 DEF ForgetStage
<1>16. CASE Stage
  <2>1. siRun \in Captures /\ siRun' \in Captures
    BY <1>9, <1>16 DEF Stage, At, Stages
  <2>2. siVault' \in Vaults
    BY <1>0, <1>16, <2>1 DEF Stage, Vaults, Captures, Held
  <2>. QED BY <1>0, <1>16, <1>a, <2>1, <2>2 DEF Stage
<1>17. CASE StageRecord
  <2>1. siRun \in Captures /\ siRun' \in Captures
    BY <1>9, <1>17 DEF StageRecord, At, Stages
  <2>2. [mode |-> siRun.mode, corr |-> siRun.arming, fresh |-> TRUE] \in Metas
    BY <2>1 DEF Captures, Metas
  <2>3. siMeta' \in [Gmail -> Metas]
    BY <1>0, <1>17, <2>2 DEF StageRecord
  <2>. QED BY <1>0, <1>17, <1>a, <2>1, <2>3 DEF StageRecord
<1>18. CASE AuditStaged \/ FailsPlainly \/ SiCrash
  BY <1>0, <1>18, <1>a DEF AuditStaged, FailsPlainly, SiCrash, siStore
<1>19. ASSUME NEW lost \in SUBSET Written, RollsBack(lost) PROVE SiTyped'
  <2>1. siRun.pc \in Stages /\ siRun' = Ready /\ UNCHANGED <<siPending, siLog, siArmed>>
    BY <1>19 DEF RollsBack, Stages
  <2>2. siRun \in Captures
    BY <1>0, <2>1 DEF Ready, Stages
  <2> DEFINE was == siRun.was
  <2>3. was.vault \in Vaults /\ was.meta \in [Gmail -> Metas] /\ was.bot \in Held
    BY <2>2 DEF Captures
  <2>4. /\ siVault' = [live |-> Restored(lost, "live", siVault.live, was.vault.live),
                       staged |-> Restored(lost, "staged", siVault.staged, was.vault.staged)]
        /\ siMeta' = Restored(lost, "meta", siMeta, was.meta)
        /\ siBot' \in {siBot, was.bot}
    BY <1>19 DEF RollsBack
  <2> HIDE DEF was
  <2>5. /\ siVault.live \in [Slots -> Held] /\ was.vault.live \in [Slots -> Held]
        /\ siVault.staged \in [Gmail -> Held] /\ was.vault.staged \in [Gmail -> Held]
    BY <1>0, <2>3 DEF Vaults
  <2>6. /\ Restored(lost, "live", siVault.live, was.vault.live) \in [Slots -> Held]
        /\ Restored(lost, "staged", siVault.staged, was.vault.staged) \in [Gmail -> Held]
        /\ Restored(lost, "meta", siMeta, was.meta) \in [Gmail -> Metas]
    BY <1>0, <2>3, <2>5, RestoredIs
  <2>7. siVault' \in Vaults
    BY <2>4, <2>6 DEF Vaults
  <2>. QED BY <1>0, <1>a, <2>1, <2>3, <2>4, <2>6, <2>7
<1>20. ASSUME NEW undone \in BOOLEAN, UnstagesUnaudited(undone) PROVE SiTyped'
  <2>1. siRun' = Ready /\ UNCHANGED <<siPending, siBot, siLog, siArmed>> /\ siRun.pc \in Stages
    BY <1>20 DEF UnstagesUnaudited, At, Stages
  <2>2. siRun \in Captures
    BY <1>0, <2>1 DEF Ready, Stages
  <2>3. siRun.was.vault \in Vaults
    BY <2>2 DEF Captures
  <2>4. [siVault EXCEPT !.staged[Own] = siRun.was.vault.staged[Own]] \in Vaults
    BY <1>0, <2>3 DEF Vaults
  <2>5. [siMeta EXCEPT ![Own] = NoMeta] \in [Gmail -> Metas]
    BY <1>0 DEF Metas
  <2>6. siVault' \in Vaults /\ siMeta' \in [Gmail -> Metas]
    BY <1>0, <1>20, <2>4, <2>5 DEF UnstagesUnaudited
  <2>. QED BY <1>0, <1>a, <2>1, <2>6
<1>. QED BY <1>1, <1>2, <1>3, <1>4, <1>5, <1>6, <1>7, <1>8, <1>10, <1>11, <1>12, <1>13, <1>14, <1>15,
            <1>16, <1>17, <1>18, <1>19, <1>20 DEF SiNext

(* The store between two captures, or how far the one under way has taken it. *)
StoreStands == IF siRun = Ready THEN Settled(siVault.live, siBot) ELSE CaptureStands

(* A capture that has not touched what is live may end where it stands. *)
LEMMA UntouchedMayEnd ==
    ASSUME CaptureStands, Untouched, siRun' = Ready, siVault'.live = siVault.live,
           UNCHANGED <<siBot, siLog, siTorn>>
    PROVE  StoreStands'
<1>1. Settled(siVault.live, siBot)
  BY DEF CaptureStands, Untouched
<1>. QED BY <1>1 DEF StoreStands, Settled

LEMMA RouteStands ==
    ASSUME SiTyped, CaptureStands, siRun \in Captures, NEW yes \in BOOLEAN, NEW swept \in Sweeps,
           RouteBotToken(yes) \/ RoutePair(yes) \/ RouteAlone(yes, swept) \/ RoutePlain
    PROVE  StoreStands'
<1>0. At("route") /\ Untouched /\ Settled(siRun.was.vault.live, siRun.was.bot)
  <2>1. At("route")
    BY RouteAloneBegins DEF RouteBotToken, RoutePair, RoutePlain
  <2>. QED BY <2>1 DEF CaptureStands, At
<1>1. ASSUME RouteBotToken(yes) \/ RoutePair(yes) \/ RoutePlain PROVE StoreStands'
  <2>1. UNCHANGED <<siVault, siBot, siLog, siTorn>>
    BY <1>1 DEF RouteBotToken, RoutePair, RoutePlain, siStore
  <2>2. CASE siRun' = Ready
    BY <1>0, <2>1, <2>2, UntouchedMayEnd
  <2>3. CASE Proceed("put") /\ Own \notin Gmail
    <3>1. siRun' \in Captures /\ siRun'.pc = "put" /\ siRun'.slot = siRun.slot /\ siRun'.was = siRun.was
      BY <2>3, ProceedIs DEF Stages
    <3>2. CaptureStands'
      BY <1>0, <2>1, <2>3, <3>1 DEF CaptureStands, Settled, Untouched, At, Own
    <3>. QED BY <3>1, <3>2, CaptureRuns DEF StoreStands, Captures, Ready, Stages
  <2>4. CASE Proceed("promote_own") /\ Own \in Gmail /\ siVault.staged[Other] = siRun.value
    <3>1. /\ siRun' \in Captures /\ siRun'.pc = "promote_own" /\ siRun'.slot = siRun.slot
          /\ siRun'.was = siRun.was /\ siRun'.value = siRun.value
      BY <2>4, ProceedIs DEF Stages
    <3>2. CaptureStands'
      BY <1>0, <2>1, <2>4, <3>1 DEF CaptureStands, Settled, Untouched, At, Own, Other
    <3>. QED BY <3>1, <3>2, CaptureRuns DEF StoreStands, Captures, Ready, Stages
  <2>. QED BY <1>1, <2>2, <2>3, <2>4 DEF RouteBotToken, RoutePair, RoutePlain, Gmail, ValidPair
<1>2. CASE RouteAlone(yes, swept)
  <2>1. /\ Own \in Gmail /\ siVault'.live = siVault.live /\ UNCHANGED <<siBot, siLog, siTorn>>
    BY <1>2, RouteAloneBegins
  <2>2. CASE siRun' = Ready
    BY <1>0, <2>1, <2>2, UntouchedMayEnd
  <2>3. CASE Begun("stage") \/ (Begun("put") /\ siVault'.live[Other] = siRun.value)
    <3>1. /\ siRun' \in Captures /\ siRun'.pc \in {"stage", "put"} /\ siRun'.slot = siRun.slot
          /\ siRun'.was.vault.live = siVault.live /\ siRun'.was.bot = siRun.was.bot
          /\ siRun'.value = siRun.value
      BY <2>1, <2>3 DEF Begun
    <3>2. siRun'.pc = "put" => siVault'.live[Other] = siRun.value
      BY <2>3 DEF Begun
    <3>3. siRun'.pc # "idle"
      BY <3>1
    <3>4. CaptureStands'
      BY <1>0, <2>1, <3>1, <3>2 DEF CaptureStands, Settled, Untouched, At, Own, Other
    <3>. QED BY <3>3, <3>4 DEF StoreStands, Ready
  <2>. QED BY <1>2, <2>2, <2>3, RouteAloneBegins
<1>. QED BY <1>1, <1>2

(* The writes of a capture, one after another. *)
LEMMA WritesStand ==
    ASSUME SiTyped, CaptureStands, siRun \in Captures,
           \/ PutValue \/ SetBotId \/ PromoteOwn \/ PromoteOther \/ Unstage \/ ForgetStage
           \/ Stage \/ StageRecord
    PROVE  StoreStands'
<1>0. /\ Own \in Slots /\ siRun.was.vault.live \in [Slots -> Held]
      /\ siVault \in Vaults /\ siVault.live \in [Slots -> Held] /\ siVault.staged \in [Gmail -> Held]
      /\ Other \in Gmail /\ Other \in Slots /\ (Own \in Gmail => Own # Other)
      /\ Settled(siRun.was.vault.live, siRun.was.bot)
  BY DEF SiTyped, Captures, Vaults, Own, Other, Gmail, Counterpart, Slots, CaptureStands
<1>1. ASSUME NEW pc \in Stages, Proceed(pc), UNCHANGED <<siLog, siTorn>>
      PROVE  /\ siRun'.pc = pc /\ siRun'.slot = siRun.slot /\ siRun'.was = siRun.was
             /\ siRun'.value = siRun.value /\ siRun' # Ready
             /\ Settled(siRun.was.vault.live, siRun.was.bot)'
  BY <1>0, <1>1, ProceedIs, CaptureRuns DEF Settled
<1>2. CASE PutValue
  <2>1. /\ siVault'.live = [siVault.live EXCEPT ![Own] = siRun.value]
        /\ UNCHANGED <<siBot, siLog, siTorn>> /\ At("put")
    BY <1>0, <1>2 DEF PutValue, Put, Vaults
  <2>2. Untouched /\ (Own \in Gmail => siVault.live[Other] \in {"none", siRun.value})
    BY <2>1 DEF CaptureStands, At
  <2>3. CASE Own = "bot"
    <3>1. Proceed("bot_id")
      BY <1>2, <2>3 DEF PutValue, Put
    <3>2. CaptureStands'
      BY <1>0, <1>1, <2>1, <2>2, <2>3, <3>1 DEF CaptureStands, Untouched, OwnWritten, At, Own, Other, Stages, Gmail
    <3>. QED BY <1>1, <2>1, <3>1, <3>2 DEF StoreStands, Stages
  <2>4. CASE Own # "bot"
    <3>1. Proceed("audit")
      BY <1>2, <2>4 DEF PutValue, Put
    <3>2. Own \in Gmail => siVault'.live[Other] = siVault.live[Other]
      BY <1>0, <2>1
    <3>3. CaptureStands'
      BY <1>0, <1>1, <2>1, <2>2, <2>4, <3>1, <3>2 DEF CaptureStands, Untouched, OwnWritten, At, Own, Other, Stages
    <3>. QED BY <1>1, <2>1, <3>1, <3>3 DEF StoreStands, Stages
  <2>. QED BY <2>3, <2>4
<1>3. CASE SetBotId
  <2>1. UNCHANGED <<siVault, siLog, siTorn>> /\ siBot' = siRun.value /\ Proceed("audit") /\ At("bot_id")
    BY <1>3 DEF SetBotId
  <2>2. CaptureStands'
    BY <1>1, <2>1 DEF CaptureStands, OwnWritten, At, Own, Other, Stages, Gmail
  <2>. QED BY <1>1, <2>1, <2>2 DEF StoreStands, Stages
<1>4. CASE PromoteOwn
  <2>1. /\ siVault'.live = [siVault.live EXCEPT ![Own] = siRun.value] /\ siVault'.staged = siVault.staged
        /\ UNCHANGED <<siBot, siLog, siTorn>> /\ At("promote_own") /\ Proceed("promote_other")
    BY <1>0, <1>4 DEF PromoteOwn, Put, Vaults
  <2>2. CaptureStands'
    BY <1>1, <2>1 DEF CaptureStands, Untouched, OwnWritten, At, Own, Other, Stages
  <2>. QED BY <1>1, <2>1, <2>2 DEF StoreStands, Stages
<1>5. CASE PromoteOther
  <2>1. /\ siVault'.live = [siVault.live EXCEPT ![Other] = siVault.staged[Other]]
        /\ UNCHANGED <<siBot, siLog, siTorn>> /\ At("promote_other") /\ Proceed("unstage")
    BY <1>0, <1>5 DEF PromoteOther, Vaults
  <2>2. OwnWritten /\ siVault.staged[Other] = siRun.value /\ siBot = siRun.was.bot /\ Own \in Gmail
    BY <2>1 DEF CaptureStands, At
  <2>3. siVault'.live = [siRun.was.vault.live EXCEPT ![Own] = siRun.value, ![Other] = siRun.value]
    BY <2>1, <2>2 DEF OwnWritten
  <2>4. CaptureStands'
    BY <1>1, <2>1, <2>2, <2>3 DEF CaptureStands, PairWritten, At, Own, Other, Stages
  <2>. QED BY <1>1, <2>1, <2>4 DEF StoreStands, Stages
<1>6. CASE Unstage
  <2>1. siVault'.live = siVault.live /\ UNCHANGED <<siBot, siLog, siTorn>> /\ At("unstage") /\ Proceed("forget")
    BY <1>0, <1>6 DEF Unstage, Vaults
  <2>2. CaptureStands'
    BY <1>1, <2>1 DEF CaptureStands, PairWritten, At, Own, Other, Stages
  <2>. QED BY <1>1, <2>1, <2>2 DEF StoreStands, Stages
<1>7. CASE ForgetStage
  <2>1. UNCHANGED <<siVault, siBot, siLog, siTorn>> /\ At("forget") /\ Proceed("audit")
    BY <1>7 DEF ForgetStage
  <2>2. PairWritten /\ siBot = siRun.was.bot /\ Own \in Gmail
    BY <2>1 DEF CaptureStands, At
  <2>3. siVault.live[Other] = siRun.value /\ Own # "bot"
    BY <1>0, <2>2 DEF PairWritten, Gmail
  <2>4. CaptureStands'
    BY <1>1, <2>1, <2>2, <2>3 DEF CaptureStands, PairWritten, At, Own, Other, Stages
  <2>. QED BY <1>1, <2>1, <2>4 DEF StoreStands, Stages
<1>8. CASE Stage \/ StageRecord
  <2>1. siVault'.live = siVault.live /\ UNCHANGED <<siBot, siLog, siTorn>>
    BY <1>0, <1>8 DEF Stage, StageRecord, Vaults
  <2>2. Untouched /\ Own \in Gmail
    BY <1>8 DEF Stage, StageRecord, CaptureStands, At
  <2>3. \E pc \in {"stage_meta", "staged"} : Proceed(pc)
    BY <1>8 DEF Stage, StageRecord
  <2>4. CaptureStands'
    BY <1>1, <2>1, <2>2, <2>3 DEF CaptureStands, Untouched, At, Own, Other, Stages
  <2>. QED BY <1>1, <2>1, <2>3, <2>4 DEF StoreStands, Stages
<1>. QED BY <1>2, <1>3, <1>4, <1>5, <1>6, <1>7, <1>8

LEMMA AuditStands ==
    ASSUME SiTyped, CaptureStands, siRun \in Captures, AuditStored
    PROVE  StoreStands'
<1>0. /\ Own \in Slots /\ siRun.was.vault.live \in [Slots -> Held] /\ siVault.live \in [Slots -> Held]
      /\ {"client", "refresh", "bot"} \subseteq Slots
  BY DEF SiTyped, Captures, Vaults, Own, Slots, Gmail
<1>1. /\ siLog' = [s \in Slots |-> IF s = Own \/ siVault.live[s] # siRun.was.vault.live[s]
                                   THEN siVault.live[s] ELSE siLog[s]]
      /\ siRun' = Ready /\ UNCHANGED <<siVault, siBot, siTorn>> /\ At("audit")
  BY DEF AuditStored
<1>2. ASSUME "pair" \notin siTorn PROVE IsPair(siVault.live)
  <2>1. CASE Own \in Gmail
    <3>1. siVault.live[Own] = siRun.value /\ siVault.live[Other] \in {"none", siRun.value}
      BY <1>0, <1>1, <2>1, OtherIsApart DEF CaptureStands, At, OwnWritten, PairWritten, Other
    <3>2. {Own, Other} = {"client", "refresh"}
      BY <2>1 DEF Other, Counterpart, Gmail
    <3>. QED BY <3>1, <3>2 DEF IsPair, ValidPair
  <2>2. CASE Own \notin Gmail
    <3>1. siVault.live["client"] = siRun.was.vault.live["client"]
          /\ siVault.live["refresh"] = siRun.was.vault.live["refresh"]
      BY <1>0, <1>1, <2>2 DEF CaptureStands, At, OwnWritten, Gmail
    <3>. QED BY <1>2, <3>1 DEF CaptureStands, Settled, IsPair
  <2>. QED BY <2>1, <2>2
<1>3. ASSUME "log" \notin siTorn PROVE siLog' = siVault.live /\ siBot = siVault.live["bot"]
  <2>1. siLog = siRun.was.vault.live /\ siRun.was.bot = siRun.was.vault.live["bot"]
    BY <1>3 DEF CaptureStands, Settled
  <2>2. siLog' = siVault.live
    BY <1>0, <1>1, <2>1
  <2>3. siBot = siVault.live["bot"]
    <3>1. CASE Own = "bot"
      BY <1>0, <1>1, <3>1 DEF CaptureStands, At, OwnWritten, Gmail
    <3>2. CASE Own # "bot"
      <4>1. siVault.live["bot"] = siRun.was.vault.live["bot"]
        BY <1>0, <1>1, <3>2 DEF CaptureStands, At, OwnWritten, PairWritten, Other, Counterpart
      <4>. QED BY <1>1, <2>1, <3>2, <4>1 DEF CaptureStands, At
    <3>. QED BY <3>1, <3>2
  <2>. QED BY <2>2, <2>3
<1>. QED BY <1>1, <1>2, <1>3 DEF StoreStands, Settled

(* A capture that ends early: a write that fails, a rollback, a crash. *)
LEMMA EarlyEndStands ==
    ASSUME SiTyped, CaptureStands, siRun \in Captures,
           \/ AuditStaged \/ FailsPlainly \/ (\E lost \in SUBSET Written : RollsBack(lost))
           \/ (\E undone \in BOOLEAN : UnstagesUnaudited(undone)) \/ SiCrash
    PROVE  StoreStands'
<1>0. /\ siRun.was.vault \in Vaults /\ siVault \in Vaults /\ siRun.was.bot \in Held
      /\ siRun.was.vault.live \in [Slots -> Held] /\ siVault.live \in [Slots -> Held]
      /\ Settled(siRun.was.vault.live, siRun.was.bot)
  BY DEF SiTyped, Captures, Vaults, CaptureStands
<1>1. CASE AuditStaged \/ FailsPlainly
  <2>1. Untouched
    BY <1>1 DEF AuditStaged, FailsPlainly, CaptureStands, At
  <2>. QED BY <1>1, <2>1, UntouchedMayEnd DEF AuditStaged, FailsPlainly, siStore
<1>2. ASSUME NEW undone \in BOOLEAN, UnstagesUnaudited(undone) PROVE StoreStands'
  <2>1. Untouched
    BY <1>2 DEF UnstagesUnaudited, CaptureStands, At
  <2>2. siVault'.live = siVault.live
    BY <1>0, <1>2 DEF UnstagesUnaudited, Vaults
  <2>. QED BY <1>2, <2>1, <2>2, UntouchedMayEnd DEF UnstagesUnaudited
<1>3. ASSUME NEW lost \in SUBSET Written, RollsBack(lost) PROVE StoreStands'
  <2> DEFINE was == siRun.was
  <2>1. /\ siVault' = [live |-> Restored(lost, "live", siVault.live, was.vault.live),
                       staged |-> Restored(lost, "staged", siVault.staged, was.vault.staged)]
        /\ siBot' = IF <<"bot", "id">> \in lost THEN siBot ELSE was.bot
        /\ siTorn' = IF lost = {} THEN siTorn ELSE siTorn \cup {"pair", "log"}
        /\ siRun' = Ready /\ siLog' = siLog
    BY <1>3 DEF RollsBack
  <2>2. CASE lost = {}
    <3>1. siVault'.live = was.vault.live
      <4>1. Restored(lost, "live", siVault.live, was.vault.live) = was.vault.live
        BY ONLY <1>0, <2>2 DEF Restored
      <4>. QED BY <2>1, <4>1
    <3>2. siBot' = was.bot /\ siTorn' = siTorn
      BY <2>1, <2>2
    <3>. QED BY <1>0, <2>1, <3>1, <3>2 DEF StoreStands, Settled
  <2>3. CASE lost # {}
    BY <2>1, <2>3 DEF StoreStands, Settled
  <2>. QED BY <2>2, <2>3
<1>4. CASE SiCrash
  <2>1. siRun' = Ready /\ UNCHANGED <<siVault, siBot, siLog>>
    BY <1>4 DEF SiCrash, siStore
  <2>2. siTorn' = siTorn \cup (IF At("promote_other") THEN {"pair", "log"}
                               ELSE IF siRun.pc \in {"unstage", "forget", "bot_id", "audit"} THEN {"log"} ELSE {})
    BY <1>4 DEF SiCrash
  <2>3. CASE At("promote_other")
    BY <2>1, <2>2, <2>3 DEF StoreStands, Settled
  <2>4. CASE siRun.pc \in {"unstage", "forget", "bot_id", "audit"}
    <3>1. "pair" \notin siTorn => IsPair(siVault.live)
      <4>1. CASE Own \in Gmail
        <5>1. siVault.live[Own] = siRun.value /\ siVault.live[Other] \in {"none", siRun.value}
          BY <1>0, <2>4, <4>1, OtherIsApart DEF CaptureStands, At, OwnWritten, PairWritten, Other, Gmail
        <5>2. {Own, Other} = {"client", "refresh"}
          BY <4>1 DEF Other, Counterpart, Gmail
        <5>. QED BY <5>1, <5>2 DEF IsPair, ValidPair
      <4>2. CASE Own \notin Gmail
        <5>1. siVault.live["client"] = siRun.was.vault.live["client"]
              /\ siVault.live["refresh"] = siRun.was.vault.live["refresh"]
          BY <1>0, <2>4, <4>2 DEF CaptureStands, At, OwnWritten, Gmail, Slots
        <5>. QED BY <1>0, <5>1 DEF Settled, IsPair
      <4>. QED BY <4>1, <4>2
    <3>2. "log" \in siTorn' /\ siTorn \subseteq siTorn'
      BY <2>2, <2>4
    <3>. QED BY <2>1, <3>1, <3>2 DEF StoreStands, Settled
  <2>5. CASE siRun.pc \in {"route", "put", "promote_own", "stage", "stage_meta", "staged"}
    <3>1. Untouched /\ siTorn' = siTorn
      BY <2>2, <2>5 DEF CaptureStands, At
    <3>. QED BY <2>1, <3>1, UntouchedMayEnd
  <2>. QED BY <2>3, <2>4, <2>5 DEF Captures, Stages, At
<1>. QED BY <1>1, <1>2, <1>3, <1>4

LEMMA SiStepStands ==
    ASSUME SiTyped, StoreStands, [SiNext]_siVars
    PROVE  StoreStands'
<1>1. ASSUME UNCHANGED <<siVault, siBot, siLog, siTorn, siRun>> PROVE StoreStands'
  BY <1>1 DEF StoreStands, CaptureStands, Settled, Untouched, OwnWritten, PairWritten, At, Own, Other
<1>2. CASE siRun = Ready
  <2>1. siRun.pc = "idle" /\ Settled(siVault.live, siBot)
    BY <1>2 DEF Ready, StoreStands
  <2>2. CASE \/ UNCHANGED siVars \/ PendingExpires \/ (\E s \in Gmail : StageExpires(s))
             \/ (\E t \in Talks : RefuseMessage(t))
             \/ (\E m \in Modes, s \in Slots, t \in Talks, audited, undone \in BOOLEAN : Arm(m, s, t, audited, undone))
    <3>1. UNCHANGED <<siVault, siBot, siLog, siTorn, siRun>>
      BY <2>2 DEF siVars, siStore, PendingExpires, StageExpires, RefuseMessage, Arm
    <3>. QED BY <1>1, <3>1
  <2>3. ASSUME NEW t \in Talks, NEW v \in Accounts, TakeMessage(t, v) PROVE StoreStands'
    <3>1. /\ UNCHANGED <<siVault, siBot, siLog, siTorn>> /\ siRun'.pc = "route"
          /\ siRun'.was.vault = siVault /\ siRun'.was.bot = siBot
      BY <2>3 DEF TakeMessage
    <3>2. CaptureStands'
      BY <2>1, <3>1 DEF CaptureStands, Settled, Untouched, At
    <3>. QED BY <3>1, <3>2 DEF StoreStands, Ready
  <2>4. /\ ~(RoutePlain \/ PutValue \/ SetBotId \/ AuditStored \/ PromoteOwn \/ PromoteOther \/ Unstage
             \/ ForgetStage \/ Stage \/ StageRecord \/ AuditStaged \/ FailsPlainly \/ SiCrash)
        /\ \A yes \in BOOLEAN, swept \in Sweeps : ~(RouteBotToken(yes) \/ RoutePair(yes) \/ RouteAlone(yes, swept))
    BY <1>2, <2>1 DEF RouteBotToken, RoutePair, RouteAlone, RoutePlain, PutValue, SetBotId, AuditStored,
          PromoteOwn, PromoteOther, Unstage, ForgetStage, Stage, StageRecord, AuditStaged, FailsPlainly,
          SiCrash, At
  <2>5. /\ \A lost \in SUBSET Written : ~RollsBack(lost)
        /\ \A undone \in BOOLEAN : ~UnstagesUnaudited(undone)
    BY <2>1 DEF RollsBack, UnstagesUnaudited, At
  <2>. QED BY <2>2, <2>3, <2>4, <2>5 DEF SiNext
<1>3. CASE siRun # Ready
  <2>1. siRun \in Captures /\ CaptureStands
    BY <1>3 DEF SiTyped, StoreStands
  <2>2. CASE UNCHANGED siVars
    BY <1>1, <2>2 DEF siVars, siStore
  <2>3. CASE SiNext
    <3>1. \/ \E yes \in BOOLEAN, swept \in Sweeps : RouteBotToken(yes) \/ RoutePair(yes) \/ RouteAlone(yes, swept)
          \/ RoutePlain \/ PutValue \/ SetBotId \/ AuditStored
          \/ PromoteOwn \/ PromoteOther \/ Unstage \/ ForgetStage
          \/ Stage \/ StageRecord \/ AuditStaged
          \/ FailsPlainly \/ (\E lost \in SUBSET Written : RollsBack(lost))
          \/ (\E undone \in BOOLEAN : UnstagesUnaudited(undone))
          \/ SiCrash
      BY ONLY <1>3, <2>3 DEF SiNext, Arm, PendingExpires, StageExpires, RefuseMessage, TakeMessage
    <3>2. TRUE \in BOOLEAN /\ {} \in Sweeps
      BY DEF Sweeps
    <3>3. CASE RoutePlain
      BY <2>1, <3>2, <3>3, RouteStands
    <3>. QED BY <2>1, <3>1, <3>3, RouteStands, WritesStand, AuditStands, EarlyEndStands
  <2>. QED BY <2>2, <2>3
<1>. QED BY <1>2, <1>3

(* Captures of secret_intake: between two of them the live client and refresh slots are a
   validated pair and what the ledger says was stored is what the vault holds, unless a
   crash or a failed rollback cut a promotion in two; an arming takes one message. *)
THEOREM SecretsHold == SiSpec => []SecretsAreSound
<1>1. SiInv /\ [SiNext]_siVars => SiInv'
  BY SiStepTyped, SiStepArmings, SiStepStands DEF SiInv, StoreStands
<1>. QED BY <1>1, SiInitHolds, SiInvIsEnough, PTL DEF SiSpec
================================================================================
