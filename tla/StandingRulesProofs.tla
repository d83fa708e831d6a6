------------------------- MODULE StandingRulesProofs -------------------------
(***************************************************************************)
(* Theorems about StandingRules for every set of rules, requests and       *)
(* exceptions, every manifest, and any number of crashes: types first,     *)
(* then the one-use token of a fired exception, the consent it needs, and  *)
(* the limits a reviewed rule states.                                      *)
(*                                                                         *)
(* The invariant of the token says what the consumer knows at each step:   *)
(* up to the effect nothing has landed and the budget is still `reserved'; *)
(* when it re-arms, nothing landed and no budget is left; and from the     *)
(* claim to its end the exception is not under the owner's attention.      *)
(*                                                                         *)
(* Scope: at most one live rule of an action covers any one scope.  No     *)
(* step but an activation makes a rule live, and an activation revokes     *)
(* every live rule of the action its manifest overlaps.                    *)
(*                                                                         *)
(* Exceptions: no more open ones than the rule version admits.  No step    *)
(* but a schedule opens one, and a schedule counts first.                  *)
(*                                                                         *)
(* Windows: no more rows than quota and rate admit in any window.  A       *)
(* reservation counts every row from its own clock value back; whatever    *)
(* else a step does to the rows of shell requests, none is added.          *)
(***************************************************************************)
EXTENDS StandingRules, FiniteSetTheorems, TLAPS

(* What the program counters say of the variables that go with them. *)
Working == {"mediate", "consume", "audit", "dispatching", "settling", "marking", "rearming"}
Bound ==
    /\ \A r \in Rules : rules[r].status # "absent" => rules[r].version \in Versions
    /\ \A a \in Attempts :
          att[a].pc \in {"saturated", "reserved", "dispatching", "settling"}
              => att[a].rule \in Rules /\ att[a].version \in Versions
    /\ cons.upto <= Len(fired)
    /\ cons.pc \in Working => cons.cur \in Exceptions
Typed == TypeOK /\ Bound

(* The helpers return rows of the tables they are assigned to. *)
LEMMA HelperTypes ==
    ASSUME TypeOK
    PROVE  /\ \A P : Staled(P) \in [Exceptions -> PendRow]
           /\ \A R : \A s \in Status : WithStatus(R, s) \in [Rules -> RuleRow]
           /\ \A id : Cancelled(id) \subseteq UsageRow
           /\ \A id \in Attempts \cup Exceptions, r \in Rules, v \in Versions, t \in Nat :
                 Reservation(id, r, v, t) \in UsageRow
<1>1. \A P : Staled(P) \in [Exceptions -> PendRow]
  BY ZenonT(60) DEF TypeOK, Staled, PendRow
<1>2. \A R : \A s \in Status : WithStatus(R, s) \in [Rules -> RuleRow]
  BY DEF TypeOK, WithStatus, RuleRow
<1>3. \A id : Cancelled(id) \subseteq UsageRow
  BY DEF TypeOK, Cancelled
<1>4. \A id \in Attempts \cup Exceptions, r \in Rules, v \in Versions, t \in Nat :
         Reservation(id, r, v, t) \in UsageRow
  BY DEF Reservation, UsageRow
<1>. QED BY <1>1, <1>2, <1>3, <1>4

(* Changing the status of existing rules leaves every existing rule with a version. *)
LEMMA RestatusedVersions ==
    ASSUME Typed, NEW R, NEW s \in Status, NEW q \in Rules,
           q \in R => rules[q].status # "absent"
    PROVE  /\ WithStatus(R, s)[q].version = rules[q].version
           /\ WithStatus(R, s)[q].status = IF q \in R THEN s ELSE rules[q].status
           /\ WithStatus(R, s)[q].status # "absent" => WithStatus(R, s)[q].version \in Versions
<1>1. rules[q] \in RuleRow /\ (rules[q].status # "absent" => rules[q].version \in Versions)
  BY DEF Typed, TypeOK, Bound
<1>2. WithStatus(R, s)[q] = IF q \in R THEN [rules[q] EXCEPT !.status = s] ELSE rules[q]
  BY DEF WithStatus
<1>. QED BY <1>1, <1>2 DEF RuleRow

(* Noting a use keeps both tables well-formed, and never makes a rule live. *)
LEMMA NoteUseTypes ==
    ASSUME Typed, NEW r \in Rules, NEW t \in Nat, NEW refresh \in BOOLEAN, NEW rows,
           NoteUse(r, t, refresh, rows)
    PROVE  /\ rules' \in [Rules -> RuleRow] /\ pend' \in [Exceptions -> PendRow]
           /\ \A q \in Rules : /\ rules'[q].version = rules[q].version
                               /\ rules'[q].status \in {rules[q].status, "needs_review"}
                               /\ rules'[q].status # rules[q].status => rules[q].status = "active"
           /\ pend' = pend \/ pend' = Staled(ExceptionsOf(r))
<1> DEFINE drift == Cardinality(SaturatedWindows(r, rows)) >= 3
           status == IF drift /\ rules[r].status = "active" THEN "needs_review"
                                                            ELSE rules[r].status
<1>1. /\ rules' = [rules EXCEPT ![r].status = status,
                                ![r].lastUsed = IF refresh THEN t ELSE @]
      /\ pend' = IF drift THEN Staled(ExceptionsOf(r)) ELSE pend
  BY DEF NoteUse
<1>2. status \in Status /\ status \in {rules[r].status, "needs_review"}
      /\ (status # rules[r].status => rules[r].status = "active")
  BY DEF Typed, TypeOK, RuleRow, Status
<1>3. rules \in [Rules -> RuleRow] /\ pend \in [Exceptions -> PendRow]
  BY DEF Typed, TypeOK
<1>4. rules' \in [Rules -> RuleRow]
      /\ \A q \in Rules : /\ rules'[q].version = rules[q].version
                          /\ rules'[q].status = IF q = r THEN status ELSE rules[q].status
  <2> HIDE DEF status
  <2>. QED BY <1>1, <1>2, <1>3 DEF RuleRow
<1>5. pend' \in [Exceptions -> PendRow]
  BY <1>1, <1>3, HelperTypes DEF Typed
<1>. QED BY <1>1, <1>2, <1>4, <1>5

LEMMA FinalizeTypes ==
    ASSUME Typed, NEW id, NEW r \in Rules, NEW v \in Versions, NEW t \in Nat,
           NEW refresh \in BOOLEAN, Finalize(id, r, v, t, refresh)
    PROVE  /\ rules' \in [Rules -> RuleRow] /\ pend' \in [Exceptions -> PendRow]
           /\ usage' \subseteq UsageRow
           /\ \A u \in usage' : u \in usage \/ u.res = id
           /\ \A q \in Rules : /\ rules'[q].version = rules[q].version
                               /\ rules'[q].status \in {rules[q].status, "needs_review"}
                               /\ rules'[q].status # rules[q].status => rules[q].status = "active"
           /\ pend' = pend \/ pend' = Staled(ExceptionsOf(r))
<1> DEFINE own == {u \in Reserved(id) : u.rule = r /\ u.version = v}
           same == rules' = rules /\ pend' = pend
<1>0. rules \in [Rules -> RuleRow] /\ pend \in [Exceptions -> PendRow] /\ usage \subseteq UsageRow
  BY DEF Typed, TypeOK
<1>1. \/ same /\ usage' = usage
      \/ /\ usage' = (usage \ own) \cup {[u EXCEPT !.status = "committed"] : u \in own}
         /\ NoteUse(r, t, refresh, usage')
      \/ same /\ usage' = Cancelled(id)
  BY DEF Finalize
<1>2. CASE same /\ usage' = usage
  BY <1>0, <1>2
<1>3. CASE /\ usage' = (usage \ own) \cup {[u EXCEPT !.status = "committed"] : u \in own}
           /\ NoteUse(r, t, refresh, usage')
  <2>1. own \subseteq usage /\ \A u \in own : u.res = id
    BY DEF Reserved
  <2>2. \A u \in own : [u EXCEPT !.status = "committed"] \in UsageRow
                       /\ [u EXCEPT !.status = "committed"].res = id
    BY <1>0, <2>1 DEF UsageRow
  <2>3. usage' \subseteq UsageRow /\ \A u \in usage' : u \in usage \/ u.res = id
    <3> HIDE DEF own
    <3>. QED BY <1>0, <1>3, <2>1, <2>2
  <2>. QED BY <1>3, <2>3, NoteUseTypes
<1>4. CASE same /\ usage' = Cancelled(id)
  BY <1>0, <1>4, HelperTypes DEF Typed, Cancelled
<1>. QED BY <1>1, <1>2, <1>3, <1>4

(* The typing facts of the current state that the steps below use. *)
LEMMA TypedFacts ==
    ASSUME Typed
    PROVE  /\ now \in Nat /\ rules \in [Rules -> RuleRow] /\ usage \subseteq UsageRow
           /\ pend \in [Exceptions -> PendRow] /\ fired \in Seq(Exceptions) /\ acked \in Nat
           /\ erased \subseteq Counterparties /\ eligible \subseteq Actions
           /\ att \in [Attempts -> AttState] /\ cons \in ConsState /\ crashes \in Nat
           /\ effects \subseteq [att : Attempts, rule : Rules, version : Versions, at : Nat]
           /\ landed \in [Exceptions -> Nat] /\ tapped \in [Exceptions -> {"no", "allow", "deny"}]
BY DEF Typed, TypeOK

LEMMA InitTyped == Init => Typed
<1> SUFFICES ASSUME Init PROVE Typed
  OBVIOUS
<1> USE ConstantsAssumption
<1>1. NoRule \in RuleRow /\ NoException \in PendRow /\ NoMediation \in AttState
      /\ ConsumerStart \in ConsState
  BY DEF NoRule, RuleRow, Status, Never, NoException, PendRow, NoMediation, AttState,
         Dispositions, ConsumerStart, ConsState
<1>2. TypeOK
  BY <1>1 DEF Init, TypeOK
<1>3. Bound
  BY DEF Init, Bound, NoRule, NoMediation, ConsumerStart, Working
<1>. QED BY <1>2, <1>3 DEF Typed

LEMMA LifecycleTyped ==
    ASSUME Typed, Lifecycle
    PROVE  Typed'
<1> USE ConstantsAssumption, TypedFacts, HelperTypes
<1>0. TypeOK /\ Bound
  BY DEF Typed
<1>1. ASSUME NEW r \in Rules, NEW v \in Versions, Activate(r, v) PROVE Typed'
  <2>1. [version |-> v, status |-> "active", activatedAt |-> now, lastUsed |-> Never] \in RuleRow
    BY DEF RuleRow, Status, Versions
  <2>2. rules' \in [Rules -> RuleRow]
    BY <1>0, <1>1, <2>1 DEF Activate, Status
  <2>3. pend' \in [Exceptions -> PendRow]
    BY <1>0, <1>1 DEF Activate
  <2>4. TypeOK'
    BY <1>0, <1>1, <2>2, <2>3 DEF Activate, TypeOK, history
  <2>5. ASSUME NEW q \in Rules PROVE rules'[q].status # "absent" => rules'[q].version \in Versions
    <3>1. CASE q = r
      BY <1>1, <2>2, <3>1 DEF Activate
    <3>2. CASE q # r
      <4>1. rules'[q] = WithStatus(Displaced(r, Mf(r, v)), "revoked")[q]
        BY <1>0, <1>1, <3>2 DEF Activate, Status
      <4>2. q \in Displaced(r, Mf(r, v)) => rules[q].status # "absent"
        BY DEF Displaced
      <4>3. "revoked" \in Status
        BY DEF Status
      <4>. QED BY ONLY Typed, q \in Rules, <4>1, <4>2, <4>3, RestatusedVersions
    <3>. QED BY <3>1, <3>2
  <2>6. Bound'
    BY <1>0, <1>1, <2>5 DEF Activate, Bound, history
  <2>. QED BY <2>4, <2>6 DEF Typed
<1>2. ASSUME NEW r \in Rules, RevokeRule(r) \/ PauseRule(r) \/ LapseOnLookup(r) \/ ResumeRule(r)
      PROVE Typed'
  <2>1. rules' \in [Rules -> RuleRow]
    BY <1>0, <1>2 DEF RevokeRule, PauseRule, LapseOnLookup, ResumeRule, Status
  <2>2. pend' \in [Exceptions -> PendRow]
    BY <1>0, <1>2 DEF RevokeRule, PauseRule, LapseOnLookup, ResumeRule
  <2>3. TypeOK'
    BY <1>0, <1>2, <2>1, <2>2
    DEF RevokeRule, PauseRule, LapseOnLookup, ResumeRule, TypeOK, history
  <2>4. Bound'
    <3>1. rules[r].status # "absent" /\ \E s \in Status : rules' = WithStatus({r}, s)
      BY <1>2 DEF RevokeRule, PauseRule, LapseOnLookup, ResumeRule, Status
    <3>2. \A q \in Rules : rules'[q].status # "absent" => rules'[q].version \in Versions
      BY ONLY Typed, <3>1, RestatusedVersions
    <3>. QED BY <1>0, <1>2, <3>2
             DEF RevokeRule, PauseRule, LapseOnLookup, ResumeRule, Bound, history
  <2>. QED BY <2>3, <2>4 DEF Typed
<1>3. ASSUME NEW c \in Counterparties, EraseCounterparty(c) PROVE Typed'
  <2>1. TypeOK'
    BY <1>0, <1>3 DEF EraseCounterparty, TypeOK, history, Status
  <2>2. Bound'
    <3> DEFINE R == {r \in Rules : /\ rules[r].status \in {"active", "paused", "needs_review"}
                                   /\ Current(r).scope = c}
    <3>1. rules' = WithStatus(R, "revoked") /\ \A q \in R : rules[q].status # "absent"
      BY <1>3 DEF EraseCounterparty
    <3>2. \A q \in Rules : rules'[q].status # "absent" => rules'[q].version \in Versions
      <4> HIDE DEF R
      <4>1. "revoked" \in Status
        BY DEF Status
      <4>. QED BY ONLY Typed, <3>1, <4>1, RestatusedVersions
    <3>. QED BY <1>0, <1>3, <3>2 DEF EraseCounterparty, Bound, history
  <2>. QED BY <2>1, <2>2 DEF Typed
<1>. QED BY <1>1, <1>2, <1>3 DEF Lifecycle

(* A mediation that ends is well-formed and names no rule. *)
LEMMA EndTyped ==
    ASSUME Typed, NEW a \in Attempts, NEW pc \in {"done", "lost"}, End(a, pc)
    PROVE  /\ att' \in [Attempts -> AttState]
           /\ att'[a].pc = pc /\ \A b \in Attempts \ {a} : att'[b] = att[b]
<1>0. att[a].disp \in Dispositions \cup {"none"} /\ 0 \in 0..MaxVersion
  BY TypedFacts, ConstantsAssumption DEF AttState
<1>1. [NoMediation EXCEPT !.pc = pc, !.disp = att[a].disp] \in AttState
  BY <1>0 DEF NoMediation, AttState
<1>2. [NoMediation EXCEPT !.pc = pc, !.disp = att[a].disp].pc = pc
  BY DEF NoMediation
<1>3. att' = [att EXCEPT ![a] = [NoMediation EXCEPT !.pc = pc, !.disp = att[a].disp]]
  BY DEF End
<1> DEFINE e == [NoMediation EXCEPT !.pc = pc, !.disp = att[a].disp]
<1> HIDE DEF e
<1>. QED BY <1>1, <1>2, <1>3, TypedFacts DEF e

(* The part of Bound that speaks of mediations. *)
AttBound ==
    \A a \in Attempts :
        att[a].pc \in {"saturated", "reserved", "dispatching", "settling"}
            => att[a].rule \in Rules /\ att[a].version \in Versions

(* A step that replaces one mediation by a well-formed one. *)
LEMMA AttStep ==
    ASSUME Typed, NEW a \in Attempts, NEW x \in AttState, att' = [att EXCEPT ![a] = x],
           x.pc \in {"saturated", "reserved", "dispatching", "settling"}
               => x.rule \in Rules /\ x.version \in Versions
    PROVE  att' \in [Attempts -> AttState] /\ AttBound'
<1>1. att \in [Attempts -> AttState] /\ AttBound
  BY TypedFacts DEF Typed, Bound, AttBound
<1>. QED BY <1>1 DEF AttBound

(* A consultation that reserves, saturates or ends. *)
LEMMA ReserveTyped ==
    ASSUME Typed, NEW a \in Attempts, NEW r \in Rules, rules[r].status = "active",
           ReserveOrSaturate(a, r)
    PROVE  att' \in [Attempts -> AttState] /\ AttBound' /\ usage' \subseteq UsageRow
           /\ \A u \in usage' : u \in usage \/ u.res = a
<1> DEFINE ok == Headroom(r, att[a].now)
           pc == IF ok THEN "reserved" ELSE "saturated"
<1>1. rules[r].version \in Versions /\ att[a].now \in Nat /\ AttBound
  BY TypedFacts DEF Typed, Bound, AttBound, AttState
<1>2. usage' \subseteq UsageRow /\ \A u \in usage' : u \in usage \/ u.res = a
  <2>1. Reservation(a, r, rules[r].version, att[a].now) \in UsageRow
        /\ Reservation(a, r, rules[r].version, att[a].now).res = a
    BY <1>1 DEF Reservation, UsageRow
  <2>. QED BY <2>1, TypedFacts DEF ReserveOrSaturate
<1> DEFINE x == [att[a] EXCEPT !.pc = pc, !.rule = r, !.version = rules[r].version]
<1>3. att' = [att EXCEPT ![a] = x] \/ End(a, "done")
  BY DEF ReserveOrSaturate
<1>4. pc \in {"reserved", "saturated"}
  OBVIOUS
<1>5. CASE att' = [att EXCEPT ![a] = x]
  <2>1. x \in AttState /\ x.rule \in Rules /\ x.version \in Versions
    <3>1. att[a] \in AttState /\ rules[r].version \in 0..MaxVersion
      BY <1>1, TypedFacts DEF Versions
    <3> HIDE DEF pc
    <3>. QED BY <1>1, <1>4, <3>1 DEF AttState
  <2> HIDE DEF x
  <2>. QED BY <1>2, <1>5, <2>1, AttStep
<1>6. CASE End(a, "done")
  <2>1. att' \in [Attempts -> AttState] /\ att'[a].pc = "done"
        /\ \A b \in Attempts \ {a} : att'[b] = att[b]
    BY <1>6, EndTyped
  <2>. QED BY <1>1, <1>2, <2>1 DEF AttBound
<1>. QED BY <1>3, <1>5, <1>6

(* Ending a mediation keeps the table of mediations typed. *)
LEMMA EndBound ==
    ASSUME Typed, NEW a \in Attempts, NEW pc \in {"done", "lost"}, End(a, pc)
    PROVE  att' \in [Attempts -> AttState] /\ AttBound'
<1>1. att' \in [Attempts -> AttState] /\ att'[a].pc = pc
      /\ \A b \in Attempts \ {a} : att'[b] = att[b]
  BY EndTyped
<1>. QED BY <1>1 DEF Typed, Bound, AttBound

LEMMA MediationTyped ==
    ASSUME Typed, NEW a \in Attempts, Mediation(a)
    PROVE  Typed'
<1> USE TypedFacts
<1>0. AttBound /\ Bound
  BY DEF Typed, Bound, AttBound
<1>1. CASE Receive(a)
  <2>1. att' \in [Attempts -> AttState] /\ AttBound'
    <3> DEFINE x == [att[a] EXCEPT !.pc = "gated", !.now = now]
    <3>0. att' = [att EXCEPT ![a] = x] \/ End(a, "done")
      BY <1>1 DEF Receive
    <3>1. x \in AttState /\ x.pc = "gated"
      BY DEF AttState
    <3> HIDE DEF x
    <3>2. CASE att' = [att EXCEPT ![a] = x]
      BY <3>1, <3>2, AttStep
    <3>3. CASE End(a, "done")
      BY <3>3, EndBound
    <3>. QED BY <3>0, <3>2, <3>3
  <2>. QED BY <1>0, <1>1, <2>1 DEF Receive, Typed, TypeOK, Bound, AttBound, tables, history
<1>2. CASE ConsultByAction(a)
  <2> DEFINE live == ActiveFor(ActionOf(a))
  <2>0. live \subseteq Rules /\ \A r \in live : rules[r].status = "active"
    BY DEF ActiveFor
  <2>1. \/ End(a, "done") /\ UNCHANGED tables
        \/ \E r \in live : /\ rules' = WithStatus({r}, "needs_review")
                           /\ pend' = Staled(ExceptionsAt(r, rules[r].version))
                           /\ End(a, "done") /\ UNCHANGED <<usage, erased>>
        \/ \E r \in live : ReserveOrSaturate(a, r) /\ UNCHANGED <<rules, pend, erased>>
    BY <1>2 DEF ConsultByAction
  <2>2. UNCHANGED <<now, fired, acked, eligible, cons, crashes, history>>
    BY <1>2 DEF ConsultByAction
  <2> HIDE DEF live
  <2>3. CASE End(a, "done") /\ UNCHANGED tables
    <3>1. att' \in [Attempts -> AttState] /\ AttBound'
      BY <2>3, EndBound
    <3>. QED BY <1>0, <2>2, <2>3, <3>1 DEF Typed, TypeOK, Bound, AttBound, tables, history
  <2>4. ASSUME NEW r \in live, rules' = WithStatus({r}, "needs_review"),
               pend' = Staled(ExceptionsAt(r, rules[r].version)),
               End(a, "done"), UNCHANGED <<usage, erased>>
        PROVE  Typed'
    <3>1. att' \in [Attempts -> AttState] /\ AttBound'
      BY <2>4, EndBound
    <3>2. "needs_review" \in Status /\ rules[r].status # "absent"
      BY <2>0 DEF Status
    <3>3. \A q \in Rules : rules'[q].status # "absent" => rules'[q].version \in Versions
      BY ONLY Typed, <2>4, <3>2, RestatusedVersions
    <3>4. rules' \in [Rules -> RuleRow] /\ pend' \in [Exceptions -> PendRow]
      BY ONLY Typed, <2>4, <3>2, HelperTypes DEF Typed
    <3>. QED BY <1>0, <2>2, <2>4, <3>1, <3>3, <3>4 DEF Typed, TypeOK, Bound, AttBound, history
  <2>5. ASSUME NEW r \in live, ReserveOrSaturate(a, r), UNCHANGED <<rules, pend, erased>>
        PROVE  Typed'
    <3>1. att' \in [Attempts -> AttState] /\ AttBound' /\ usage' \subseteq UsageRow
      BY <2>0, <2>5, ReserveTyped
    <3>. QED BY <1>0, <2>2, <2>5, <3>1 DEF Typed, TypeOK, Bound, AttBound, history
  <2>. QED BY <2>1, <2>3, <2>4, <2>5
<1>3. CASE ConsultByScope(a)
  <2> DEFINE live    == ActiveFor(ActionOf(a))
             lapsed  == {r \in live : Lapsed(r, att[a].now)}
             matches == {r \in live \ lapsed : Current(r).scope = ScopeOf(a)}
  <2>0. live \subseteq Rules /\ lapsed \subseteq live /\ matches \subseteq live
        /\ \A r \in live : rules[r].status = "active"
    BY DEF ActiveFor
  <2>1. \/ End(a, "done") /\ UNCHANGED tables
        \/ /\ rules' = WithStatus(lapsed, "needs_review")
           /\ pend' = Staled(UNION {ExceptionsAt(r, rules[r].version) : r \in lapsed})
           /\ UNCHANGED erased
           /\ \/ End(a, "done") /\ UNCHANGED usage
              \/ Cardinality(matches) = 1 /\ \A r \in matches : ReserveOrSaturate(a, r)
    BY <1>3 DEF ConsultByScope
  <2>2. UNCHANGED <<now, fired, acked, eligible, cons, crashes, history>>
    BY <1>3 DEF ConsultByScope
  <2> HIDE DEF live, lapsed, matches
  <2>3. CASE End(a, "done") /\ UNCHANGED tables
    <3>1. att' \in [Attempts -> AttState] /\ AttBound'
      BY <2>3, EndBound
    <3>. QED BY <1>0, <2>2, <2>3, <3>1 DEF Typed, TypeOK, Bound, AttBound, tables, history
  <2>4. ASSUME rules' = WithStatus(lapsed, "needs_review"),
               pend' = Staled(UNION {ExceptionsAt(r, rules[r].version) : r \in lapsed}),
               UNCHANGED erased,
               \/ End(a, "done") /\ UNCHANGED usage
               \/ Cardinality(matches) = 1 /\ \A r \in matches : ReserveOrSaturate(a, r)
        PROVE  Typed'
    <3>1. att' \in [Attempts -> AttState] /\ AttBound' /\ usage' \subseteq UsageRow
      <4>1. CASE End(a, "done") /\ UNCHANGED usage
        BY <4>1, EndBound
      <4>2. CASE Cardinality(matches) = 1 /\ \A r \in matches : ReserveOrSaturate(a, r)
        <5>1. matches # {}
          BY ONLY <4>2, FS_EmptySet
        <5>2. PICK r \in matches : TRUE
          BY <5>1
        <5>. QED BY <2>0, <4>2, <5>2, ReserveTyped
      <4>. QED BY <2>4, <4>1, <4>2
    <3>2. "needs_review" \in Status /\ \A r \in lapsed : rules[r].status # "absent"
      BY <2>0 DEF Status
    <3>3. \A q \in Rules : rules'[q].status # "absent" => rules'[q].version \in Versions
      BY ONLY Typed, <2>4, <3>2, RestatusedVersions
    <3>4. rules' \in [Rules -> RuleRow] /\ pend' \in [Exceptions -> PendRow]
      BY ONLY Typed, <2>4, <3>2, HelperTypes DEF Typed
    <3>. QED BY <1>0, <2>2, <2>4, <3>1, <3>3, <3>4 DEF Typed, TypeOK, Bound, AttBound, history
  <2>. QED BY <2>1, <2>3, <2>4
<1>4. CASE ScheduleException(a)
  <2> DEFINE r == att[a].rule
             v == att[a].version
             p == [rule |-> r, version |-> v, print |-> AttemptPrint[a]]
  <2>0. att[a].now \in Nat /\ r \in Rules /\ v \in Versions
    BY <1>0, <1>4 DEF ScheduleException, AttBound, AttState
  <2>1. att' \in [Attempts -> AttState] /\ AttBound'
    BY <1>4, EndBound DEF ScheduleException
  <2>2. Mf(r, v).dwTime \in Nat
    BY <2>0, ConstantsAssumption DEF Mf, ManifestType
  <2>3. att[a].now + Mf(r, v).dwTime \in Nat
    BY <2>0, <2>2
  <2>4. \/ pend' = pend
        \/ pend' = [pend EXCEPT ![p] =
                       [@ EXCEPT !.res = "open", !.timer = "pending",
                                 !.firesAt = att[a].now + Mf(r, v).dwTime]]
    BY <1>4 DEF ScheduleException
  <2>5. pend' \in [Exceptions -> PendRow]
    <3> DEFINE t == att[a].now + Mf(r, v).dwTime
               x == [pend[p] EXCEPT !.res = "open", !.timer = "pending", !.firesAt = t]
    <3>1. p \in Exceptions
      BY <2>0, ConstantsAssumption DEF Exceptions
    <3>2. x \in PendRow
      <4> HIDE DEF t, p
      <4>. QED BY <2>3, <3>1, ZenonT(60) DEF PendRow, t
    <3>3. pend' = pend \/ pend' = [pend EXCEPT ![p] = x]
      BY <2>4, <3>1
    <3> HIDE DEF x, p
    <3>. QED BY <3>1, <3>2, <3>3
  <2>. QED BY <1>0, <1>4, <2>1, <2>5
           DEF ScheduleException, Typed, TypeOK, Bound, AttBound, history
<1>5. CASE AdmitEffect(a) \/ RefuseBeforeEffect(a)
  <2>1. "NotAttempted" \in Dispositions
    BY DEF Dispositions
  <2>2. att' \in [Attempts -> AttState] /\ AttBound'
    <3> DEFINE x == [att[a] EXCEPT !.pc = "dispatching"]
               y == [att[a] EXCEPT !.pc = "settling", !.disp = "NotAttempted"]
    <3>1. att' = [att EXCEPT ![a] = x] \/ att' = [att EXCEPT ![a] = y]
      BY <1>5 DEF AdmitEffect, RefuseBeforeEffect
    <3>2. att[a] \in AttState /\ att[a].rule \in Rules /\ att[a].version \in Versions
      BY <1>0, <1>5 DEF AdmitEffect, RefuseBeforeEffect, AttBound
    <3>3. x \in AttState /\ x.rule \in Rules /\ x.version \in Versions
      BY <3>2 DEF AttState
    <3>4. y \in AttState /\ y.rule \in Rules /\ y.version \in Versions
      BY <2>1, <3>2 DEF AttState
    <3> HIDE DEF x, y
    <3>. QED BY <3>1, <3>3, <3>4, AttStep
  <2>. QED BY <1>0, <1>5, <2>2
           DEF AdmitEffect, RefuseBeforeEffect, Typed, TypeOK, Bound, AttBound, tables, history
<1>6. CASE Dispatch(a)
  <2>1. PICK d \in Dispositions, took \in BOOLEAN :
          /\ att[a].pc = "dispatching"
          /\ att' = [att EXCEPT ![a] = [@ EXCEPT !.pc = "settling", !.disp = d]]
          /\ effects' = IF took
                        THEN effects \cup {[att |-> a, rule |-> att[a].rule,
                                            version |-> att[a].version, at |-> att[a].now]}
                        ELSE effects
          /\ UNCHANGED <<now, tables, fired, acked, eligible, cons, crashes, landed, tapped>>
    BY <1>6 DEF Dispatch
  <2>2. att[a].rule \in Rules /\ att[a].version \in Versions /\ att[a].now \in Nat
    BY <1>0, <2>1 DEF AttBound, AttState
  <2>3. att' \in [Attempts -> AttState] /\ AttBound'
    <3> DEFINE x == [att[a] EXCEPT !.pc = "settling", !.disp = d]
    <3>1. att' = [att EXCEPT ![a] = x]
      BY <2>1
    <3>2. x \in AttState /\ x.rule \in Rules /\ x.version \in Versions
      BY <2>2 DEF AttState
    <3> HIDE DEF x
    <3>. QED BY <3>1, <3>2, AttStep
  <2>4. effects' \subseteq [att : Attempts, rule : Rules, version : Versions, at : Nat]
    BY <2>1, <2>2
  <2>. QED BY <1>0, <2>1, <2>3, <2>4 DEF Typed, TypeOK, Bound, AttBound, tables
<1>7. CASE Settle(a)
  <2>0. att[a].rule \in Rules /\ att[a].version \in Versions /\ att[a].now \in Nat
        /\ a \in Attempts \cup Exceptions
    BY <1>0, <1>7 DEF Settle, AttBound, AttState
  <2>1. att' \in [Attempts -> AttState] /\ AttBound'
    BY <1>7, EndBound DEF Settle
  <2>2. \/ Finalize(a, att[a].rule, att[a].version, att[a].now, TRUE)
        \/ NoteUse(att[a].rule, att[a].now, TRUE, usage) /\ UNCHANGED usage
        \/ usage' = Cancelled(a) /\ UNCHANGED <<rules, pend>>
    BY <1>7 DEF Settle
  <2>3. /\ rules' \in [Rules -> RuleRow] /\ pend' \in [Exceptions -> PendRow]
        /\ usage' \subseteq UsageRow
        /\ \A q \in Rules : rules'[q].status # "absent" => rules'[q].version \in Versions
    <3>1. CASE Finalize(a, att[a].rule, att[a].version, att[a].now, TRUE)
      <4>1. /\ rules' \in [Rules -> RuleRow] /\ pend' \in [Exceptions -> PendRow]
            /\ usage' \subseteq UsageRow
            /\ \A q \in Rules : /\ rules'[q].version = rules[q].version
                                /\ rules'[q].status # rules[q].status => rules[q].status = "active"
        BY ONLY Typed, <2>0, <3>1, FinalizeTypes
      <4>. QED BY <1>0, <4>1 DEF Bound
    <3>2. CASE NoteUse(att[a].rule, att[a].now, TRUE, usage) /\ UNCHANGED usage
      <4>1. /\ rules' \in [Rules -> RuleRow] /\ pend' \in [Exceptions -> PendRow]
            /\ \A q \in Rules : /\ rules'[q].version = rules[q].version
                                /\ rules'[q].status # rules[q].status => rules[q].status = "active"
        BY ONLY Typed, <2>0, <3>2, NoteUseTypes
      <4>. QED BY <1>0, <3>2, <4>1 DEF Bound
    <3>3. CASE usage' = Cancelled(a) /\ UNCHANGED <<rules, pend>>
      BY <1>0, <3>3 DEF Cancelled, Bound
    <3>. QED BY <2>2, <3>1, <3>2, <3>3
  <2>. QED BY <1>0, <1>7, <2>1, <2>3 DEF Settle, Typed, TypeOK, Bound, AttBound, history
<1>8. CASE SettleFails(a)
  <2>1. att' \in [Attempts -> AttState] /\ AttBound'
    BY <1>8, EndBound DEF SettleFails
  <2>. QED BY <1>0, <1>8, <2>1 DEF SettleFails, Typed, TypeOK, Bound, AttBound, tables, history
<1>. QED BY <1>1, <1>2, <1>3, <1>4, <1>5, <1>6, <1>7, <1>8 DEF Mediation

(* The two fields of an exception that the owner and the timer write. *)
LEMMA RowUpdates ==
    ASSUME NEW row \in PendRow
    PROVE  /\ [row EXCEPT !.timer = "fired"] \in PendRow
           /\ \A e \in {"allowed", "denied"} : [row EXCEPT !.res = e] \in PendRow
<1>1. [row EXCEPT !.timer = "fired"] \in PendRow
  BY ONLY row \in PendRow DEF PendRow
<1>2. ASSUME NEW e \in {"allowed", "denied"} PROVE [row EXCEPT !.res = e] \in PendRow
  BY ONLY row \in PendRow, e \in {"allowed", "denied"} DEF PendRow
<1>. QED BY <1>1, <1>2

LEMMA EnvironmentTyped ==
    ASSUME Typed,
           \/ Tick
           \/ \E p \in Exceptions : FireTimer(p) \/ \E allow \in BOOLEAN : OwnerResolve(p, allow)
           \/ Restart
    PROVE  Typed'
<1> USE TypedFacts
<1>0. Bound /\ AttBound
  BY DEF Typed, Bound, AttBound
<1>1. CASE Tick
  BY <1>0, <1>1 DEF Tick, Typed, TypeOK, Bound, AttBound, tables, history
<1>2. ASSUME NEW p \in Exceptions, FireTimer(p) PROVE Typed'
  <2>1. pend' \in [Exceptions -> PendRow]
    <3>1. pend \in [Exceptions -> PendRow] /\ p \in Exceptions
      BY <1>2 DEF Typed, TypeOK
    <3>2. pend' = [pend EXCEPT ![p] = [pend[p] EXCEPT !.timer = "fired"]]
      BY ONLY <1>2 DEF FireTimer
    <3>. QED BY ONLY <3>1, <3>2, RowUpdates
  <2>2. fired' \in Seq(Exceptions) /\ Len(fired') = Len(fired) + 1
    BY <1>2 DEF FireTimer
  <2>3. cons.upto <= Len(fired')
    BY <1>0, <2>2 DEF Bound, ConsState
  <2>. QED BY <1>0, <1>2, <2>1, <2>2, <2>3 DEF FireTimer, Typed, TypeOK, Bound, AttBound, history
<1>3. ASSUME NEW p \in Exceptions, NEW allow \in BOOLEAN, OwnerResolve(p, allow) PROVE Typed'
  <2>1. pend' \in [Exceptions -> PendRow]
    <3>1. pend \in [Exceptions -> PendRow] /\ p \in Exceptions
      BY <1>3 DEF Typed, TypeOK
    <3>2. PICK e \in {"allowed", "denied"} :
             pend' = [pend EXCEPT ![p] = [pend[p] EXCEPT !.res = e]]
      BY ONLY <1>3 DEF OwnerResolve
    <3>. QED BY ONLY <3>1, <3>2, RowUpdates
  <2>2. tapped' \in [Exceptions -> {"no", "allow", "deny"}]
    BY <1>3 DEF OwnerResolve
  <2>. QED BY <1>0, <1>3, <2>1, <2>2 DEF OwnerResolve, Typed, TypeOK, Bound, AttBound
<1>4. CASE Restart
  <2>1. PICK R : /\ rules' = WithStatus(R, "needs_review")
                 /\ pend' = Staled(UNION {ExceptionsAt(r, rules[r].version) : r \in R})
                 /\ \A r \in R : rules[r].status = "active"
    <3> DEFINE R == {r \in Rules : /\ rules[r].status = "active"
                                   /\ Current(r).dwMax > 0 /\ Current(r).dwAllow
                                   /\ Current(r).action \notin eligible'}
    <3>1. /\ rules' = WithStatus(R, "needs_review")
          /\ pend' = Staled(UNION {ExceptionsAt(r, rules[r].version) : r \in R})
      BY <1>4 DEF Restart
    <3>2. \A r \in R : rules[r].status = "active"
      OBVIOUS
    <3> HIDE DEF R
    <3>. QED BY <3>1, <3>2
  <2>2. "needs_review" \in Status /\ \A r \in R : rules[r].status # "absent"
    BY <2>1 DEF Status
  <2>3. \A q \in Rules : rules'[q].status # "absent" => rules'[q].version \in Versions
    BY ONLY Typed, <2>1, <2>2, RestatusedVersions
  <2>4. rules' \in [Rules -> RuleRow] /\ pend' \in [Exceptions -> PendRow]
    BY ONLY Typed, <2>1, <2>2, HelperTypes DEF Typed
  <2>5. \A a \in Attempts :
           /\ att'[a] \in AttState
           /\ att'[a].pc \notin {"saturated", "reserved", "dispatching", "settling"}
    <3> SUFFICES ASSUME NEW a \in Attempts
                 PROVE  att'[a] \in AttState
                        /\ att'[a].pc \notin {"saturated", "reserved", "dispatching", "settling"}
      OBVIOUS
    <3>1. att'[a] = IF att[a].pc \in {"idle", "done"} THEN att[a]
                    ELSE [NoMediation EXCEPT !.pc = "lost", !.disp = att[a].disp]
      BY <1>4 DEF Restart
    <3>2. att[a].disp \in Dispositions \cup {"none"} /\ 0 \in 0..MaxVersion /\ att[a] \in AttState
      BY ConstantsAssumption DEF AttState
    <3>3. [NoMediation EXCEPT !.pc = "lost", !.disp = att[a].disp] \in AttState
          /\ [NoMediation EXCEPT !.pc = "lost", !.disp = att[a].disp].pc = "lost"
      BY <3>2 DEF NoMediation, AttState
    <3>. QED BY <3>1, <3>2, <3>3
  <2>6. att' \in [Attempts -> AttState] /\ AttBound'
    <3>1. att' = [a \in Attempts |-> att'[a]]
      BY <1>4 DEF Restart
    <3>2. att' \in [Attempts -> AttState]
      BY ONLY <2>5, <3>1
    <3>. QED BY ONLY <2>5, <3>2 DEF AttBound
  <2>7. cons' \in ConsState /\ cons'.pc \notin Working /\ cons'.upto <= Len(fired)
    <3>1. cons' = ConsumerStart
      BY <1>4 DEF Restart
    <3>2. Len(fired) \in Nat
      OBVIOUS
    <3>. QED BY <3>1, <3>2 DEF ConsumerStart, ConsState, Working
  <2>8. crashes' \in Nat /\ eligible' \subseteq Actions
    <3>1. crashes' = crashes + 1 /\ eligible' \in SUBSET eligible
      BY ONLY <1>4 DEF Restart
    <3>. QED BY <3>1
  <2>9. UNCHANGED <<now, usage, fired, acked, erased, history>>
    BY <1>4 DEF Restart
  <2>. QED BY <2>3, <2>4, <2>6, <2>7, <2>8, <2>9 DEF Typed, TypeOK, Bound, AttBound, history
<1>. QED BY <1>1, <1>2, <1>3, <1>4

(* The current mediation of the consumer is over. *)
LEMMA FinishedTyped ==
    ASSUME Typed, NEW ok \in BOOLEAN, Finished(ok)
    PROVE  cons' \in ConsState /\ cons'.pc \in {"redrive", "acking", "sweep"} /\ cons'.upto = cons.upto
<1> DEFINE pc == IF ~cons.replaying THEN "redrive" ELSE IF ok THEN "acking" ELSE "sweep"
<1>1. cons' = [cons EXCEPT !.pc = pc, !.cur = None, !.now = 0, !.disp = "none"]
  BY DEF Finished
<1>2. pc \in {"redrive", "acking", "sweep"}
  OBVIOUS
<1> HIDE DEF pc
<1>. QED BY <1>1, <1>2, TypedFacts DEF ConsState

(* The consumer's updates of an exception's row. *)
LEMMA PendRows ==
    ASSUME NEW x \in PendRow
    PROVE  /\ [x EXCEPT !.res = "stale", !.refused = TRUE] \in PendRow
           /\ [x EXCEPT !.token = TRUE, !.dispatch = "claimed"] \in PendRow
           /\ [x EXCEPT !.dispatch = "dispatched"] \in PendRow
           /\ [x EXCEPT !.token = FALSE, !.dispatch = "none"] \in PendRow
<1>1. [x EXCEPT !.res = "stale", !.refused = TRUE] \in PendRow
  BY DEF PendRow
<1>2. [x EXCEPT !.token = TRUE, !.dispatch = "claimed"] \in PendRow
  BY DEF PendRow
<1>3. [x EXCEPT !.dispatch = "dispatched"] \in PendRow
  BY DEF PendRow
<1>4. [x EXCEPT !.token = FALSE, !.dispatch = "none"] \in PendRow
  BY DEF PendRow
<1>. QED BY <1>1, <1>2, <1>3, <1>4

(* A consumer step is typed when what it may write is. *)
LEMMA ConsumerStep ==
    ASSUME Typed, ConsumerOnly,
           cons' \in ConsState, cons'.upto <= Len(fired),
           cons'.pc \in Working => cons'.cur \in Exceptions,
           rules' \in [Rules -> RuleRow],
           \A q \in Rules : rules'[q].status # "absent" => rules'[q].version \in Versions,
           usage' \subseteq UsageRow, pend' \in [Exceptions -> PendRow],
           landed' \in [Exceptions -> Nat]
    PROVE  Typed'
<1>1. AttBound /\ UNCHANGED <<now, erased, acked, fired, eligible, att, crashes, effects, tapped>>
  BY DEF Typed, Bound, AttBound, ConsumerOnly
<1>2. TypeOK'
  BY <1>1, TypedFacts DEF TypeOK
<1>3. Bound'
  BY <1>1 DEF Bound, AttBound
<1>. QED BY <1>2, <1>3 DEF Typed

LEMMA ConsumerTyped ==
    ASSUME Typed, Consumer
    PROVE  Typed'
<1> USE TypedFacts
<1>0. /\ \A q \in Rules : rules[q].status # "absent" => rules[q].version \in Versions
      /\ cons.upto <= Len(fired)
      /\ cons.pc \in Working => cons.cur \in Exceptions
      /\ Len(fired) \in Nat
  BY DEF Typed, Bound
<1>1. ASSUME NEW p \in Exceptions, NotifyRefused(p) \/ SurfaceClaimed(p) PROVE Typed'
  <2>1. pend' = [pend EXCEPT ![p].attention = TRUE] /\ ConsumerOnly
        /\ UNCHANGED <<rules, usage, cons, landed>>
    BY <1>1 DEF NotifyRefused, SurfaceClaimed
  <2>2. pend' \in [Exceptions -> PendRow]
    <3>1. pend \in [Exceptions -> PendRow]
      BY DEF Typed, TypeOK
    <3>2. [pend[p] EXCEPT !.attention = TRUE] \in PendRow
      BY <3>1 DEF PendRow
    <3>. QED BY <2>1, <3>1, <3>2
  <2>. QED BY <1>0, <2>1, <2>2, ConsumerStep
<1>2. ASSUME NEW p \in Exceptions, RedriveNext(p) PROVE Typed'
  <2>1. cons' \in ConsState /\ cons'.upto = cons.upto
        /\ (cons'.pc \in Working => cons'.cur \in Exceptions)
    <3>1. CASE cons' = [cons EXCEPT !.todo = {}]
      BY <1>0, <1>2, <3>1 DEF RedriveNext, ConsState
    <3>2. CASE cons' = [cons EXCEPT !.todo = @ \ {p}, !.pc = "mediate", !.cur = p, !.replaying = FALSE]
      BY <3>2 DEF ConsState
    <3>. QED BY <1>2, <3>1, <3>2 DEF RedriveNext
  <2>. QED BY <1>0, <1>2, <2>1, ConsumerStep DEF RedriveNext
<1>3. CASE BeginRedrive \/ BeginReplay \/ EndRound
  <2>1. cons' \in ConsState /\ cons'.upto <= Len(fired) /\ cons'.pc \notin Working
    <3>1. CASE BeginRedrive
      BY <1>0, <3>1 DEF BeginRedrive, ConsState, Working
    <3>2. CASE BeginReplay
      <4> DEFINE n == Len(fired)
      <4>1. cons' = [cons EXCEPT !.pc = "replay", !.upto = n] /\ n \in Nat
        BY <1>0, <3>2 DEF BeginReplay
      <4>2. cons' \in ConsState /\ cons'.upto = n /\ cons'.pc = "replay"
        <5> HIDE DEF n
        <5>. QED BY <4>1 DEF ConsState
      <4>. QED BY <1>0, <4>2 DEF Working
    <3>3. CASE EndRound
      BY <1>0, <3>3 DEF EndRound, ConsumerStart, ConsState, Working
    <3>. QED BY <1>3, <3>1, <3>2, <3>3
  <2>2. UNCHANGED <<rules, usage, pend, landed>> /\ ConsumerOnly
    BY <1>3 DEF BeginRedrive, BeginReplay, EndRound
  <2>. QED BY <1>0, <2>1, <2>2, ConsumerStep
<1>4. CASE ClaimTimer
  <2> DEFINE p == fired[acked + 1]
             res == ClaimedResolution(p)
             go == pend[p].timer # "applied" /\ res = "allowed"
             pc == IF ~go THEN "acking" ELSE IF p.print \in Undecodable THEN "sweep" ELSE "mediate"
             cur == IF go /\ p.print \notin Undecodable THEN p ELSE None
  <2>1. p \in Exceptions
    BY <1>0, <1>4 DEF ClaimTimer, ConsState
  <2>2. /\ pend' = IF pend[p].timer = "applied" THEN pend
                   ELSE [pend EXCEPT ![p] = [@ EXCEPT !.timer = "applied", !.res = res]]
        /\ cons' = [cons EXCEPT !.pc = pc, !.cur = cur, !.replaying = TRUE]
        /\ UNCHANGED <<rules, usage, landed>> /\ ConsumerOnly
    BY <1>4 DEF ClaimTimer
  <2>3. res \in {"absent", "open", "allowed", "denied", "stale"}
    <3> HIDE DEF p
    <3>. QED BY <2>1 DEF ClaimedResolution, DefaultOf, PendRow
  <2>4. pend' \in [Exceptions -> PendRow]
    <3> DEFINE x == [pend[p] EXCEPT !.timer = "applied", !.res = res]
    <3>1. x \in PendRow
      <4> HIDE DEF p, res
      <4>. QED BY <2>1, <2>3, ZenonT(60) DEF PendRow
    <3>2. pend' = pend \/ pend' = [pend EXCEPT ![p] = x]
      BY <2>1, <2>2
    <3> HIDE DEF p, x
    <3>. QED BY <2>1, <3>1, <3>2
  <2>5. pc \in {"acking", "sweep", "mediate"} /\ cur \in Exceptions \cup {None}
        /\ (pc = "mediate" => cur \in Exceptions)
    <3> HIDE DEF p, res
    <3>. QED BY <2>1
  <2>6. cons' \in ConsState /\ cons'.upto = cons.upto /\ (cons'.pc \in Working => cons'.cur \in Exceptions)
    <3> HIDE DEF pc, cur
    <3>. QED BY <2>2, <2>5 DEF ConsState, Working
  <2>. QED BY <1>0, <2>2, <2>4, <2>6, ConsumerStep
<1>5. CASE Ack
  <2>1. cons' \in ConsState /\ cons'.upto = cons.upto /\ cons'.pc \notin Working
    BY <1>5 DEF Ack, ConsState, Working
  <2>2. acked' \in Nat /\ UNCHANGED <<now, tables, fired, eligible, att, crashes, history>>
    BY <1>5 DEF Ack
  <2>. QED BY <1>0, <2>1, <2>2 DEF Typed, TypeOK, Bound, tables, history
<1>6. CASE MediateFired \/ MediationFails
  <2>1. cons' \in ConsState /\ cons'.upto = cons.upto /\ (cons'.pc \in Working => cons'.cur \in Exceptions)
    <3>1. CASE cons' = [cons EXCEPT !.pc = "consume", !.now = now] /\ cons.pc = "mediate"
      BY <1>0, <3>1 DEF ConsState, Working
    <3>2. CASE Finished(TRUE) \/ Finished(FALSE)
      BY <3>2, FinishedTyped DEF Working
    <3>. QED BY <1>6, <3>1, <3>2 DEF MediateFired, MediationFails
  <2>. QED BY <1>0, <1>6, <2>1, ConsumerStep DEF MediateFired, MediationFails
<1>7. CASE RefuseForGood
  <2>1. cons.cur \in Exceptions
    BY <1>0, <1>7 DEF RefuseForGood, Working
  <2>2. pend' \in [Exceptions -> PendRow]
    <3> DEFINE p == cons.cur
               x == [pend[p] EXCEPT !.res = "stale", !.refused = TRUE]
    <3>1. x \in PendRow
      BY <2>1, PendRows
    <3>2. pend' = pend \/ pend' = [pend EXCEPT ![p] = x]
      BY <1>7, <2>1 DEF RefuseForGood
    <3> HIDE DEF x
    <3>. QED BY <2>1, <3>1, <3>2
  <2>3. cons' \in ConsState /\ cons'.upto = cons.upto /\ cons'.pc \notin Working
    BY <1>7, FinishedTyped DEF RefuseForGood, Working
  <2>. QED BY <1>0, <1>7, <2>2, <2>3, ConsumerStep DEF RefuseForGood
<1>8. CASE ConsumeToken
  <2> DEFINE p == cons.cur
             x == [pend[p] EXCEPT !.token = TRUE, !.dispatch = "claimed"]
             u == Reservation(p, p.rule, p.version, cons.now)
  <2>1. p \in Exceptions /\ p.rule \in Rules /\ p.version \in Versions /\ cons.now \in Nat
    BY <1>0, <1>8 DEF ConsumeToken, Working, Exceptions, ConsState
  <2>2. x \in PendRow /\ u \in UsageRow
    BY <2>1, HelperTypes, PendRows DEF Typed
  <2>3. \/ /\ pend' = [pend EXCEPT ![p] = x]
           /\ usage' = usage \cup {u}
           /\ cons' = [cons EXCEPT !.pc = "audit"]
        \/ Finished(TRUE) /\ UNCHANGED <<pend, usage>>
    BY <1>8, <2>1 DEF ConsumeToken
  <2>4. UNCHANGED <<rules, landed>> /\ ConsumerOnly
    BY <1>8 DEF ConsumeToken
  <2> HIDE DEF x, u
  <2>5. CASE /\ pend' = [pend EXCEPT ![p] = x]
             /\ usage' = usage \cup {u}
             /\ cons' = [cons EXCEPT !.pc = "audit"]
    <3>1. pend' \in [Exceptions -> PendRow] /\ usage' \subseteq UsageRow
      BY <2>1, <2>2, <2>5
    <3>2. cons' \in ConsState /\ cons'.upto = cons.upto /\ cons'.cur \in Exceptions
      BY <2>1, <2>5 DEF ConsState
    <3>. QED BY <1>0, <2>4, <3>1, <3>2, ConsumerStep
  <2>6. CASE Finished(TRUE) /\ UNCHANGED <<pend, usage>>
    <3>1. cons' \in ConsState /\ cons'.upto = cons.upto /\ cons'.pc \notin Working
      BY <2>6, FinishedTyped DEF Working
    <3>. QED BY <1>0, <2>4, <2>6, <3>1, ConsumerStep
  <2>. QED BY <2>3, <2>5, <2>6
<1>9. CASE AuditFired \/ DispatchFired
  <2>1. cons.cur \in Exceptions /\ "NotAttempted" \in Dispositions
    BY <1>0, <1>9 DEF AuditFired, DispatchFired, Working, Dispositions
  <2>2. \/ cons' = [cons EXCEPT !.pc = "dispatching"]
        \/ \E d \in Dispositions : cons' = [cons EXCEPT !.pc = "settling", !.disp = d]
    BY <1>9, <2>1 DEF AuditFired, DispatchFired
  <2>3. cons' \in ConsState /\ cons'.upto = cons.upto /\ cons'.cur \in Exceptions
    <3>1. CASE cons' = [cons EXCEPT !.pc = "dispatching"]
      BY <2>1, <3>1 DEF ConsState
    <3>2. ASSUME NEW d \in Dispositions, cons' = [cons EXCEPT !.pc = "settling", !.disp = d]
          PROVE  cons' \in ConsState /\ cons'.upto = cons.upto /\ cons'.cur \in Exceptions
      BY <2>1, <3>2 DEF ConsState
    <3>. QED BY <2>2, <3>1, <3>2
  <2>4. landed' \in [Exceptions -> Nat]
    <3>1. landed' = landed \/ landed' = [landed EXCEPT ![cons.cur] = @ + 1]
      BY <1>9 DEF AuditFired, DispatchFired
    <3>2. landed[cons.cur] + 1 \in Nat
      BY <2>1
    <3>. QED BY ONLY <2>1, <3>1, <3>2, landed \in [Exceptions -> Nat]
  <2>5. UNCHANGED <<rules, usage, pend>> /\ ConsumerOnly
    BY <1>9 DEF AuditFired, DispatchFired
  <2>. QED BY <1>0, <2>3, <2>4, <2>5, ConsumerStep
<1>10. CASE SettleFired
  <2> DEFINE p == cons.cur
  <2>1. p \in Exceptions /\ p.rule \in Rules /\ p.version \in Versions /\ cons.now \in Nat
    BY <1>0, <1>10 DEF SettleFired, Working, Exceptions, ConsState
  <2>2. \/ Finalize(p, p.rule, p.version, cons.now, FALSE)
        \/ NoteUse(p.rule, cons.now, FALSE, usage) /\ UNCHANGED usage
        \/ usage' = Cancelled(p) /\ UNCHANGED <<rules, pend>>
    BY <1>10 DEF SettleFired
  <2>3. /\ rules' \in [Rules -> RuleRow] /\ pend' \in [Exceptions -> PendRow]
        /\ usage' \subseteq UsageRow
        /\ \A q \in Rules : rules'[q].status # "absent" => rules'[q].version \in Versions
    <3>1. CASE Finalize(p, p.rule, p.version, cons.now, FALSE)
      <4>1. /\ rules' \in [Rules -> RuleRow] /\ pend' \in [Exceptions -> PendRow]
            /\ usage' \subseteq UsageRow
            /\ \A q \in Rules : /\ rules'[q].version = rules[q].version
                                /\ rules'[q].status # rules[q].status => rules[q].status = "active"
        BY ONLY Typed, <2>1, <3>1, FinalizeTypes
      <4>. QED BY <1>0, <4>1
    <3>2. CASE NoteUse(p.rule, cons.now, FALSE, usage) /\ UNCHANGED usage
      <4>1. /\ rules' \in [Rules -> RuleRow] /\ pend' \in [Exceptions -> PendRow]
            /\ \A q \in Rules : /\ rules'[q].version = rules[q].version
                                /\ rules'[q].status # rules[q].status => rules[q].status = "active"
        BY ONLY Typed, <2>1, <3>2, NoteUseTypes
      <4>. QED BY <1>0, <3>2, <4>1
    <3>3. CASE usage' = Cancelled(p) /\ UNCHANGED <<rules, pend>>
      BY <1>0, <3>3 DEF Cancelled
    <3>. QED BY <2>2, <3>1, <3>2, <3>3
  <2>4. cons' = [cons EXCEPT !.pc = "marking"] \/ cons' = [cons EXCEPT !.pc = "rearming"]
    BY <1>10 DEF SettleFired
  <2>5. cons' \in ConsState /\ cons'.upto = cons.upto /\ cons'.cur \in Exceptions
    BY <2>1, <2>4 DEF ConsState
  <2>. QED BY <1>0, <1>10, <2>3, <2>5, ConsumerStep DEF SettleFired
<1>11. CASE SettleFiredFails
  <2>1. cons' \in ConsState /\ cons'.upto = cons.upto /\ (cons'.pc \in Working => cons'.cur \in Exceptions)
    <3>1. CASE cons' = [cons EXCEPT !.pc = "marking"]
      BY <1>0, <1>11, <3>1 DEF SettleFiredFails, ConsState, Working
    <3>2. CASE Finished(FALSE)
      BY <3>2, FinishedTyped DEF Working
    <3>. QED BY <1>11, <3>1, <3>2 DEF SettleFiredFails
  <2>. QED BY <1>0, <1>11, <2>1, ConsumerStep DEF SettleFiredFails
<1>12. CASE MarkAttempted \/ RearmToken
  <2> DEFINE p == cons.cur
             x == [pend[p] EXCEPT !.dispatch = "dispatched"]
             y == [pend[p] EXCEPT !.token = FALSE, !.dispatch = "none"]
  <2>1. p \in Exceptions
    BY <1>0, <1>12 DEF MarkAttempted, RearmToken, Working
  <2>2. x \in PendRow /\ y \in PendRow
    BY <2>1, PendRows
  <2>3. pend' = pend \/ pend' = [pend EXCEPT ![p] = x] \/ pend' = [pend EXCEPT ![p] = y]
    BY <1>12, <2>1 DEF MarkAttempted, RearmToken
  <2> HIDE DEF x, y
  <2>4. pend' \in [Exceptions -> PendRow]
    BY <2>1, <2>2, <2>3
  <2>5. \E ok \in BOOLEAN : Finished(ok)
    BY <1>12 DEF MarkAttempted, RearmToken
  <2>6. cons' \in ConsState /\ cons'.upto = cons.upto /\ cons'.pc \notin Working
    BY <2>5, FinishedTyped DEF Working
  <2>. QED BY <1>0, <1>12, <2>4, <2>6, ConsumerStep DEF MarkAttempted, RearmToken
<1>. QED BY <1>1, <1>2, <1>3, <1>4, <1>5, <1>6, <1>7, <1>8, <1>9, <1>10, <1>11, <1>12 DEF Consumer

(* Every column and program counter stays within its declared values, through every
   interleaving of mediations, consumer, owner, timers and restarts. *)
THEOREM TypeCorrect == Spec => []TypeOK
<1>1. ASSUME Typed, [Next]_vars PROVE Typed'
  <2>1. CASE Next
    BY <1>1, <2>1, LifecycleTyped, MediationTyped, ConsumerTyped, EnvironmentTyped DEF Next
  <2>2. CASE UNCHANGED vars
    BY <1>1, <2>2 DEF vars, Typed, TypeOK, Bound
  <2>. QED BY <1>1, <2>1, <2>2
<1>2. Typed => TypeOK
  BY DEF Typed
<1>. QED BY <1>1, <1>2, InitTyped, PTL DEF Spec

------------------------------------------------------------------------------
(* The token of a fired exception *)

TokenRows ==
    \A p \in Exceptions :
        /\ ~pend[p].token => landed[p] = 0
        /\ ~pend[p].token => \A u \in usage : u.res # p
        /\ landed[p] <= 1
        /\ pend[p].dispatch # "none" => pend[p].token
        /\ pend[p].attention => pend[p].token \/ pend[p].res = "stale"
NoEffectYet ==
    \/ cons.pc \in {"audit", "dispatching", "rearming"}
    \/ cons.pc = "settling" /\ cons.disp \notin {"ConfirmedSuccess", "DeliveryUnknown"}
InFlight ==
    /\ NoEffectYet => landed[cons.cur] = 0
    /\ cons.pc = "rearming" => \A u \in usage : u.res # cons.cur
    /\ cons.pc \in {"audit", "dispatching", "settling"} =>
          \A u \in usage : u.res = cons.cur => u.status = "reserved"
    /\ cons.pc \in {"audit", "dispatching", "settling", "marking", "rearming"} =>
          pend[cons.cur].token /\ ~pend[cons.cur].attention
TokenInv == TokenRows /\ InFlight

(* What a step that has no business with tokens leaves alone. *)
RowsKept ==
    \A p \in Exceptions :
        /\ pend'[p].token = pend[p].token
        /\ pend'[p].dispatch = pend[p].dispatch
        /\ pend'[p].attention = pend[p].attention
        /\ pend[p].res = "stale" => pend'[p].res = "stale"
Frame ==
    /\ landed' = landed
    /\ RowsKept
    /\ \A u \in usage' : u \in usage \/ u.res \in Attempts

(* The step SurfacedNeverRerun allows. *)
SurfacedStep ==
    \A p \in Exceptions :
        (pend[p].attention /\ pend[p].dispatch = "claimed")
            => landed'[p] = landed[p] /\ pend'[p].dispatch # "none"

LEMMA RowsKeptSurfaced ==
    landed' = landed /\ (pend' = pend \/ RowsKept) => SurfacedStep
BY DEF RowsKept, SurfacedStep

LEMMA StaledKeepsRows ==
    ASSUME Typed, NEW P
    PROVE  pend' = Staled(P) => RowsKept
<1> SUFFICES ASSUME pend' = Staled(P), NEW p \in Exceptions
             PROVE  /\ pend'[p].token = pend[p].token
                    /\ pend'[p].dispatch = pend[p].dispatch
                    /\ pend'[p].attention = pend[p].attention
                    /\ pend[p].res = "stale" => pend'[p].res = "stale"
  BY DEF RowsKept
<1>1. pend[p] \in PendRow
  BY TypedFacts
<1>2. pend'[p] = pend[p] \/ pend'[p] = [pend[p] EXCEPT !.res = "stale"]
  BY DEF Staled
<1>. QED BY <1>1, <1>2 DEF PendRow

LEMMA SamePendKeepsRows ==
    pend' = pend => RowsKept
BY DEF RowsKept

LEMMA FrameKeepsRows ==
    ASSUME TokenRows, Frame
    PROVE  TokenRows'
<1> SUFFICES ASSUME NEW p \in Exceptions
             PROVE  /\ ~pend'[p].token => landed'[p] = 0
                    /\ ~pend'[p].token => \A u \in usage' : u.res # p
                    /\ landed'[p] <= 1
                    /\ pend'[p].dispatch # "none" => pend'[p].token
                    /\ pend'[p].attention => pend'[p].token \/ pend'[p].res = "stale"
  BY DEF TokenRows
<1>1. p \notin Attempts
  BY IdsAssumption
<1>. QED BY <1>1 DEF TokenRows, Frame, RowsKept

LEMMA FrameKeepsFlight ==
    ASSUME Typed, InFlight, Frame,
           cons' = cons \/ cons'.pc \notin Working
    PROVE  InFlight'
<1>1. CASE cons'.pc \notin Working
  BY <1>1 DEF InFlight, NoEffectYet, Working
<1>2. CASE cons' = cons
  <2>1. CASE cons.pc \notin Working
    BY <1>2, <2>1 DEF InFlight, NoEffectYet, Working
  <2>2. CASE cons.pc \in Working
    <3>1. cons.cur \in Exceptions /\ cons.cur \notin Attempts
      BY <2>2, IdsAssumption DEF Typed, Bound
    <3>. QED BY <1>2, <3>1 DEF InFlight, NoEffectYet, Frame, RowsKept
  <2>. QED BY <2>1, <2>2
<1>. QED BY <1>1, <1>2

LEMMA InitToken == Init => TokenInv
BY DEF Init, TokenInv, TokenRows, InFlight, NoEffectYet, NoException, ConsumerStart

(* Rule lifecycle, mediations, owner, timers and restarts only frame. *)
LEMMA LifecycleFrames ==
    ASSUME Typed, Lifecycle
    PROVE  Frame /\ cons' = cons
<1>1. RowsKept
  <2>1. (\E P : pend' = Staled(P)) \/ pend' = pend
    BY DEF Lifecycle, Activate, RevokeRule, PauseRule, ResumeRule, LapseOnLookup, EraseCounterparty
  <2>. QED BY <2>1, StaledKeepsRows, SamePendKeepsRows
<1>2. UNCHANGED <<usage, landed, cons>>
  BY DEF Lifecycle, Activate, RevokeRule, PauseRule, ResumeRule, LapseOnLookup, EraseCounterparty, history
<1>. QED BY <1>1, <1>2 DEF Frame

LEMMA MediationFrames ==
    ASSUME Typed, NEW a \in Attempts, Mediation(a)
    PROVE  Frame /\ cons' = cons
<1> USE TypedFacts
<1>1. CASE Receive(a) \/ AdmitEffect(a) \/ RefuseBeforeEffect(a) \/ Dispatch(a) \/ SettleFails(a)
  <2>1. UNCHANGED <<usage, pend, landed, cons>>
    BY <1>1 DEF Receive, AdmitEffect, RefuseBeforeEffect, Dispatch, SettleFails, tables, history
  <2>. QED BY <2>1, SamePendKeepsRows DEF Frame
<1>2. CASE ConsultByAction(a) \/ ConsultByScope(a)
  <2>1. UNCHANGED <<landed, cons>>
    BY <1>2 DEF ConsultByAction, ConsultByScope, history
  <2>2. (\E P : pend' = Staled(P)) \/ pend' = pend
    BY <1>2 DEF ConsultByAction, ConsultByScope, tables
  <2>3. \A u \in usage' : u \in usage \/ u.res \in Attempts
    <3>1. usage' = usage \/ \E r \in Rules : ReserveOrSaturate(a, r)
      <4>1. CASE ConsultByAction(a)
        BY <4>1 DEF ConsultByAction, tables, ActiveFor
      <4>2. CASE ConsultByScope(a)
        <5> DEFINE live    == ActiveFor(ActionOf(a))
                   lapsed  == {r \in live : Lapsed(r, att[a].now)}
                   matches == {r \in live \ lapsed : Current(r).scope = ScopeOf(a)}
        <5>1. usage' = usage
              \/ (Cardinality(matches) = 1 /\ \A r \in matches : ReserveOrSaturate(a, r))
          BY <4>2 DEF ConsultByScope, tables
        <5>2. matches \subseteq Rules
          BY DEF ActiveFor
        <5> HIDE DEF matches
        <5>3. Cardinality(matches) = 1 => matches # {}
          BY ONLY FS_EmptySet
        <5>4. CASE usage' = usage
          BY <5>4
        <5>5. CASE Cardinality(matches) = 1 /\ \A r \in matches : ReserveOrSaturate(a, r)
          BY ONLY <5>2, <5>3, <5>5
        <5>. QED BY ONLY <5>1, <5>4, <5>5
      <4>. QED BY <1>2, <4>1, <4>2
    <3>2. ASSUME NEW r \in Rules, ReserveOrSaturate(a, r)
          PROVE  \A u \in usage' : u \in usage \/ u.res \in Attempts
      <4>1. \/ usage' = usage
            \/ usage' = usage \cup {Reservation(a, r, rules[r].version, att[a].now)}
        BY ONLY <3>2 DEF ReserveOrSaturate
      <4>2. Reservation(a, r, rules[r].version, att[a].now).res = a
        BY DEF Reservation
      <4>. QED BY ONLY a \in Attempts, <4>1, <4>2
    <3>. QED BY ONLY <3>1, <3>2
  <2>. QED BY <2>1, <2>2, <2>3, StaledKeepsRows, SamePendKeepsRows DEF Frame
<1>3. CASE ScheduleException(a)
  <2> DEFINE p == [rule |-> att[a].rule, version |-> att[a].version, print |-> AttemptPrint[a]]
             t == att[a].now + Mf(att[a].rule, att[a].version).dwTime
             x == [pend[p] EXCEPT !.res = "open", !.timer = "pending", !.firesAt = t]
  <2>1. \/ pend' = pend
        \/ pend[p].res \in {"absent", "open"} /\ pend' = [pend EXCEPT ![p] = x]
    <3>1. p \in Exceptions
      BY <1>3, ConstantsAssumption DEF ScheduleException, Exceptions, Typed, Bound
    <3>2. pend[p].res \in {"absent", "open", "allowed", "denied", "stale"}
      <4> HIDE DEF p
      <4>. QED BY <3>1 DEF PendRow
    <3>. QED BY <1>3, <3>1, <3>2 DEF ScheduleException
  <2>2. RowsKept
    <3>1. CASE pend' = pend
      BY <3>1, SamePendKeepsRows
    <3>2. CASE pend[p].res \in {"absent", "open"} /\ pend' = [pend EXCEPT ![p] = x]
      <4> HIDE DEF p, t
      <4>. QED BY <3>2 DEF RowsKept, PendRow
    <3>. QED BY <2>1, <3>1, <3>2
  <2>3. UNCHANGED <<usage, landed, cons>>
    BY <1>3 DEF ScheduleException, history
  <2>. QED BY <2>2, <2>3 DEF Frame
<1>4. CASE Settle(a)
  <2>1. att[a].rule \in Rules /\ att[a].version \in Versions /\ att[a].now \in Nat
    BY <1>4 DEF Settle, Typed, Bound, AttState
  <2>2. /\ \A u \in usage' : u \in usage \/ u.res = a
        /\ pend' = pend \/ pend' = Staled(ExceptionsOf(att[a].rule))
    <3>1. CASE Finalize(a, att[a].rule, att[a].version, att[a].now, TRUE)
      BY ONLY Typed, <2>1, <3>1, FinalizeTypes
    <3>2. CASE NoteUse(att[a].rule, att[a].now, TRUE, usage) /\ UNCHANGED usage
      BY ONLY Typed, <2>1, <3>2, NoteUseTypes
    <3>3. CASE usage' = Cancelled(a) /\ UNCHANGED <<rules, pend>>
      BY <3>3 DEF Cancelled
    <3>. QED BY <1>4, <3>1, <3>2, <3>3 DEF Settle
  <2>3. UNCHANGED <<landed, cons>>
    BY <1>4 DEF Settle, history
  <2>. QED BY <2>2, <2>3, StaledKeepsRows, SamePendKeepsRows DEF Frame
<1>. QED BY <1>1, <1>2, <1>3, <1>4 DEF Mediation

LEMMA EnvironmentFrames ==
    ASSUME Typed,
           \/ Tick
           \/ \E p \in Exceptions : FireTimer(p) \/ \E allow \in BOOLEAN : OwnerResolve(p, allow)
           \/ Restart
    PROVE  Frame /\ (cons' = cons \/ cons'.pc \notin Working)
<1> USE TypedFacts
<1>1. CASE Tick
  <2>1. UNCHANGED <<usage, pend, landed, cons>>
    BY <1>1 DEF Tick, tables, history
  <2>. QED BY <2>1, SamePendKeepsRows DEF Frame
<1>2. ASSUME NEW p \in Exceptions, FireTimer(p) \/ \E allow \in BOOLEAN : OwnerResolve(p, allow)
      PROVE  Frame /\ cons' = cons
  <2>1. \/ pend' = [pend EXCEPT ![p].timer = "fired"]
        \/ pend[p].res = "open" /\ \E res : pend' = [pend EXCEPT ![p].res = res]
    BY <1>2 DEF FireTimer, OwnerResolve
  <2>2. RowsKept
    <3>1. CASE pend' = [pend EXCEPT ![p].timer = "fired"]
      BY <3>1 DEF RowsKept, PendRow
    <3>2. ASSUME pend[p].res = "open", NEW res, pend' = [pend EXCEPT ![p].res = res] PROVE RowsKept
      BY <3>2 DEF RowsKept, PendRow
    <3>. QED BY <2>1, <3>1, <3>2
  <2>3. UNCHANGED <<usage, landed, cons>>
    BY <1>2 DEF FireTimer, OwnerResolve, history
  <2>. QED BY <2>2, <2>3 DEF Frame
<1>3. CASE Restart
  <2>1. \E P : pend' = Staled(P)
    BY <1>3 DEF Restart
  <2>2. UNCHANGED <<usage, landed>> /\ cons' = ConsumerStart
    BY <1>3 DEF Restart, history
  <2>3. ConsumerStart.pc \notin Working
    BY DEF ConsumerStart, Working
  <2>. QED BY <2>1, <2>2, <2>3, StaledKeepsRows DEF Frame
<1>. QED BY <1>1, <1>2, <1>3

(* Steps of the consumer that leave the rows alone and are not in flight. *)
LEMMA FinishedFrames ==
    ASSUME Typed, NEW ok \in BOOLEAN, Finished(ok)
    PROVE  cons'.pc \notin Working
BY FinishedTyped DEF Working

LEMMA ConsumerToken ==
    ASSUME Typed, TokenInv, Consumer
    PROVE  TokenInv' /\ SurfacedStep
<1> USE TypedFacts
<1>0. TokenRows /\ InFlight
  BY DEF TokenInv
<1>1. ASSUME NEW p \in Exceptions, NotifyRefused(p) \/ SurfaceClaimed(p) PROVE TokenInv' /\ SurfacedStep
  <2>1. /\ pend' = [pend EXCEPT ![p].attention = TRUE]
        /\ UNCHANGED <<usage, cons, landed>> /\ cons.pc = "sweep"
        /\ pend[p].token \/ pend[p].res = "stale"
    BY <1>0, <1>1 DEF NotifyRefused, SurfaceClaimed, Unconfirmed, TokenRows
  <2>2. \A q \in Exceptions : /\ pend'[q].token = pend[q].token
                              /\ pend'[q].dispatch = pend[q].dispatch
                              /\ pend'[q].res = pend[q].res
                              /\ pend'[q].attention => pend[q].attention \/ q = p
    BY <2>1 DEF PendRow
  <2>3. TokenRows'
    BY <1>0, <2>1, <2>2 DEF TokenRows
  <2>4. InFlight'
    BY <2>1 DEF InFlight, NoEffectYet
  <2>5. SurfacedStep
    BY <2>1, <2>2 DEF SurfacedStep
  <2>. QED BY <2>3, <2>4, <2>5 DEF TokenInv
<1>2. CASE \/ \E p \in Exceptions : RedriveNext(p)
           \/ BeginRedrive \/ BeginReplay \/ EndRound \/ Ack \/ MediateFired \/ MediationFails
  <2>1. UNCHANGED <<usage, pend, landed>>
    BY <1>2 DEF RedriveNext, BeginRedrive, BeginReplay, EndRound, Ack, MediateFired,
                MediationFails, tables, history
  <2>2. cons'.pc \notin {"audit", "dispatching", "settling", "marking", "rearming"}
    <3>1. CASE \E p \in Exceptions : RedriveNext(p)
      BY <3>1 DEF RedriveNext, ConsState
    <3>2. CASE BeginRedrive \/ BeginReplay \/ EndRound \/ Ack
      <4>1. CASE BeginRedrive
        BY <4>1 DEF BeginRedrive, ConsState
      <4>2. CASE BeginReplay
        BY <4>2 DEF BeginReplay, ConsState
      <4>3. CASE EndRound
        BY <4>3 DEF EndRound, ConsumerStart
      <4>4. CASE Ack
        BY <4>4 DEF Ack, ConsState
      <4>. QED BY <3>2, <4>1, <4>2, <4>3, <4>4
    <3>3. CASE Finished(TRUE) \/ Finished(FALSE)
      BY <3>3, FinishedFrames DEF Working
    <3>4. CASE cons' = [cons EXCEPT !.pc = "consume", !.now = now]
      BY <3>4 DEF ConsState
    <3>. QED BY <1>2, <3>1, <3>2, <3>3, <3>4 DEF MediateFired, MediationFails
  <2>3. TokenRows'
    BY <1>0, <2>1 DEF TokenRows
  <2>4. InFlight'
    BY <2>2 DEF InFlight, NoEffectYet
  <2>. QED BY <2>1, <2>3, <2>4, RowsKeptSurfaced DEF TokenInv
<1>3. CASE ClaimTimer
  <2> DEFINE p == fired[acked + 1]
             x == [pend[p] EXCEPT !.timer = "applied", !.res = ClaimedResolution(p)]
  <2>0. p \in Exceptions
    BY <1>3 DEF ClaimTimer, ConsState, Typed, Bound
  <2>1. pend' = pend \/ pend' = [pend EXCEPT ![p] = x]
    BY <1>3 DEF ClaimTimer
  <2>2. RowsKept
    <3>1. CASE pend' = pend
      BY <3>1, SamePendKeepsRows
    <3>2. CASE pend' = [pend EXCEPT ![p] = x]
      <4>1. pend[p].res = "stale" => ClaimedResolution(p) = "stale"
        BY DEF ClaimedResolution
      <4> HIDE DEF p
      <4>. QED BY <2>0, <3>2, <4>1 DEF RowsKept, PendRow
    <3>. QED BY <2>1, <3>1, <3>2
  <2>3. UNCHANGED <<usage, landed>>
    BY <1>3 DEF ClaimTimer
  <2>4. cons'.pc \in {"acking", "sweep", "mediate"}
    BY <1>3 DEF ClaimTimer, ConsState
  <2>5. InFlight'
    BY <2>4 DEF InFlight, NoEffectYet
  <2>. QED BY <1>0, <2>2, <2>3, <2>5, FrameKeepsRows, RowsKeptSurfaced DEF TokenInv, Frame
<1>4. CASE RefuseForGood
  <2> DEFINE p == cons.cur
             x == [pend[p] EXCEPT !.res = "stale", !.refused = TRUE]
  <2>1. p \in Exceptions
    BY <1>4 DEF RefuseForGood, Working, Typed, Bound
  <2>2. pend' = pend \/ pend' = [pend EXCEPT ![p] = x]
    BY <1>4 DEF RefuseForGood
  <2>3. RowsKept
    <3>1. /\ x.token = pend[p].token /\ x.dispatch = pend[p].dispatch
          /\ x.attention = pend[p].attention /\ x.res = "stale"
      BY <2>1 DEF PendRow
    <3> HIDE DEF x
    <3>. QED BY <2>1, <2>2, <3>1 DEF RowsKept
  <2>4. UNCHANGED <<usage, landed>> /\ cons'.pc \notin Working
    BY <1>4, FinishedFrames DEF RefuseForGood
  <2>5. Frame
    BY <2>3, <2>4 DEF Frame
  <2>. QED BY <1>0, <2>3, <2>4, <2>5, FrameKeepsRows, FrameKeepsFlight, RowsKeptSurfaced DEF TokenInv
<1>5. CASE ConsumeToken
  <2> DEFINE p == cons.cur
             x == [pend[p] EXCEPT !.token = TRUE, !.dispatch = "claimed"]
             u == Reservation(p, p.rule, p.version, cons.now)
  <2>1. p \in Exceptions /\ pend[p] \in PendRow
    BY <1>5 DEF ConsumeToken, Working, Typed, Bound
  <2>2. CASE ~TokenUsable(p, cons.now)
    <3>1. UNCHANGED <<usage, pend, landed>> /\ cons'.pc \notin Working
      BY <1>5, <2>2, FinishedFrames DEF ConsumeToken
    <3>2. Frame
      BY <3>1, SamePendKeepsRows DEF Frame
    <3>. QED BY <1>0, <3>1, <3>2, FrameKeepsRows, FrameKeepsFlight, RowsKeptSurfaced DEF TokenInv
  <2>3. CASE TokenUsable(p, cons.now)
    <3>1. /\ pend' = [pend EXCEPT ![p] = x] /\ usage' = usage \cup {u}
          /\ cons' = [cons EXCEPT !.pc = "audit"] /\ landed' = landed
      BY <1>5, <2>3 DEF ConsumeToken
    <3>2. ~pend[p].token /\ pend[p].res = "allowed"
      BY <2>3 DEF TokenUsable
    <3>3. landed[p] = 0 /\ (\A w \in usage : w.res # p) /\ ~pend[p].attention
      BY <1>0, <2>1, <3>2 DEF TokenRows
    <3>4. x.token /\ x.attention = pend[p].attention /\ u.res = p /\ u.status = "reserved"
      BY <2>1 DEF PendRow, Reservation
    <3>5. cons'.cur = p /\ cons'.pc = "audit"
      BY <3>1 DEF ConsState
    <3> HIDE DEF x, u
    <3>6. pend'[p] = x /\ \A q \in Exceptions \ {p} : pend'[q] = pend[q]
      BY <2>1, <3>1
    <3>7. TokenRows'
      BY <1>0, <3>1, <3>3, <3>4, <3>6 DEF TokenRows
    <3>8. InFlight'
      <4>1. \A w \in usage' : w.res = p => w.status = "reserved"
        BY <3>1, <3>3, <3>4
      <4>2. landed'[p] = 0 /\ pend'[p].token /\ ~pend'[p].attention
        BY <3>1, <3>3, <3>4, <3>6
      <4>. QED BY <3>5, <4>1, <4>2 DEF InFlight, NoEffectYet
    <3>9. SurfacedStep
      BY <3>1, <3>3, <3>6 DEF SurfacedStep
    <3>. QED BY <3>7, <3>8, <3>9 DEF TokenInv
  <2>. QED BY <2>2, <2>3
<1>6. CASE AuditFired
  <2>1. UNCHANGED <<usage, pend, landed>> /\ cons.pc = "audit" /\ cons'.cur = cons.cur
        /\ cons'.pc \in {"dispatching", "settling"}
    BY <1>6 DEF AuditFired, ConsState
  <2>2. TokenRows'
    BY <1>0, <2>1 DEF TokenRows
  <2>3. InFlight'
    BY <1>0, <2>1 DEF InFlight, NoEffectYet
  <2>. QED BY <2>1, <2>2, <2>3, RowsKeptSurfaced DEF TokenInv
<1>7. CASE DispatchFired
  <2>1. PICK d \in Dispositions, took \in BOOLEAN :
          /\ cons.pc = "dispatching"
          /\ d \in {"NotAttempted", "ConfirmedFailure"} => ~took
          /\ cons' = [cons EXCEPT !.pc = "settling", !.disp = d]
          /\ landed' = IF took THEN [landed EXCEPT ![cons.cur] = @ + 1] ELSE landed
          /\ UNCHANGED <<usage, pend>>
    BY <1>7 DEF DispatchFired
  <2>2. cons.cur \in Exceptions /\ landed[cons.cur] = 0
    BY <1>0, <2>1 DEF Typed, Bound, Working, InFlight, NoEffectYet
  <2>3. cons'.pc = "settling" /\ cons'.disp = d /\ cons'.cur = cons.cur
    BY <2>1 DEF ConsState
  <2>4. /\ \A q \in Exceptions : landed'[q] = IF took /\ q = cons.cur THEN 1 ELSE landed[q]
        /\ took => d \in {"ConfirmedSuccess", "DeliveryUnknown"}
    BY <2>1, <2>2 DEF Dispositions
  <2>5. pend[cons.cur].token
    BY <1>0, <2>1 DEF InFlight
  <2>6. TokenRows'
    BY <1>0, <2>1, <2>4, <2>5 DEF TokenRows
  <2>7. InFlight'
    BY <1>0, <2>1, <2>2, <2>3, <2>4 DEF InFlight, NoEffectYet
  <2>8. SurfacedStep
    BY <1>0, <2>1, <2>4 DEF SurfacedStep, InFlight
  <2>. QED BY <2>6, <2>7, <2>8 DEF TokenInv
<1>8. CASE SettleFired
  <2> DEFINE p == cons.cur
  <2>1. p \in Exceptions /\ p.rule \in Rules /\ p.version \in Versions /\ cons.now \in Nat
        /\ cons.pc = "settling"
    BY <1>8 DEF SettleFired, Working, Exceptions, ConsState, Typed, Bound
  <2>2. /\ \A u \in usage' : u \in usage \/ u.res = p
        /\ pend' = pend \/ pend' = Staled(ExceptionsOf(p.rule))
    <3>1. CASE Finalize(p, p.rule, p.version, cons.now, FALSE)
      BY ONLY Typed, <2>1, <3>1, FinalizeTypes
    <3>2. CASE NoteUse(p.rule, cons.now, FALSE, usage) /\ UNCHANGED usage
      BY ONLY Typed, <2>1, <3>2, NoteUseTypes
    <3>3. CASE usage' = Cancelled(p) /\ UNCHANGED <<rules, pend>>
      BY <3>3 DEF Cancelled
    <3>. QED BY <1>8, <3>1, <3>2, <3>3 DEF SettleFired
  <2>3. RowsKept /\ landed' = landed
    BY <1>8, <2>2, StaledKeepsRows, SamePendKeepsRows DEF SettleFired
  <2>4. cons'.cur = p /\ cons'.pc = IF cons.disp \in {"ConfirmedSuccess", "DeliveryUnknown"}
                                   THEN "marking" ELSE "rearming"
    BY <1>8 DEF SettleFired, ConsState
  <2>5. cons.disp \notin {"ConfirmedSuccess", "DeliveryUnknown"} =>
           landed[p] = 0 /\ \A u \in usage' : u.res # p
    <3> SUFFICES ASSUME cons.disp \notin {"ConfirmedSuccess", "DeliveryUnknown"}
                 PROVE  landed[p] = 0 /\ \A u \in usage' : u.res # p
      OBVIOUS
    <3>1. landed[p] = 0 /\ \A u \in usage : u.res = p => u.status = "reserved"
      BY <1>0, <2>1 DEF InFlight, NoEffectYet
    <3>2. usage' = Cancelled(p)
      BY <1>8 DEF SettleFired
    <3>. QED BY <3>1, <3>2 DEF Cancelled, Reserved
  <2>6. pend[p].token /\ ~pend[p].attention
    BY <1>0, <2>1 DEF InFlight
  <2>7. TokenRows'
    <3> SUFFICES ASSUME NEW q \in Exceptions
                 PROVE  /\ ~pend'[q].token => landed'[q] = 0
                        /\ ~pend'[q].token => \A u \in usage' : u.res # q
                        /\ landed'[q] <= 1
                        /\ pend'[q].dispatch # "none" => pend'[q].token
                        /\ pend'[q].attention => pend'[q].token \/ pend'[q].res = "stale"
      BY DEF TokenRows
    <3>. QED BY <1>0, <2>2, <2>3, <2>6 DEF TokenRows, RowsKept
  <2>8. pend'[p].token /\ ~pend'[p].attention
    BY <2>1, <2>3, <2>6 DEF RowsKept
  <2>9. InFlight'
    BY <2>3, <2>4, <2>5, <2>8 DEF InFlight, NoEffectYet
  <2>. QED BY <2>3, <2>7, <2>9, RowsKeptSurfaced DEF TokenInv
<1>9. CASE SettleFiredFails
  <2>1. UNCHANGED <<usage, pend, landed>> /\ cons.pc = "settling"
    BY <1>9 DEF SettleFiredFails
  <2>2. cons'.pc \notin Working \/ (cons'.pc = "marking" /\ cons'.cur = cons.cur)
    <3>1. CASE cons' = [cons EXCEPT !.pc = "marking"]
      BY <3>1 DEF ConsState
    <3>2. CASE Finished(FALSE)
      BY <3>2, FinishedFrames
    <3>. QED BY <1>9, <3>1, <3>2 DEF SettleFiredFails
  <2>3. TokenRows'
    BY <1>0, <2>1 DEF TokenRows
  <2>4. InFlight'
    BY <1>0, <2>1, <2>2 DEF InFlight, NoEffectYet, Working
  <2>. QED BY <2>1, <2>3, <2>4, RowsKeptSurfaced DEF TokenInv
<1>10. CASE MarkAttempted
  <2>1. cons.cur \in Exceptions /\ pend[cons.cur].token
    BY <1>0, <1>10 DEF MarkAttempted, Working, Typed, Bound, InFlight
  <2>2. UNCHANGED <<usage, landed>>
        /\ (pend' = pend \/ pend' = [pend EXCEPT ![cons.cur].dispatch = "dispatched"])
    BY <1>10 DEF MarkAttempted
  <2>3. \E ok \in BOOLEAN : Finished(ok)
    BY <1>10 DEF MarkAttempted
  <2>4. \A q \in Exceptions : /\ pend'[q].token = pend[q].token
                              /\ pend'[q].attention = pend[q].attention
                              /\ pend'[q].res = pend[q].res
                              /\ pend'[q].dispatch \in {pend[q].dispatch, "dispatched"}
                              /\ pend'[q].dispatch = pend[q].dispatch \/ q = cons.cur
    <3> DEFINE x == [pend[cons.cur] EXCEPT !.dispatch = "dispatched"]
    <3>1. /\ x.token = pend[cons.cur].token /\ x.attention = pend[cons.cur].attention
          /\ x.res = pend[cons.cur].res /\ x.dispatch = "dispatched"
      BY <2>1, ZenonT(60) DEF PendRow
    <3>2. pend' = pend \/ pend' = [pend EXCEPT ![cons.cur] = x]
      BY <2>2
    <3> HIDE DEF x
    <3>. QED BY <2>1, <3>1, <3>2
  <2>5. TokenRows'
    BY <1>0, <2>1, <2>2, <2>4 DEF TokenRows
  <2>6. InFlight'
    BY <2>3, FinishedFrames DEF InFlight, NoEffectYet, Working
  <2>7. SurfacedStep
    BY <2>2, <2>4 DEF SurfacedStep
  <2>. QED BY <2>5, <2>6, <2>7 DEF TokenInv
<1>11. CASE RearmToken
  <2> DEFINE p == cons.cur
             x == [pend[p] EXCEPT !.token = FALSE, !.dispatch = "none"]
  <2>1. p \in Exceptions /\ pend[p] \in PendRow
    BY <1>11 DEF RearmToken, Working, Typed, Bound
  <2>2. landed[p] = 0 /\ (\A u \in usage : u.res # p) /\ ~pend[p].attention
    BY <1>0, <1>11 DEF RearmToken, InFlight, NoEffectYet
  <2>3. UNCHANGED <<usage, landed>> /\ (pend' = pend \/ pend' = [pend EXCEPT ![p] = x])
    BY <1>11 DEF RearmToken
  <2>4. ~x.token /\ x.attention = pend[p].attention /\ x.dispatch = "none"
    BY <2>1 DEF PendRow
  <2> HIDE DEF x
  <2>5. TokenRows'
    <3>1. CASE pend' = pend
      BY <1>0, <2>3, <3>1 DEF TokenRows
    <3>2. CASE pend' = [pend EXCEPT ![p] = x]
      <4>1. pend'[p] = x /\ \A q \in Exceptions \ {p} : pend'[q] = pend[q]
        BY <2>1, <3>2
      <4>. QED BY <1>0, <2>2, <2>3, <2>4, <4>1 DEF TokenRows
    <3>. QED BY <2>3, <3>1, <3>2
  <2>6. InFlight'
    <3>1. Finished(FALSE)
      BY <1>11 DEF RearmToken
    <3>. QED BY <3>1, FinishedFrames DEF InFlight, NoEffectYet, Working
  <2>7. SurfacedStep
    BY <2>1, <2>2, <2>3 DEF SurfacedStep
  <2>. QED BY <2>5, <2>6, <2>7 DEF TokenInv
<1>. QED BY <1>1, <1>2, <1>3, <1>4, <1>5, <1>6, <1>7, <1>8, <1>9, <1>10, <1>11 DEF Consumer

(* The strengthened invariant, with the typing it needs. *)
LEMMA TokenStep ==
    ASSUME Typed, TokenInv, [Next]_vars
    PROVE  Typed' /\ TokenInv' /\ SurfacedStep
<1>0. TokenRows /\ InFlight
  BY DEF TokenInv
<1>1. CASE Next
  <2>1. Typed'
    BY <1>1, LifecycleTyped, MediationTyped, ConsumerTyped, EnvironmentTyped DEF Next
  <2>2. CASE Consumer
    BY <2>1, <2>2, ConsumerToken
  <2>3. CASE ~Consumer
    <3>1. Frame /\ (cons' = cons \/ cons'.pc \notin Working)
      BY <1>1, <2>3, LifecycleFrames, MediationFrames, EnvironmentFrames DEF Next
    <3>2. SurfacedStep
      BY <3>1, RowsKeptSurfaced DEF Frame
    <3>. QED BY <1>0, <2>1, <3>1, <3>2, FrameKeepsRows, FrameKeepsFlight DEF TokenInv
  <2>. QED BY <2>2, <2>3
<1>2. CASE UNCHANGED vars
  <2>1. Typed' /\ TokenInv'
    BY <1>2 DEF vars, Typed, TypeOK, Bound, TokenInv, TokenRows, InFlight, NoEffectYet
  <2>. QED BY <1>2, <2>1, RowsKeptSurfaced DEF vars
<1>. QED BY <1>1, <1>2

LEMMA TokenInvariant == Spec => [](Typed /\ TokenInv)
<1>1. Init => Typed /\ TokenInv
  BY InitTyped, InitToken
<1>. QED BY <1>1, TokenStep, PTL DEF Spec

(* The one-use token of a fired exception lets at most one effect happen, through any
   number of replays, re-drives, failed settlements and restarts
   (consume_fired_pending_for_context, settle_reservations). *)
THEOREM TokenLandsOnce == Spec => []FiredAtMostOnce
<1>1. TokenInv => FiredAtMostOnce
  BY DEF TokenInv, TokenRows, FiredAtMostOnce
<1>. QED BY <1>1, TokenInvariant, PTL

(* A token that can be consumed holds no budget: rearm_standing_rule_fired_pending never
   runs over a reservation that was not cancelled. *)
THEOREM UsableTokenIsFree == Spec => []UsableTokenHoldsNoBudget
<1>1. TokenInv => UsableTokenHoldsNoBudget
  BY DEF TokenInv, TokenRows, UsableTokenHoldsNoBudget
<1>. QED BY <1>1, TokenInvariant, PTL

(* A claim brought to the owner's attention as unconfirmed is never dispatched again and
   never re-armed (surface_dark_window_claimed_for_owner). *)
THEOREM SurfacedStaysSurfaced == Spec => SurfacedNeverRerun
<1>1. ASSUME Typed, TokenInv, [Next]_vars
      PROVE  [\A p \in Exceptions :
                (pend[p].attention /\ pend[p].dispatch = "claimed")
                    => landed'[p] = landed[p] /\ pend'[p].dispatch # "none"]_vars
  BY <1>1, TokenStep DEF SurfacedStep
<1>. QED BY <1>1, TokenInvariant, PTL DEF Spec, SurfacedNeverRerun

-----------------------------------------------------------------------------
(* Consent.  What is allowed was allowed by the owner's tap, or by his silence up to
   the date of the timer; and neither tap, date nor decision changes afterwards. *)

Consent(p) ==
    \/ tapped[p] = "allow"
    \/ /\ tapped[p] = "no"
       /\ Mf(p.rule, p.version).dwAllow
       /\ pend[p].firesAt <= now
Consented(p) == pend[p].res \in {"allowed", "stale"} /\ Consent(p)
TimersInv ==
    /\ \A p \in Exceptions : pend[p].res = "open" => pend[p].timer \in {"pending", "fired"}
    /\ \A p \in Exceptions : pend[p].res = "absent" => pend[p].timer = "none"
    /\ \A i \in 1..Len(fired) : pend[fired[i]].res # "absent" /\ pend[fired[i]].firesAt <= now
ConsentInv ==
    /\ TimersInv
    /\ \A p \in Exceptions : pend[p].res \in {"absent", "open"} => tapped[p] = "no"
    /\ \A p \in Exceptions : pend[p].res = "allowed" => Consent(p)
    /\ \A p \in Exceptions : landed[p] > 0 => Consented(p)
    /\ cons.pc \in {"audit", "dispatching"} => Consented(cons.cur)

(* The step ResolutionFinal allows. *)
FinalStep ==
    \A p \in Exceptions :
        /\ pend[p].res \in {"denied", "stale"} => pend'[p].res = pend[p].res
        /\ pend[p].res = "allowed" =>
              \/ pend'[p].res = "allowed"
              \/ pend'[p].res = "stale" /\ pend[p].dispatch = "none"

(* What most steps do to an exception: end it, or nothing that consent rests on. *)
OnlyEnded ==
    \A p \in Exceptions :
        /\ pend'[p].firesAt = pend[p].firesAt
        /\ pend'[p].timer = pend[p].timer
        /\ \/ pend'[p].res = pend[p].res
           \/ pend'[p].res = "stale" /\ pend[p].res = "open"
           \/ pend'[p].res = "stale" /\ pend[p].res = "allowed" /\ pend[p].dispatch = "none"
ConsentFrame ==
    /\ OnlyEnded /\ now <= now'
    /\ UNCHANGED <<landed, tapped, fired>>
    /\ cons'.pc \in {"audit", "dispatching"} =>
          cons.pc \in {"audit", "dispatching"} /\ cons'.cur = cons.cur

LEMMA OnlyEndedIsFinal == OnlyEnded => FinalStep
BY DEF OnlyEnded, FinalStep

LEMMA SamePendEnds == pend' = pend => OnlyEnded
BY DEF OnlyEnded

LEMMA StaledEnds ==
    ASSUME Typed, NEW P, pend' = Staled(P)
    PROVE  OnlyEnded
<1> SUFFICES ASSUME NEW p \in Exceptions
             PROVE  /\ pend'[p].firesAt = pend[p].firesAt
                    /\ pend'[p].timer = pend[p].timer
                    /\ pend'[p].res = pend[p].res
                       \/ (pend'[p].res = "stale" /\ pend[p].res = "open")
  BY DEF OnlyEnded
<1>1. pend[p] \in PendRow
  BY TypedFacts
<1>2. pend'[p] = IF p \in P /\ pend[p].res = "open" THEN [pend[p] EXCEPT !.res = "stale"]
                                                   ELSE pend[p]
  BY DEF Staled
<1>. QED BY <1>1, <1>2 DEF PendRow

LEMMA FrameKeepsConsent ==
    ASSUME Typed, Typed', ConsentInv, ConsentFrame
    PROVE  ConsentInv'
<1>1. now \in Nat /\ now' \in Nat /\ \A p \in Exceptions : pend[p].firesAt \in Nat
  BY DEF Typed, TypeOK, PendRow
<1>2. \A p \in Exceptions : Consent(p) => Consent(p)'
  BY <1>1 DEF Consent, ConsentFrame, OnlyEnded
<1>3. \A p \in Exceptions : Consented(p) => Consented(p)'
  BY <1>2 DEF Consented, ConsentFrame, OnlyEnded
<1>4. fired \in Seq(Exceptions)
  BY TypedFacts
<1>5. TimersInv'
  <2>1. \A i \in 1..Len(fired) : fired[i] \in Exceptions
    BY <1>4
  <2>2. \A i \in 1..Len(fired') : pend'[fired'[i]].res # "absent" /\ pend'[fired'[i]].firesAt <= now'
    BY <1>1, <2>1 DEF ConsentInv, TimersInv, ConsentFrame, OnlyEnded
  <2>3. \A p \in Exceptions :
           /\ pend'[p].res = "open" => pend'[p].timer \in {"pending", "fired"}
           /\ pend'[p].res = "absent" => pend'[p].timer = "none"
    BY DEF ConsentInv, TimersInv, ConsentFrame, OnlyEnded
  <2>. QED BY <2>2, <2>3 DEF TimersInv
<1>6. \A p \in Exceptions : /\ pend'[p].res \in {"absent", "open"} => tapped'[p] = "no"
                            /\ pend'[p].res = "allowed" => Consent(p)'
                            /\ landed'[p] > 0 => Consented(p)'
  BY <1>2, <1>3 DEF ConsentInv, ConsentFrame, OnlyEnded
<1>7. cons'.pc \in {"audit", "dispatching"} => Consented(cons.cur)' /\ cons'.cur = cons.cur
  <2> SUFFICES ASSUME cons'.pc \in {"audit", "dispatching"}
               PROVE  Consented(cons.cur)' /\ cons'.cur = cons.cur
    OBVIOUS
  <2>1. cons.pc \in {"audit", "dispatching"} /\ cons'.cur = cons.cur
    BY DEF ConsentFrame
  <2>2. cons.cur \in Exceptions /\ Consented(cons.cur)
    BY <2>1 DEF ConsentInv, Typed, Bound, Working
  <2>. QED BY <1>3, <2>1, <2>2
<1>. QED BY <1>5, <1>6, <1>7 DEF ConsentInv

LEMMA InitConsents == Init => ConsentInv
<1> SUFFICES ASSUME Init PROVE ConsentInv
  OBVIOUS
<1>1. \A p \in Exceptions : pend[p] = NoException /\ landed[p] = 0 /\ tapped[p] = "no"
  BY DEF Init
<1>2. 1..Len(fired) = {}
  BY DEF Init
<1>3. cons.pc = "sweep"
  BY DEF Init, ConsumerStart
<1>. QED BY <1>1, <1>2, <1>3 DEF ConsentInv, TimersInv, NoException

LEMMA LifecycleConsents ==
    ASSUME Typed, Lifecycle
    PROVE  ConsentFrame
<1>1. OnlyEnded
  <2>1. (\E P : pend' = Staled(P)) \/ pend' = pend
    BY DEF Lifecycle, Activate, RevokeRule, PauseRule, ResumeRule, LapseOnLookup, EraseCounterparty
  <2>. QED BY <2>1, StaledEnds, SamePendEnds
<1>2. UNCHANGED <<now, cons, fired, landed, tapped>>
  BY DEF Lifecycle, Activate, RevokeRule, PauseRule, ResumeRule, LapseOnLookup, EraseCounterparty, history
<1>. QED BY <1>1, <1>2, TypedFacts DEF ConsentFrame

LEMMA MediationConsents ==
    ASSUME Typed, NEW a \in Attempts, Mediation(a), ~ScheduleException(a)
    PROVE  ConsentFrame
<1> USE TypedFacts
<1>1. CASE Receive(a) \/ AdmitEffect(a) \/ RefuseBeforeEffect(a) \/ Dispatch(a) \/ SettleFails(a)
  <2>1. UNCHANGED <<now, tables, cons, fired, landed, tapped>>
    <3>1. CASE Dispatch(a)
      BY ONLY <3>1 DEF Dispatch
    <3>2. CASE Receive(a) \/ AdmitEffect(a) \/ RefuseBeforeEffect(a) \/ SettleFails(a)
      BY ONLY <3>2 DEF Receive, AdmitEffect, RefuseBeforeEffect, SettleFails, history
    <3>. QED BY <1>1, <3>1, <3>2
  <2>. QED BY <2>1, SamePendEnds DEF ConsentFrame, tables
<1>2. CASE ConsultByAction(a) \/ ConsultByScope(a)
  <2>1. UNCHANGED <<now, cons, fired, landed, tapped>>
    BY <1>2 DEF ConsultByAction, ConsultByScope, history
  <2>2. (\E P : pend' = Staled(P)) \/ pend' = pend
    BY <1>2 DEF ConsultByAction, ConsultByScope, tables
  <2>. QED BY <2>1, <2>2, StaledEnds, SamePendEnds DEF ConsentFrame
<1>3. CASE Settle(a)
  <2>1. att[a].rule \in Rules /\ att[a].version \in Versions /\ att[a].now \in Nat
    BY <1>3 DEF Settle, Typed, Bound, AttState
  <2>2. pend' = pend \/ pend' = Staled(ExceptionsOf(att[a].rule))
    <3>1. CASE Finalize(a, att[a].rule, att[a].version, att[a].now, TRUE)
      BY ONLY Typed, <2>1, <3>1, FinalizeTypes
    <3>2. CASE NoteUse(att[a].rule, att[a].now, TRUE, usage) /\ UNCHANGED usage
      BY ONLY Typed, <2>1, <3>2, NoteUseTypes
    <3>3. CASE usage' = Cancelled(a) /\ UNCHANGED <<rules, pend>>
      BY <3>3
    <3>. QED BY <1>3, <3>1, <3>2, <3>3 DEF Settle
  <2>3. UNCHANGED <<now, cons, fired, landed, tapped>>
    BY <1>3 DEF Settle, history
  <2>. QED BY <2>2, <2>3, StaledEnds, SamePendEnds DEF ConsentFrame
<1>. QED BY <1>1, <1>2, <1>3 DEF Mediation

(* An exception is opened only where none was recorded. *)
LEMMA ScheduleConsents ==
    ASSUME Typed, ConsentInv, NEW a \in Attempts, ScheduleException(a)
    PROVE  ConsentInv' /\ FinalStep
<1> DEFINE p == [rule |-> att[a].rule, version |-> att[a].version, print |-> AttemptPrint[a]]
           x == [pend[p] EXCEPT !.res = "open", !.timer = "pending",
                                !.firesAt = att[a].now + Mf(att[a].rule, att[a].version).dwTime]
<1> USE TypedFacts
<1>1. p \in Exceptions
  BY ConstantsAssumption DEF ScheduleException, Exceptions, Typed, Bound
<1>2. UNCHANGED <<now, fired, landed, tapped, cons>>
  BY DEF ScheduleException, history
<1>3. \/ pend' = pend
      \/ pend[p].res = "absent" /\ pend' = [pend EXCEPT ![p] = x]
  <2>1. pend[p].res \in {"absent", "open", "allowed", "denied", "stale"}
    <3> HIDE DEF p
    <3>. QED BY <1>1 DEF PendRow
  <2>2. pend[p].res = "open" => pend[p].timer \in {"pending", "fired"}
    BY <1>1 DEF ConsentInv, TimersInv
  <2>. QED BY <1>1, <2>1, <2>2 DEF ScheduleException
<1>4. x.res = "open" /\ x.timer = "pending"
  <2> HIDE DEF p
  <2>. QED BY <1>1 DEF PendRow
<1> HIDE DEF p, x
<1>5. CASE pend' = pend
  <2>1. ConsentInv'
    BY <1>2, <1>5 DEF ConsentInv, TimersInv, Consented, Consent
  <2>. QED BY <1>5, <2>1, SamePendEnds, OnlyEndedIsFinal
<1>6. CASE pend[p].res = "absent" /\ pend' = [pend EXCEPT ![p] = x]
  <2>1. pend'[p] = x /\ \A q \in Exceptions \ {p} : pend'[q] = pend[q]
    BY <1>1, <1>6
  <2>2. \A q \in Exceptions : Consented(q) => Consented(q)'
    BY <1>2, <1>6, <2>1 DEF Consented, Consent
  <2>3. \A i \in 1..Len(fired) : fired[i] \in Exceptions \ {p}
    BY <1>6 DEF ConsentInv, TimersInv
  <2>4. TimersInv'
    <3>1. \A i \in 1..Len(fired) : pend'[fired[i]].res # "absent" /\ pend'[fired[i]].firesAt <= now
      BY ONLY ConsentInv, <2>1, <2>3 DEF ConsentInv, TimersInv
    <3>2. \A q \in Exceptions : /\ pend'[q].res = "open" => pend'[q].timer \in {"pending", "fired"}
                                /\ pend'[q].res = "absent" => pend'[q].timer = "none"
      BY <1>4, <2>1 DEF ConsentInv, TimersInv
    <3>. QED BY <1>2, <3>1, <3>2 DEF TimersInv
  <2>5. cons'.pc \in {"audit", "dispatching"} => Consented(cons.cur)' /\ cons'.cur = cons.cur
    <3>1. cons.pc \in {"audit", "dispatching"} => cons.cur \in Exceptions
      BY DEF Typed, Bound, Working
    <3>. QED BY <1>2, <2>2, <3>1 DEF ConsentInv
  <2>6. ConsentInv'
    <3> SUFFICES ASSUME NEW q \in Exceptions
                 PROVE  /\ pend'[q].res \in {"absent", "open"} => tapped'[q] = "no"
                        /\ pend'[q].res = "allowed" => Consent(q)'
                        /\ landed'[q] > 0 => Consented(q)'
      BY <1>2, <2>4, <2>5 DEF ConsentInv
    <3>1. landed'[q] > 0 => Consented(q)'
      BY <1>2, <2>2 DEF ConsentInv
    <3>2. CASE q = p
      BY <1>2, <1>4, <1>6, <2>1, <3>1, <3>2 DEF ConsentInv
    <3>3. CASE q # p
      BY <1>2, <2>1, <3>1, <3>3 DEF ConsentInv, Consent
    <3>. QED BY <3>2, <3>3
  <2>7. FinalStep
    BY <1>6, <2>1 DEF FinalStep
  <2>. QED BY <2>6, <2>7
<1>. QED BY <1>3, <1>5, <1>6

LEMMA ClockConsents ==
    ASSUME Typed, Tick \/ Restart
    PROVE  ConsentFrame
<1> USE TypedFacts
<1>1. CASE Tick
  <2>1. UNCHANGED <<pend, cons, fired, landed, tapped>> /\ now' = now + 1
    BY <1>1 DEF Tick, tables, history
  <2>. QED BY <2>1, SamePendEnds DEF ConsentFrame
<1>2. CASE Restart
  <2>1. \E P : pend' = Staled(P)
    BY ONLY <1>2, Zenon DEF Restart
  <2>2. UNCHANGED <<now, fired, landed, tapped>> /\ cons' = ConsumerStart
    BY ONLY <1>2, Zenon DEF Restart, history
  <2>. QED BY <2>1, <2>2, StaledEnds DEF ConsentFrame, ConsumerStart
<1>. QED BY <1>1, <1>2

(* A due timer is logged; its exception, its date and its decision stay. *)
LEMMA TimerConsents ==
    ASSUME Typed, ConsentInv, NEW p \in Exceptions, FireTimer(p)
    PROVE  ConsentInv' /\ FinalStep
<1> USE TypedFacts
<1>1. /\ pend[p].timer = "pending" /\ pend[p].firesAt <= now
      /\ pend' = [pend EXCEPT ![p].timer = "fired"] /\ fired' = Append(fired, p)
      /\ UNCHANGED <<now, cons, landed, tapped>>
  BY DEF FireTimer, history
<1>2. \A q \in Exceptions : /\ pend'[q].res = pend[q].res /\ pend'[q].firesAt = pend[q].firesAt
                            /\ pend'[q].timer = IF q = p THEN "fired" ELSE pend[q].timer
  BY <1>1 DEF PendRow
<1>3. pend[p].res # "absent"
  BY <1>1 DEF ConsentInv, TimersInv
<1>4. \A i \in 1..Len(fired') : pend'[fired'[i]].res # "absent" /\ pend'[fired'[i]].firesAt <= now
  <2> SUFFICES ASSUME NEW i \in 1..Len(fired')
               PROVE  pend'[fired'[i]].res # "absent" /\ pend'[fired'[i]].firesAt <= now
    OBVIOUS
  <2>1. fired'[i] = p \/ (i \in 1..Len(fired) /\ fired'[i] = fired[i] /\ fired[i] \in Exceptions)
    BY <1>1
  <2>. QED BY <1>1, <1>2, <1>3, <2>1 DEF ConsentInv, TimersInv
<1>5. TimersInv'
  BY <1>1, <1>2, <1>3, <1>4 DEF ConsentInv, TimersInv
<1>6. \A q \in Exceptions : /\ Consented(q) => Consented(q)'
                            /\ Consent(q) => Consent(q)'
  BY <1>1, <1>2 DEF Consented, Consent
<1>7. cons.pc \in {"audit", "dispatching"} => cons.cur \in Exceptions
  BY DEF Typed, Bound, Working
<1>8. cons'.pc \in {"audit", "dispatching"} => Consented(cons.cur)' /\ cons'.cur = cons.cur
  BY <1>1, <1>6, <1>7 DEF ConsentInv
<1>9. \A q \in Exceptions : /\ pend'[q].res \in {"absent", "open"} => tapped'[q] = "no"
                            /\ pend'[q].res = "allowed" => Consent(q)'
                            /\ landed'[q] > 0 => Consented(q)'
  BY <1>1, <1>2, <1>6 DEF ConsentInv
<1>10. FinalStep
  BY <1>2 DEF FinalStep
<1>. QED BY <1>5, <1>8, <1>9, <1>10 DEF ConsentInv

(* The owner's tap decides what nobody decided. *)
LEMMA TapConsents ==
    ASSUME Typed, ConsentInv, NEW p \in Exceptions, NEW allow \in BOOLEAN, OwnerResolve(p, allow)
    PROVE  ConsentInv' /\ FinalStep
<1> DEFINE res == IF allow THEN "allowed" ELSE "denied"
           tap == IF allow THEN "allow" ELSE "deny"
<1> USE TypedFacts
<1>1. /\ pend[p].res = "open"
      /\ pend' = [pend EXCEPT ![p].res = res] /\ tapped' = [tapped EXCEPT ![p] = tap]
      /\ UNCHANGED <<now, cons, fired, landed>>
  BY DEF OwnerResolve
<1>2. res \in {"allowed", "denied"} /\ (res = "allowed" => tap = "allow")
  OBVIOUS
<1> HIDE DEF res, tap
<1>3. \A q \in Exceptions : /\ pend'[q].res = IF q = p THEN res ELSE pend[q].res
                            /\ tapped'[q] = IF q = p THEN tap ELSE tapped[q]
                            /\ pend'[q].firesAt = pend[q].firesAt
                            /\ pend'[q].timer = pend[q].timer
  BY <1>1 DEF PendRow
<1>4. TimersInv'
  <2>1. \A i \in 1..Len(fired) : fired[i] \in Exceptions
    OBVIOUS
  <2>2. \A i \in 1..Len(fired) : pend'[fired[i]].res # "absent" /\ pend'[fired[i]].firesAt <= now
    BY <1>2, <1>3, <2>1 DEF ConsentInv, TimersInv
  <2>3. \A q \in Exceptions : /\ pend'[q].res = "open" => pend'[q].timer \in {"pending", "fired"}
                              /\ pend'[q].res = "absent" => pend'[q].timer = "none"
    BY <1>2, <1>3 DEF ConsentInv, TimersInv
  <2>. QED BY <1>1, <2>2, <2>3 DEF TimersInv
<1>5. \A q \in Exceptions : Consented(q) => q # p /\ Consented(q)'
  BY <1>1, <1>3 DEF Consented, Consent
<1>6. cons.pc \in {"audit", "dispatching"} => cons.cur \in Exceptions
  BY DEF Typed, Bound, Working
<1>7. cons'.pc \in {"audit", "dispatching"} => Consented(cons.cur)' /\ cons'.cur = cons.cur
  BY <1>1, <1>5, <1>6 DEF ConsentInv
<1>8. \A q \in Exceptions : /\ pend'[q].res \in {"absent", "open"} => tapped'[q] = "no"
                            /\ pend'[q].res = "allowed" => Consent(q)'
                            /\ landed'[q] > 0 => Consented(q)'
  BY <1>1, <1>2, <1>3, <1>5 DEF ConsentInv, Consent
<1>9. FinalStep
  BY <1>1, <1>3 DEF FinalStep
<1>. QED BY <1>4, <1>7, <1>8, <1>9 DEF ConsentInv

(* Steps of the consumer that neither claim a timer, nor consume a token, nor dispatch. *)
LEMMA HousekeepingConsents ==
    ASSUME Typed, Consumer, ~ClaimTimer, ~ConsumeToken, ~DispatchFired
    PROVE  ConsentFrame
<1> USE TypedFacts
<1>1. ASSUME NEW p \in Exceptions, NotifyRefused(p) \/ SurfaceClaimed(p) PROVE ConsentFrame
  <2>1. /\ pend' = [pend EXCEPT ![p].attention = TRUE]
        /\ UNCHANGED <<cons, landed, now, fired, tapped>>
    BY <1>1 DEF NotifyRefused, SurfaceClaimed, ConsumerOnly
  <2>2. OnlyEnded
    BY <2>1 DEF OnlyEnded, PendRow
  <2>. QED BY <2>1, <2>2 DEF ConsentFrame
<1>2. CASE \/ \E p \in Exceptions : RedriveNext(p)
           \/ BeginRedrive \/ BeginReplay \/ EndRound \/ Ack \/ MediateFired \/ MediationFails
  <2>1. UNCHANGED <<pend, landed, now, fired, tapped>>
    <3>1. CASE Ack
      BY ONLY <3>1 DEF Ack, tables, history
    <3>2. CASE \E p \in Exceptions : RedriveNext(p)
      BY ONLY <3>2 DEF RedriveNext, ConsumerOnly
    <3>3. CASE BeginRedrive \/ BeginReplay \/ EndRound \/ MediateFired \/ MediationFails
      BY ONLY <3>3 DEF BeginRedrive, BeginReplay, EndRound, MediateFired, MediationFails, ConsumerOnly
    <3>. QED BY <1>2, <3>1, <3>2, <3>3
  <2>2. cons'.pc \notin {"audit", "dispatching"}
    <3>1. CASE \E p \in Exceptions : RedriveNext(p)
      BY <3>1 DEF RedriveNext, ConsState
    <3>2. CASE BeginRedrive
      BY <3>2 DEF BeginRedrive, ConsState
    <3>3. CASE BeginReplay
      BY <3>3 DEF BeginReplay, ConsState
    <3>4. CASE EndRound
      BY <3>4 DEF EndRound, ConsumerStart
    <3>5. CASE Ack
      BY <3>5 DEF Ack, ConsState
    <3>6. CASE Finished(TRUE) \/ Finished(FALSE)
      BY <3>6, FinishedFrames DEF Working
    <3>7. CASE cons' = [cons EXCEPT !.pc = "consume", !.now = now]
      BY <3>7 DEF ConsState
    <3>. QED BY <1>2, <3>1, <3>2, <3>3, <3>4, <3>5, <3>6, <3>7 DEF MediateFired, MediationFails
  <2>. QED BY <2>1, <2>2, SamePendEnds DEF ConsentFrame
<1>3. CASE RefuseForGood
  <2>1. /\ Finished(TRUE) /\ cons.pc = "mediate"
        /\ \/ pend' = pend
           \/ /\ pend[cons.cur].res = "allowed" /\ pend[cons.cur].dispatch = "none"
              /\ pend' = [pend EXCEPT ![cons.cur] = [@ EXCEPT !.res = "stale", !.refused = TRUE]]
        /\ UNCHANGED <<landed, now, fired, tapped>>
    BY <1>3 DEF RefuseForGood, ConsumerOnly
  <2>2. OnlyEnded
    <3>1. cons.cur \in Exceptions
      BY <2>1 DEF Typed, Bound, Working
    <3>2. CASE pend' = pend
      BY <3>2, SamePendEnds
    <3>3. CASE /\ pend[cons.cur].res = "allowed" /\ pend[cons.cur].dispatch = "none"
               /\ pend' = [pend EXCEPT ![cons.cur] = [@ EXCEPT !.res = "stale", !.refused = TRUE]]
      BY <3>1, <3>3 DEF OnlyEnded, PendRow
    <3>. QED BY <2>1, <3>2, <3>3
  <2>3. cons'.pc \notin {"audit", "dispatching"}
    BY ONLY Typed, <2>1, FinishedFrames DEF Working
  <2>. QED BY <2>1, <2>2, <2>3 DEF ConsentFrame
<1>4. CASE AuditFired
  <2>1. UNCHANGED <<pend, landed, now, fired, tapped>> /\ cons.pc = "audit" /\ cons'.cur = cons.cur
    BY <1>4 DEF AuditFired, ConsState, ConsumerOnly
  <2>. QED BY <2>1, SamePendEnds DEF ConsentFrame
<1>5. CASE SettleFired
  <2> DEFINE p == cons.cur
  <2>1. p.rule \in Rules /\ p.version \in Versions /\ cons.now \in Nat
    BY <1>5 DEF SettleFired, Working, Exceptions, ConsState, Typed, Bound
  <2>2. pend' = pend \/ pend' = Staled(ExceptionsOf(p.rule))
    <3>1. CASE Finalize(p, p.rule, p.version, cons.now, FALSE)
      BY ONLY Typed, <2>1, <3>1, FinalizeTypes
    <3>2. CASE NoteUse(p.rule, cons.now, FALSE, usage) /\ UNCHANGED usage
      BY ONLY Typed, <2>1, <3>2, NoteUseTypes
    <3>3. CASE usage' = Cancelled(p) /\ UNCHANGED <<rules, pend>>
      BY <3>3
    <3>. QED BY <1>5, <3>1, <3>2, <3>3 DEF SettleFired
  <2>3. UNCHANGED <<landed, now, fired, tapped>> /\ cons'.pc \in {"marking", "rearming"}
    BY <1>5 DEF SettleFired, ConsumerOnly, ConsState
  <2>. QED BY <2>2, <2>3, StaledEnds, SamePendEnds DEF ConsentFrame
<1>6. CASE SettleFiredFails
  <2>1. UNCHANGED <<pend, landed, now, fired, tapped>>
    BY <1>6 DEF SettleFiredFails, ConsumerOnly
  <2>2. cons'.pc \notin {"audit", "dispatching"}
    <3>1. CASE cons' = [cons EXCEPT !.pc = "marking"]
      BY <3>1 DEF ConsState
    <3>2. CASE Finished(FALSE)
      BY <3>2, FinishedFrames DEF Working
    <3>. QED BY <1>6, <3>1, <3>2 DEF SettleFiredFails
  <2>. QED BY <2>1, <2>2, SamePendEnds DEF ConsentFrame
<1>7. CASE MarkAttempted \/ RearmToken
  <2> DEFINE p == cons.cur
  <2>1. /\ p \in Exceptions /\ \E ok \in BOOLEAN : Finished(ok)
        /\ UNCHANGED <<landed, now, fired, tapped>>
        /\ \/ pend' = pend
           \/ pend' = [pend EXCEPT ![p].dispatch = "dispatched"]
           \/ pend' = [pend EXCEPT ![p] = [@ EXCEPT !.token = FALSE, !.dispatch = "none"]]
    BY <1>7 DEF MarkAttempted, RearmToken, ConsumerOnly, Typed, Bound, Working
  <2>2. OnlyEnded
    <3> HIDE DEF p
    <3>1. CASE pend' = pend
      BY <3>1, SamePendEnds
    <3>2. CASE pend' = [pend EXCEPT ![p].dispatch = "dispatched"]
      BY <2>1, <3>2 DEF OnlyEnded, PendRow
    <3>3. CASE pend' = [pend EXCEPT ![p] = [@ EXCEPT !.token = FALSE, !.dispatch = "none"]]
      BY <2>1, <3>3 DEF OnlyEnded, PendRow
    <3>. QED BY <2>1, <3>1, <3>2, <3>3
  <2>. QED BY <2>1, <2>2, FinishedFrames DEF ConsentFrame, Working
<1>. QED BY <1>1, <1>2, <1>3, <1>4, <1>5, <1>6, <1>7 DEF Consumer

(* The timer fires on what nobody decided: silence, past the date of the timer. *)
LEMMA ClaimConsents ==
    ASSUME Typed, ConsentInv, ClaimTimer
    PROVE  ConsentInv' /\ FinalStep
<1> DEFINE p == fired[acked + 1]
           res == ClaimedResolution(p)
           x == [pend[p] EXCEPT !.timer = "applied", !.res = res]
<1> USE TypedFacts
<1>1. /\ acked + 1 \in 1..Len(fired)
      /\ cons'.pc \notin {"audit", "dispatching"}
      /\ pend' = pend \/ pend' = [pend EXCEPT ![p] = x]
      /\ UNCHANGED <<now, fired, landed, tapped>>
  BY DEF ClaimTimer, ConsumerOnly, ConsState, Typed, Bound
<1>2. p \in Exceptions /\ pend[p].res # "absent" /\ pend[p].firesAt <= now
  BY <1>1 DEF ConsentInv, TimersInv
<1>3. /\ pend[p].res # "open" => res = pend[p].res
      /\ pend[p].res = "open" => res = "denied" \/ (res = "allowed" /\ Mf(p.rule, p.version).dwAllow)
  BY DEF ClaimedResolution, DefaultOf
<1>4. x.res = res /\ x.timer = "applied" /\ x.firesAt = pend[p].firesAt
  <2> HIDE DEF p, res
  <2>. QED BY <1>2 DEF PendRow
<1> HIDE DEF p, res, x
<1>5. CASE pend' = pend
  <2>1. ConsentInv'
    BY <1>1, <1>5 DEF ConsentInv, TimersInv, Consented, Consent
  <2>. QED BY <1>5, <2>1, SamePendEnds, OnlyEndedIsFinal
<1>6. CASE pend' = [pend EXCEPT ![p] = x]
  <2>1. \A q \in Exceptions : /\ pend'[q].res = IF q = p THEN res ELSE pend[q].res
                              /\ pend'[q].timer = IF q = p THEN "applied" ELSE pend[q].timer
                              /\ pend'[q].firesAt = pend[q].firesAt
    BY <1>2, <1>4, <1>6
  <2>2. TimersInv'
    <3>1. \A i \in 1..Len(fired) : pend'[fired[i]].res # "absent" /\ pend'[fired[i]].firesAt <= now
      <4>1. \A i \in 1..Len(fired) : fired[i] \in Exceptions
        OBVIOUS
      <4>2. ASSUME NEW i \in 1..Len(fired)
            PROVE  pend[fired[i]].res # "absent" /\ pend[fired[i]].firesAt <= now
        BY DEF ConsentInv, TimersInv
      <4>3. res # "absent"
        BY <1>2, <1>3
      <4>4. ASSUME NEW i \in 1..Len(fired)
            PROVE  pend'[fired[i]].res # "absent" /\ pend'[fired[i]].firesAt <= now
        <5>. PICK q \in Exceptions : q = fired[i]
          BY <4>1
        <5>1. pend[q].res # "absent" /\ pend[q].firesAt <= now
          BY <4>2
        <5>2. pend'[q].res # "absent" /\ pend'[q].firesAt <= now
          BY <2>1, <4>3, <5>1
        <5>. QED BY <5>2
      <4>. QED BY <4>4
    <3>2. \A q \in Exceptions : /\ pend'[q].res = "open" => pend'[q].timer \in {"pending", "fired"}
                                /\ pend'[q].res = "absent" => pend'[q].timer = "none"
      BY <1>2, <1>3, <2>1 DEF ConsentInv, TimersInv
    <3>. QED BY <1>1, <3>1, <3>2 DEF TimersInv
  <2>3. \A q \in Exceptions : Consented(q) => Consented(q)'
    BY <1>1, <1>3, <2>1 DEF Consented, Consent
  <2>4. \A q \in Exceptions : /\ pend'[q].res \in {"absent", "open"} => tapped'[q] = "no"
                              /\ pend'[q].res = "allowed" => Consent(q)'
                              /\ landed'[q] > 0 => Consented(q)'
    <3> SUFFICES ASSUME NEW q \in Exceptions
                 PROVE  /\ pend'[q].res \in {"absent", "open"} => tapped'[q] = "no"
                        /\ pend'[q].res = "allowed" => Consent(q)'
                        /\ landed'[q] > 0 => Consented(q)'
      OBVIOUS
    <3>1. landed'[q] > 0 => Consented(q)'
      BY <1>1, <2>3 DEF ConsentInv
    <3>2. CASE q = p /\ pend[p].res = "open"
      BY <1>1, <1>2, <1>3, <2>1, <3>1, <3>2 DEF ConsentInv, Consent
    <3>3. CASE q # p \/ pend[p].res # "open"
      BY <1>1, <1>3, <2>1, <3>1, <3>3 DEF ConsentInv, Consent
    <3>. QED BY <3>2, <3>3
  <2>5. ConsentInv'
    BY <1>1, <2>2, <2>4 DEF ConsentInv
  <2>6. FinalStep
    BY <1>2, <1>3, <2>1 DEF FinalStep
  <2>. QED BY <2>5, <2>6
<1>. QED BY <1>1, <1>5, <1>6

(* The token of an exception is consumed while the exception is allowed. *)
LEMMA ConsumeConsents ==
    ASSUME Typed, Typed', ConsentInv, ConsumeToken
    PROVE  ConsentInv' /\ FinalStep
<1> USE TypedFacts
<1>1. UNCHANGED <<now, fired, landed, tapped>> /\ cons.pc = "consume"
  BY DEF ConsumeToken, ConsumerOnly
<1>2. PICK p \in Exceptions : p = cons.cur
  BY <1>1 DEF Typed, Bound, Working
<1>3. CASE TokenUsable(p, cons.now)
  <2>1. /\ pend' = [pend EXCEPT ![p] = [@ EXCEPT !.token = TRUE, !.dispatch = "claimed"]]
        /\ cons'.cur = p /\ pend[p].res = "allowed"
    BY <1>2, <1>3 DEF ConsumeToken, ConsState, TokenUsable
  <2>2. \A q \in Exceptions : /\ pend'[q].res = pend[q].res /\ pend'[q].timer = pend[q].timer
                              /\ pend'[q].firesAt = pend[q].firesAt
    BY <1>2, <2>1 DEF PendRow
  <2>3. Consented(p)
    BY <1>2, <2>1 DEF ConsentInv, Consented
  <2>4. \A q \in Exceptions : /\ Consented(q) => Consented(q)'
                              /\ Consent(q) => Consent(q)'
    BY <1>1, <2>2 DEF Consented, Consent
  <2>5. TimersInv'
    <3>1. \A i \in 1..Len(fired) : pend'[fired[i]].res # "absent" /\ pend'[fired[i]].firesAt <= now
      <4>1. \A i \in 1..Len(fired) : fired[i] \in Exceptions
        OBVIOUS
      <4>. QED BY ONLY ConsentInv, <2>2, <4>1 DEF ConsentInv, TimersInv
    <3>. QED BY <1>1, <2>2, <3>1 DEF ConsentInv, TimersInv
  <2>6. Consented(p)' /\ cons'.cur = p
    BY <2>1, <2>3, <2>4
  <2>7. ConsentInv'
    BY <1>1, <2>2, <2>4, <2>5, <2>6 DEF ConsentInv
  <2>8. FinalStep
    BY <2>2 DEF FinalStep
  <2>. QED BY <2>7, <2>8
<1>4. CASE ~TokenUsable(p, cons.now)
  <2>1. Finished(TRUE) /\ pend' = pend
    BY <1>2, <1>4 DEF ConsumeToken
  <2>2. cons'.pc \notin {"audit", "dispatching"}
    BY ONLY Typed, <2>1, FinishedFrames DEF Working
  <2>3. ConsentFrame
    BY <1>1, <2>1, <2>2, SamePendEnds DEF ConsentFrame
  <2>. QED BY <2>1, <2>3, FrameKeepsConsent, SamePendEnds, OnlyEndedIsFinal
<1>. QED BY <1>3, <1>4

LEMMA DispatchConsents ==
    ASSUME Typed, ConsentInv, DispatchFired
    PROVE  ConsentInv' /\ FinalStep
<1> USE TypedFacts
<1>1. /\ UNCHANGED <<pend, now, fired, tapped>>
      /\ landed' = landed \/ landed' = [landed EXCEPT ![cons.cur] = @ + 1]
      /\ cons.pc = "dispatching" /\ cons'.pc = "settling"
  BY DEF DispatchFired, ConsumerOnly, ConsState
<1>2. \A q \in Exceptions : landed'[q] > 0 => landed[q] > 0 \/ q = cons.cur
  BY <1>1
<1>3. \A q \in Exceptions : landed'[q] > 0 => Consented(q)
  BY <1>1, <1>2 DEF ConsentInv
<1>4. ConsentInv'
  BY <1>1, <1>3 DEF ConsentInv, TimersInv, Consented, Consent
<1>. QED BY <1>1, <1>4, SamePendEnds, OnlyEndedIsFinal

LEMMA ConsentStep ==
    ASSUME Typed, ConsentInv, [Next]_vars
    PROVE  Typed' /\ ConsentInv' /\ FinalStep
<1>1. CASE Next
  <2>1. Typed'
    BY <1>1, LifecycleTyped, MediationTyped, ConsumerTyped, EnvironmentTyped DEF Next
  <2>2. CASE ConsentFrame
    BY <2>1, <2>2, FrameKeepsConsent, OnlyEndedIsFinal DEF ConsentFrame
  <2>3. CASE ~ConsentFrame
    BY <1>1, <2>1, <2>3, LifecycleConsents, MediationConsents, ScheduleConsents, ClockConsents,
       TimerConsents, TapConsents, HousekeepingConsents, ClaimConsents, ConsumeConsents,
       DispatchConsents DEF Next
  <2>. QED BY <2>1, <2>2, <2>3
<1>2. CASE UNCHANGED vars
  <2>1. Typed' /\ ConsentInv'
    BY <1>2 DEF vars, Typed, TypeOK, Bound, ConsentInv, TimersInv, Consented, Consent
  <2>. QED BY <1>2, <2>1, SamePendEnds, OnlyEndedIsFinal DEF vars
<1>. QED BY <1>1, <1>2

LEMMA ConsentInvariant == Spec => [](Typed /\ ConsentInv)
<1>1. Init => Typed /\ ConsentInv
  BY InitTyped, InitConsents
<1>. QED BY <1>1, ConsentStep, PTL DEF Spec

(* No effect of an exception without consent: the owner's tap, or his silence past the
   reviewed date under an Allow default; and whatever was decided is never decided again
   (claim_standing_rule_timer_in_tx, consume_fired_pending_for_context). *)
THEOREM FiredWithConsent == Spec => ConsentIsFinal
<1>1. ConsentInv => FiredOnlyWithConsent
  BY DEF ConsentInv, Consented, Consent, FiredOnlyWithConsent
<1>2. ASSUME Typed, ConsentInv, [Next]_vars
      PROVE  [\A p \in Exceptions :
                /\ pend[p].res \in {"denied", "stale"} => pend'[p].res = pend[p].res
                /\ pend[p].res = "allowed" =>
                      \/ pend'[p].res = "allowed"
                      \/ pend'[p].res = "stale" /\ pend[p].dispatch = "none"]_vars
  BY <1>2, ConsentStep DEF FinalStep
<1>. QED BY <1>1, <1>2, ConsentInvariant, PTL DEF Spec, ConsentIsFinal, ResolutionFinal

--------------------------------------------------------------------------------
(* The limits a reviewed rule states *)

Live(r) == rules[r].status \in {"active", "paused"}

(* No rule becomes live, and a live rule keeps its version. *)
NoneEnlivened ==
    \A r \in Rules : Live(r)' => Live(r) /\ rules'[r].version = rules[r].version

LEMMA NoneEnlivenedKeeps ==
    ASSUME OneLiveRulePerScope, NoneEnlivened
    PROVE  OneLiveRulePerScope'
<1> SUFFICES ASSUME NEW q \in Rules, NEW r \in Rules, q # r,
                    rules'[q].status \in {"active", "paused"},
                    rules'[r].status \in {"active", "paused"},
                    Current(q)'.action = Current(r)'.action
             PROVE  ~Overlaps(Current(q)', Current(r)')
  BY DEF OneLiveRulePerScope, Overlaps
<1>1. Live(q) /\ Live(r) /\ Current(q)' = Current(q) /\ Current(r)' = Current(r)
  BY DEF NoneEnlivened, Live, Current
<1>. QED BY <1>1 DEF OneLiveRulePerScope, Live

LEMMA RestatusedEnlivensNone ==
    ASSUME Typed, NEW R, NEW s \in Status, rules' = WithStatus(R, s),
           s \in {"active", "paused"} => \A r \in R : Live(r)
    PROVE  NoneEnlivened
<1> SUFFICES ASSUME NEW r \in Rules, Live(r)'
             PROVE  Live(r) /\ rules'[r].version = rules[r].version
  BY DEF NoneEnlivened
<1>1. rules[r] \in RuleRow
  BY TypedFacts
<1>2. rules'[r] = IF r \in R THEN [rules[r] EXCEPT !.status = s] ELSE rules[r]
  BY DEF WithStatus
<1>. QED BY <1>1, <1>2 DEF Live, RuleRow

LEMMA NotedEnlivensNone ==
    ASSUME \A q \in Rules : /\ rules'[q].version = rules[q].version
                            /\ rules'[q].status \in {rules[q].status, "needs_review"}
    PROVE  NoneEnlivened
BY DEF NoneEnlivened, Live

LEMMA ActivateKeeps ==
    ASSUME Typed, OneLiveRulePerScope, NEW r \in Rules, NEW v \in Versions, Activate(r, v)
    PROVE  OneLiveRulePerScope'
<1> DEFINE m == Mf(r, v)
           D == Displaced(r, m)
<1>1. rules' = [WithStatus(D, "revoked") EXCEPT
                   ![r] = [version |-> v, status |-> "active", activatedAt |-> now, lastUsed |-> Never]]
  BY DEF Activate
<1>2. rules'[r].version = v
  BY <1>1 DEF WithStatus
<1>3. ASSUME NEW q \in Rules, q # r, rules'[q].status \in {"active", "paused"}
      PROVE  /\ rules[q].status \in {"active", "paused"} /\ rules'[q] = rules[q]
             /\ Current(q).action = m.action => ~Overlaps(Current(q), m)
  <2>1. rules'[q] = IF q \in D THEN [rules[q] EXCEPT !.status = "revoked"] ELSE rules[q]
    BY <1>1, <1>3 DEF WithStatus
  <2>2. q \notin D
    <3>1. rules[q] \in RuleRow
      BY TypedFacts
    <3>. QED BY <1>3, <2>1, <3>1 DEF RuleRow
  <2>. QED BY <1>3, <2>1, <2>2 DEF Displaced
<1>4. Current(r)' = m
  BY <1>2 DEF Current
<1> HIDE DEF m, D
<1> SUFFICES ASSUME NEW p \in Rules, NEW q \in Rules, p # q,
                    rules'[p].status \in {"active", "paused"},
                    rules'[q].status \in {"active", "paused"},
                    Current(p)'.action = Current(q)'.action
             PROVE  ~Overlaps(Current(p)', Current(q)')
  BY DEF OneLiveRulePerScope, Overlaps
<1>5. CASE p # r /\ q # r
  <2>1. Current(p)' = Current(p) /\ Current(q)' = Current(q)
    BY <1>3, <1>5 DEF Current
  <2>. QED BY <1>3, <1>5, <2>1 DEF OneLiveRulePerScope
<1>6. CASE p = r
  <2>1. Current(q)' = Current(q)
    BY <1>3, <1>6 DEF Current
  <2>. QED BY <1>3, <1>4, <1>6, <2>1 DEF Overlaps
<1>7. CASE q = r
  <2>1. Current(p)' = Current(p)
    BY <1>3, <1>7 DEF Current
  <2>. QED BY <1>3, <1>4, <1>7, <2>1 DEF Overlaps
<1>. QED BY <1>5, <1>6, <1>7

LEMMA LifecycleScope ==
    ASSUME Typed, OneLiveRulePerScope, Lifecycle
    PROVE  OneLiveRulePerScope'
<1>0. "active" \in Status /\ "paused" \in Status /\ "revoked" \in Status /\ "needs_review" \in Status
  BY DEF Status
<1>1. ASSUME NEW r \in Rules, RevokeRule(r) \/ PauseRule(r) \/ ResumeRule(r) \/ LapseOnLookup(r)
      PROVE  NoneEnlivened
  <2>1. \E s \in Status : rules' = WithStatus({r}, s)
                          /\ (s \in {"active", "paused"} => Live(r))
    BY <1>0, <1>1 DEF RevokeRule, PauseRule, ResumeRule, LapseOnLookup, Live
  <2>. QED BY <2>1, RestatusedEnlivensNone
<1>2. ASSUME NEW c \in Counterparties, EraseCounterparty(c)
      PROVE  NoneEnlivened
  <2>1. \E R : rules' = WithStatus(R, "revoked")
    BY <1>2 DEF EraseCounterparty
  <2>. QED BY <1>0, <2>1, RestatusedEnlivensNone
<1>. QED BY <1>1, <1>2, ActivateKeeps, NoneEnlivenedKeeps DEF Lifecycle

LEMMA MediationScope ==
    ASSUME Typed, NEW a \in Attempts, Mediation(a)
    PROVE  NoneEnlivened
<1>1. CASE \/ Receive(a) \/ ScheduleException(a) \/ AdmitEffect(a) \/ RefuseBeforeEffect(a)
           \/ Dispatch(a) \/ SettleFails(a)
  <2>1. rules' = rules
    BY <1>1 DEF Receive, ScheduleException, AdmitEffect, RefuseBeforeEffect, Dispatch, SettleFails, tables
  <2>. QED BY <2>1 DEF NoneEnlivened, Live
<1>2. CASE ConsultByAction(a) \/ ConsultByScope(a)
  <2>1. rules' = rules \/ \E R : rules' = WithStatus(R, "needs_review")
    BY <1>2 DEF ConsultByAction, ConsultByScope, tables
  <2>2. CASE rules' = rules
    BY <2>2 DEF NoneEnlivened, Live
  <2>3. CASE \E R : rules' = WithStatus(R, "needs_review")
    BY <2>3, RestatusedEnlivensNone DEF Status
  <2>. QED BY <2>1, <2>2, <2>3
<1>3. CASE Settle(a)
  <2>1. att[a].rule \in Rules /\ att[a].version \in Versions /\ att[a].now \in Nat
    BY <1>3, TypedFacts DEF Settle, Typed, Bound, AttState
  <2>2. CASE Finalize(a, att[a].rule, att[a].version, att[a].now, TRUE)
    BY ONLY Typed, <2>1, <2>2, FinalizeTypes, NotedEnlivensNone
  <2>3. CASE NoteUse(att[a].rule, att[a].now, TRUE, usage)
    BY ONLY Typed, <2>1, <2>3, NoteUseTypes, NotedEnlivensNone
  <2>4. CASE rules' = rules
    BY <2>4 DEF NoneEnlivened, Live
  <2>. QED BY <1>3, <2>2, <2>3, <2>4 DEF Settle
<1>. QED BY <1>1, <1>2, <1>3 DEF Mediation

LEMMA ConsumerScope ==
    ASSUME Typed, Consumer
    PROVE  NoneEnlivened
<1>1. CASE SettleFired
  <2> DEFINE p == cons.cur
  <2>1. p.rule \in Rules /\ p.version \in Versions /\ cons.now \in Nat
    BY <1>1, TypedFacts DEF SettleFired, Working, Exceptions, ConsState, Typed, Bound
  <2>2. CASE Finalize(p, p.rule, p.version, cons.now, FALSE)
    BY ONLY Typed, <2>1, <2>2, FinalizeTypes, NotedEnlivensNone
  <2>3. CASE NoteUse(p.rule, cons.now, FALSE, usage)
    BY ONLY Typed, <2>1, <2>3, NoteUseTypes, NotedEnlivensNone
  <2>4. CASE rules' = rules
    BY <2>4 DEF NoneEnlivened, Live
  <2>. QED BY <1>1, <2>2, <2>3, <2>4 DEF SettleFired
<1>2. CASE ~SettleFired
  <2>1. rules' = rules
    BY <1>2 DEF Consumer, NotifyRefused, SurfaceClaimed, RedriveNext, BeginRedrive, BeginReplay,
           ClaimTimer, Ack, EndRound, MediateFired, MediationFails, RefuseForGood, ConsumeToken,
           AuditFired, DispatchFired, SettleFiredFails, MarkAttempted, RearmToken, tables
  <2>. QED BY <2>1 DEF NoneEnlivened, Live
<1>. QED BY <1>1, <1>2

LEMMA EnvironmentScope ==
    ASSUME Typed,
           \/ Tick
           \/ \E p \in Exceptions : FireTimer(p) \/ \E allow \in BOOLEAN : OwnerResolve(p, allow)
           \/ Restart
    PROVE  NoneEnlivened
<1>1. CASE Restart
  <2>1. \E R : rules' = WithStatus(R, "needs_review")
    BY <1>1 DEF Restart
  <2>. QED BY <2>1, RestatusedEnlivensNone DEF Status
<1>2. CASE ~Restart
  <2>1. rules' = rules
    BY <1>2 DEF Tick, FireTimer, OwnerResolve, tables
  <2>. QED BY <2>1 DEF NoneEnlivened, Live
<1>. QED BY <1>1, <1>2

(* activate_standing_rule_in_tx and the lifecycle transitions together keep the scoped
   consultation unambiguous: no two live rules of one action overlap, ever. *)
THEOREM ScopesStayDisjoint == Spec => []OneLiveRulePerScope
<1>1. Init => Typed /\ OneLiveRulePerScope
  BY InitTyped DEF Init, OneLiveRulePerScope, NoRule
<1>2. ASSUME Typed, OneLiveRulePerScope, [Next]_vars PROVE Typed' /\ OneLiveRulePerScope'
  <2>1. CASE Next
    <3>1. Typed'
      BY <1>2, <2>1, LifecycleTyped, MediationTyped, ConsumerTyped, EnvironmentTyped DEF Next
    <3>2. CASE Lifecycle
      BY <1>2, <3>1, <3>2, LifecycleScope
    <3>3. CASE ~Lifecycle
      <4>1. NoneEnlivened
        BY <1>2, <2>1, <3>3, MediationScope, ConsumerScope, EnvironmentScope DEF Next
      <4>. QED BY <1>2, <3>1, <4>1, NoneEnlivenedKeeps
    <3>. QED BY <3>2, <3>3
  <2>2. CASE UNCHANGED vars
    BY <1>2, <2>2 DEF vars, Typed, TypeOK, Bound, OneLiveRulePerScope, Current
  <2>. QED BY <1>2, <2>1, <2>2
<1>. QED BY <1>1, <1>2, PTL DEF Spec

-----------------------------------------------------------------------------
(* Open exceptions *)

OpenAt(r, v) == {q \in ExceptionsAt(r, v) : pend[q].res = "open"}
CapInv ==
    \A r \in Rules, v \in Versions :
        IsFiniteSet(OpenAt(r, v)) /\ Cardinality(OpenAt(r, v)) <= Mf(r, v).dwMax

(* Counting: fewer elements, and one more. *)
LEMMA Fewer ==
    ASSUME NEW S, IsFiniteSet(S), NEW T, T \subseteq S
    PROVE  /\ IsFiniteSet(T) /\ Cardinality(T) <= Cardinality(S)
           /\ Cardinality(S) \in Nat /\ Cardinality(T) \in Nat
<1>1. IsFiniteSet(T) /\ Cardinality(T) <= Cardinality(S)
  BY FS_Subset
<1>2. Cardinality(S) \in Nat
  BY FS_CardinalityType
<1>3. Cardinality(T) \in Nat
  BY <1>1, FS_CardinalityType
<1>. QED BY <1>1, <1>2, <1>3

LEMMA OneMore ==
    ASSUME NEW S, IsFiniteSet(S), NEW e, NEW T, T \subseteq S \cup {e}
    PROVE  /\ IsFiniteSet(T) /\ Cardinality(T) <= Cardinality(S) + 1
           /\ Cardinality(S) \in Nat /\ Cardinality(T) \in Nat
<1>1. Cardinality(S) \in Nat
  BY FS_CardinalityType
<1>2. /\ IsFiniteSet(S \cup {e})
      /\ Cardinality(S \cup {e}) = IF e \in S THEN Cardinality(S) ELSE Cardinality(S) + 1
  BY FS_AddElement
<1>3. /\ IsFiniteSet(T) /\ Cardinality(T) <= Cardinality(S \cup {e})
      /\ Cardinality(T) \in Nat
  BY <1>2, Fewer
<1>. QED BY <1>1, <1>2, <1>3

NoneOpened == \A p \in Exceptions : pend'[p].res = "open" => pend[p].res = "open"

LEMMA DwMaxIsNatural ==
    \A r \in Rules, v \in Versions : Mf(r, v).dwMax \in Nat
<1>1. \A r \in Rules, v \in Versions : Manifest[r][v] \in ManifestType
  BY ConstantsAssumption
<1>2. \A m \in ManifestType : m.dwMax \in Nat
  BY DEF ManifestType
<1>. QED BY <1>1, <1>2 DEF Mf

LEMMA InitCapped == Init => CapInv
<1> SUFFICES ASSUME Init, NEW r \in Rules, NEW v \in Versions
             PROVE  IsFiniteSet(OpenAt(r, v)) /\ Cardinality(OpenAt(r, v)) <= Mf(r, v).dwMax
  BY DEF CapInv
<1>1. \A q \in Exceptions : pend[q].res = "absent"
  BY DEF Init, NoException
<1>2. OpenAt(r, v) = {}
  BY <1>1 DEF OpenAt, ExceptionsAt, ExceptionsOf
<1>. QED BY <1>2, FS_EmptySet, DwMaxIsNatural

LEMMA NoneOpenedKeepsCap ==
    ASSUME CapInv, NoneOpened
    PROVE  CapInv'
<1> SUFFICES ASSUME NEW r \in Rules, NEW v \in Versions
             PROVE  IsFiniteSet(OpenAt(r, v)') /\ Cardinality(OpenAt(r, v)') <= Mf(r, v).dwMax
  BY DEF CapInv, Mf
<1>1. OpenAt(r, v)' \subseteq OpenAt(r, v)
  BY DEF OpenAt, NoneOpened, ExceptionsAt, ExceptionsOf
<1>2. IsFiniteSet(OpenAt(r, v)) /\ Cardinality(OpenAt(r, v)) <= Mf(r, v).dwMax
  BY DEF CapInv
<1> DEFINE S == OpenAt(r, v)
           T == OpenAt(r, v)'
<1> HIDE DEF S, T
<1>3. IsFiniteSet(T) /\ Cardinality(T) <= Cardinality(S)
  BY <1>1, <1>2, FS_Subset DEF S, T
<1>4. Cardinality(S) \in Nat /\ Cardinality(T) \in Nat /\ Mf(r, v).dwMax \in Nat
  BY <1>2, <1>3, FS_CardinalityType, DwMaxIsNatural DEF S
<1>. QED BY <1>2, <1>3, <1>4 DEF S, T

LEMMA EndedOpensNone == ConsentFrame => NoneOpened
BY DEF ConsentFrame, OnlyEnded, NoneOpened

LEMMA DecidedOpensNone ==
    ASSUME Typed,
           \/ \E p \in Exceptions : FireTimer(p) \/ \E allow \in BOOLEAN : OwnerResolve(p, allow)
           \/ ClaimTimer \/ ConsumeToken \/ DispatchFired
    PROVE  NoneOpened
<1> USE TypedFacts
<1>1. ASSUME NEW p \in Exceptions, FireTimer(p) PROVE NoneOpened
  BY <1>1 DEF FireTimer, NoneOpened, PendRow
<1>2. ASSUME NEW p \in Exceptions, NEW allow \in BOOLEAN, OwnerResolve(p, allow) PROVE NoneOpened
  <2>1. \E res \in {"allowed", "denied"} : pend' = [pend EXCEPT ![p].res = res]
    BY <1>2 DEF OwnerResolve
  <2>. QED BY <2>1 DEF NoneOpened, PendRow
<1>3. CASE ClaimTimer
  <2> DEFINE p == fired[acked + 1]
             x == [pend[p] EXCEPT !.timer = "applied", !.res = ClaimedResolution(p)]
  <2>1. p \in Exceptions /\ (pend' = pend \/ pend' = [pend EXCEPT ![p] = x])
    BY <1>3 DEF ClaimTimer, ConsState, Typed, Bound
  <2>2. ClaimedResolution(p) # "open"
    BY DEF ClaimedResolution, DefaultOf
  <2> HIDE DEF p
  <2>3. x.res # "open"
    BY <2>1, <2>2 DEF PendRow
  <2> HIDE DEF x
  <2>. QED BY <2>1, <2>3 DEF NoneOpened
<1>4. CASE ConsumeToken
  <2>1. \/ pend' = pend
        \/ pend' = [pend EXCEPT ![cons.cur] = [@ EXCEPT !.token = TRUE, !.dispatch = "claimed"]]
    BY <1>4 DEF ConsumeToken
  <2>2. cons.cur \in Exceptions
    BY <1>4 DEF ConsumeToken, Typed, Bound, Working
  <2> DEFINE x == [pend[cons.cur] EXCEPT !.token = TRUE, !.dispatch = "claimed"]
  <2>3. x.res = pend[cons.cur].res
    BY <2>2 DEF PendRow
  <2>4. pend' = pend \/ pend' = [pend EXCEPT ![cons.cur] = x]
    BY <2>1
  <2> HIDE DEF x
  <2>. QED BY <2>2, <2>3, <2>4 DEF NoneOpened
<1>5. CASE DispatchFired
  <2>1. pend' = pend
    BY ONLY <1>5 DEF DispatchFired
  <2>. QED BY <2>1 DEF NoneOpened
<1>. QED BY <1>1, <1>2, <1>3, <1>4, <1>5

(* A schedule opens an exception only below the reviewed limit. *)
LEMMA ScheduleCapped ==
    ASSUME Typed, CapInv, NEW a \in Attempts, ScheduleException(a)
    PROVE  CapInv'
<1> DEFINE s == att[a].rule
           w == att[a].version
           p == [rule |-> s, version |-> w, print |-> AttemptPrint[a]]
           x == [pend[p] EXCEPT !.res = "open", !.timer = "pending",
                                !.firesAt = att[a].now + Mf(s, w).dwTime]
<1> USE TypedFacts
<1>1. s \in Rules /\ w \in Versions /\ p \in Exceptions /\ p.rule = s /\ p.version = w
  BY ConstantsAssumption DEF ScheduleException, Exceptions, Typed, Bound
<1>2. \/ pend' = pend
      \/ pend[p].res = "open" /\ pend' = [pend EXCEPT ![p] = x]
      \/ pend[p].res = "absent" /\ ~AtCap(s, w) /\ pend' = [pend EXCEPT ![p] = x]
  <2>1. pend[p].res \in {"absent", "open", "allowed", "denied", "stale"}
    <3> HIDE DEF p
    <3>. QED BY <1>1 DEF PendRow
  <2>. QED BY <1>1, <2>1 DEF ScheduleException
<1> HIDE DEF p, x
<1>3. CASE pend' = pend \/ (pend[p].res = "open" /\ pend' = [pend EXCEPT ![p] = x])
  BY <1>1, <1>3, NoneOpenedKeepsCap DEF NoneOpened
<1>4. CASE pend[p].res = "absent" /\ ~AtCap(s, w) /\ pend' = [pend EXCEPT ![p] = x]
  <2> SUFFICES ASSUME NEW r \in Rules, NEW v \in Versions
               PROVE  IsFiniteSet(OpenAt(r, v)') /\ Cardinality(OpenAt(r, v)') <= Mf(r, v).dwMax
    BY DEF CapInv, Mf
  <2> DEFINE S == OpenAt(r, v)
             T == OpenAt(r, v)'
  <2>1. IsFiniteSet(S) /\ Cardinality(S) <= Mf(r, v).dwMax /\ Mf(r, v).dwMax \in Nat
    BY DwMaxIsNatural DEF CapInv
  <2>2. \A q \in Exceptions \ {p} : pend'[q] = pend[q]
    BY <1>4
  <2>3. CASE r = s /\ v = w
    <3>1. T \subseteq S \cup {p}
      BY <2>2 DEF OpenAt, ExceptionsAt, ExceptionsOf
    <3>2. ~(Cardinality(S) >= Mf(r, v).dwMax)
      BY <1>4, <2>3 DEF AtCap, Outstanding, OpenAt
    <3> HIDE DEF S, T
    <3>3. IsFiniteSet(S)
      BY <2>1
    <3>4. /\ IsFiniteSet(T) /\ Cardinality(T) <= Cardinality(S) + 1
          /\ Cardinality(S) \in Nat /\ Cardinality(T) \in Nat
      BY ONLY <3>1, <3>3, OneMore
    <3>5. Cardinality(T) <= Mf(r, v).dwMax
      BY ONLY <2>1, <3>2, <3>4
    <3>. QED BY <3>4, <3>5 DEF T
  <2>4. CASE r # s \/ v # w
    <3>1. p \notin ExceptionsAt(r, v)
      BY <1>1, <2>4 DEF ExceptionsAt, ExceptionsOf, p
    <3>2. T = S
      BY <2>2, <3>1 DEF OpenAt, ExceptionsAt, ExceptionsOf
    <3>. QED BY <2>1, <3>2
  <2>. QED BY <2>3, <2>4
<1>. QED BY <1>2, <1>3, <1>4

LEMMA CapStep ==
    ASSUME Typed, CapInv, [Next]_vars
    PROVE  Typed' /\ CapInv'
<1>1. CASE Next
  <2>1. Typed'
    BY <1>1, LifecycleTyped, MediationTyped, ConsumerTyped, EnvironmentTyped DEF Next
  <2>2. ASSUME NEW a \in Attempts, ScheduleException(a) PROVE CapInv'
    BY <2>2, ScheduleCapped
  <2>3. CASE \A a \in Attempts : ~ScheduleException(a)
    <3>1. ConsentFrame => NoneOpened
      BY EndedOpensNone
    <3>2. NoneOpened
      <4>1. CASE Lifecycle
        BY <3>1, <4>1, LifecycleConsents
      <4>2. CASE Tick \/ Restart
        BY <3>1, <4>2, ClockConsents
      <4>3. ASSUME NEW a \in Attempts, Mediation(a) PROVE NoneOpened
        BY <2>3, <3>1, <4>3, MediationConsents
      <4>4. CASE Consumer /\ ~ClaimTimer /\ ~ConsumeToken /\ ~DispatchFired
        BY <3>1, <4>4, HousekeepingConsents
      <4>5. CASE \/ \E p \in Exceptions : FireTimer(p) \/ \E allow \in BOOLEAN : OwnerResolve(p, allow)
                 \/ ClaimTimer \/ ConsumeToken \/ DispatchFired
        BY <4>5, DecidedOpensNone
      <4>6. CASE \E a \in Attempts : Mediation(a)
        BY <4>3, <4>6
      <4>7. CASE Consumer
        BY <4>4, <4>5, <4>7
      <4>. QED BY ONLY <1>1, <4>1, <4>2, <4>5, <4>6, <4>7 DEF Next
    <3>. QED BY <2>1, <3>2, NoneOpenedKeepsCap
  <2>. QED BY <2>1, <2>2, <2>3
<1>2. CASE UNCHANGED vars
  <2>1. Typed' /\ NoneOpened
    BY <1>2 DEF vars, Typed, TypeOK, Bound, NoneOpened
  <2>. QED BY <2>1, NoneOpenedKeepsCap
<1>. QED BY <1>1, <1>2

(* schedule_standing_rule_dark_window counts in the transaction that opens: however many
   requests race, a rule version never holds more open exceptions than it was reviewed for. *)
THEOREM ExceptionsStayCapped == Spec => []OutstandingCapped
<1>1. Init => Typed /\ CapInv
  BY InitTyped, InitCapped
<1>2. CapInv => OutstandingCapped
  BY DEF CapInv, OpenAt, OutstandingCapped, Outstanding
<1>. QED BY <1>1, <1>2, CapStep, PTL DEF Spec

-----------------------------------------------------------------------------
(* Windows *)

RowsIn(r, v, t, w) ==
    {u \in usage : /\ u.rule = r /\ u.version = v /\ u.res \in Attempts
                   /\ InWindow(u.at, t, w)}
WindowInv ==
    /\ IsFiniteSet(usage)
    /\ \A r \in Rules, v \in Versions, t \in Time :
          /\ Cardinality(RowsIn(r, v, t, Mf(r, v).quotaWin)) <= Mf(r, v).quota
          /\ Cardinality(RowsIn(r, v, t, Mf(r, v).rateWin)) <= Mf(r, v).rate

(* No row of a shell request is added. *)
NoRowAdded == \A u \in usage' : u \in usage \/ u.res \notin Attempts

LEMMA ManifestNumbers ==
    ASSUME NEW r \in Rules, NEW v \in Versions
    PROVE  /\ Mf(r, v).quota \in Nat /\ Mf(r, v).quotaWin \in Nat
           /\ Mf(r, v).rate \in Nat /\ Mf(r, v).rateWin \in Nat
<1>1. Manifest[r][v] \in ManifestType
  BY ConstantsAssumption
<1>2. \A m \in ManifestType : m.quota \in Nat /\ m.quotaWin \in Nat /\ m.rate \in Nat /\ m.rateWin \in Nat
  BY DEF ManifestType
<1>. QED BY <1>1, <1>2 DEF Mf

LEMMA InitWindows == Init => WindowInv
<1> SUFFICES ASSUME Init PROVE WindowInv
  OBVIOUS
<1>1. IsFiniteSet(usage) /\ \A r, v, t, w : RowsIn(r, v, t, w) = {}
  BY FS_EmptySet DEF Init, RowsIn
<1>2. \A n \in Nat : Cardinality({}) <= n
  BY FS_EmptySet
<1>3. ASSUME NEW r \in Rules, NEW v \in Versions, NEW t \in Time
      PROVE  /\ Cardinality(RowsIn(r, v, t, Mf(r, v).quotaWin)) <= Mf(r, v).quota
             /\ Cardinality(RowsIn(r, v, t, Mf(r, v).rateWin)) <= Mf(r, v).rate
  BY <1>1, <1>2, ManifestNumbers
<1>. QED BY <1>1, <1>3 DEF WindowInv

(* One window of one rule version, through what a step may do to the table. *)
LEMMA WindowShrinks ==
    ASSUME NEW r, NEW v, NEW t, NEW w, NEW n \in Nat,
           IsFiniteSet(usage), Cardinality(RowsIn(r, v, t, w)) <= n,
           RowsIn(r, v, t, w)' \subseteq RowsIn(r, v, t, w)
    PROVE  Cardinality(RowsIn(r, v, t, w)') <= n
<1> DEFINE S == RowsIn(r, v, t, w)
           T == RowsIn(r, v, t, w)'
<1>1. S \subseteq usage
  BY DEF RowsIn
<1> HIDE DEF S, T
<1>2. IsFiniteSet(S)
  BY <1>1, Fewer
<1>3. Cardinality(T) <= Cardinality(S) /\ Cardinality(S) \in Nat /\ Cardinality(T) \in Nat
  BY <1>2, Fewer DEF S, T
<1>. QED BY <1>3 DEF S, T

LEMMA RowsShrink ==
    ASSUME WindowInv, NoRowAdded, IsFiniteSet(usage')
    PROVE  WindowInv'
<1> SUFFICES ASSUME NEW r \in Rules, NEW v \in Versions, NEW t \in Time
             PROVE  /\ Cardinality(RowsIn(r, v, t, Mf(r, v).quotaWin)') <= Mf(r, v).quota
                    /\ Cardinality(RowsIn(r, v, t, Mf(r, v).rateWin)') <= Mf(r, v).rate
  BY DEF WindowInv, Mf
<1>1. \A w : RowsIn(r, v, t, w)' \subseteq RowsIn(r, v, t, w)
  BY DEF RowsIn, NoRowAdded
<1>. QED BY <1>1, WindowShrinks, ManifestNumbers DEF WindowInv

(* A reservation counted every row from its own clock value back, and found room. *)
LEMMA WindowHoldsReservation ==
    ASSUME Typed, NEW a \in Attempts, NEW r \in Rules, NEW v \in Versions, NEW t \in Time,
           NEW w \in Nat, NEW n \in Nat, NEW at \in Nat,
           IsFiniteSet(usage), Cardinality(RowsIn(r, v, t, w)) <= n,
           Used(r, at, w) < n,
           usage' = usage \cup {Reservation(a, r, v, at)}
    PROVE  Cardinality(RowsIn(r, v, t, w)') <= n
<1> DEFINE new == Reservation(a, r, v, at)
           S == {u \in usage : u.rule = r /\ u.at >= at - w}
           T == RowsIn(r, v, t, w)'
<1>0. new.at = at /\ t \in Int /\ \A u \in usage : u.at \in Nat
  BY TypedFacts, ConstantsAssumption DEF Reservation, UsageRow, Time
<1>1. CASE InWindow(at, t, w)
  <2>1. T \subseteq S \cup {new}
    BY <1>0, <1>1 DEF RowsIn, InWindow
  <2>2. S \subseteq usage /\ Cardinality(S) < n
    BY DEF Used
  <2> HIDE DEF S, T, new
  <2>3. IsFiniteSet(S)
    BY <2>2, Fewer
  <2>4. Cardinality(T) <= Cardinality(S) + 1 /\ Cardinality(S) \in Nat /\ Cardinality(T) \in Nat
    BY ONLY <2>1, <2>3, OneMore
  <2>5. Cardinality(T) <= n
    BY ONLY <2>2, <2>4, n \in Nat
  <2>. QED BY <2>5 DEF T
<1>2. CASE ~InWindow(at, t, w)
  <2>1. T \subseteq RowsIn(r, v, t, w)
    BY <1>0, <1>2 DEF RowsIn
  <2>. QED BY <2>1, WindowShrinks
<1>. QED BY <1>1, <1>2

LEMMA ReserveKeepsWindows ==
    ASSUME Typed, WindowInv, NEW a \in Attempts, NEW s \in Rules,
           rules[s].status = "active", ReserveOrSaturate(a, s)
    PROVE  WindowInv'
<1> DEFINE n == att[a].now
           x == rules[s].version
<1>1. x \in Versions /\ n \in Nat
  BY TypedFacts DEF Typed, Bound, AttState
<1>2. CASE usage' = usage
  BY <1>2, RowsShrink DEF NoRowAdded, WindowInv
<1>3. CASE Headroom(s, n) /\ usage' = usage \cup {Reservation(a, s, x, n)}
  <2>1. IsFiniteSet(usage) /\ IsFiniteSet(usage')
    BY <1>3, OneMore DEF WindowInv
  <2> SUFFICES ASSUME NEW r \in Rules, NEW v \in Versions, NEW t \in Time
               PROVE  /\ Cardinality(RowsIn(r, v, t, Mf(r, v).quotaWin)') <= Mf(r, v).quota
                      /\ Cardinality(RowsIn(r, v, t, Mf(r, v).rateWin)') <= Mf(r, v).rate
    BY <2>1 DEF WindowInv, Mf
  <2>2. /\ Cardinality(RowsIn(r, v, t, Mf(r, v).quotaWin)) <= Mf(r, v).quota
        /\ Cardinality(RowsIn(r, v, t, Mf(r, v).rateWin)) <= Mf(r, v).rate
    BY DEF WindowInv
  <2>3. CASE r = s /\ v = x
    <3>1. /\ Used(r, n, Mf(r, v).quotaWin) < Mf(r, v).quota
          /\ Used(r, n, Mf(r, v).rateWin) < Mf(r, v).rate
          /\ usage' = usage \cup {Reservation(a, r, v, n)}
      BY <1>3, <2>3 DEF Headroom, Current
    <3> HIDE DEF n
    <3>2. Cardinality(RowsIn(r, v, t, Mf(r, v).quotaWin)') <= Mf(r, v).quota
      BY ONLY Typed, a \in Attempts, r \in Rules, v \in Versions, t \in Time, <1>1, <2>1, <2>2, <3>1,
              ManifestNumbers, WindowHoldsReservation
    <3>3. Cardinality(RowsIn(r, v, t, Mf(r, v).rateWin)') <= Mf(r, v).rate
      BY ONLY Typed, a \in Attempts, r \in Rules, v \in Versions, t \in Time, <1>1, <2>1, <2>2, <3>1,
              ManifestNumbers, WindowHoldsReservation
    <3>. QED BY <3>2, <3>3
  <2>4. CASE ~(r = s /\ v = x)
    <3>1. \A w : RowsIn(r, v, t, w)' \subseteq RowsIn(r, v, t, w)
      BY <1>3, <2>4 DEF RowsIn, Reservation
    <3>. QED BY <2>1, <2>2, <3>1, WindowShrinks, ManifestNumbers
  <2>. QED BY <2>3, <2>4
<1>. QED BY <1>2, <1>3 DEF ReserveOrSaturate

(* A commit rewrites rows in place. *)
LEMMA CommitKeepsCount ==
    ASSUME NEW S, IsFiniteSet(S), NEW own, NEW T,
           T \subseteq (S \ own) \cup {[u EXCEPT !.status = "committed"] : u \in own \cap S}
    PROVE  IsFiniteSet(T) /\ Cardinality(T) <= Cardinality(S)
           /\ Cardinality(T) \in Nat /\ Cardinality(S) \in Nat
<1> DEFINE g(u) == IF u \in own THEN [u EXCEPT !.status = "committed"] ELSE u
           f == [u \in S |-> g(u)]
           I == {g(u) : u \in S}
<1>1. T \subseteq I
  BY DEF g
<1>2. f \in Surjection(S, I)
  BY DEF Surjection
<1> HIDE DEF f, I
<1>3. IsFiniteSet(I) /\ Cardinality(I) <= Cardinality(S)
  BY <1>2, FS_Surjection
<1>4. Cardinality(S) \in Nat
  BY FS_CardinalityType
<1>5. IsFiniteSet(T) /\ Cardinality(T) <= Cardinality(I) /\ Cardinality(I) \in Nat /\ Cardinality(T) \in Nat
  BY <1>1, <1>3, Fewer
<1>. QED BY <1>3, <1>4, <1>5

LEMMA FinalizeKeepsWindows ==
    ASSUME Typed, WindowInv, NEW id, NEW s \in Rules, NEW x \in Versions, NEW n \in Nat,
           NEW refresh \in BOOLEAN, Finalize(id, s, x, n, refresh)
    PROVE  WindowInv'
<1> DEFINE own == {u \in Reserved(id) : u.rule = s /\ u.version = x}
<1>1. CASE usage' = usage
  BY <1>1, RowsShrink DEF NoRowAdded, WindowInv
<1>2. CASE usage' = Cancelled(id)
  <2>1. IsFiniteSet(usage')
    BY <1>2, Fewer DEF Cancelled, WindowInv
  <2>. QED BY <1>2, <2>1, RowsShrink DEF NoRowAdded, Cancelled
<1>3. CASE usage' = (usage \ own) \cup {[u EXCEPT !.status = "committed"] : u \in own}
  <2>0. own \subseteq usage /\ usage \subseteq UsageRow /\ IsFiniteSet(usage)
    BY TypedFacts DEF Reserved, WindowInv
  <2> HIDE DEF own
  <2>1. usage' \subseteq (usage \ own) \cup {[u EXCEPT !.status = "committed"] : u \in own \cap usage}
    BY <1>3, <2>0
  <2>2. IsFiniteSet(usage')
    BY <2>0, <2>1, CommitKeepsCount
  <2>3. ASSUME NEW r \in Rules, NEW v \in Versions, NEW t \in Time, NEW w, NEW q \in Nat,
               Cardinality(RowsIn(r, v, t, w)) <= q
        PROVE  Cardinality(RowsIn(r, v, t, w)') <= q
    <3> DEFINE S == RowsIn(r, v, t, w)
               T == RowsIn(r, v, t, w)'
    <3>1. \A u \in own : LET c == [u EXCEPT !.status = "committed"] IN
             c.rule = u.rule /\ c.version = u.version /\ c.res = u.res /\ c.at = u.at
      BY <2>0 DEF UsageRow
    <3>2. T \subseteq (S \ own) \cup {[u EXCEPT !.status = "committed"] : u \in own \cap S}
      <4> SUFFICES ASSUME NEW y \in T
                   PROVE  y \in S \ own \/ \E u \in own \cap S : y = [u EXCEPT !.status = "committed"]
        OBVIOUS
      <4>1. y \in usage' /\ y.rule = r /\ y.version = v /\ y.res \in Attempts /\ InWindow(y.at, t, w)
        BY DEF RowsIn
      <4>2. CASE y \in usage \ own
        BY <4>1, <4>2 DEF RowsIn
      <4>3. ASSUME NEW u \in own, y = [u EXCEPT !.status = "committed"]
            PROVE  u \in S
        BY <2>0, <3>1, <4>1, <4>3 DEF RowsIn
      <4>. QED BY <2>1, <4>1, <4>2, <4>3
    <3>3. S \subseteq usage
      BY DEF RowsIn
    <3> HIDE DEF S, T
    <3>4. IsFiniteSet(S)
      BY <2>0, <3>3, Fewer
    <3>5. Cardinality(T) <= Cardinality(S) /\ Cardinality(T) \in Nat /\ Cardinality(S) \in Nat
      BY <3>2, <3>4, CommitKeepsCount
    <3>. QED BY <2>3, <3>5 DEF S, T
  <2> SUFFICES ASSUME NEW r \in Rules, NEW v \in Versions, NEW t \in Time
               PROVE  /\ Cardinality(RowsIn(r, v, t, Mf(r, v).quotaWin)') <= Mf(r, v).quota
                      /\ Cardinality(RowsIn(r, v, t, Mf(r, v).rateWin)') <= Mf(r, v).rate
    BY <2>2 DEF WindowInv, Mf
  <2>. QED BY <2>3, ManifestNumbers DEF WindowInv
<1>. QED BY <1>1, <1>2, <1>3 DEF Finalize

-----------------------------------------------------------------------------
(* Rows and the mediation they belong to *)

(* Before its consultation a mediation holds no row; until its settlement its rows are
   of the rule version it consulted; after it a reserved row is of an unknown delivery. *)
RowsOf(a) ==
    \A u \in usage : u.res = a =>
        /\ att[a].pc \notin {"idle", "gated", "saturated"}
        /\ att[a].pc \in {"reserved", "dispatching", "settling"} =>
              u.rule = att[a].rule /\ u.version = att[a].version
        /\ att[a].pc = "done" /\ u.status = "reserved" => att[a].disp = "DeliveryUnknown"
LedgerInv == WindowInv /\ \A a \in Attempts : RowsOf(a)

(* A step of one mediation, and a step of none. *)
OthersKept(a) ==
    /\ \A b \in Attempts \ {a} : att'[b] = att[b]
    /\ \A u \in usage' : u \in usage \/ u.res = a

LEMMA OthersKeepRows ==
    ASSUME \A b \in Attempts : RowsOf(b), NEW a \in Attempts, OthersKept(a), RowsOf(a)'
    PROVE  \A b \in Attempts : RowsOf(b)'
<1> SUFFICES ASSUME NEW b \in Attempts, b # a PROVE RowsOf(b)'
  OBVIOUS
<1>. QED BY DEF OthersKept, RowsOf

LEMMA NoRowAddedKeepsRows ==
    ASSUME \A b \in Attempts : RowsOf(b), NoRowAdded, att' = att
    PROVE  \A b \in Attempts : RowsOf(b)'
BY DEF NoRowAdded, RowsOf

LEMMA EndKeeps ==
    ASSUME Typed, NEW a \in Attempts, NEW pc \in {"done", "lost"}, End(a, pc)
    PROVE  /\ \A b \in Attempts \ {a} : att'[b] = att[b]
           /\ att'[a].pc = pc /\ att'[a].disp = att[a].disp
<1>1. att' = [att EXCEPT ![a] = [NoMediation EXCEPT !.pc = pc, !.disp = att[a].disp]]
  BY DEF End
<1> DEFINE x == [NoMediation EXCEPT !.pc = pc, !.disp = att[a].disp]
<1>2. x.pc = pc /\ x.disp = att[a].disp
  BY DEF NoMediation
<1> HIDE DEF x
<1>3. att \in [Attempts -> AttState]
  BY TypedFacts
<1>4. att' = [att EXCEPT ![a] = x]
  BY <1>1 DEF x
<1>. QED BY <1>2, <1>3, <1>4

(* A consultation reserves from an active rule, or takes no row. *)
LEMMA ConsultKinds ==
    ASSUME Typed, NEW a \in Attempts, ConsultByAction(a) \/ ConsultByScope(a)
    PROVE  /\ att[a].pc = "gated"
           /\ \/ \E r \in Rules : rules[r].status = "active" /\ ReserveOrSaturate(a, r)
              \/ End(a, "done") /\ usage' = usage
<1>1. CASE ConsultByAction(a)
  BY <1>1 DEF ConsultByAction, tables, ActiveFor
<1>2. CASE ConsultByScope(a)
  <2> DEFINE live    == ActiveFor(ActionOf(a))
             lapsed  == {r \in live : Lapsed(r, att[a].now)}
             matches == {r \in live \ lapsed : Current(r).scope = ScopeOf(a)}
  <2>1. \/ End(a, "done") /\ usage' = usage
        \/ (Cardinality(matches) = 1 /\ \A r \in matches : ReserveOrSaturate(a, r))
    BY <1>2 DEF ConsultByScope, tables
  <2>2. matches \subseteq Rules /\ \A r \in matches : rules[r].status = "active"
    BY DEF ActiveFor
  <2>3. att[a].pc = "gated"
    BY <1>2 DEF ConsultByScope
  <2> HIDE DEF matches
  <2>4. Cardinality(matches) = 1 => matches # {}
    BY ONLY FS_EmptySet
  <2>. QED BY ONLY <2>1, <2>2, <2>3, <2>4
<1>. QED BY <1>1, <1>2

(* The rows a consultation may take, and the rule it writes down beside them. *)
LEMMA ReserveKeepsRows ==
    ASSUME Typed, NEW a \in Attempts, NEW r \in Rules, ReserveOrSaturate(a, r),
           att[a].pc = "gated", RowsOf(a)
    PROVE  OthersKept(a) /\ RowsOf(a)'
<1> DEFINE ok == Headroom(r, att[a].now)
           new == Reservation(a, r, rules[r].version, att[a].now)
           pc == IF ok THEN "reserved" ELSE "saturated"
           x == [att[a] EXCEPT !.pc = pc, !.rule = r, !.version = rules[r].version]
<1>0. att \in [Attempts -> AttState] /\ att[a] \in AttState
  BY TypedFacts
<1>1. \A u \in usage : u.res # a
  BY DEF RowsOf
<1>2. new.res = a /\ new.rule = r /\ new.version = rules[r].version
  BY DEF Reservation
<1>3. \/ ok /\ usage' = usage \cup {new} /\ att' = [att EXCEPT ![a] = x]
      \/ ~ok /\ usage' = usage /\ (att' = [att EXCEPT ![a] = x] \/ End(a, "done"))
  BY DEF ReserveOrSaturate
<1>4. x.pc = pc /\ x.rule = r /\ x.version = rules[r].version
  BY <1>0 DEF AttState
<1>5. CASE ok /\ usage' = usage \cup {new} /\ att' = [att EXCEPT ![a] = x]
  <2>1. pc = "reserved"
    BY <1>5
  <2> HIDE DEF ok, pc, new, x
  <2>2. att'[a] = x /\ \A b \in Attempts \ {a} : att'[b] = att[b]
    BY <1>0, <1>5
  <2>3. OthersKept(a)
    BY <1>2, <1>5, <2>2 DEF OthersKept
  <2>4. \A u \in usage' : u.res = a => u = new
    BY <1>1, <1>5
  <2>. QED BY <1>2, <1>4, <2>1, <2>2, <2>3, <2>4 DEF RowsOf
<1>6. CASE usage' = usage /\ (att' = [att EXCEPT ![a] = x] \/ End(a, "done"))
  <2> HIDE DEF ok, pc, new, x
  <2>1. \A b \in Attempts \ {a} : att'[b] = att[b]
    BY <1>0, <1>6, EndKeeps
  <2>. QED BY <1>1, <1>6, <2>1 DEF RowsOf, OthersKept
<1>. QED BY <1>3, <1>5, <1>6

(* Settlement by the typed disposition: committed, given back, or kept as unknown. *)
LEMMA SettleKeepsRows ==
    ASSUME Typed, NEW a \in Attempts, Settle(a), RowsOf(a)
    PROVE  OthersKept(a) /\ RowsOf(a)'
<1> DEFINE r == att[a].rule
           v == att[a].version
           own == {u \in Reserved(a) : u.rule = r /\ u.version = v}
<1>1. /\ \A b \in Attempts \ {a} : att'[b] = att[b]
      /\ att'[a].pc = "done" /\ att'[a].disp = att[a].disp /\ att[a].pc = "settling"
  BY EndKeeps DEF Settle
<1>2. \A u \in usage : u.res = a => u.rule = r /\ u.version = v
  BY <1>1 DEF RowsOf
<1>3. own = Reserved(a) /\ own \subseteq usage /\ usage \subseteq UsageRow
  BY <1>2, TypedFacts DEF Reserved
<1>4. CASE usage' = Cancelled(a)
  <2>1. \A u \in usage' : u \in usage /\ (u.res = a => u.status # "reserved")
    BY <1>4 DEF Cancelled, Reserved
  <2>. QED BY <1>1, <2>1 DEF RowsOf, OthersKept
<1>5. CASE usage' = (usage \ own) \cup {[u EXCEPT !.status = "committed"] : u \in own}
  <2>1. \A u \in own : LET c == [u EXCEPT !.status = "committed"] IN
           c.res = a /\ c.status = "committed"
    BY <1>3 DEF UsageRow, Reserved
  <2>2. \A u \in usage \ own : u.res = a => u.status # "reserved"
    BY <1>3 DEF Reserved
  <2> HIDE DEF own
  <2>3. \A u \in usage' : (u \in usage \/ u.res = a) /\ (u.res = a => u.status # "reserved")
    BY <1>5, <2>1, <2>2
  <2>. QED BY <1>1, <2>3 DEF RowsOf, OthersKept
<1>6. CASE usage' = usage /\ (own = {} \/ att[a].disp = "DeliveryUnknown")
  <2>1. own = {} => \A u \in usage : u.res = a => u.status # "reserved"
    BY <1>3 DEF Reserved
  <2>. QED BY <1>1, <1>6, <2>1 DEF RowsOf, OthersKept
<1>. QED BY <1>4, <1>5, <1>6 DEF Settle, Finalize

LEMMA MediationLedger ==
    ASSUME Typed, LedgerInv, NEW a \in Attempts, Mediation(a)
    PROVE  LedgerInv'
<1>0. WindowInv /\ \A b \in Attempts : RowsOf(b)
  BY DEF LedgerInv
<1>1. CASE ConsultByAction(a) \/ ConsultByScope(a)
  <2>1. CASE \E r \in Rules : rules[r].status = "active" /\ ReserveOrSaturate(a, r)
    <3>1. PICK r \in Rules : rules[r].status = "active" /\ ReserveOrSaturate(a, r)
      BY <2>1
    <3>2. WindowInv'
      BY <1>0, <3>1, ReserveKeepsWindows
    <3>3. att[a].pc = "gated"
      BY <1>1, ConsultKinds
    <3>4. OthersKept(a) /\ RowsOf(a)'
      BY <1>0, <3>1, <3>3, ReserveKeepsRows
    <3>. QED BY <1>0, <3>2, <3>4, OthersKeepRows DEF LedgerInv
  <2>2. CASE End(a, "done") /\ usage' = usage
    <3>1. att[a].pc = "gated"
      BY <1>1, ConsultKinds
    <3>2. OthersKept(a) /\ RowsOf(a)'
      BY <1>0, <2>2, <3>1, EndKeeps DEF RowsOf, OthersKept
    <3>3. WindowInv'
      BY <1>0, <2>2, RowsShrink DEF NoRowAdded, WindowInv
    <3>. QED BY <1>0, <3>2, <3>3, OthersKeepRows DEF LedgerInv
  <2>. QED BY <1>1, <2>1, <2>2, ConsultKinds
<1>2. CASE Settle(a)
  <2>1. OthersKept(a) /\ RowsOf(a)'
    BY <1>0, <1>2, SettleKeepsRows
  <2>2. att[a].rule \in Rules /\ att[a].version \in Versions /\ att[a].now \in Nat
    BY <1>2, TypedFacts DEF Settle, Typed, Bound, AttState
  <2>3. WindowInv'
    <3>1. CASE Finalize(a, att[a].rule, att[a].version, att[a].now, TRUE)
      BY ONLY Typed, <1>0, <2>2, <3>1, FinalizeKeepsWindows
    <3>2. CASE usage' = usage
      BY <1>0, <3>2, RowsShrink DEF NoRowAdded, WindowInv
    <3>3. CASE usage' = Cancelled(a)
      <4>1. IsFiniteSet(usage')
        BY <1>0, <3>3, Fewer DEF Cancelled, WindowInv
      <4>. QED BY <1>0, <3>3, <4>1, RowsShrink DEF NoRowAdded, Cancelled
    <3>. QED BY <1>2, <3>1, <3>2, <3>3 DEF Settle
  <2>. QED BY <1>0, <2>1, <2>3, OthersKeepRows DEF LedgerInv
<1>3. CASE ~(ConsultByAction(a) \/ ConsultByScope(a) \/ Settle(a))
  <2>0. att \in [Attempts -> AttState] /\ att[a] \in AttState
    BY TypedFacts
  <2>1. usage' = usage
    <3>1. CASE Dispatch(a)
      BY ONLY <3>1 DEF Dispatch, tables
    <3>2. CASE Receive(a) \/ ScheduleException(a) \/ AdmitEffect(a) \/ RefuseBeforeEffect(a) \/ SettleFails(a)
      BY ONLY <3>2 DEF Receive, ScheduleException, AdmitEffect, RefuseBeforeEffect, SettleFails, tables
    <3>. QED BY <1>3, <3>1, <3>2 DEF Mediation
  <2>2. /\ \A b \in Attempts \ {a} : att'[b] = att[b]
        /\ \/ att[a].pc \in {"idle", "gated", "saturated"}
           \/ att'[a].pc = "lost"
           \/ /\ att[a].pc \in {"reserved", "dispatching"} /\ att'[a].pc \in {"dispatching", "settling"}
              /\ att'[a].rule = att[a].rule /\ att'[a].version = att[a].version
    <3>1. CASE Receive(a) \/ ScheduleException(a)
      <4>1. \A b \in Attempts \ {a} : att'[b] = att[b]
        BY <2>0, <3>1, EndKeeps DEF Receive, ScheduleException
      <4>2. att[a].pc \in {"idle", "saturated"}
        BY <3>1 DEF Receive, ScheduleException
      <4>. QED BY <4>1, <4>2
    <3>2. CASE AdmitEffect(a)
      BY <2>0, <3>2 DEF AdmitEffect, AttState
    <3>3. CASE RefuseBeforeEffect(a)
      BY <2>0, <3>3 DEF RefuseBeforeEffect, AttState
    <3>4. CASE Dispatch(a)
      <4>1. PICK d \in Dispositions :
               /\ att[a].pc = "dispatching"
               /\ att' = [att EXCEPT ![a] = [@ EXCEPT !.pc = "settling", !.disp = d]]
        BY ONLY <3>4, Zenon DEF Dispatch
      <4>. QED BY <2>0, <4>1 DEF AttState
    <3>5. CASE SettleFails(a)
      BY <3>5, EndKeeps DEF SettleFails
    <3>. QED BY <1>3, <3>1, <3>2, <3>3, <3>4, <3>5 DEF Mediation
  <2>3. OthersKept(a) /\ RowsOf(a)'
    BY <1>0, <2>1, <2>2 DEF OthersKept, RowsOf
  <2>4. WindowInv'
    BY <1>0, <2>1, RowsShrink DEF NoRowAdded, WindowInv
  <2>. QED BY <1>0, <2>3, <2>4, OthersKeepRows DEF LedgerInv
<1>. QED BY <1>1, <1>2, <1>3

(* The consumer reserves and settles for exceptions, which are no shell requests. *)
LEMMA ConsumerLedger ==
    ASSUME Typed, LedgerInv, Consumer
    PROVE  LedgerInv'
<1>0. WindowInv /\ \A b \in Attempts : RowsOf(b)
  BY DEF LedgerInv
<1> SUFFICES NoRowAdded /\ WindowInv' /\ att' = att
  BY <1>0, NoRowAddedKeepsRows DEF LedgerInv
<1>1. CASE ConsumeToken
  <2> DEFINE p == cons.cur
             new == Reservation(p, p.rule, p.version, cons.now)
  <2>1. (usage' = usage \/ usage' = usage \cup {new}) /\ att' = att
    BY <1>1 DEF ConsumeToken, ConsumerOnly
  <2>2. p \in Exceptions
    BY <1>1 DEF ConsumeToken, Typed, Bound, Working
  <2>3. new.res \notin Attempts
    BY <2>2, IdsAssumption DEF Reservation
  <2> HIDE DEF new
  <2>4. NoRowAdded
    BY <2>1, <2>3 DEF NoRowAdded
  <2>5. IsFiniteSet(usage')
    <3>1. IsFiniteSet(usage) /\ usage' \subseteq usage \cup {new}
      BY <1>0, <2>1 DEF WindowInv
    <3>. QED BY <3>1, OneMore
  <2>. QED BY <1>0, <2>1, <2>4, <2>5, RowsShrink
<1>2. CASE SettleFired
  <2> DEFINE p == cons.cur
  <2>1. p \in Exceptions /\ p.rule \in Rules /\ p.version \in Versions /\ cons.now \in Nat
    BY <1>2, TypedFacts DEF SettleFired, Working, Exceptions, ConsState, Typed, Bound
  <2>2. att' = att /\ p \notin Attempts
    BY <1>2, <2>1, IdsAssumption DEF SettleFired, ConsumerOnly
  <2>3. CASE Finalize(p, p.rule, p.version, cons.now, FALSE)
    <3>1. \A u \in usage' : u \in usage \/ u.res = p
      BY ONLY Typed, <2>1, <2>3, FinalizeTypes
    <3>2. WindowInv'
      BY ONLY Typed, <1>0, <2>1, <2>3, FinalizeKeepsWindows
    <3>. QED BY <2>2, <3>1, <3>2 DEF NoRowAdded
  <2>4. CASE usage' = usage
    BY <1>0, <2>2, <2>4, RowsShrink DEF NoRowAdded, WindowInv
  <2>5. CASE usage' = Cancelled(p)
    <3>1. IsFiniteSet(usage')
      BY <1>0, <2>5, Fewer DEF Cancelled, WindowInv
    <3>2. NoRowAdded
      BY <2>5 DEF NoRowAdded, Cancelled
    <3>. QED BY <1>0, <2>2, <3>1, <3>2, RowsShrink
  <2>. QED BY <1>2, <2>3, <2>4, <2>5 DEF SettleFired
<1>3. CASE ~ConsumeToken /\ ~SettleFired
  <2>1. UNCHANGED <<usage, att>>
    <3>1. CASE Ack
      BY ONLY <3>1 DEF Ack, tables
    <3>2. CASE \E p \in Exceptions : NotifyRefused(p) \/ SurfaceClaimed(p) \/ RedriveNext(p)
      BY ONLY <3>2 DEF NotifyRefused, SurfaceClaimed, RedriveNext, ConsumerOnly
    <3>3. CASE DispatchFired
      BY ONLY <3>3, Zenon DEF DispatchFired, ConsumerOnly
    <3>4. CASE \/ BeginRedrive \/ BeginReplay \/ ClaimTimer \/ EndRound \/ MediateFired
               \/ MediationFails \/ RefuseForGood \/ AuditFired \/ SettleFiredFails
               \/ MarkAttempted \/ RearmToken
      BY ONLY <3>4 DEF BeginRedrive, BeginReplay, ClaimTimer, EndRound, MediateFired,
              MediationFails, RefuseForGood, AuditFired, SettleFiredFails, MarkAttempted,
              RearmToken, ConsumerOnly
    <3>. QED BY <1>3, <3>1, <3>2, <3>3, <3>4 DEF Consumer
  <2>. QED BY <1>0, <2>1, RowsShrink DEF NoRowAdded, WindowInv
<1>. QED BY <1>1, <1>2, <1>3

LEMMA LedgerStep ==
    ASSUME Typed, LedgerInv, [Next]_vars
    PROVE  Typed' /\ LedgerInv'
<1>0. WindowInv /\ \A b \in Attempts : RowsOf(b)
  BY DEF LedgerInv
<1>1. CASE Next
  <2>1. Typed'
    BY <1>1, LifecycleTyped, MediationTyped, ConsumerTyped, EnvironmentTyped DEF Next
  <2>2. CASE UNCHANGED <<usage, att>>
    BY <1>0, <2>1, <2>2, RowsShrink, NoRowAddedKeepsRows DEF NoRowAdded, WindowInv, LedgerInv
  <2>3. CASE \E a \in Attempts : Mediation(a)
    BY <2>1, <2>3, MediationLedger
  <2>4. CASE Consumer
    BY <2>1, <2>4, ConsumerLedger
  <2>5. CASE Restart
    <3>1. usage' = usage
      BY ONLY <2>5, Zenon DEF Restart
    <3>2. \A b \in Attempts : att'[b] = att[b] \/ att'[b].pc = "lost"
      <4> DEFINE x(b) == [NoMediation EXCEPT !.pc = "lost", !.disp = att[b].disp]
      <4>1. \A b \in Attempts : x(b).pc = "lost"
        BY DEF NoMediation
      <4>2. att' = [b \in Attempts |-> IF att[b].pc \in {"idle", "done"} THEN att[b] ELSE x(b)]
        BY ONLY <2>5, Zenon DEF Restart
      <4> HIDE DEF x
      <4>. QED BY ONLY <4>1, <4>2
    <3>3. \A b \in Attempts : RowsOf(b)'
      BY <1>0, <3>1, <3>2 DEF RowsOf
    <3>4. WindowInv'
      BY <1>0, <3>1, RowsShrink DEF NoRowAdded, WindowInv
    <3>. QED BY <2>1, <3>3, <3>4 DEF LedgerInv
  <2>6. CASE Lifecycle
    <3>1. UNCHANGED <<usage, att>>
      BY <2>6 DEF Lifecycle, Activate, RevokeRule, PauseRule, ResumeRule, LapseOnLookup, EraseCounterparty
    <3>. QED BY <2>2, <3>1
  <2>7. CASE Tick \/ \E p \in Exceptions : FireTimer(p) \/ \E allow \in BOOLEAN : OwnerResolve(p, allow)
    <3>1. UNCHANGED <<usage, att>>
      BY <2>7 DEF Tick, FireTimer, OwnerResolve, tables
    <3>. QED BY <2>2, <3>1
  <2>. QED BY <1>1, <2>3, <2>4, <2>5, <2>6, <2>7 DEF Next
<1>2. CASE UNCHANGED vars
  <2>1. Typed' /\ UNCHANGED <<usage, att>>
    BY <1>2 DEF vars, Typed, TypeOK, Bound
  <2>. QED BY <1>0, <2>1, RowsShrink, NoRowAddedKeepsRows DEF NoRowAdded, WindowInv, LedgerInv
<1>. QED BY <1>1, <1>2

(* consult_and_reserve_* and settle_reservations: however consultations interleave, each
   with the clock value it captured, no window of a rule version holds more rows than its
   quota or its rate; and a mediation that ended leaves a reserved row only where the
   delivery is unknown. *)
THEOREM BudgetsHold == Spec => []WindowsAreSound
<1>1. Init => Typed /\ LedgerInv
  <2>1. Init => \A a \in Attempts : RowsOf(a)
    BY DEF Init, RowsOf
  <2>. QED BY <2>1, InitTyped, InitWindows DEF LedgerInv
<1>2. Typed /\ LedgerInv => WindowsAreSound
  <2>1. WindowInv => WindowNeverOverReserved
    BY DEF WindowInv, RowsIn, WindowNeverOverReserved
  <2>2. (\A a \in Attempts : RowsOf(a)) => NoLeakedReservation
    BY DEF RowsOf, NoLeakedReservation
  <2>. QED BY <2>1, <2>2 DEF LedgerInv, WindowsAreSound
<1>. QED BY <1>1, <1>2, LedgerStep, PTL DEF Spec
================================================================================
