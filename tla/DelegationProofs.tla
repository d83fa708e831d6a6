-------------------------- MODULE DelegationProofs --------------------------
(***************************************************************************)
(* Proofs about delegation, for every catalog, every root authority and    *)
(* every depth of commission.                                              *)
(*                                                                         *)
(* The gate looks at one grant at a time, so "a child is no wider than its *)
(* parent" must follow from what minting leaves in the child.  Attenuates  *)
(* says what that is; GateIsMonotone shows it is enough for one decision,  *)
(* and Lineage that it holds between every stored grant and its parent.    *)
(***************************************************************************)
EXTENDS Delegation, TLAPS

(* c carries the root authority of p, and every restriction of p. *)
Attenuates(c, p) ==
    /\ RootAuthority(c) = RootAuthority(p)
    /\ c.tokens \subseteq p.tokens
    /\ c.mode = p.mode
    /\ FlattenedCaveats(p) \subseteq FlattenedCaveats(c)

(* What the last hop of every worker's chain, and so its chain, contains. *)
Muted(g) ==
    /\ g.tokens = {}
    /\ EgressClassAllowlist({}) \in FlattenedCaveats(g)
    /\ OutputChannelAllowlist({}) \in FlattenedCaveats(g)
    /\ \E S \in SUBSET Actions : /\ ActionAllowlist(S) \in FlattenedCaveats(g)
                                 /\ S \cap NonDelegable = {}

Lineage ==
    /\ DgTypeOK
    /\ \A i \in DgStored :
          /\ grants[i].id = i
          /\ i \in issued
          /\ grants[i].parent \in issued \cup {NoValue}
          /\ VerifyMac(grants[i])
          /\ grants[i].parent # NoValue => Muted(grants[i])
    /\ \A c, p \in DgStored : ChildOf(c, p) => Attenuates(grants[c], grants[p])

------------------------------------------------------------------------------
(* One decision *)

(* A nonempty set of row numbers has a least one. *)
LEMMA LeastRow ==
    ASSUME NEW S \in SUBSET (1..14), S # {}
    PROVE  \E i \in S : \A j \in S : i <= j
<1>0. \A i \in S : i \in 1..14
  OBVIOUS
<1> SUFFICES ASSUME \A i \in S : \E j \in S : j < i  PROVE FALSE
  BY <1>0
<1>1. 1 \notin S  OBVIOUS
<1>2. 2 \notin S  BY <1>1
<1>3. 3 \notin S  BY <1>1, <1>2
<1>4. 4 \notin S  BY <1>1, <1>2, <1>3
<1>5. 5 \notin S  BY <1>1, <1>2, <1>3, <1>4
<1>6. 6 \notin S /\ 7 \notin S /\ 8 \notin S
  BY <1>1, <1>2, <1>3, <1>4, <1>5
<1>7. 9 \notin S /\ 10 \notin S /\ 11 \notin S
  BY <1>1, <1>2, <1>3, <1>4, <1>5, <1>6
<1>8. 12 \notin S /\ 13 \notin S /\ 14 \notin S
  BY <1>1, <1>2, <1>3, <1>4, <1>5, <1>6, <1>7
<1>9. PICK k \in S : k \in 1..14
  BY <1>0
<1>10. \/ k = 1 \/ k = 2 \/ k = 3 \/ k = 4 \/ k = 5
       \/ k = 6 \/ k = 7 \/ k = 8
       \/ k = 9 \/ k = 10 \/ k = 11
       \/ k = 12 \/ k = 13 \/ k = 14
  BY <1>9
<1> QED BY <1>1, <1>2, <1>3, <1>4, <1>5, <1>6, <1>7, <1>8, <1>9, <1>10

(* The owner has decided on the request, and the decision is consulted. *)
Decided(g, req, origin, appr) ==
    /\ origin = "shell"
    /\ EffectivelyApprovalRequired(g, req.action)
    /\ appr # NoValue

LEMMA DenialShape ==
    ASSUME NEW g, NEW req, NEW origin, NEW appr, NEW tok, NEW t
    PROVE  /\ DOMAIN Denials(g, req, origin, appr, tok, t) = 1..14
           /\ \A i \in 1..14 :
                 Denials(g, req, origin, appr, tok, t)[i].why \in DenialReasons
<1>1. DOMAIN Denials(g, req, origin, appr, tok, t) = 1..14
  BY DEF Denials
<1>2. \A i \in 1..14 :
        Denials(g, req, origin, appr, tok, t)[i].why \in DenialReasons
  BY DEF Denials, DenialReasons
<1> QED BY <1>1, <1>2

Row(g, req, origin, appr, tok, t, i) == Denials(g, req, origin, appr, tok, t)[i].when

(* What each row of the denial table says. *)
LEMMA DenialRows ==
    ASSUME NEW g, NEW req, NEW origin, NEW appr, NEW tok, NEW t
    PROVE  LET D(i) == Row(g, req, origin, appr, tok, t, i)
           IN /\ D(1) <=>
                 (~ChainValid(g) \/ ~BindingsValid(g))
              /\ D(2) <=>
                 (IsExpired(g, t))
              /\ D(3) <=>
                 (req.action \notin Catalog)
              /\ D(4) <=>
                 (origin = "shell" /\ req.action \in g.denied)
              /\ D(5) <=>
                 (/\ req.action \in Declared /\ EgressClassOf[req.action] # NoValue
                  /\ ~EffectivelyAllowsClass(g, EgressClassOf[req.action]))
              /\ D(6) <=>
                 (/\ req.action \in Declared /\ req.action \in Routed
                  /\ \/ ChannelsOf[req.action] = {}
                     \/ \E x \in ChannelsOf[req.action] : ~EffectivelyAllowsChannel(g, x))
              /\ D(7) <=>
                 (req.action \notin Declared)
              /\ D(8) <=>
                 (~HonoursBindings(g, req))
              /\ D(9) <=>
                 (origin # "shell" /\ req.action \notin KernelOrigin)
              /\ D(10) <=>
                 (/\ origin = "shell" /\ TokenTypeOf[req.action] # NoValue
                  /\ ~SelectionTokenValid(g, req, tok, t))
              /\ D(11) <=>
                 (Decided(g, req, origin, appr) /\ t >= appr.expires)
              /\ D(12) <=>
                 (Decided(g, req, origin, appr) /\ appr.decision # "approved")
              /\ D(13) <=>
                 (Decided(g, req, origin, appr) /\ ~DigestsMatch(req, appr))
              /\ D(14) <=>
                 (/\ origin = "shell"
                  /\ ~EffectivelyApprovalRequired(g, req.action)
                  /\ ~EffectivelyAllows(g, req.action))
<1> DEFINE D(i) == Row(g, req, origin, appr, tok, t, i)
<1>1. D(1) <=>
                 (~ChainValid(g) \/ ~BindingsValid(g))
  BY DEF Row, Denials, Decided
<1>2. D(2) <=>
                 (IsExpired(g, t))
  BY DEF Row, Denials, Decided
<1>3. D(3) <=>
                 (req.action \notin Catalog)
  BY DEF Row, Denials, Decided
<1>4. D(4) <=>
                 (origin = "shell" /\ req.action \in g.denied)
  BY DEF Row, Denials, Decided
<1>5. D(5) <=>
                 (/\ req.action \in Declared /\ EgressClassOf[req.action] # NoValue
                  /\ ~EffectivelyAllowsClass(g, EgressClassOf[req.action]))
  BY DEF Row, Denials, Decided
<1>6. D(6) <=>
                 (/\ req.action \in Declared /\ req.action \in Routed
                  /\ \/ ChannelsOf[req.action] = {}
                     \/ \E x \in ChannelsOf[req.action] : ~EffectivelyAllowsChannel(g, x))
  BY DEF Row, Denials, Decided
<1>7. D(7) <=>
                 (req.action \notin Declared)
  BY DEF Row, Denials, Decided
<1>8. D(8) <=>
                 (~HonoursBindings(g, req))
  BY DEF Row, Denials, Decided
<1>9. D(9) <=>
                 (origin # "shell" /\ req.action \notin KernelOrigin)
  BY DEF Row, Denials, Decided
<1>10. D(10) <=>
                 (/\ origin = "shell" /\ TokenTypeOf[req.action] # NoValue
                  /\ ~SelectionTokenValid(g, req, tok, t))
  BY DEF Row, Denials, Decided
<1>11. D(11) <=>
                 (Decided(g, req, origin, appr) /\ t >= appr.expires)
  BY DEF Row, Denials, Decided
<1>12. D(12) <=>
                 (Decided(g, req, origin, appr) /\ appr.decision # "approved")
  BY DEF Row, Denials, Decided
<1>13. D(13) <=>
                 (Decided(g, req, origin, appr) /\ ~DigestsMatch(req, appr))
  BY DEF Row, Denials, Decided
<1>14. D(14) <=>
                 (/\ origin = "shell"
                  /\ ~EffectivelyApprovalRequired(g, req.action)
                  /\ ~EffectivelyAllows(g, req.action))
  BY DEF Row, Denials, Decided
<1> QED BY <1>1, <1>2, <1>3, <1>4, <1>5, <1>6, <1>7, <1>8, <1>9, <1>10, <1>11, <1>12, <1>13, <1>14

(* The gate lets a request through only if no row denies it. *)
LEMMA EffectiveMeansUndenied ==
    ASSUME NEW g, NEW req, NEW origin, NEW appr, NEW tok, NEW t,
           GateDecision(g, req, origin, appr, tok, t) \in Effective
    PROVE  /\ g.mode # "shadow"
           /\ \A i \in 1..14 : ~Denials(g, req, origin, appr, tok, t)[i].when
           /\ GateDecision(g, req, origin, appr, tok, t) = Undenied(g, req, origin, appr)
<1> DEFINE d == Denials(g, req, origin, appr, tok, t)
           hit == {i \in DOMAIN d : d[i].when}
           m == CHOOSE i \in hit : \A j \in hit : i <= j
<1>1. DOMAIN d = 1..14 /\ \A i \in 1..14 : d[i].why \in DenialReasons
  BY DenialShape
<1>2. ASSUME hit # {}  PROVE Resolve(g, req, origin, appr, tok, t) \in DenialReasons
  <2> HIDE DEF d
  <2>1. hit \in SUBSET (1..14)
    BY <1>1
  <2>2. \E i \in hit : \A j \in hit : i <= j
    BY <1>2, <2>1, LeastRow
  <2>3. m \in hit
    BY <2>2
  <2>4. d[m].why \in DenialReasons
    BY <2>1, <2>3, <1>1
  <2>5. Resolve(g, req, origin, appr, tok, t) = d[m].why
    BY <1>2 DEF Resolve, d
  <2> QED BY <2>4, <2>5
<1>3. Resolve(g, req, origin, appr, tok, t) \in Effective /\ g.mode # "shadow"
  BY DEF GateDecision, Effective
<1>4. hit = {}
  BY <1>2, <1>3 DEF DenialReasons, Effective
<1>5. Resolve(g, req, origin, appr, tok, t) = Undenied(g, req, origin, appr)
  BY <1>4 DEF Resolve
<1>6. \A i \in 1..14 : ~d[i].when
  BY <1>1, <1>4
<1> QED BY <1>3, <1>5, <1>6 DEF GateDecision

LEMMA UndeniedIsEffective ==
    ASSUME NEW g, NEW req, NEW origin, NEW appr, NEW tok, NEW t,
           g.mode # "shadow",
           \A i \in 1..14 : ~Denials(g, req, origin, appr, tok, t)[i].when
    PROVE  GateDecision(g, req, origin, appr, tok, t) = Undenied(g, req, origin, appr)
<1>1. DOMAIN Denials(g, req, origin, appr, tok, t) = 1..14
  BY DenialShape
<1>2. Resolve(g, req, origin, appr, tok, t) = Undenied(g, req, origin, appr)
  BY <1>1 DEF Resolve
<1> QED BY <1>2 DEF GateDecision

(* Attenuation can only take authority away. *)
LEMMA AttenuationNarrows ==
    ASSUME NEW c, NEW p, Attenuates(c, p), NEW a, NEW x, NEW req, NEW t
    PROVE  /\ EffectivelyAllows(c, a) => EffectivelyAllows(p, a)
           /\ EffectivelyApprovalRequired(c, a) => EffectivelyApprovalRequired(p, a)
           /\ EffectivelyAllowsClass(c, x) => EffectivelyAllowsClass(p, x)
           /\ EffectivelyAllowsChannel(c, x) => EffectivelyAllowsChannel(p, x)
           /\ IsExpired(p, t) => IsExpired(c, t)
           /\ HonoursBindings(c, req) => HonoursBindings(p, req)
           /\ BindingsValid(c) => BindingsValid(p)
           /\ HasUnsupportedCaveats(p) => HasUnsupportedCaveats(c)
           /\ NarrowedTo(c, a) => NarrowedTo(p, a)
<1>1. \A kind : CaveatsOf(p, kind) \subseteq CaveatsOf(c, kind)
  BY DEF Attenuates, CaveatsOf
<1>2. /\ c.expires = p.expires /\ c.allowed = p.allowed /\ c.approval = p.approval
      /\ c.classes = p.classes /\ c.channels = p.channels
  BY DEF Attenuates, RootAuthority
<1>3. NarrowedTo(c, a) => NarrowedTo(p, a)
  BY <1>1 DEF NarrowedTo
<1>4. /\ EffectivelyAllows(c, a) => EffectivelyAllows(p, a)
      /\ EffectivelyApprovalRequired(c, a) => EffectivelyApprovalRequired(p, a)
  BY <1>2, <1>3 DEF EffectivelyAllows, EffectivelyApprovalRequired
<1>5. /\ EffectivelyAllowsClass(c, x) => EffectivelyAllowsClass(p, x)
      /\ EffectivelyAllowsChannel(c, x) => EffectivelyAllowsChannel(p, x)
  BY <1>1, <1>2 DEF EffectivelyAllowsClass, EffectivelyAllowsChannel
<1>6. IsExpired(p, t) => IsExpired(c, t)
  BY <1>1, <1>2 DEF IsExpired
<1>7. /\ HonoursBindings(c, req) => HonoursBindings(p, req)
      /\ BindingsValid(c) => BindingsValid(p)
  BY <1>1 DEF HonoursBindings, BindingsValid
<1>8. HasUnsupportedCaveats(p) => HasUnsupportedCaveats(c)
  BY DEF HasUnsupportedCaveats, Attenuates
<1> QED BY <1>3, <1>4, <1>5, <1>6, <1>7, <1>8

(***************************************************************************)
(* One decision: a grant that attenuates another is let through only where *)
(* the other one would be, with the same answer.                           *)
(***************************************************************************)
THEOREM GateIsMonotone ==
    ASSUME NEW c, NEW p, Attenuates(c, p), VerifyMac(p),
           NEW req, NEW origin, NEW appr, NEW tok, NEW t,
           GateDecision(c, req, origin, appr, tok, t) \in Effective
    PROVE  GateDecision(p, req, origin, appr, tok, t)
             = GateDecision(c, req, origin, appr, tok, t)
<1> DEFINE C(i) == Row(c, req, origin, appr, tok, t, i)
           P(i) == Row(p, req, origin, appr, tok, t, i)
           a == req.action
<1>1. /\ c.mode # "shadow"
      /\ \A i \in 1..14 : ~C(i)
      /\ GateDecision(c, req, origin, appr, tok, t) = Undenied(c, req, origin, appr)
  BY EffectiveMeansUndenied DEF Row
<1>2. /\ EffectivelyAllows(c, a) => EffectivelyAllows(p, a)
      /\ EffectivelyApprovalRequired(c, a) => EffectivelyApprovalRequired(p, a)
      /\ IsExpired(p, t) => IsExpired(c, t)
      /\ HonoursBindings(c, req) => HonoursBindings(p, req)
      /\ BindingsValid(c) => BindingsValid(p)
      /\ HasUnsupportedCaveats(p) => HasUnsupportedCaveats(c)
  BY AttenuationNarrows
<1>3. \A x : /\ EffectivelyAllowsClass(c, x) => EffectivelyAllowsClass(p, x)
             /\ EffectivelyAllowsChannel(c, x) => EffectivelyAllowsChannel(p, x)
  BY AttenuationNarrows
<1>4. c.denied = p.denied /\ c.user = p.user /\ c.approval = p.approval
  BY DEF Attenuates, RootAuthority
<1>5. c.tokens \subseteq p.tokens /\ p.mode # "shadow"
  BY <1>1 DEF Attenuates
<1>6. ~C(1) => ~P(1)
  BY <1>2, DenialRows DEF ChainValid
<1>7. (~C(2) => ~P(2)) /\ (~C(3) => ~P(3)) /\ (~C(7) => ~P(7)) /\ (~C(8) => ~P(8))
  BY <1>2, DenialRows
<1>8. (~C(4) => ~P(4)) /\ (~C(9) => ~P(9))
  BY <1>4, DenialRows
<1>9. (~C(5) => ~P(5)) /\ (~C(6) => ~P(6))
  BY <1>3, DenialRows
<1>10. ~C(10) => ~P(10)
  <2>1. SelectionTokenValid(c, req, tok, t) => SelectionTokenValid(p, req, tok, t)
    BY <1>4, <1>5 DEF SelectionTokenValid
  <2> QED BY <2>1, DenialRows
<1>11. ASSUME origin = "shell"
       PROVE  EffectivelyApprovalRequired(c, a) = EffectivelyApprovalRequired(p, a)
  <2>1. EffectivelyApprovalRequired(c, a) \/ EffectivelyAllows(c, a)
    BY <1>1, <1>11, DenialRows
  <2>2. NarrowedTo(c, a)
    BY <2>1 DEF EffectivelyApprovalRequired, EffectivelyAllows
  <2>3. NarrowedTo(p, a)
    BY <2>2, AttenuationNarrows
  <2> QED BY <2>2, <2>3, <1>4 DEF EffectivelyApprovalRequired
<1>12. Decided(c, req, origin, appr) <=> Decided(p, req, origin, appr)
  BY <1>11 DEF Decided
<1>13. (~C(11) => ~P(11)) /\ (~C(12) => ~P(12)) /\ (~C(13) => ~P(13))
  BY <1>12, DenialRows
<1>14. ~P(14)
  BY <1>1, <1>2, <1>11, DenialRows
<1>15. \A i \in 1..14 : ~P(i)
  <2> HIDE DEF C, P
  <2> QED BY <1>1, <1>6, <1>7, <1>8, <1>9, <1>10, <1>13, <1>14
<1>16. GateDecision(p, req, origin, appr, tok, t) = Undenied(p, req, origin, appr)
  BY <1>5, <1>15, UndeniedIsEffective DEF Row
<1>17. Undenied(p, req, origin, appr) = Undenied(c, req, origin, appr)
  BY <1>11 DEF Undenied
<1> QED BY <1>1, <1>16, <1>17

------------------------------------------------------------------------------
(* Minting *)

LEMMA RootVerifies ==
    ASSUME NEW id \in GrantIds, NEW tpl \in RootTemplate, dgNow \in Nat
    PROVE  /\ RootGrant(id, tpl) \in Grant
           /\ RootGrant(id, tpl).id = id
           /\ RootGrant(id, tpl).parent = NoValue
           /\ VerifyMac(RootGrant(id, tpl))
<1> DEFINE Raw(R, C, M) ==
               [id : GrantIds, root : R, parent : {NoValue},
                expires : Nat, allowed : SUBSET Actions, approval : SUBSET Actions,
                denied : SUBSET Actions, classes : SUBSET Classes,
                channels : SUBSET Channels, user : Users, tokens : SUBSET TokenIds,
                mode : Modes, chain : C, mac : M]
           base == [id |-> id, root |-> NoValue, parent |-> NoValue,
                    expires |-> dgNow + tpl.life, allowed |-> tpl.allowed,
                    approval |-> tpl.approval, denied |-> tpl.denied,
                    classes |-> tpl.classes, channels |-> tpl.channels,
                    user |-> tpl.user, tokens |-> tpl.tokens, mode |-> tpl.mode,
                    chain |-> <<>>, mac |-> <<>>]
           step == ChainStep(id, NoValue, tpl.mode, tpl.tokens, {})
           ch   == <<step>>
           root == [base EXCEPT !.root = id, !.parent = NoValue, !.chain = ch]
           g    == [root EXCEPT !.mac = ComputeMac(root)]
<1>1. id # NoValue
  BY NoneAssumption
<1>2. /\ base.id = id /\ base.mode = tpl.mode /\ base.tokens = tpl.tokens
      /\ (IF base.root = NoValue THEN base.id ELSE base.root) = id
  OBVIOUS
<1>3. RootGrant(id, tpl) = g
  BY <1>2 DEF RootGrant, SealRoot
<1>4. base \in Raw({NoValue}, {<<>>}, {<<>>})
  BY DEF RootTemplate
<1>5. step \in Step
  BY DEF ChainStep, Step, RootTemplate
<1>6. ch \in Seq(Step) /\ Len(ch) = 1 /\ ch[1] = step /\ ch # <<>>
  BY <1>5
<1>7. /\ step.grant = id /\ step.parent = NoValue /\ step.mode = tpl.mode
      /\ step.tokens = tpl.tokens
  BY DEF ChainStep
<1> HIDE DEF base, ch, step
<1>8. /\ root \in Raw(GrantIds, Seq(Step), {<<>>})
      /\ root.id = id /\ root.root = id /\ root.parent = NoValue /\ root.chain = ch
      /\ root.mode = base.mode /\ root.tokens = base.tokens
  <2> DEFINE r1 == [base EXCEPT !.root = id]
             r2 == [r1 EXCEPT !.parent = NoValue]
  <2>1. r1 \in Raw(GrantIds, {<<>>}, {<<>>})
    BY <1>4
  <2>2. r2 \in Raw(GrantIds, {<<>>}, {<<>>})
    <3> HIDE DEF r1
    <3> QED BY <2>1
  <2>3. root = [r2 EXCEPT !.chain = ch]
    BY <1>4
  <2>4. root \in Raw(GrantIds, Seq(Step), {<<>>})
    <3> HIDE DEF r2
    <3> QED BY <2>2, <2>3, <1>6
  <2>5. /\ root.id = base.id /\ root.root = id /\ root.parent = NoValue
        /\ root.chain = ch /\ root.mode = base.mode /\ root.tokens = base.tokens
    BY <1>4
  <2> QED BY <2>4, <2>5, <1>2
<1> HIDE DEF root
<1>9. ComputeMac(root) \in Authority \X Seq(Step)
  <2>1. RootAuthority(root) \in Authority
    BY <1>8 DEF RootAuthority, Authority
  <2> HIDE DEF Raw
  <2> QED BY <2>1, <1>6, <1>8 DEF ComputeMac
<1>10. /\ g \in Raw(GrantIds, Seq(Step), Authority \X Seq(Step))
       /\ g.id = id /\ g.root = id /\ g.parent = NoValue /\ g.chain = ch
       /\ g.mode = base.mode /\ g.tokens = base.tokens /\ g.mac = ComputeMac(root)
       /\ RootAuthority(g) = RootAuthority(root)
  BY <1>8, <1>9 DEF RootAuthority
<1> HIDE DEF g
<1>11. g \in Grant
  BY <1>10 DEF Grant
<1>12. g.mac = ComputeMac(g)
  BY <1>8, <1>10 DEF ComputeMac
<1>13. ChainStructurallyValid(g)
  <2>1. /\ g.id = id /\ g.root = id /\ g.parent = NoValue /\ g.chain = ch
        /\ g.mode = tpl.mode /\ g.tokens = tpl.tokens
    BY <1>2, <1>10
  <2>2. /\ Len(g.chain) = 1 /\ g.chain[1] = step /\ g.chain # <<>>
        /\ g.chain[Len(g.chain)] = step
    BY <1>6, <2>1
  <2>3. \A i \in 2..Len(g.chain) : FALSE
    BY <2>2
  <2> HIDE DEF Raw
  <2> QED BY <1>1, <1>7, <2>1, <2>2, <2>3 DEF ChainStructurallyValid
<1> QED BY <1>3, <1>10, <1>11, <1>12, <1>13 DEF VerifyMac

(* What minting leaves in the worker's grant. *)
LEMMA WorkerVerifies ==
    ASSUME NEW p \in Grant, VerifyMac(p), NEW id \in GrantIds, NEW spec \in SpecType
    PROVE  LET w == WorkerGrant(p, id, spec)
           IN  /\ w \in Grant /\ w.id = id /\ w.parent = p.id
               /\ VerifyMac(w)
               /\ Attenuates(w, p)
               /\ w.tokens = {}
               /\ WorkerCaveats(spec) \subseteq FlattenedCaveats(w)
<1> DEFINE step == WorkerStep(p, id, spec)
           w == WorkerGrant(p, id, spec)
           n == Len(p.chain)
<1>1. p.chain \in Seq(Step) /\ n \in Nat /\ n # 0 /\ p.mac = ComputeMac(p)
  BY DEF Grant, VerifyMac, ChainStructurallyValid
<1>2. WorkerCaveats(spec) \in SUBSET Caveat
  BY DEF WorkerCaveats, Caveat, SpecType, ActionAllowlist, ExpiresBefore, BoundParameter,
         OutputChannelAllowlist, EgressClassAllowlist, ProvenanceLabelAllowlist
<1>3. step \in Step
  <2> HIDE DEF WorkerCaveats
  <2> QED BY <1>2 DEF WorkerStep, ChainStep, Step, Grant
<1>4. /\ step.grant = id /\ step.parent = p.id /\ step.mode = p.mode
      /\ step.tokens = {}
  BY DEF WorkerStep, ChainStep
<1> DEFINE chain == Append(p.chain, step)
<1> HIDE DEF step
<1>5. /\ chain \in Seq(Step) /\ Len(chain) = n + 1 /\ chain[n + 1] = step
      /\ \A i \in 1..n : chain[i] = p.chain[i]
      /\ DOMAIN chain = 1..(n + 1) /\ DOMAIN p.chain = 1..n
  BY <1>1, <1>3
<1>6. ExtendTip(p.mac, step) = <<RootAuthority(p), chain>>
  BY <1>1 DEF ExtendTip, ComputeMac
<1>7. w = [p EXCEPT !.id = id, !.tokens = {}, !.parent = p.id, !.chain = chain,
                    !.mac = <<RootAuthority(p), chain>>]
  BY <1>6 DEF WorkerGrant, step
<1>8. /\ w.id = id /\ w.parent = p.id /\ w.tokens = {} /\ w.mode = p.mode
      /\ w.chain = chain /\ w.mac = <<RootAuthority(p), chain>> /\ w.root = p.root
      /\ RootAuthority(w) = RootAuthority(p)
  BY <1>7 DEF Grant, RootAuthority
<1>9. RootAuthority(p) \in Authority
  BY DEF RootAuthority, Authority, Grant
<1>10. w \in Grant
  <2>1. p.id \in GrantIds
    BY DEF Grant
  <2>2. <<RootAuthority(p), chain>> \in Authority \X Seq(Step)
    BY <1>5, <1>9
  <2> HIDE DEF chain, w
  <2> QED BY <1>5, <1>7, <2>1, <2>2 DEF Grant
<1> HIDE DEF w, chain
<1>11. w.mac = ComputeMac(w)
  BY <1>8 DEF ComputeMac
<1>12. ChainStructurallyValid(w)
  <2> DEFINE q == p.chain
  <2>1. /\ q[1].grant = p.root /\ q[1].parent = NoValue /\ p.root # NoValue
        /\ q[n].grant = p.id /\ q[n].mode = p.mode
    BY DEF VerifyMac, ChainStructurallyValid
  <2>a. ASSUME NEW i \in 2..n
        PROVE  q[i].parent = q[i - 1].grant /\ q[i].tokens \subseteq q[i - 1].tokens
    BY DEF VerifyMac, ChainStructurallyValid
  <2>b. ASSUME NEW i \in 2..n, NEW j \in 1..(i - 1), q[j].mode = "shadow"
        PROVE  q[i].mode = "shadow"
    BY <2>b DEF VerifyMac, ChainStructurallyValid
  <2>2. chain[1] = q[1] /\ chain # <<>>
    BY <1>1, <1>5
  <2>0. chain[n] = q[n] /\ n \in 1..n /\ (n + 1) - 1 = n
    BY <1>1, <1>5
  <2> HIDE DEF n, q
  <2>3. ASSUME NEW i \in 2..(n + 1)
        PROVE  /\ chain[i].parent = chain[i - 1].grant
               /\ chain[i].tokens \subseteq chain[i - 1].tokens
    <3>1. CASE i = n + 1
      BY <3>1, <1>4, <1>5, <2>0, <2>1
    <3>2. CASE i # n + 1
      <4>1. i \in 2..n /\ i \in 1..n /\ i - 1 \in 1..n
        BY <3>2, <1>1
      <4>2. chain[i] = q[i] /\ chain[i - 1] = q[i - 1]
        BY <4>1, <1>5 DEF q, n
      <4> QED BY <4>1, <4>2, <2>a
    <3> QED BY <3>1, <3>2
  <2>5. ASSUME NEW i \in 2..(n + 1), NEW j \in 1..(i - 1), chain[j].mode = "shadow"
        PROVE  chain[i].mode = "shadow"
    <3>1. CASE i = n + 1
      <4>1. chain[j] = q[j] /\ j \in 1..n
        BY <3>1, <1>1, <1>5 DEF q, n
      <4>2. CASE j = n
        BY <4>1, <4>2, <2>1, <2>5, <3>1, <1>4, <1>5
      <4>3. CASE j # n
        <5>1. n \in 2..n /\ j \in 1..(n - 1)
          BY <4>1, <4>3, <1>1
        <5>2. q[n].mode = "shadow"
          BY <5>1, <4>1, <2>b, <2>5
        <5> QED BY <5>2, <3>1, <2>1, <1>4, <1>5
      <4> QED BY <4>2, <4>3
    <3>2. CASE i # n + 1
      <4>0. i \in 2..n /\ i \in 1..n /\ j \in 1..n
        BY <3>2, <1>1
      <4>1. chain[i] = q[i] /\ chain[j] = q[j]
        BY <4>0, <1>5 DEF q, n
      <4> QED BY <4>0, <4>1, <2>b, <2>5
    <3> QED BY <3>1, <3>2
  <2>6. /\ Len(w.chain) = n + 1 /\ w.chain = chain /\ w.root = p.root
        /\ chain[n + 1] = step
    BY <1>5, <1>8 DEF n
  <2> QED BY <1>4, <1>8, <2>1, <2>2, <2>3, <2>5, <2>6 DEF ChainStructurallyValid
<1>13. FlattenedCaveats(p) \subseteq FlattenedCaveats(w)
  <2> SUFFICES ASSUME NEW i \in 1..n  PROVE p.chain[i].caveats \subseteq FlattenedCaveats(w)
    BY <1>5 DEF FlattenedCaveats
  <2>1. i \in DOMAIN w.chain /\ w.chain[i] = p.chain[i]
    BY <1>1, <1>5, <1>8
  <2> QED BY <2>1 DEF FlattenedCaveats
<1>14. Attenuates(w, p)
  BY <1>8, <1>13 DEF Attenuates
<1>15. WorkerCaveats(spec) \subseteq FlattenedCaveats(w)
  <2>1. n + 1 \in DOMAIN w.chain /\ w.chain[n + 1] = step
    BY <1>1, <1>5, <1>8
  <2>2. step.caveats = WorkerCaveats(spec)
    BY DEF step, WorkerStep, ChainStep
  <2> QED BY <2>1, <2>2 DEF FlattenedCaveats
<1> QED BY <1>8, <1>10, <1>11, <1>12, <1>14, <1>15 DEF w, VerifyMac

------------------------------------------------------------------------------
(* The invariant *)

LEMMA LineageInit == DgInit => Lineage
<1> SUFFICES ASSUME DgInit  PROVE Lineage
  OBVIOUS
<1>1. DgTypeOK
  BY DelegationAssumption DEF DgInit, DgTypeOK, Time
<1>2. DgStored = {}
  BY DEF DgInit, DgStored
<1> QED BY <1>1, <1>2 DEF Lineage

LEMMA LineageStep == Lineage /\ [DgNext]_dgVars => Lineage'
<1> SUFFICES ASSUME Lineage, [DgNext]_dgVars  PROVE Lineage'
  OBVIOUS
<1> USE DEF Lineage
<1>1. ASSUME NEW id \in GrantIds, NEW tpl \in Roots, ComposeRoot(id, tpl)
      PROVE  Lineage'
  <2> DEFINE g == RootGrant(id, tpl)
  <2>1. dgNow \in Nat /\ tpl \in RootTemplate
    BY DelegationAssumption DEF DgTypeOK, Time
  <2>2. g \in Grant /\ g.id = id /\ g.parent = NoValue /\ VerifyMac(g)
    BY <2>1, RootVerifies
  <2> HIDE DEF g
  <2>3. \A i \in GrantIds : grants'[i] = IF i = id THEN g ELSE Swept(grants, dgNow)[i]
    BY <1>1 DEF ComposeRoot, Swept, g
  <2>4. \A i \in GrantIds : Swept(grants, dgNow)[i] \in {grants[i], NoValue}
    BY DEF Swept
  <2>5. DgTypeOK'
    <3>1. Swept(grants, dgNow) \in [GrantIds -> Grant \cup {NoValue}]
      BY <2>4 DEF DgTypeOK, Swept
    <3> QED BY <1>1, <2>2, <3>1 DEF ComposeRoot, DgTypeOK, g
  <2>6. issued' = issued \cup {id} /\ id \notin issued
    BY <1>1 DEF ComposeRoot
  <2>7. \A i \in DgStored' : \/ i = id /\ grants'[i] = g
                             \/ i # id /\ i \in DgStored /\ grants'[i] = grants[i]
    BY <2>3, <2>4 DEF DgStored
  <2>8. \A i \in DgStored' :
          /\ grants'[i].id = i /\ i \in issued'
          /\ grants'[i].parent \in issued' \cup {NoValue}
          /\ VerifyMac(grants'[i])
          /\ grants'[i].parent # NoValue => Muted(grants'[i])
    BY <2>2, <2>6, <2>7
  <2>9. \A c, p \in DgStored' :
          grants'[c].parent = p => Attenuates(grants'[c], grants'[p])
    <3> SUFFICES ASSUME NEW c \in DgStored', NEW p \in DgStored', grants'[c].parent = p
                 PROVE  Attenuates(grants'[c], grants'[p])
      OBVIOUS
    <3>1. p \in GrantIds /\ p # NoValue
      BY NoneAssumption DEF DgStored
    <3>2. c # id /\ c \in DgStored /\ grants'[c] = grants[c]
      BY <2>2, <2>7, <3>1
    <3>3. p \in issued
      BY <3>1, <3>2
    <3>4. p \in DgStored /\ grants'[p] = grants[p]
      BY <2>6, <2>7, <3>3
    <3> QED BY <3>2, <3>4 DEF ChildOf
  <2> QED BY <2>5, <2>8, <2>9 DEF ChildOf, DgStored
<1>2. ASSUME NEW q \in GrantIds, NEW id \in GrantIds, NEW spec \in Specs,
             Commission(q, id, spec)
      PROVE  Lineage'
  <2> DEFINE w == WorkerGrant(grants[q], id, spec)
  <2>1. q \in DgStored /\ grants[q] \in Grant /\ VerifyMac(grants[q]) /\ grants[q].id = q
    BY <1>2 DEF Commission, DgTypeOK, DgStored
  <2>2. spec \in SpecType
    BY DelegationAssumption
  <2>3. /\ w \in Grant /\ w.id = id /\ w.parent = q /\ VerifyMac(w)
        /\ Attenuates(w, grants[q]) /\ w.tokens = {}
        /\ WorkerCaveats(spec) \subseteq FlattenedCaveats(w)
    BY <2>1, <2>2, WorkerVerifies
  <2>4. Muted(w)
    <3>1. spec.actions \cap NonDelegable = {} /\ spec.actions \in SUBSET Actions
      BY <1>2, <2>2 DEF Commission, MintAdmits, SpecType
    <3>2. /\ EgressClassAllowlist({}) \in WorkerCaveats(spec)
          /\ OutputChannelAllowlist({}) \in WorkerCaveats(spec)
          /\ ActionAllowlist(spec.actions) \in WorkerCaveats(spec)
      BY DEF WorkerCaveats
    <3> HIDE DEF w
    <3> QED BY <2>3, <3>1, <3>2 DEF Muted
  <2> HIDE DEF w
  <2>5. /\ grants' = [grants EXCEPT ![id] = w]
        /\ issued' = issued \cup {id} /\ id \notin issued /\ dgNow' = dgNow
    BY <1>2 DEF Commission, w
  <2>6. DgTypeOK'
    BY <2>3, <2>5 DEF DgTypeOK
  <2>7. \A i \in DgStored' : \/ i = id /\ grants'[i] = w
                             \/ i # id /\ i \in DgStored /\ grants'[i] = grants[i]
    BY <2>5 DEF DgStored, DgTypeOK
  <2>8. q # id /\ q \in issued
    BY <2>1, <2>5
  <2>9. \A i \in DgStored' :
          /\ grants'[i].id = i /\ i \in issued'
          /\ grants'[i].parent \in issued' \cup {NoValue}
          /\ VerifyMac(grants'[i])
          /\ grants'[i].parent # NoValue => Muted(grants'[i])
    BY <2>3, <2>4, <2>5, <2>7, <2>8
  <2>10. \A c, p \in DgStored' :
          grants'[c].parent = p => Attenuates(grants'[c], grants'[p])
    <3> SUFFICES ASSUME NEW c \in DgStored', NEW p \in DgStored', grants'[c].parent = p
                 PROVE  Attenuates(grants'[c], grants'[p])
      OBVIOUS
    <3>1. p \in GrantIds /\ p # NoValue
      BY NoneAssumption DEF DgStored
    <3>2. CASE c = id
      <4>1. p = q /\ grants'[c] = w
        BY <2>3, <2>7, <3>2
      <4>2. grants'[p] = grants[q]
        BY <4>1, <2>7, <2>8
      <4> QED BY <4>1, <4>2, <2>3
    <3>3. CASE c # id
      <4>1. c \in DgStored /\ grants'[c] = grants[c]
        BY <2>7, <3>3
      <4>2. p \in issued
        BY <3>1, <4>1
      <4>3. p \in DgStored /\ grants'[p] = grants[p]
        BY <2>5, <2>7, <4>2
      <4> QED BY <4>1, <4>3 DEF ChildOf
    <3> QED BY <3>2, <3>3
  <2> QED BY <2>6, <2>9, <2>10 DEF ChildOf, DgStored
<1>3. ASSUME DgTick  PROVE Lineage'
  <2>1. grants' = grants /\ issued' = issued /\ dgNow' \in Time
    BY <1>3, DelegationAssumption DEF DgTick, DgTypeOK, Time
  <2>2. DgTypeOK' /\ DgStored' = DgStored
    BY <2>1 DEF DgTypeOK, DgStored
  <2> QED BY <2>1, <2>2 DEF ChildOf
<1>4. ASSUME UNCHANGED dgVars  PROVE Lineage'
  <2>1. grants' = grants /\ issued' = issued /\ dgNow' = dgNow
    BY <1>4 DEF dgVars
  <2>2. DgTypeOK' /\ DgStored' = DgStored
    BY <2>1 DEF DgTypeOK, DgStored
  <2> QED BY <2>1, <2>2 DEF ChildOf
<1> QED BY <1>1, <1>2, <1>3, <1>4 DEF DgNext

THEOREM LineageHolds == DgSpec => []Lineage
  BY LineageInit, LineageStep, PTL DEF DgSpec

(* Type correctness of the grant table. *)
THEOREM DelegationTyped == DgSpec => []DgTypeOK
<1>1. Lineage => DgTypeOK
  BY DEF Lineage
<1> QED BY <1>1, LineageHolds, PTL

(***************************************************************************)
(* No worker, at any depth, is ever let through by the gate where the      *)
(* grant it was minted from would not be.                                  *)
(***************************************************************************)
THEOREM NeverWidens == DgSpec => []DelegationNeverWidens
<1>1. Lineage => DelegationNeverWidens
  <2> SUFFICES ASSUME Lineage, NEW c \in DgStored, NEW p \in DgStored, ChildOf(c, p),
                      NEW req \in Request, NEW origin \in Origins,
                      NEW appr \in Approval \cup {NoValue}, NEW tok \in Token \cup {NoValue},
                      GateDecision(grants[c], req, origin, appr, tok, dgNow) \in Effective
               PROVE  GateDecision(grants[c], req, origin, appr, tok, dgNow)
                        = GateDecision(grants[p], req, origin, appr, tok, dgNow)
    BY DEF DelegationNeverWidens
  <2>1. Attenuates(grants[c], grants[p]) /\ VerifyMac(grants[p])
    BY DEF Lineage
  <2> QED BY <2>1, GateIsMonotone
<1> QED BY <1>1, LineageHolds, PTL

(***************************************************************************)
(* A worker has no way out but its result: no rated egress, no output      *)
(* channel, no selected target, no root-only action.                       *)
(***************************************************************************)
THEOREM WorkersStayMute == DgSpec => []WorkersAreMute
<1>1. Lineage => WorkersAreMute
  <2> SUFFICES ASSUME Lineage, NEW c \in DgStored, grants[c].parent # NoValue,
                      NEW req \in Request, NEW origin \in Origins,
                      NEW tok \in Token \cup {NoValue},
                      GateDecision(grants[c], req, origin, NoValue, tok, dgNow) \in Effective
               PROVE  /\ EgressClassOf[req.action] = NoValue
                      /\ req.action \notin Routed
                      /\ origin = "shell" => /\ TokenTypeOf[req.action] = NoValue
                                             /\ req.action \notin NonDelegable
    BY DEF WorkersAreMute
  <2> DEFINE g == grants[c]
             a == req.action
             D(i) == Row(g, req, origin, NoValue, tok, dgNow, i)
  <2>1. Muted(g)
    BY DEF Lineage
  <2> HIDE DEF g
  <2>2. \A i \in 1..14 : ~D(i)
    BY EffectiveMeansUndenied DEF Row, g
  <2>3. a \in Declared
    BY <2>2, DenialRows
  <2>4. \A x : ~EffectivelyAllowsClass(g, x) /\ ~EffectivelyAllowsChannel(g, x)
    <3>1. /\ EgressClassAllowlist({}) \in CaveatsOf(g, "egress_class_allowlist")
          /\ OutputChannelAllowlist({}) \in CaveatsOf(g, "output_channel_allowlist")
      BY <2>1 DEF Muted, CaveatsOf, EgressClassAllowlist, OutputChannelAllowlist
    <3> QED BY <3>1 DEF EffectivelyAllowsClass, EffectivelyAllowsChannel,
                        EgressClassAllowlist, OutputChannelAllowlist
  <2>5. EgressClassOf[a] = NoValue
    BY <2>2, <2>3, <2>4, DenialRows
  <2>6. a \notin Routed
    <3>1. ChannelsOf[a] = {} \/ \E x \in ChannelsOf[a] : TRUE
      OBVIOUS
    <3> QED BY <2>2, <2>3, <2>4, <3>1, DenialRows
  <2>7. ASSUME origin = "shell"  PROVE TokenTypeOf[a] = NoValue /\ a \notin NonDelegable
    <3>1. ~SelectionTokenValid(g, req, tok, dgNow)
      BY <2>1 DEF Muted, SelectionTokenValid
    <3>2. TokenTypeOf[a] = NoValue
      BY <2>2, <2>7, <3>1, DenialRows
    <3>3. NarrowedTo(g, a)
      BY <2>2, <2>7, DenialRows DEF EffectivelyAllows, EffectivelyApprovalRequired
    <3>4. PICK S \in SUBSET Actions : /\ ActionAllowlist(S) \in FlattenedCaveats(g)
                                      /\ S \cap NonDelegable = {}
      BY <2>1 DEF Muted
    <3>5. a \in S
      BY <3>3, <3>4 DEF NarrowedTo, CaveatsOf, ActionAllowlist
    <3> QED BY <3>2, <3>4, <3>5
  <2> QED BY <2>5, <2>6, <2>7
<1> QED BY <1>1, LineageHolds, PTL

(***************************************************************************)
(* mint_worker_grant's closing self-check is redundant: the tip extended   *)
(* from the parent's is the tip verification recomputes.                   *)
(***************************************************************************)
THEOREM MintVerifies == DgSpec => []MintedAlwaysVerifies
<1>1. Lineage => MintedAlwaysVerifies
  <2> SUFFICES ASSUME Lineage, NEW p \in DgStored, NEW spec \in Specs,
                      NEW id \in GrantIds \ issued
               PROVE  VerifyMac(WorkerGrant(grants[p], id, spec))
    BY DEF MintedAlwaysVerifies
  <2>1. grants[p] \in Grant /\ VerifyMac(grants[p]) /\ spec \in SpecType
    BY DelegationAssumption DEF Lineage, DgTypeOK, DgStored
  <2> QED BY <2>1, WorkerVerifies
<1> QED BY <1>1, LineageHolds, PTL

(***************************************************************************)
(* Every grant mint_worker_grant hands out verifies, and none can speak.   *)
(***************************************************************************)
THEOREM MintHolds == DgSpec => []MintIsSound
<1>1. WorkersAreMute /\ MintedAlwaysVerifies => MintIsSound
  BY DEF MintIsSound
<1> QED BY <1>1, WorkersStayMute, MintVerifies, PTL
=============================================================================
