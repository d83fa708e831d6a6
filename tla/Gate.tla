-------------------------------- MODULE Gate --------------------------------
(***************************************************************************)
(* gate(), the mediation point every effectful action passes, and the      *)
(* grant chain it verifies.  Everything here is a pure operator of a grant,*)
(* a request and the approval and selection token the caller looked up, as *)
(* in the crate: storage belongs to the modules that use it.               *)
(*                                                                         *)
(* A grant is the immutable root authority plus a chain of hops.  Each hop *)
(* may only add caveats.  The HMAC tip is ideal: the tip over a root and a *)
(* chain is the pair of them, and extending a tip by a hop appends the hop.*)
(* Lists whose order the code sorts away before it hashes are sets.        *)
(***************************************************************************)
EXTENDS Integers, Sequences

CONSTANTS
    Actions,      \* action ids a request or a grant may name
    Catalog,      \* the action ids the catalog recognizes
    KernelOrigin, \* actions the kernel may emit without a granting decision
    NonDelegable, \* actions a worker sub-grant may never name
    Declared,     \* actions that carry their egress declaration
    EgressClassOf,\* [Actions -> Classes \cup {NoValue}]
    Routed,       \* actions whose declaration names output channels
    ChannelsOf,   \* [Actions -> SUBSET Channels], read for Routed actions
    TokenTypeOf,  \* [Actions -> TokenTypes \cup {NoValue}]
    Classes, Channels, TokenTypes,
    Params, ParamValues,
    Users, TokenIds, Digests,
    GrantIds,
    NoValue

ASSUME CatalogAssumption ==
    /\ Catalog \subseteq Actions /\ KernelOrigin \subseteq Actions
    /\ NonDelegable \subseteq Actions /\ Declared \subseteq Actions
    /\ EgressClassOf \in [Actions -> Classes \cup {NoValue}]
    /\ Routed \subseteq Actions
    /\ ChannelsOf \in [Actions -> SUBSET Channels]
    /\ TokenTypeOf \in [Actions -> TokenTypes \cup {NoValue}]

ASSUME NoneAssumption ==
    /\ NoValue \notin Classes \cup TokenTypes \cup ParamValues
    /\ NoValue \notin TokenIds \cup GrantIds \cup Digests

Modes   == {"live", "shadow"}
Origins == {"kernel", "shell"}

------------------------------------------------------------------------------
(* Caveats and chains *)

ActionAllowlist(S)      == [kind |-> "action_allowlist", actions |-> S]
BoundParameter(n, v)    == [kind |-> "bound_parameter", name |-> n, value |-> v]
ExpiresBefore(t)        == [kind |-> "expires_before", at |-> t]
OutputChannelAllowlist(S) == [kind |-> "output_channel_allowlist", channels |-> S]
EgressClassAllowlist(S) == [kind |-> "egress_class_allowlist", classes |-> S]
ProvenanceLabelAllowlist(S) == [kind |-> "provenance_label_allowlist", origins |-> S]

(* The seventh kind, the model tier, has no minter and no enforcement: a   *)
(* chain that carries one is rejected.                                     *)
SupportedKinds ==
    {"action_allowlist", "bound_parameter", "expires_before",
     "output_channel_allowlist", "egress_class_allowlist",
     "provenance_label_allowlist"}

ChainStep(id, parent, mode, tokens, caveats) ==
    [grant |-> id, parent |-> parent, mode |-> mode,
     tokens |-> tokens, caveats |-> caveats]

(* The fields of a grant the tip commits to, whatever the hop. *)
RootAuthority(g) ==
    [root |-> g.root, expires |-> g.expires, allowed |-> g.allowed,
     approval |-> g.approval, denied |-> g.denied, classes |-> g.classes,
     channels |-> g.channels, user |-> g.user]

FlattenedCaveats(g) == UNION {g.chain[i].caveats : i \in DOMAIN g.chain}
CaveatsOf(g, kind)  == {c \in FlattenedCaveats(g) : c.kind = kind}

(* What a grant may hold. *)
Caveat ==
    [kind : {"action_allowlist"}, actions : SUBSET Actions]
        \cup [kind : {"bound_parameter"}, name : Params, value : ParamValues]
        \cup [kind : {"expires_before"}, at : Nat]
        \cup [kind : {"output_channel_allowlist"}, channels : SUBSET Channels]
        \cup [kind : {"egress_class_allowlist"}, classes : SUBSET Classes]
        \cup [kind : {"provenance_label_allowlist"}, origins : {{}}]

Step ==
    [grant : GrantIds, parent : GrantIds \cup {NoValue}, mode : Modes,
     tokens : SUBSET TokenIds, caveats : SUBSET Caveat]

Authority ==
    [root : GrantIds, expires : Nat, allowed : SUBSET Actions,
     approval : SUBSET Actions, denied : SUBSET Actions,
     classes : SUBSET Classes, channels : SUBSET Channels, user : Users]

Grant ==
    [id : GrantIds, root : GrantIds, parent : GrantIds \cup {NoValue},
     expires : Nat, allowed : SUBSET Actions, approval : SUBSET Actions,
     denied : SUBSET Actions, classes : SUBSET Classes,
     channels : SUBSET Channels, user : Users, tokens : SUBSET TokenIds,
     mode : Modes, chain : Seq(Step), mac : Authority \X Seq(Step)]

ComputeMac(g) == <<RootAuthority(g), g.chain>>

(* seal_child_from_parent_tip: needs the parent's tip only, not its key. *)
ExtendTip(tip, step) == <<tip[1], Append(tip[2], step)>>

ChainStructurallyValid(g) ==
    /\ g.root # NoValue
    /\ g.chain # <<>>
    /\ g.chain[1].grant = g.root
    /\ g.chain[1].parent = NoValue
    /\ \A i \in 2..Len(g.chain) :
          /\ g.chain[i].parent = g.chain[i - 1].grant
          /\ g.chain[i].tokens \subseteq g.chain[i - 1].tokens
          /\ (\E j \in 1..(i - 1) : g.chain[j].mode = "shadow")
                => g.chain[i].mode = "shadow"
    /\ LET last == g.chain[Len(g.chain)]
       IN  /\ last.grant = g.id
           /\ last.parent = g.parent
           /\ last.mode = g.mode
           /\ last.tokens = g.tokens

VerifyMac(g) == ChainStructurallyValid(g) /\ g.mac = ComputeMac(g)

(* Mutant: a root keeps the root id it was handed. *)
SealRootUnnamed(g) ==
    LET sealed == [g EXCEPT
                      !.parent = NoValue,
                      !.chain  = <<ChainStep(g.id, NoValue, g.mode, g.tokens, {})>>]
    IN  [sealed EXCEPT !.mac = ComputeMac(sealed)]

(* Seal a root once every authority field is final. *)
SealRoot(g) ==
    LET sealed == [g EXCEPT
                      !.root   = IF g.root = NoValue THEN g.id ELSE g.root,
                      !.parent = NoValue,
                      !.chain  = <<ChainStep(g.id, NoValue, g.mode, g.tokens, {})>>]
    IN  [sealed EXCEPT !.mac = ComputeMac(sealed)]

BindingsValid(g) ==
    \A b, c \in CaveatsOf(g, "bound_parameter") : b.name = c.name => b.value = c.value

HasUnsupportedCaveats(g) == \E c \in FlattenedCaveats(g) : c.kind \notin SupportedKinds

ChainValid(g) == VerifyMac(g) /\ ~HasUnsupportedCaveats(g)

------------------------------------------------------------------------------
(* Effective authority: the root's list cut down by every caveat *)

NarrowedTo(g, a) == \A c \in CaveatsOf(g, "action_allowlist") : a \in c.actions

EffectivelyAllows(g, a)           == a \in g.allowed /\ NarrowedTo(g, a)
EffectivelyApprovalRequired(g, a) == a \in g.approval /\ NarrowedTo(g, a)

EffectivelyAllowsClass(g, x) ==
    /\ x \in g.classes
    /\ \A c \in CaveatsOf(g, "egress_class_allowlist") : x \in c.classes

EffectivelyAllowsChannel(g, x) ==
    /\ x \in g.channels
    /\ \A c \in CaveatsOf(g, "output_channel_allowlist") : x \in c.channels

IsExpired(g, t) ==
    t >= g.expires \/ \E c \in CaveatsOf(g, "expires_before") : t >= c.at

(* Mutant: the gate honours the bindings of the newest hop only. *)
HonoursBindingsOfTip(g, req) ==
    \A c \in g.chain[Len(g.chain)].caveats :
        c.kind = "bound_parameter" => req.params[c.name] = c.value

(* AD-036: every bound name is present in the request with its bound value. *)
HonoursBindings(g, req) ==
    \A c \in CaveatsOf(g, "bound_parameter") : req.params[c.name] = c.value

------------------------------------------------------------------------------
(* One decision *)

(* tok is the token found under the request's token id, or NoValue. *)
SelectionTokenValid(g, req, tok, t) ==
    /\ req.token # NoValue
    /\ req.token \in g.tokens
    /\ tok # NoValue
    /\ tok.type = TokenTypeOf[req.action]
    /\ t < tok.expires
    /\ tok.user = g.user

DigestsMatch(req, appr) ==
    /\ req.payload # NoValue /\ req.target # NoValue
    /\ appr.payload = req.payload /\ appr.target = req.target

(* The tests of resolve() in the order the code makes them: the first that *)
(* holds is the reason of the denial.                                      *)
Denials(g, req, origin, appr, tok, t) ==
    LET a       == req.action
        shell   == origin = "shell"
        decided == shell /\ EffectivelyApprovalRequired(g, a) /\ appr # NoValue
    IN << [why |-> "CaveatWidening", when |-> ~ChainValid(g) \/ ~BindingsValid(g)],
          [why |-> "GrantExpired",   when |-> IsExpired(g, t)],
          [why |-> "UnknownAction",  when |-> a \notin Catalog],
          [why |-> "ExplicitDeny",   when |-> shell /\ a \in g.denied],
          [why |-> "EgressClassNotGranted",
           when |-> /\ a \in Declared /\ EgressClassOf[a] # NoValue
                    /\ ~EffectivelyAllowsClass(g, EgressClassOf[a])],
          [why |-> "OutputChannelNotGranted",
           when |-> /\ a \in Declared /\ a \in Routed
                    /\ \/ ChannelsOf[a] = {}
                       \/ \E x \in ChannelsOf[a] : ~EffectivelyAllowsChannel(g, x)],
          [why |-> "CaveatWidening", when |-> a \notin Declared],
          [why |-> "CaveatWidening", when |-> ~HonoursBindings(g, req)],
          [why |-> "KernelOriginNotTrusted", when |-> ~shell /\ a \notin KernelOrigin],
          [why |-> "SelectionTokenInvalid",
           when |-> /\ shell /\ TokenTypeOf[a] # NoValue
                    /\ ~SelectionTokenValid(g, req, tok, t)],
          [why |-> "ApprovalExpired", when |-> decided /\ t >= appr.expires],
          [why |-> "ApprovalMissing", when |-> decided /\ appr.decision # "approved"],
          [why |-> "ApprovalDigestMismatch", when |-> decided /\ ~DigestsMatch(req, appr)],
          [why |-> "NotGranted",
           when |-> /\ shell
                    /\ ~EffectivelyApprovalRequired(g, a)
                    /\ ~EffectivelyAllows(g, a)] >>

DenialReasons ==
    {"CaveatWidening", "GrantExpired", "UnknownAction", "ExplicitDeny",
     "EgressClassNotGranted", "OutputChannelNotGranted", "KernelOriginNotTrusted",
     "SelectionTokenInvalid", "ApprovalExpired", "ApprovalMissing",
     "ApprovalDigestMismatch", "NotGranted"}

(* What is left when nothing denies: an approval-required action of the    *)
(* shell without a recorded decision asks the owner; all else is allowed.  *)
Undenied(g, req, origin, appr) ==
    IF origin = "shell" /\ EffectivelyApprovalRequired(g, req.action) /\ appr = NoValue
    THEN "ApprovalRequired"
    ELSE "Allow"

Resolve(g, req, origin, appr, tok, t) ==
    LET d   == Denials(g, req, origin, appr, tok, t)
        hit == {i \in DOMAIN d : d[i].when}
    IN  IF hit = {}
        THEN Undenied(g, req, origin, appr)
        ELSE d[CHOOSE i \in hit : \A j \in hit : i <= j].why

(* A shadow grant never lets an effect through. *)
GateDecision(g, req, origin, appr, tok, t) ==
    LET decision == Resolve(g, req, origin, appr, tok, t)
    IN  IF g.mode = "shadow" /\ decision \in {"Allow", "ApprovalRequired"}
        THEN "EffectSuppressed"
        ELSE decision
=============================================================================
