---------------------------- MODULE MCDelegation ----------------------------
(* Instances of Delegation for TLC. *)
EXTENDS Delegation, TLC

CONSTANTS commission, report, search, reply, read, erase, draft, notify,
          web, tg, thread, k, v1, v2, owner, tk, d1

AllActions == {commission, report, search, reply, read, erase, draft, notify}

Classed  == [a \in Actions |-> IF a = search THEN web ELSE NoValue]
Channelled == [a \in Actions |-> IF a = reply THEN {tg} ELSE {}]
Tokened  == [a \in Actions |-> IF a = read THEN thread ELSE NoValue]

Root(allowed, approval, denied, mode) ==
    [life |-> 2, allowed |-> allowed, approval |-> approval, denied |-> denied,
     classes |-> {web}, channels |-> {tg}, user |-> owner, tokens |-> {tk},
     mode |-> mode]

Asked == {draft} \cap Actions

(* A denial binds the shell and not the kernel; a shadow grant commissions nothing. *)
WideRoots == {Root(Actions, Asked, {notify}, "live"),
              Root(Actions \ Asked, Asked, {search}, "shadow")}

Commissioned(actions, bound, before) ==
    [actions |-> actions, bound |-> bound, before |-> before]

(* Narrow, wide and bound and long, self-contradicting; and two refused. *)
SomeSpecs ==
    {Commissioned({report, commission, search}, {}, 2),
     Commissioned(Actions \ {erase}, {<<k, v1>>}, 3),
     Commissioned({report, commission, draft}, {<<k, v1>>, <<k, v2>>}, 1),
     Commissioned({report, erase}, {}, 1),
     Commissioned({commission}, {}, 1)}

GrantSymmetry == Permutations(GrantIds)
=============================================================================
