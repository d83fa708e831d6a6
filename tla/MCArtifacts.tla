----------------------------- MODULE MCArtifacts -----------------------------
(* Instances of ArtifactLifecycle for TLC: two versions of a learned workflow, and
   an agent that a base provides or the owner put into the overlay as a file. *)
EXTENDS ArtifactLifecycle

WorkflowAndAgent == {<<"w", 1>>, <<"w", 2>>, <<"a", 1>>}
PlacedAgent == {<<"a", 1>>}
SecondNeedsAgent == [a \in Learned |-> IF a = <<"w", 2>> THEN {"a"} ELSE {}]
FirstNeedsAgent == [a \in Learned |-> IF a = <<"w", 1>> THEN {"a"} ELSE {}]
WithAndWithoutAgent == {{}, {"a"}}
WithoutAgent == {{}}
==============================================================================
