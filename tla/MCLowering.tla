----------------------------- MODULE MCLowering -----------------------------
(* Lowering for TLC: one label, whose slug is spelled like the explicit key. *)
EXTENDS Lowering

CONSTANT n1

MCPolicies == {[policy |-> "forever", env_keys |-> {}]}
MCSlug == [l \in Labels |-> n1]
=============================================================================
