---------------------------- MODULE MCGovernance ----------------------------
(* Two investigations suggest the same pattern. *)
EXTENDS Governance, TLC

Suggested ==
  ({"whitelist"} \X Investigations)
    \cup ({"profile"} \X Investigations)
NoContent == {<<"profile", "i2">>}
SamePattern == [i \in Investigations |-> "pattern"]
Symmetry == Permutations(Requests)
=============================================================================
