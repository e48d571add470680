---------------------------- MODULE MCRuleStore ----------------------------
(* Small instances of RuleStore for TLC. Requests are interchangeable, and *)
(* so are chains and configuration sections.                               *)
EXTENDS RuleStore, TLC

Symmetry == Permutations(Reqs) \cup Permutations(Chains) \cup Permutations(Keys)
=============================================================================
