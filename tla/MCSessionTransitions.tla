------------------------ MODULE MCSessionTransitions ------------------------
(* Instances of SessionTransitions for TLC: accounts and servers are      *)
(* model values, which the specification only compares.                  *)
EXTENDS SessionTransitions, TLC

Symmetry == Permutations(Accounts) \cup Permutations(Servers)
=============================================================================
