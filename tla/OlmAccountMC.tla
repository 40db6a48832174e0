---------------------------- MODULE OlmAccountMC ----------------------------
(* Instances of OlmAccount for TLC.                                         *)
EXTENDS OlmAccount, TLC

CONSTANTS m1, m2

Messages == {m1, m2}

Symmetry == Permutations(Messages)
=============================================================================
