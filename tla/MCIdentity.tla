------------------------------ MODULE MCIdentity ------------------------------
(* Identity for TLC: small sets of model values.  Texts keep their order, so *)
(* they are numbers and not symmetric.                                       *)
EXTENDS Identity, TLC

MCSymmetry ==
  Permutations(Accounts) \cup Permutations(Tokens) \cup Permutations(Requests)
=============================================================================
