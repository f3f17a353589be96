------------------------------ MODULE MCBrowser ------------------------------
(* Module Browser on small sets; requests, tokens and forms are            *)
(* interchangeable.                                                        *)
EXTENDS Browser, TLC

MCSymmetry ==
  Permutations(Tokens) \cup Permutations(Forms) \cup Permutations(Requests)

=============================================================================
