---------------------------- MODULE MCOAuthGrants ----------------------------
(***************************************************************************)
(* Small instances of OAuthGrants for TLC.                                 *)
(***************************************************************************)
EXTENDS OAuthGrants, TLC

\* Model values of one kind are interchangeable: no definition singles one out.
MCSymmetry == Permutations(Accounts) \cup Permutations(SignIns)
              \cup Permutations(Clients) \cup Permutations(Uris)
              \cup Permutations(Codes) \cup Permutations(Bearers)
              \cup Permutations(Requests)
=============================================================================
