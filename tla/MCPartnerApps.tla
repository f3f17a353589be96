---------------------------- MODULE MCPartnerApps ----------------------------
(***************************************************************************)
(* Small instances of PartnerApps for TLC.                                 *)
(***************************************************************************)
EXTENDS PartnerApps, TLC

\* Model values of one kind are interchangeable: no definition singles one out.
MCSymmetry == Permutations(Accounts) \cup Permutations(Names) \cup Permutations(Clients)
              \cup Permutations(Secrets) \cup Permutations(Requests)
=============================================================================
