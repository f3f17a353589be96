------------------------------ MODULE MCSessions ------------------------------
(***************************************************************************)
(* Small instances of Sessions for TLC.                                    *)
(***************************************************************************)
EXTENDS Sessions, TLC

\* Model values of one kind are interchangeable: no definition singles one out.
MCSymmetry == Permutations(Accounts) \cup Permutations(Names)
              \cup Permutations(Tokens) \cup Permutations(Requests)
=============================================================================
