------------------------------ MODULE MCWizard -------------------------------
(* Module Wizard for two accounts and hosts that accept up to two tags.    *)
EXTENDS Wizard

MCTags == {"ru", "en", "fr"}

MCAccepts == UNION {[1..n -> MCTags] : n \in 0..2}

=============================================================================
