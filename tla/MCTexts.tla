------------------------------- MODULE MCTexts -------------------------------
(* Module Texts with the symbols its properties tell apart.                *)
EXTENDS Texts

MCSymbols == {"a", ",", "=", "'", "%", "2C", "+", "&", "/", ":", "?", " ", "\r", "\n"}

=============================================================================
