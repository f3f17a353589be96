\* Every text of up to four symbols, those the code writes itself among them.
SPECIFICATION Spec
CONSTANTS
  Symbols <- MCSymbols
  MaxLength = 4
INVARIANTS HeaderArrives FormIsTheAllowlist SignInLeadsBack
\* Typing ends at MaxLength.
CHECK_DEADLOCK FALSE
