\* A lookup beside a logout.
SPECIFICATION Spec
CONSTANTS
  Accounts = {a1}
  Names = {n1, n2}
  Tokens = {t1}
  Requests = {r1, r2}
  NoName = NoName
  NoAccount = NoAccount
  NoToken = NoToken
  Vias = {"MSPAuth"}
  MaxFaults = 0
  NamesReused = FALSE
SYMMETRY MCSymmetry
INVARIANT LogoutRequiresSignIn
