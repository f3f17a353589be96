\* Two requests at a time over two sessions of two accounts.
SPECIFICATION Spec
CONSTANTS
  Accounts = {a1, a2}
  Names = {n1, n2, n3}
  Tokens = {t1, t2}
  Requests = {r1, r2}
  NoName = NoName
  NoAccount = NoAccount
  NoToken = NoToken
  Vias = {"MSPAuth"}
  MaxFaults = 0
  NamesReused = FALSE
SYMMETRY MCSymmetry
INVARIANTS TypeOK SessionIdentity UntouchedSessionSurvives LogoutFinal
PROPERTIES PromiseKept
