\* An account takes the name another has given up.
SPECIFICATION Spec
CONSTANTS
  Accounts = {a1, a2}
  Names = {n1, n2}
  Clients = {c1}
  Secrets = {s1}
  Requests = {r1}
  None = None
  NamesReused = TRUE
SYMMETRY MCSymmetry
PROPERTIES OnlyCreatorAdministers
