\* Two accounts that rename themselves, two applications, two requests at once.
SPECIFICATION Spec
CONSTANTS
  Accounts = {a1, a2}
  Names = {n1, n2, n3}
  Clients = {c1, c2}
  Secrets = {s1, s2, s3}
  Requests = {r1, r2}
  None = None
  NamesReused = FALSE
SYMMETRY MCSymmetry
INVARIANTS TypeOK OnlyRenamesOrphan SecretReachesOwner
PROPERTIES OnlyCreatorAdministers PromiseKept
