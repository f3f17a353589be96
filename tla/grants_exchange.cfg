\* Two requests at a time over one code, two clients and two URIs.
SPECIFICATION Spec
CONSTANTS
  Accounts = {a1, a2}
  SignIns = {s1, s2}
  Clients = {c1, c2}
  Uris = {u1, u2}
  Codes = {k1}
  Bearers = {b1, b2}
  Requests = {r1, r2}
  None = none
  SignInsReused = FALSE
SYMMETRY MCSymmetry
INVARIANTS TypeOK TokenScope DeletedLeavesNothing UserInfoOwner
PROPERTIES DisabledGetsNothing PromiseKept
