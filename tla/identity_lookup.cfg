\* Two accounts that may share everything, two requests at once.
SPECIFICATION Spec
CONSTANTS
  Accounts = {a1, a2}
  Texts = {1, 2, 3}
  Emails = {1, 2}
  Tokens = {t1}
  Requests = {r1, r2}
  NoAccount = NoAccount
SYMMETRY MCSymmetry
INVARIANTS TypeOK NeverStrays SessionsTellTheirOwn
