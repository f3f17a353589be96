\* Every page, tickets, lost answers and dying tokens; four pages side by side.
SPECIFICATION Spec
CONSTANTS
  Keep = Keep
  None = None
  f1 = f1
  f2 = f2
  r1 = r1
  r2 = r2
  t1 = t1
  t2 = t2
  Tokens = {t1, t2}
  Forms = {f1, f2}
  Requests = {r1, r2}
  Visits = {"login", "login classic", "post", "register", "fallback", "reuse", "reuse classic", "form", "finish", "partner", "signin", "complete", "edit", "retry", "logout"}
  Beside = {"reuse", "edit", "logout", "form"}
  Tickets = TRUE
  Expires = TRUE
  Loses = TRUE
SYMMETRY MCSymmetry
INVARIANTS TypeOK CancelledWasAsked SignedOutStaysOut OpenFormsValidate
PROPERTIES SignedInIsLetIn
