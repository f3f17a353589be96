\* An edit whose request carries the PPAuth cookie alone.
SPECIFICATION FairSpec
CONSTANTS
  Accounts = {a1}
  Names = {n1, n2}
  Tokens = {t1}
  Requests = {r1}
  NoName = NoName
  NoAccount = NoAccount
  NoToken = NoToken
  Vias = {"MSPAuth", "PPAuth"}
  MaxFaults = 0
  NamesReused = FALSE
PROPERTY UpdatedSessionStays
