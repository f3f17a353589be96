\* One request at a time, carrying its token anywhere, and one database error.
SPECIFICATION FairSpec
CONSTANTS
  Accounts = {a1, a2}
  Names = {n1, n2, n3}
  Tokens = {t1, t2}
  Requests = {r1}
  NoName = NoName
  NoAccount = NoAccount
  NoToken = NoToken
  Vias = {"MSPAuth", "PPAuth", "Authorization"}
  MaxFaults = 1
  NamesReused = FALSE
INVARIANTS RowsFollowRename
PROPERTIES RebindKeepsSession StaleEntryEvicted
