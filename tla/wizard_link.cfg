\* Every host and language, both cookies with every session, failing lookups.
SPECIFICATION FairSpec
CONSTANTS
  None = None
  Dead = Dead
  a1 = a1
  a2 = a2
  Accounts = {a1, a2}
  StoreFails = TRUE
  Lcids = {"none", "1033", "1049", "1036"}
  Accepts <- MCAccepts
INVARIANTS TypeOK LinksOneAccount 
PROPERTIES EndsInAPage
