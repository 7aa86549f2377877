\* One thread, two configurations of the type, every check failed once.
SPECIFICATION FairSpec
CONSTANTS
  t1 = t1
  t2 = t2
  u1 = u1
  u2 = u2
  schemaJson = schemaJson
  html = html
  orders = orders
  small = small
  big = big
  shop = shop
  other = other
  None = None
  Threads = {t1}
  Uris = {u1, u2}
  MaxVersion = 2
  Types = {"capability", "azp"}
  ContentTypes = {schemaJson, html}
  Supported = {schemaJson}
  Oversized = {big}
  Window = 0
  Memory = 1
  Horizon = 1
  MayForget = FALSE
  Requests <- AllRequests
  WellFormed <- NamesWellFormed
  TypeConfigs <- TwoConfigs
  KeySets <- SigningKeys
  Conforms <- Valid
  Alike <- Etags
INVARIANTS
  TypeOK
  MintedUnderOneConfiguration
  MintedAuthorised
  AuditMatchesAnswer
PROPERTIES
  EveryRequestAnswered
