\* Two types of one realm share a schema URI; one configures its content
\* type.
SPECIFICATION Spec
CONSTANTS
  t1 = t1
  t2 = t2
  u1 = u1
  u2 = u2
  schemaJson = schemaJson
  plainJson = plainJson
  None = None
  Threads = {t1, t2}
  Uris = {u1}
  MaxVersion = 3
  ContentTypes = {schemaJson, plainJson}
  CacheTtl = 3
  MaxSize = 1
  Horizon = 3
  StalenessWindow = 1
  AllowHttp = FALSE
  AllowPrivateIp = FALSE
  Configs <- SharedConfigs
  Hostless = {}
  Scheme <- AllHttps
  Validator <- AllEtag
  Stamp <- CoarseStamp
INVARIANT OverrideHonoured
