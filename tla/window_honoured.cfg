\* The TTL is no longer than the staleness window, as with the defaults.
SPECIFICATION Spec
CONSTANTS
  t1 = t1
  t2 = t2
  u1 = u1
  u2 = u2
  schemaJson = schemaJson
  plainJson = plainJson
  None = None
  Threads = {t1, t2}
  Uris = {u1}
  MaxVersion = 2
  ContentTypes = {schemaJson}
  CacheTtl = 2
  MaxSize = 1
  Horizon = 3
  StalenessWindow = 2
  AllowHttp = FALSE
  AllowPrivateIp = FALSE
  Configs <- PlainConfigs
  Hostless = {}
  Scheme <- AllHttps
  Validator <- AllEtag
  Stamp <- CoarseStamp
PROPERTY WindowHonoured
