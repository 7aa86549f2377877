\* The race with shorter times, under the fairness of the timeouts, of the threads
\* and of the clock.
SPECIFICATION FairSpec
CONSTANTS
  t1 = t1
  t2 = t2
  u1 = u1
  u2 = u2
  schemaJson = schemaJson
  plainJson = plainJson
  None = None
  Threads = {t1, t2}
  Uris = {u1}
  MaxVersion = 2
  ContentTypes = {schemaJson}
  CacheTtl = 2
  MaxSize = 1
  Horizon = 2
  StalenessWindow = 1
  AllowHttp = FALSE
  AllowPrivateIp = FALSE
  Configs <- PlainConfigs
  Hostless = {}
  Scheme <- AllHttps
  Validator <- AllEtag
  Stamp <- CoarseStamp
PROPERTIES
  EveryFetchReturns
  CacheConverges
