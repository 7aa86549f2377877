\* Two URIs in a cache with room for one; a validator that cannot be sent
\* back and coarse Last-Modified stamps; a configured content type; entries that
\* live, and may stand in, within their first second only.
SPECIFICATION Spec
CONSTANTS
  t1 = t1
  t2 = t2
  u1 = u1
  u2 = u2
  schemaJson = schemaJson
  plainJson = plainJson
  None = None
  Threads = {t1, t2}
  Uris = {u1, u2}
  MaxVersion = 2
  ContentTypes = {schemaJson}
  CacheTtl = 1
  MaxSize = 1
  Horizon = 1
  StalenessWindow = 0
  AllowHttp = TRUE
  AllowPrivateIp = FALSE
  Configs <- MixedConfigs
  Hostless = {}
  Scheme <- MixedScheme
  Validator <- MixedValidator
  Stamp <- CoarseStamp
SYMMETRY ThreadSymmetry
PROPERTY SourceSpec
