\* The mint page: two executions of doMint, one tab; enough verifiers for every
\* place that may hold one.
\* The console: three images, one that a build is under way for, one current, one
\* new; two boxes, one that is replaced while the wallet is at work for it, and the
\* one in its place; a drop-down of three names, one of which the issuer does not
\* know.
SPECIFICATION BrowserSpec
CONSTANTS
  m1 = m1
  m2 = m2
  boot = boot
  v1 = v1
  v2 = v2
  v3 = v3
  v4 = v4
  v5 = v5
  v6 = v6
  i1 = i1
  i2 = i2
  i3 = i3
  b1 = b1
  b2 = b2
  c1 = c1
  c2 = c2
  c3 = c3
  None = None
  Mints = {m1, m2}
  Boot = boot
  Verifiers = {v1, v2, v3, v4, v5, v6}
  MaxDigests = 1
  Error = Error
  Nothing = Nothing
  Imgs = {i1, i2, i3}
  Boxes = {b1, b2}
  Configs = {c1, c2, c3}
  Advertised = {c1, c2}
INVARIANTS
  TypeOK
  SignOnOnce
  LogoutForgets
  SignedInHasTokens
  OneRefresh
  OfferTypeOK
  OneBuildPerImage
  HiddenBehindBox
  OfferFitsSelection
  CredentialInItsBox
PROPERTIES
  ButtonComesBack
  BootEnds
  BuildEnds
  WalletEnds
