\* Three paths of the console, two of them items, three handles, two EC keys and one other;
\* the limits of GIF for the encoder, scaled with its texts: the second image fills the table of
\* strings, the first ends where the width of a code would grow next.
SPECIFICATION ClientsSpec
CONSTANTS
  r1 = r1
  r2 = r2
  r3 = r3
  h1 = h1
  h2 = h2
  h3 = h3
  k1 = k1
  k2 = k2
  k3 = k3
  Link = Link
  NoFrame = NoFrame
  Absent = Absent
  Requests <- MCRequests
  TableLimit = 129
  BlockLimit = 24
  Items = {r1, r2}
  Routes = {r1, r2, r3}
  Frames = {h1, h2, h3}
  EcKeys = {k1, k2}
  OtherKeys = {k3}
INVARIANTS
  QrTypeOK
  CapacityExact
  Scannable
  RasterReadable
  ImageDecodes
  NavTypeOK
  OneLoop
  RouteMarked
  Verdict
PROPERTY HarnessEnds
CHECK_DEADLOCK FALSE
