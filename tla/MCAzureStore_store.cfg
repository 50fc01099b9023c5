SPECIFICATION Spec
CONSTANTS
  b = b
  s1 = s1
  s2 = s2
  i1 = i1
  high = high
  f1 = f1
  alice = alice
  w1 = w1
  w2 = w2
  p1 = p1
  Nobody = Nobody
  Beacons = {b}
  Sources = {s1, s2}
  Ids = {i1}
  Verdicts = {high}
  ClaimIds = {f1}
  Claimants = {alice}
  Writers = {w1, w2}
  Purgers = {p1}
SYMMETRY Sym
INVARIANTS
  TypeOK
  SessionInv
  AckedDurable
  PurgedGone
  NoCircularWait
PROPERTY IsAStoreApart
