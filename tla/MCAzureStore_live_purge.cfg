SPECIFICATION Spec
CONSTANTS
  b = b
  s1 = s1
  s2 = s2
  i1 = i1
  high = high
  f1 = f1
  alice = alice
  w1 = w1
  w2 = w2
  p1 = p1
  Nobody = Nobody
  Beacons = {b}
  Sources = {s1}
  Ids = {i1}
  Verdicts = {high}
  ClaimIds = {}
  Claimants = {}
  Writers = {w1}
  Purgers = {p1}
INVARIANT FindingsAreSeen
