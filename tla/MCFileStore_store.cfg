SPECIFICATION Spec
CONSTANTS
  b1 = b1
  b2 = b2
  s1 = s1
  s2 = s2
  Beacons = {b1, b2}
  Sources = {s1, s2}
  Ids = {"i1"}
  Verdicts = {"hot"}
  ClaimIds = {"c1"}
  Claimants = {"ann"}
  Nobody = "nobody"
  Pollers = {"poller"}
  Purgers = {"purger"}
  SingleWriter = TRUE
  Segments <- PlainSegments
SYMMETRY Symmetry
INVARIANTS TypeOK WriterInv AckedDurable PurgedGone

PROPERTY IsAStore
