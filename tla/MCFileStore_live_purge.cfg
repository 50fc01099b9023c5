SPECIFICATION Spec
CONSTANTS
  b1 = b1
  b2 = b2
  s1 = s1
  s2 = s2
  Beacons = {b1, b2}
  Sources = {"hn", "reddit"}
  Ids = {"i1"}
  Verdicts = {"hot"}
  ClaimIds = {}
  Claimants = {}
  Nobody = "nobody"
  Pollers = {"poller"}
  Purgers = {"purger"}
  SingleWriter = FALSE
  Segments <- PlainSegments
INVARIANTS PurgedGone
