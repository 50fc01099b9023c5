SPECIFICATION Spec
CONSTANTS
  b1 = b1
  b2 = b2
  h1 = h1
  l1 = l1
  l2 = l2
  Beacons = {b1, b2}
  Sources = {"hn", "lobsters"}
  Ids = {h1, l2}
  Verdicts <- MCVerdicts
  ClaimIds = {}
  Claimants = {}
  Nobody = "nobody"
  Volatile = TRUE
  Instances = {"p1"}
  SourceOf <- MCSourceOf
  Fetchers <- MCFetchers
  Prefiltered = {"hn"}
  Keywords <- MCKeywords
  Haystack <- MCHaystack
  Tagged <- MCTagged
  VerdictsOf <- MCVerdictsOfTwo
  Realtime <- MCRealtime
  Digest <- MCDigest
  Gated = {b2}
  Fleeting = {}
  MaxFaults = 2
INVARIANTS TypeOK DedupeInv NoDuplicatePost HotSeenImpliesPosted FunnelBalanced
PROPERTY IsAnAlerter
