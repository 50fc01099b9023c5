SPECIFICATION Spec
CONSTANTS
  b1 = b1
  b2 = b2
  h1 = h1
  l1 = l1
  l2 = l2
  Beacons = {b1}
  Sources = {"hn", "lobsters"}
  Ids = {h1}
  Verdicts <- MCVerdicts
  ClaimIds = {}
  Claimants = {}
  Nobody = "nobody"
  Volatile = FALSE
  Instances = {"p1", "p2"}
  SourceOf <- MCSourceOf
  Fetchers <- MCFetchers
  Prefiltered = {"hn"}
  Keywords <- MCKeywords
  Haystack <- MCHaystack
  Tagged <- MCTagged
  VerdictsOf <- MCVerdictsOf
  Realtime <- MCRealtime
  Digest <- MCDigest
  Gated = {b2}
  Fleeting = {}
  MaxFaults = 0
INVARIANT NoDuplicatePost
