SPECIFICATION FairSpec
CONSTANTS
  d1 = d1
  d2 = d2
  w1 = w1
  w2 = w2
  loop = loop
  Deals = {d1}
  Workers = {}
  Loop = loop
  Addressed = {d1}
  TermsSet <- SignedTerms
  MaxRetry = 1
  Disturbances = {"time", "crash"}
PROPERTIES
  StuckDealsAreHandled
