SPECIFICATION FairDisputeSpec
CONSTANTS
  d1 = d1
  w1 = w1
  o1 = o1
  o2 = o2
  o3 = o3
  r1 = r1
  r2 = r2
  loop = loop
  Deals = {d1}
  Workers = {}
  Loop = loop
  Addressed = {d1}
  TermsSet <- BuyerTerms
  MaxRetry = 1
  Disturbances = {"late", "crash"}
  Oracles = {o1, o2, o3}
  Threshold = 2
  Relays = {r1, r2}
  MaxEvents = 2
  MaxNoise = 1
  ListenerLoads = TRUE
PROPERTIES
  HonestOraclesDecide
  VerdictFollows
