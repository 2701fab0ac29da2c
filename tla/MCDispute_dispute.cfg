SPECIFICATION DisputeSpec
CONSTANTS
  d1 = d1
  w1 = w1
  o1 = o1
  o2 = o2
  o3 = o3
  r1 = r1
  r2 = r2
  loop = loop
  Deals = {d1}
  Workers = {w1}
  Loop = loop
  Addressed = {}
  TermsSet <- BuyerTerms
  MaxRetry = 1
  Disturbances = {"crash"}
  Oracles = {o1, o2, o3}
  Threshold = 2
  Relays = {r1}
  MaxEvents = 2
  MaxNoise = 0
  ListenerLoads = TRUE
SYMMETRY OracleSymmetry
INVARIANTS
  DisputeTypes
  PaidOnce
  PaidMeansSettled
  DoneHasTxid
PROPERTIES
  OraclesDecide
  CustodyKeptInDispute
