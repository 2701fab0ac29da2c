SPECIFICATION Spec
CONSTANTS
  d1 = d1
  d2 = d2
  w1 = w1
  w2 = w2
  loop = loop
  Deals = {d1}
  Workers = {w1, w2}
  Loop = loop
  Addressed = {}
  TermsSet <- AllTerms
  MaxRetry = 1
  Disturbances = {"late"}
SYMMETRY WorkerSymmetry
INVARIANTS
  PaidOnce
  PaidMeansSettled
  ReleaseNeedsBuyer
  DoneHasTxid
