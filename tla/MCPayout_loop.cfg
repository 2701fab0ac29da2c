SPECIFICATION Spec
CONSTANTS
  d1 = d1
  d2 = d2
  w1 = w1
  w2 = w2
  loop = loop
  Deals = {d1}
  Workers = {w1}
  Loop = loop
  Addressed = {d1}
  TermsSet <- LoopTerms
  MaxRetry = 1
  Disturbances = {"time", "crash", "cancel", "late", "halt"}
INVARIANTS
  TypeOK
  PaidOnce
  PaidMeansSettled
  OneTxid
  ReleaseNeedsBuyer
  RefundNeedsSignature
  DoneHasTxid
PROPERTIES
  CustodyKept
