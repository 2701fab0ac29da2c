SPECIFICATION Spec
CONSTANTS
  w1 = w1
  w2 = w2
  k1 = k1
  k2 = k2
  k3 = k3
  l1 = l1
  l2 = l2
  l3 = l3
  e1 = e1
  e2 = e2
  Workers = {w1, w2}
  Keys <- OneKeyEach
  Wallets <- TwoSellerWallets
  Escrows = {e1, e2}
  Creators = {"seller"}
  Actions = {"refund"}
  None = None
PROPERTIES
  FundSafety
