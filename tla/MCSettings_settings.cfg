SPECIFICATION Spec
CONSTANTS
  i1 = i1
  Unset = Unset
  Ips = {i1}
  Limits <- SmallLimits
  Window = 3
  Interval = 2
  MaxClock = 4
  Amounts = {0, 1, 2, 3}
  AbsMin = 1
  AbsMax = 2
  Fees = {0, 11}
  Envs <- SomeEnvs
INVARIANTS
  SettingsTypes
  StoredOrdered
  SomeAmountAllowed
  CapHolds
  WindowRespected
