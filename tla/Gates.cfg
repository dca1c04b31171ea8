CONSTANTS
  Address = {a1, a2}
  Burst = 4
  Cost = 2
  Refill = 1
  TTL = 4
  Client = {c1, c2}
  Name = {n1, n2}
  Attempt = {l1, l2}
  MaxAttempts = 2
  Cooldown = 2
  IdleTTL = 2
  GCInterval = 2
  MaxEntries = 2
  EvictFraction = 4
  Owner = {o1, o2}
  Admin = {o1}
  Token = {t1}
  Call = {q1, q2}
  Buffer = 1
  MaxUse = 2
SPECIFICATION Spec
INVARIANTS TypeOK RateIsKept GuessesAreBounded TableIsBounded CutOffHolds
PROPERTIES NoUndueRefusal CooldownsRunOut TokensActInScope TokensNeedPermission LastUseAdvances UsesAreTaken
CHECK_DEADLOCK FALSE
