CONSTANTS
  Keys = {k1, k2}
  Callsigns = {c}
  NoCall = none
  Requests = {r1, r2}
  CacheCap = 1
  HitTtl = 3
  SoftTtl = 2
  FailTtl = 1
  NoEntry = empty
SPECIFICATION Spec
INVARIANTS OneFetchPerKey PendingHasFetcher AnswerIsForCall

