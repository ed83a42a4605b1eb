SPECIFICATION MCLiveSpec
CONSTANTS
  Request = {r1, r2, r3}
  Key = {k1, k2}
  KeyOf <- KeyOfRequest
  QueueLimit = 1
  r1 = r1
  r2 = r2
  r3 = r3
  k1 = k1
  k2 = k2
  c1 = c1
  c2 = c2
  Shard = {s1}
  Executor = {e1}
  Meta = {}
  Nobody = Nobody
  Caller = {c1, c2}
  Stream = {t1}
  MaxRevision = 3
CHECK_DEADLOCK FALSE
PROPERTIES SubmitReturns StopReturns
PROPERTIES CacheCatchesUp StreamCatchesUp CallReturns
