SPECIFICATION MCSafetySpec
CONSTANTS
  Request = {r1, r2, r3}
  Key = {k1, k2}
  KeyOf <- KeyOfRequest
  QueueLimit = 2
  r1 = r1
  r2 = r2
  r3 = r3
  k1 = k1
  k2 = k2
  c1 = c1
  c2 = c2
  Shard = {s1}
  Executor = {e1}
  Meta = {m1, m2}
  Nobody = Nobody
  Caller = {c1}
  Stream = {t1}
  MaxRevision = 4
CHECK_DEADLOCK FALSE
INVARIANTS OneAnswer OneFlushAtATime FreshAnswers NothingForgotten
INVARIANTS AnswerIsCurrent VersionCoversState QuietServerIsCurrent
PROPERTIES CacheIsView StreamIsView
