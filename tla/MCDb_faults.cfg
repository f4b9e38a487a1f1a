SPECIFICATION FairSpec
CONSTANTS
  s1 = s1
  s2 = s2
  s3 = s3
  k1 = k1
  k2 = k2
  t1 = t1
  t2 = t2
  NoText = NoText
  Failed = Failed
  Sessions = {s1, s2, s3}
  Keys = {k1, k2}
  Texts = {t1}
  Faults = {"gdbm", "oom", "crash"}
INVARIANTS TypeOK WriterExcludes NoLockOutsideCalls
PROPERTIES ImplementsDbSpec LoneCallSucceeds CallsReturn
