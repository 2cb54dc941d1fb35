SPECIFICATION FairSpec
CONSTANTS
  Threads = {t1, t2, t3}
  Images = {a, b}
  None = None
INVARIANTS TypeOK AnswersAreOwn CleanWhenUnlocked NeverRefused
PROPERTY LockIsReleased
