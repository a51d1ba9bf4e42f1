\* Three threads that may each own up to three references; liveness, so no symmetry.
CONSTANTS
  Thread = {t1, t2, t3}
  Ref = {r1, r2, r3}
  None = None
  HasAtomics = TRUE
SPECIFICATION FairSpec
INVARIANTS
  TypeOK
  CountExact
  NoUseAfterFree
  LockExclusive
PROPERTIES
  ImplementsObject
  Reclaimed
