SPECIFICATION FairSpec
CONSTANTS
  Threads = {t1, t2, t3, t4}
  Spurious = {"draining", "parked"}
INVARIANTS WriterExcludes AssertionsHold
PROPERTIES UpgradersFirst UpgraderServed ImplementsSharedExclusive
