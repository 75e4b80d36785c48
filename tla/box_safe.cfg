CONSTANTS
  b1 = b1
  b2 = b2
  b3 = b3
  Boxes <- MCBoxes
  FirstBox = b1
  MaxAttempts = 2
  MaxRuns = 2
  Faults <- NoFaults
SPECIFICATION FairSpec
CHECK_DEADLOCK FALSE
INVARIANT TypeOK
INVARIANT NoUnownedBox
INVARIANT DoneHoldsNoBox
PROPERTY BoxComesDown
PROPERTY DriverEnds
INVARIANT OneBoxRunning
INVARIANT NoLostContract
PROPERTY RetiredStaysDown
