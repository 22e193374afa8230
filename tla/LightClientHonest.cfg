SPECIFICATION FairSpec
CONSTANTS
  SlotsPerPeriod = 4
  CommitteeSize = 3
  MinSyncCommitteeParticipants = 1
  Nil = Nil
  TrustedCommittee = 1
  StartSlot = 8
  MaxSlot = 16
  MaxRestarts = 0
  FinalityLag = 1
  StaleBy = 1
  MinBits = 2
  Faults <- NoFaults
PROPERTY HeadNotBehindFinalized
PROPERTY ValidUpdateIsSafe
PROPERTY SkipSyncEnds
CHECK_DEADLOCK FALSE
