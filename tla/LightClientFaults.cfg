SPECIFICATION Spec
CONSTANTS
  SlotsPerPeriod = 4
  CommitteeSize = 2
  MinSyncCommitteeParticipants = 1
  Nil = Nil
  TrustedCommittee = 1
  StartSlot = 6
  MaxSlot = 11
  MaxRestarts = 1
  FinalityLag = 1
  StaleBy = 0
  MinBits = 1
  Faults <- AllFaults
INVARIANT NextCommitteePinned
PROPERTY RegressionIsToAnchor
PROPERTY StaleFinalityHeals
CHECK_DEADLOCK FALSE
