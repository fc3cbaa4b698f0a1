SPECIFICATION FairSpec
CONSTANTS
  MaxAttempts = 2
  RefusedParty <- MCFirst
  RefusedIntake <- MCFirst
  Reattach = 1
  MaxEdits = 3
  MaxLost = 2
  MaxCrashes = 1
INVARIANTS
  FormationCreateTypeOK
  OneDriverFilesOnce
  SsnOutlivesItsBody
  OneDriverKeepsTheParty
PROPERTIES
  SettledStays
  SubmittedSettles
CHECK_DEADLOCK FALSE
