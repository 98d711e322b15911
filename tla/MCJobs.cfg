SPECIFICATION Spec
CONSTANTS
  j1 = j1
  j2 = j2
  NoJob = NoJob
  Job <- Two
  MaxCuts = 1
  MaxAsks = 2
INVARIANTS TypeOK ExactlyOneSpeaks
PROPERTIES CommandsGoOn
CHECK_DEADLOCK FALSE
