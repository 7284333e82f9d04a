CONSTANTS
  WtpLists <- MCWtpLists
  AcLists <- MCAcLists
  Versions = {70, 73, 75}
SPECIFICATION Spec
INVARIANTS TypeOK Understood NobodyExits RunsOnlyIf
PROPERTIES ServiceableRuns
