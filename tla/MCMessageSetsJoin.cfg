CONSTANTS
  WtpLists <- MCDefault
  AcLists <- MCShipped
  Versions = {70}
SPECIFICATION Spec
PROPERTIES JoinResponseHeard
