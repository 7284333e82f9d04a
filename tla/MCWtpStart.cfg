CONSTANTS
  Letters <- MCLetters
  MaxValue = 7
  Controllers <- MCControllers
  Offer <- MCOffer
  Insecure = {"acB"}
  Loads = {1, 65535}
  Factory <- MCFactory
  Messages <- MCMessages
  MaxAnswers = 2
  MaxOctets = 4
SPECIFICATION Spec
CHECK_DEADLOCK FALSE
INVARIANTS TypeOK Considered Remembered NothingInvented
