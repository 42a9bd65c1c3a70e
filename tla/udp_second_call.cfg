SPECIFICATION LiveSpec
CONSTANTS
  Servers = 2
CHECK_DEADLOCK FALSE
PROPERTIES
  EveryServerAnswers
