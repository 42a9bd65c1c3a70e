SPECIFICATION LiveSpec
CONSTANTS
  Sizes = {5, 6, 7, 9}
  ResponseSize = 3
  MessageSize = 7
  Window = 4
INVARIANTS
  TypeOK
  BytesInOrder
  EofMeansWhole
PROPERTIES
  ExchangeEnds
