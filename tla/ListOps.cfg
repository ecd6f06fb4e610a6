SPECIFICATION Spec
CONSTANTS
  a = a
  b = b
  Values <- TwoValues
  Mapping <- Swap
  MaxCells = 5
  NoValue = NoValue
  NoList = NoList
SYMMETRY Symmetry
INVARIANTS TypeOK EveryCellHasAList
PROPERTY ImplementsSequence
CHECK_DEADLOCK FALSE
