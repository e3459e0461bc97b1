SPECIFICATION Spec
CONSTANTS
  h1 = h1
  x1 = x1
  x2 = x2
  NoPlace = NoPlace
  Lines = {1, 2}
  Reserved = {1}
  Bought = 2
  Places = {1, 2}
  Shelves <- OneUnit
  Parcels = {x1, x2}
  Handlers = {h1}
  MaxArrivals = 1
  MaxWrittenOff = 1
  MaxFaults = 1
INVARIANTS
  NothingDueIsGivenBack
  EverythingIsBack
  CreditedWhereTaken
  WaitingIsNotOnSale
CHECK_DEADLOCK FALSE
SYMMETRY Interchangeable
