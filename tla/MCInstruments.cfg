SPECIFICATION Spec
CONSTANTS
  BadSymbol = BadSymbol
  Own = Own
  None = None
  Dates = {20260117, 20261117}
  Once = TRUE
  Specs <- MCSpecs
INVARIANTS
  SymbolNamesContract
  ChainExact
  FirstContractIsFound
  SweeperAgrees
PROPERTY
  SweepTakesTheDue
CHECK_DEADLOCK FALSE
