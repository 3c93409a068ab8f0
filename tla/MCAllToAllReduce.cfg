CONSTANTS
  Programs <- Equal
SPECIFICATION Spec
INVARIANTS ReduceExact NoScratchRace
