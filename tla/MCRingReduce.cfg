CONSTANTS
  W = 3
  Programs <- MixedPrograms
SPECIFICATION FairSpec
INVARIANTS ReduceExact NoRace
PROPERTIES CallsReturn
