CONSTANTS
  W = 4
  Programs <- GrowingPrograms
SPECIFICATION Spec
INVARIANTS ScratchProtected
