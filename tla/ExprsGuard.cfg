\* The guard of nested types, on its own.
CONSTANTS
  NEAR = 2
  Terms <- AllTerms
  Types <- Telescopes
  Shifts <- AllShifts
  Substs <- AllSubsts
  MaxHeight = 16
  MaxSteps = 0
SPECIFICATION ExprsSpec
INVARIANTS GuardRefusesOnlyLocals
CHECK_DEADLOCK FALSE
