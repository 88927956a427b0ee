CONSTANTS
  Bases <- Worlds
  Blocks <- AllBlocks
  ElimLevel = 3
  NatType <- NName
  NatZero <- ZeroName
  NatSucc <- SuccName
  QuotMk <- MkName
  QuotLift <- LiftName
  QuotInd <- IndName
SPECIFICATION Spec
INVARIANTS BlocksConsistent RecursorsRight
