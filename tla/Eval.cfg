\* Literals above 2 stand for those of more than 8 bits, one bound variable for a long telescope.
CONSTANTS
  Environments <- Worlds
  NatType = "N"
  NatZero = "zero"
  NatSucc = "succ"
  QuotMk = "Quot_mk"
  QuotLift = "Quot_lift"
  QuotInd = "Quot_ind"
  NatRed <- Native
  DeferAbove = 2
  Deep = 1
  Jobs <- AllJobs
SPECIFICATION Spec
INVARIANTS EvalMeans ForceExposes InferMeans
CHECK_DEADLOCK FALSE
