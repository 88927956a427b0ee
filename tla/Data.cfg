\* Two parameters, which a use may exchange, and levels three constructors
\* deep, which LeqComplete shows to need no more of MaxDepth and MaxCalls;
\* expressions that reach past a mask of two variables;
\* any environment held, in sessions that follow each other.
CONSTANTS
  Uparams <- UV
  Compared <- Pairs
  Args <- Crossed
  MaxValue = 4
  MaxDepth = 16
  MaxCalls = 32
  NEAR = 2
  Terms <- AllTerms
  Types <- Telescopes
  Shifts <- AllShifts
  Substs <- AllSubsts
  MaxHeight = 16
  MaxSteps = 2
  Values = {1, 6}
  LevelSubs = {"s"}
  Contexts <- Openings
  HashSize = 2
  DmSize = 2
  MaxEnvSteps = 3
SPECIFICATION Spec
INVARIANTS LeqSound LeqComplete SummaryRight SubstMeans AbsentUnused PruneExact
PROPERTIES MeaningKept InstantiateStable EnvsStable
CHECK_DEADLOCK FALSE
