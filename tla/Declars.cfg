\* Exports of two and three items, in any order, with two threads that check;
\* exports of eight lines, the last three of them any.
CONSTANTS
  Names <- AllNames
  Files <- Exports
  RecOf <- Recs
  Threads = {t1, t2}
  NO_DECL = 8
  LinesAt <- AllLines
  U16Max = 3
  Extensions = {"nat_lit"}
  Disallowed <- Policy
SPECIFICATION Spec
INVARIANTS AcceptsExactly DeriveSees LinesMean
