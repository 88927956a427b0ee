\* Three threads of two declarations each, any outcome, any output mode.
CONSTANTS
  Checkers = {t1, t2, t3}
  PerThread = 2
  WriteMayFail = TRUE
SPECIFICATION ReporterSpec
INVARIANTS LinesAscend Legible
