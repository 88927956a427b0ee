\* Any questions in any order, on every term of SixPairs; two comparisons a probe.
CONSTANTS
  Last = 6
  Graphs <- SixPairs
  Cap = 2
SPECIFICATION Spec
INVARIANTS AcceptsSoundly RefutesHonestly ProbesNest
