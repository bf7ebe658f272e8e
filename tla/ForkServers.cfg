SPECIFICATION Spec
CONSTANTS
  Conns = {c1, c2, c3}
  Workers = {w1, w2}
  Boss = boss
  None = none
  MaxSignals = 2
INVARIANTS
  OneHandler
  NoOrphans
PROPERTIES
  Released
  BossAnswers
CHECK_DEADLOCK FALSE
