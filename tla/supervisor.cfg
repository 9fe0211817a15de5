SPECIFICATION Spec
CONSTANTS
  v1 = v1
  v2 = v2
  Images = {v1, v2}
  CrashLimit = 2
  Ways <- Some
INVARIANTS RunsInstalled HeldIsTrue BadStaysOut
PROPERTY BackUp
\* ceroboot may end, and only some are started again.
CHECK_DEADLOCK FALSE
