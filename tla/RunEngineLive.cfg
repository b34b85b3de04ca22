\* Two faults at any point, and reads that may return something else each time.
CONSTANTS
  Workers = {w1}
  Hosts = {h1}
  Runs = {r1}
  RequestIds = {i1, i2}
  Mutations = {m1}
  Reads = {q1}
  Inadmissible = {x1}
  Values = {v1, v2}
  None = None
  Truthful = TRUE
  Quiescent = TRUE
  HostWaits = TRUE
  Overlap = FALSE
  FreshIds = TRUE
  MaxSteps = 2
  Slack = 0
  MaxDenials = 2
  CountFaults = TRUE
  MaxFaults = 2
SPECIFICATION FairSpec
CHECK_DEADLOCK FALSE
INVARIANTS FailedHasCause
PROPERTIES RunsEnd EventsDrain
