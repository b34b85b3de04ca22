\* Two hosts resume the same run.
CONSTANTS
  Workers = {w1, w2}
  Hosts = {h1, h2}
  Runs = {r1}
  RequestIds = {i1, i2}
  Mutations = {m1}
  Reads = {}
  Inadmissible = {}
  Values = {v1}
  None = None
  Truthful = TRUE
  Quiescent = TRUE
  HostWaits = FALSE
  Overlap = FALSE
  FreshIds = TRUE
  MaxSteps = 2
  Slack = 0
  MaxDenials = 1
  CountFaults = FALSE
  MaxFaults = 0
SPECIFICATION Spec
CHECK_DEADLOCK FALSE
PROPERTIES ResumedWhenEstablished
