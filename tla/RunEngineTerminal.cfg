\* A stale worker meets a run that has ended.
CONSTANTS
  Workers = {w1, w2}
  Hosts = {h1}
  Runs = {r1}
  RequestIds = {i1}
  Mutations = {m1}
  Reads = {q1}
  Inadmissible = {x1}
  Values = {v1}
  None = None
  Truthful = TRUE
  Quiescent = TRUE
  HostWaits = FALSE
  Overlap = TRUE
  FreshIds = TRUE
  MaxSteps = 2
  Slack = 2
  MaxDenials = 1
  CountFaults = FALSE
  MaxFaults = 0
SPECIFICATION Spec
CHECK_DEADLOCK FALSE
PROPERTIES TerminalIsFinal
