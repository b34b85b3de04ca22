\* A read that is run again after one fault, against what the architecture says of retries.
CONSTANTS
  Workers = {w1}
  Hosts = {h1}
  Runs = {r1}
  RequestIds = {i1}
  Mutations = {m1}
  Reads = {q1}
  Inadmissible = {x1}
  Values = {v1, v2}
  None = None
  Truthful = TRUE
  Quiescent = TRUE
  HostWaits = TRUE
  Overlap = FALSE
  FreshIds = TRUE
  MaxSteps = 1
  Slack = 0
  MaxDenials = 2
  CountFaults = TRUE
  MaxFaults = 1
SPECIFICATION FairSpec
CHECK_DEADLOCK FALSE
PROPERTY RetriedRunsEnd
