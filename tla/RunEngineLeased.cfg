\* Leases outlast every cycle; crashes and failing statements at any point.
CONSTANTS
  Workers = {w1, w2}
  Hosts = {h1}
  Runs = {r1}
  RequestIds = {i1, i2}
  Mutations = {m1}
  Reads = {q1}
  Inadmissible = {x1}
  Values = {v1, v2}
  None = None
  Truthful = TRUE
  Quiescent = TRUE
  HostWaits = FALSE
  Overlap = FALSE
  FreshIds = TRUE
  MaxSteps = 2
  Slack = 0
  MaxDenials = 1
  CountFaults = FALSE
  MaxFaults = 0
SPECIFICATION Spec
CHECK_DEADLOCK FALSE
SYMMETRY Symmetry
INVARIANTS TypeOK TranscriptComplete NoStepPastOpenEffect BlockedOnOwnStep AtMostOneEffect
PROPERTIES ImplementsLifecycle UsesLedgerSerially
