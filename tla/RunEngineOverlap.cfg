\* Leases lapse under live workers, request ids collide, the host may lie.
CONSTANTS
  Workers = {w1, w2}
  Hosts = {h1}
  Runs = {r1}
  RequestIds = {i1, i2}
  Mutations = {m1}
  Reads = {q1}
  Inadmissible = {x1}
  Values = {v1}
  None = None
  Truthful = FALSE
  Quiescent = FALSE
  HostWaits = FALSE
  Overlap = TRUE
  FreshIds = FALSE
  MaxSteps = 1
  Slack = 2
  MaxDenials = 1
  CountFaults = FALSE
  MaxFaults = 0
SPECIFICATION Spec
CHECK_DEADLOCK FALSE
SYMMETRY Symmetry
INVARIANTS NoStrandedRun ActsOnDecision EffectsAreDecided WriteAhead OneAttemptUnlessDenied
