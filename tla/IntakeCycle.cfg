\* Two daemons on a recurring task and a malformed one-shot request, two faults.
CONSTANTS
  Daemons = {d1, d2}
  Schedules = {s1, s2}
  None = None
  Recurring = {s1}
  Intervals = {1}
  Cap = 2
  MaxTime = 1
  Valid = {s1}
  Malformed = {s2}
  Foreign = {}
  MaxFaults = 2
SPECIFICATION Spec
INVARIANTS TypeOK NoneForgotten SettledMeansHandled
PROPERTIES ImplementsTaskContract
SYMMETRY Symmetry
