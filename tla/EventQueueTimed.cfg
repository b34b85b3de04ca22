\* A failing event, races on both keys, two faults at any point.
CONSTANTS
  Workers = {w1, w2}
  Producers = {p1, p2}
  None = None
  Events = {1, 2}
  Requests = {0, 1}
  Delays = {0}
  Failing = {1}
  Lease = 2
  Poll = 1
  MaxDelay = 4
  MaxWait = 1
  MaxCall = 1
  MaxStall = 3
  MaxAttempts = 2
  MaxFaults = 2
SPECIFICATION Spec
INVARIANTS AcceptedIsBound JournalIsHonest
PROPERTIES LatestClaimEnds ImplementsLeaseQueue
SYMMETRY Symmetry
