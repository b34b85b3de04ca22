\* One worker, a failing event of any priority, one fault at any point, and calls of the
\* model that may outlast leases and retry delays: the other event is handled in the end.
CONSTANTS
  Workers = {w1}
  Producers = {p1, p2}
  None = None
  Events = {1, 2}
  Requests = {0, 1}
  Delays = {0}
  Failing = {1}
  Lease = 3
  Poll = 1
  MaxDelay = 4
  MaxWait = 1
  MaxCall = 4
  MaxStall = 5
  MaxAttempts = 2
  MaxFaults = 1
SPECIFICATION FairSpec
PROPERTIES NoneStarves
