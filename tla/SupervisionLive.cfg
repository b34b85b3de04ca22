\* Four faults anywhere in daemon, supervisors, server or GPU; errors of the
\* daemon's statements without bound.
CONSTANT MaxFaults = 4
SPECIFICATION FairSpec
INVARIANTS TypeOK
PROPERTIES OnlyInterruptsStop InterruptIsKept KeepsPolling
