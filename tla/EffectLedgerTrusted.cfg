\* One caller at a time per request id; a truthful and patient host.
CONSTANTS
  Callers = {p1, p2}
  RequestIds = {i1, i2}
  Mutations = {m1, m2}
  Reads = {r1}
  Inadmissible = {x1}
  Values = {v1, v2}
  None = None
  Truthful = TRUE
  Quiescent = TRUE
  Serialised = TRUE
  MaxDenials = 2
SPECIFICATION Spec
SYMMETRY Symmetry
INVARIANTS TypeOK AtMostOneEffect RecordIsTrue AnswerIsReplayable
PROPERTIES CommittedIsFinal ImplementsContract
