CONSTANTS
  Ssrcs = {s1, s2}
  MaxLeadingSize = 1
  Priorities = {1, 3}
  Sizes = {2}
  MaxPackets = 7
  MaxTime = 1
SYMMETRY Symmetric
SPECIFICATION Spec
INVARIANTS PriorityIndexFresh QueueTotalsExact BoundedOvertaking
PROPERTY PopsMostUrgent
CHECK_DEADLOCK FALSE
