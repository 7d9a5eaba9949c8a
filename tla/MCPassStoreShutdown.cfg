CONSTANTS
  IP = {a1, a2}
  Solver = {s1, s2}
  None = None
  FailAt = {}
SPECIFICATION Spec
SYMMETRY Symmetry
INVARIANTS
  EmptyWhenStopped
