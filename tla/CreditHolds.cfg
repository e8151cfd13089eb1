SPECIFICATION Spec
CONSTANTS
  j1 = j1
  j2 = j2
  c1 = c1
  c2 = c2
  g1 = g1
  g2 = g2
  Job = {j1, j2}
  Attempt = {"a1", "a2"}
  Grant = {g1, g2}
  Caller = {c1, c2}
  Amounts = {1, 3}
SYMMETRY Alike
CHECK_DEADLOCK FALSE
INVARIANTS
  AccountAgrees
  NothingMinted
PROPERTIES
  PaysInOrder
