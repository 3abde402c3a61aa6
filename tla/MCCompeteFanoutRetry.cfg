CONSTANTS
  w1 = w1  w2 = w2  w3 = w3
  n = n  m = m
  c1 = c1  c2 = c2  c3 = c3
  None = None
  Work = {w1, w2, w3}
  Failing = {w1}
  Names = {n, m}
  Conns = {c1, c2}
  NameOf <- MCNameOf2
  Eligible <- MCEligible
SPECIFICATION Spec
INVARIANT PickableOnceDone
CHECK_DEADLOCK FALSE
