CONSTANTS
  w1 = w1  w2 = w2  w3 = w3
  a = a  b = b
  n = n
  l1 = l1  l2 = l2
  None = None
  Work = {w1, w2, w3}
  Keys = {a, b}
  Names = {n}
  Loops = {l1, l2}
  KeyOf <- MCKeyOf
  Subscribed <- MCSubscribed
  NameOf <- MCNameOf
SPECIFICATION Spec
INVARIANT DisposeStopsOwnLoop
CHECK_DEADLOCK FALSE
