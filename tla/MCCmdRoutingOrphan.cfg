SPECIFICATION Spec

CONSTANTS
  c1 = c1  c2 = c2  c3 = c3
  w1 = w1  W1 = W1  w10 = w10  Blank = Blank
  None = None
  Commands = {c1, c2, c3}
  Asked = {c1}
  Names = {w1, W1, w10, Blank}
  Routes = {w1, w10}
  Root <- MCRoot
  Dest <- MCDest
  Matches <- MCMatches
  OnSignalR = {W1}
  OnRedis = {w10}
  Polled = {W1}

INVARIANT
  WillBePickedUp
