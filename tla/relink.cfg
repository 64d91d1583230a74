\* An edit that names no token and one that names the access token, beside a refresh and a load.
SPECIFICATION FairSpec
CONSTANTS
  d1 = d1  d2 = d2  b = b  p1 = p1  p2 = p2  p3 = p3  c = c  im = im  e = e  k = k  d = d  l = l  r = r
  A = A  B = B  s = s  t = t  None = None
  Handlers = {p1, p2, p3, c, im, e, k, d, l, r}
  SignIns = {p1, p2, p3, c, im}
  Polls = {p1, p2, p3}
  Imports = {im}
  Edits = {e, k}
  Deletes = {d}
  Loads = {l}
  Refreshes = {r}
  Named <- MCNamed
  Ids = {1, 2, 3}
  Accounts = {A, B}
  Stored <- MCStored
  Unlocked = {2}
  Unique = {B}
  Together = {{e, r}, {k, l, r}}
  Attempts = {d1, d2, b}
  Device = {d1, d2}
  Session <- MCSession
  SignsIn <- MCSignsIn
  Target <- MCTarget
  Follows = {}
  Asked <- MCAsked
  MinInterval = 1
  MaxInterval = 2
  Step = 1
  MaxPerSession = 1
  MaxPending = 1
  MaxSlowDowns = 2
CHECK_DEADLOCK FALSE
PROPERTY EditsMergeStored
