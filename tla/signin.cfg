\* Two device sign-ins and an import of one account, a browser Reauthenticate of another, an edit, a relink,
\* a delete, a load and a refresh.
SPECIFICATION FairSpec
CONSTANTS
  d1 = d1  d2 = d2  b = b  p1 = p1  p2 = p2  p3 = p3  c = c  im = im  e = e  k = k  d = d  l = l  r = r
  A = A  B = B  s = s  t = t  None = None
  Handlers = {p1, p2, p3, c, im, e, k, d, l, r}
  SignIns = {p1, p2, p3, c, im}
  Polls = {p1, p2, p3}
  Imports = {im}
  Edits = {e, k}
  Deletes = {d}
  Loads = {l}
  Refreshes = {r}
  Named <- MCNamed
  Ids = {1, 2, 3}
  Accounts = {A, B}
  Stored <- MCStored
  Unlocked = {2}
  Unique = {B}
  Together = {{d2, p1, p2, p3}, {d1, p1, p2}, {d1, p1, im, d, l}, {d1, p1, e, d}, {d1, p1, e, l}, {b, c, e, l}, {b, c, d, im}, {d1, b, d2, p1, c},
              {d1, p1, k, r}, {d1, p1, l, r}, {im, k, r}, {im, l, r}, {e, k, r}, {e, d, l, r}, {k, d, l, r}, {b, c, l, r}}
  Attempts = {d1, d2, b}
  Device = {d1, d2}
  Session <- MCSession
  SignsIn <- MCSignsIn
  Target <- MCTarget
  Follows = {}
  Asked <- MCAsked
  MinInterval = 1
  MaxInterval = 2
  Step = 1
  MaxPerSession = 1
  MaxPending = 1
  MaxSlowDowns = 2
CHECK_DEADLOCK FALSE
INVARIANTS OneRowPerAccount SavedIsServed ApprovalSavedOnce
PROPERTIES NothingReverted ApprovalSettles
