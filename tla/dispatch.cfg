\* A Combo of two models and one that has no account, a request for a model with two accounts, or two
\* requests at once for one with a single account; an answer of three pieces through one leg, of two through two.
SPECIFICATION ServingSpec
CONSTANTS
  r1 = r1  r2 = r2  r3 = r3  r4 = r4  a1 = a1  a2 = a2  k = k  m1 = m1  m2 = m2  m3 = m3  m4 = m4  None = None
  Requests = {r1, r2, r3, r4}
  Models = {m1, m2, m3, m4}
  Accounts = {a1, a2, k}
  Combos = {r2}
  Route <- MCRoute
  Native <- MCNative
  Translated <- MCTranslated
  Surfaces <- MCSurfaces
  RoundRobin = {m1}
  StickyLimit = 1
  TwoWires = {m1, m3}
  Rotating = {a1}
  Sealed = {a1}
  MaxAttempts = 2
  Routes <- ServedRoutes
  MaxPieces = 3
  MaxChained = 2
  Loads = {{r1}, {r2}, {r3, r4}}
CHECK_DEADLOCK FALSE
INVARIANTS RecordedOnce LiveTracksAttempt AnswerWhole CutIsTold
