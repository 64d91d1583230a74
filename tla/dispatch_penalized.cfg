\* Two requests that share a refresh, the first of which is cut short.
SPECIFICATION Spec
CONSTANTS
  r1 = r1  r2 = r2  r3 = r3  r4 = r4  a1 = a1  a2 = a2  k = k  m1 = m1  m2 = m2  m3 = m3  m4 = m4  None = None
  Requests = {r1, r2, r3, r4}
  Models = {m1, m2, m3, m4}
  Accounts = {a1, a2, k}
  Combos = {r2}
  Route <- MCRoute
  Native <- MCNative
  Translated <- MCTranslated
  Surfaces <- MCSurfaces
  RoundRobin = {m1}
  StickyLimit = 1
  TwoWires = {m1, m3}
  Rotating = {a1}
  Sealed = {}
  MaxAttempts = 2
  Loads = {{r3, r4}}
CHECK_DEADLOCK FALSE
INVARIANT CancellationPenalizesNobody
