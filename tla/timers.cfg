\* Refreshes against deletions; the pinger against failures, crashes and the operator; the two against each other.
\* And an answer of one piece, through one leg, two, or the gate.
SPECIFICATION TimersSpec
CONSTANTS
  a = a  b = b
  Accounts = {a, b}
  Claude = {a}
  MaxWindows = 2
  MaxJobs = 2
  Casts = {{"run", "jobs", "delete"}, {"ping", "clock", "crash"}, {"ping", "clock", "operator"}, {"ping", "run", "delete"}}
  Routes <- WatchedRoutes
  MaxPieces = 1
  MaxChained = 1
CHECK_DEADLOCK FALSE
INVARIANTS OneRefresher
PROPERTIES PingedOnce DetailFollowsRows TranslationEnds
