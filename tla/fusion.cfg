\* A request for a Fusion of Fusions, or for a Fusion of walks; two slots for three.
SPECIFICATION FairSpec
CONSTANTS
  c = c  m = m  n = n  F = F  G = G  V = V  W = W  O = O
  Clients = {c}
  Models = {m, n}
  Fusions = {F, G, V, O}
  Walks = {W}
  Members <- MCMembers
  Judge <- MCJudge
  Asks <- MCAsks
  MinPanelQuorum = 1
  MaxPanels = 2
  MaxConcurrent = 2
  MaxComboDepth = 3
CHECK_DEADLOCK FALSE
INVARIANTS SlotsHeld AnsweredOnce RunsForSomebody
PROPERTIES PanelsEnd
