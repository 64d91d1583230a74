\* The calls the program makes: Secret, ForceRefresh, Update and Load by three
\* goroutines, with expiry and restarts at any point.
SPECIFICATION Spec
CONSTANTS
  Callers = {p, q, r}
  ImportCalled = FALSE
  MaxCredentials = 3
  MaxGeneration = 2
SYMMETRY CallersSymmetry
INVARIANTS
  NoTokenReuse
PROPERTIES
  NewestWins
  ImplementsCell
