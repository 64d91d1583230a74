\* Two goroutines, Import called too, in a process that stays up.
SPECIFICATION FairSpec
CONSTANTS
  Callers = {p, q}
  ImportCalled = TRUE
  MaxCredentials = 3
  MaxGeneration = 2
INVARIANTS
  MemoryMatchesRow
PROPERTIES
  NeverServedExpired
  CallsReturn
