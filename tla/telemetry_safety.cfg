\* Three completions and a detail while the options change.
SPECIFICATION Spec
CONSTANTS
    c1 = c1  c2 = c2  c3 = c3  d1 = d1  d2 = d2
    Critical <- ThreeCritical
    Diagnostic <- OneDiagnostic
    Settings <- Changing
SYMMETRY EventSymmetry
CHECK_DEADLOCK FALSE
INVARIANTS AccountedOnce ShutdownDrains NoLostWakeup
