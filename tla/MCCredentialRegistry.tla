------------------------ MODULE MCCredentialRegistry ------------------------
EXTENDS CredentialRegistry, TLC

CallersSymmetry == Permutations(Callers)
=============================================================================
