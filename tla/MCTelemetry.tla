---------------------------- MODULE MCTelemetry ----------------------------
(* Instances of Telemetry for TLC. *)
EXTENDS Telemetry

CONSTANTS c1, c2, c3, d1, d2

\* Completions of requests, and the details of some of them.
ThreeCritical == {c1, c2, c3}
OneDiagnostic == {d1}

\* A queue of three written in batches of two, a queue of one, and none at all.
Wide == [max |-> 3, batch |-> 2, enabled |-> TRUE]
Narrow == [max |-> 1, batch |-> 1, enabled |-> TRUE]
Off == [max |-> 1, batch |-> 1, enabled |-> FALSE]

Changing == {Wide, Narrow, Off}

EventSymmetry == Permutations({c1, c2, c3}) \cup Permutations({d1, d2})
=============================================================================
