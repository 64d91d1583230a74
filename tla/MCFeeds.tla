-------------------------------- MODULE MCFeeds --------------------------------
(* Instances of UsageFeed, ConsoleFeed and Telemetry for TLC: buffers that a        *)
(* goroutine of its own must empty.  They share no state, so a behaviour moves one. *)
EXTENDS UsageFeed, ConsoleFeed, Telemetry

CONSTANTS c1, d1

\* Batches of two, of which a partial one waits for the ticker, or of one.
Pairs == [max |-> 2, batch |-> 2, enabled |-> TRUE]
Singles == [max |-> 1, batch |-> 1, enabled |-> TRUE]
PairsOrSingles == {Pairs, Singles}

VARIABLE moves
feedsVars == <<moves, usageVars, consoleVars, vars>>

FeedsInit ==
    /\ moves \in {"usage", "console", "telemetry"} /\ UsageInit /\ ConsoleInit /\ Init
    /\ moves # "telemetry" => options = Pairs

FeedsNext ==
    \/ moves = "usage" /\ UsageNext /\ UNCHANGED <<moves, consoleVars, vars>>
    \/ moves = "console" /\ ConsoleNext /\ UNCHANGED <<moves, usageVars, vars>>
    \/ moves = "telemetry" /\ Next /\ UNCHANGED <<moves, usageVars, consoleVars>>

FeedsSpec ==
    FeedsInit /\ [][FeedsNext]_feedsVars /\ UsageFairness /\ ConsoleFairness /\ TelemetryFairness
=============================================================================
