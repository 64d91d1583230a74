\* Three completed requests and two streams, with room for one event and one subscriber; three lines, two clears
\* and two overlapping timers; a completed request and its detail, under options that change.
SPECIFICATION FeedsSpec
CONSTANTS
  Requests = {1, 2, 3}
  Streams = {"s1", "s2"}
  UsageBuffer = 1
  MaxUsageSubscribers = 1
  MaxLines = 3
  Flushers = {1, 2}
  Clearers = {1, 2}
  Capacity = 2
  c1 = c1  d1 = d1
  Critical = {c1}
  Diagnostic = {d1}
  Settings <- PairsOrSingles
CHECK_DEADLOCK FALSE
INVARIANTS ClosedOnce NoGap
PROPERTIES StreamsEnd LinesAnnounced EventsLeaveQueue RunEnds
