------------------------------ MODULE ConsoleFeed ------------------------------
(***************************************************************************)
(* internal/control/api/logs.go: the console's log buffer, and the feed    *)
(* that announces its new lines on the event bus, a burst at a time.  A    *)
(* line starts a timer unless one is already set; the timer's goroutine    *)
(* takes the lines after the last one announced.  The buffer, the feed and *)
(* the bus have a lock each, so lines, flushes and a clear interleave      *)
(* between them.                                                           *)
(***************************************************************************)
EXTENDS Naturals, Sequences, SequencesExt

CONSTANTS MaxLines,        \* lines logged, each by a goroutine of its own
          Flushers,        \* timers that may be set or running at once
          Clearers,        \* requests that clear the console
          Capacity         \* of the buffer

ASSUME ConsoleFeedAssumption == MaxLines \in Nat /\ Capacity \in Nat \ {0}

VARIABLES
    entries,   \* ids of the buffered lines
    nextLog,   \* the newest id given
    scheduled, published, \* the feed
    flushes,   \* each timer's goroutine
    logging,   \* goroutines that appended a line and have not told the feed yet
    clearer,   \* where each clearer is, with the newest id it saw
    told       \* history: lines the pages heard of, as a line or as left out
consoleVars == <<entries, nextLog, scheduled, published, flushes, logging, clearer, told>>

Flush == [at : {"idle", "set", "read", "mark", "send"}, after : Nat, lines : SUBSET Nat]
Idle == [at |-> "idle", after |-> 0, lines |-> {}]

ConsoleTypeOK ==
    /\ entries \in Seq(Nat) /\ nextLog \in Nat /\ scheduled \in BOOLEAN /\ published \in Nat
    /\ flushes \in [Flushers -> Flush] /\ told \in SUBSET Nat
    /\ logging \in Nat
    /\ clearer \in [Clearers -> [at : {"new", "mark", "done"}, newest : Nat]]

ConsoleInit ==
    /\ entries = <<>> /\ nextLog = 0 /\ scheduled = FALSE /\ published = 0 /\ told = {}
    /\ flushes = [f \in Flushers |-> Idle]
    /\ logging = 0
    /\ clearer = [c \in Clearers |-> [at |-> "new", newest |-> 0]]

-----------------------------------------------------------------------------
(* A line *)

\* append, under the buffer's lock; the oldest line makes room.
AppendLine ==
    /\ nextLog < MaxLines
    /\ nextLog' = nextLog + 1 /\ logging' = logging + 1
    /\ entries' = Append(IF Len(entries) = Capacity THEN Tail(entries) ELSE entries, nextLog')
    /\ UNCHANGED <<scheduled, published, flushes, clearer, told>>

\* Timers not in use.  They are alike, so it does not matter which is set next.
Spare == {f \in Flushers : flushes[f].at = "idle"}

\* changed: the line rides on the timer that is set, or sets one.
Changed ==
    /\ logging > 0 /\ logging' = logging - 1
    /\ scheduled' = TRUE
    /\ IF scheduled THEN UNCHANGED flushes
       ELSE Spare # {} /\ flushes' = [flushes EXCEPT ![CHOOSE f \in Spare : TRUE].at = "set"]
    /\ UNCHANGED <<entries, nextLog, published, clearer, told>>

-----------------------------------------------------------------------------
(* flush *)

\* Broken variant of Fire: lines that come while a flush runs start no other.
FireScheduled(f) ==
    /\ flushes[f].at = "set" /\ flushes' = [flushes EXCEPT ![f] = [@ EXCEPT !.at = "read", !.after = published]]
    /\ UNCHANGED <<entries, nextLog, scheduled, published, logging, clearer, told>>

\* The delay is over.
Fire(f) ==
    /\ flushes[f].at = "set" /\ flushes' = [flushes EXCEPT ![f] = [@ EXCEPT !.at = "read", !.after = published]]
    /\ scheduled' = FALSE
    /\ UNCHANGED <<entries, nextLog, published, logging, clearer, told>>

\* since: the lines after the last one announced.  (Of more than consoleBatchMax the
\* newest are sent and the page is told to read the buffer: it hears of all of them.)
Since(f) ==
    /\ flushes[f].at = "read"
    /\ LET lines == {id \in ToSet(entries) : id > flushes[f].after}
       IN flushes' = [flushes EXCEPT ![f] = IF lines = {} THEN Idle ELSE [@ EXCEPT !.at = "mark", !.lines = lines]]
    /\ UNCHANGED <<entries, nextLog, scheduled, published, logging, clearer, told>>

Mark(f) ==
    /\ flushes[f].at = "mark" /\ flushes' = [flushes EXCEPT ![f].at = "send"]
    /\ published' = Max(flushes[f].lines \cup {published})
    /\ UNCHANGED <<entries, nextLog, scheduled, logging, clearer, told>>

Announce(f) ==
    /\ flushes[f].at = "send" /\ flushes' = [flushes EXCEPT ![f] = Idle]
    /\ told' = told \cup flushes[f].lines
    /\ UNCHANGED <<entries, nextLog, scheduled, published, logging, clearer>>

-----------------------------------------------------------------------------
(* clear *)

Clear(c) ==
    /\ clearer[c].at = "new" /\ clearer' = [clearer EXCEPT ![c] = [at |-> "mark", newest |-> nextLog]]
    /\ entries' = <<>>
    /\ UNCHANGED <<nextLog, scheduled, published, flushes, logging, told>>

\* The newest id seen under the buffer's lock is stored as it is, even if a flush has
\* announced newer ones since.  The announcement of the clear follows.
MarkCleared(c) ==
    /\ clearer[c].at = "mark" /\ clearer' = [clearer EXCEPT ![c].at = "done"]
    /\ published' = clearer[c].newest
    /\ UNCHANGED <<entries, nextLog, scheduled, flushes, logging, told>>

ConsoleStep ==
    \/ Changed
    \/ \E f \in Flushers : Fire(f) \/ Since(f) \/ Mark(f) \/ Announce(f)
    \/ \E c \in Clearers : MarkCleared(c)

ConsoleNext ==
    \/ ConsoleStep
    \/ AppendLine
    \/ \E c \in Clearers : Clear(c)

ConsoleSpec == ConsoleInit /\ [][ConsoleNext]_consoleVars

\* Goroutines that run go on, and timers fire.
ConsoleFairness == WF_consoleVars(ConsoleStep)

-----------------------------------------------------------------------------
(* Properties *)

\* A line that stays in the buffer is announced, whenever it came (logs.go:41-46: "then
\* new lines and the clear are pushed"; logs.go:84-110).
LinesAnnounced == \A id \in 1 .. MaxLines :
    id \in ToSet(entries) ~> id \in told \/ id \notin ToSet(entries)
=============================================================================
