----------------------------- MODULE Telemetry -----------------------------
(***************************************************************************)
(* internal/telemetry/telemetry.go: the bounded queue of usage events and  *)
(* its single batcher, with the shutdown order of internal/app/app.go.     *)
(*                                                                         *)
(* Every event is recorded once, by a goroutine of its own.  The gateway   *)
(* records a request's completion as a critical event without a detail and *)
(* its request detail as a diagnostic one, so an event's class says which  *)
(* sink it goes to.  s.mu is held for one short section at a time; each    *)
(* section is one action.  Options are compiled from the settings and may  *)
(* change at any time.                                                     *)
(***************************************************************************)
EXTENDS Naturals, Sequences, SequencesExt

CONSTANTS Critical, Diagnostic, \* the events of each class
          Settings              \* the options an operator can set: [max, batch, enabled]

\* telemetryOptions caps the batch at the queue and allows neither to be zero.
ASSUME SettingsAssumption ==
    /\ Critical \cap Diagnostic = {}
    /\ Settings \subseteq [max : Nat \ {0}, batch : Nat \ {0}, enabled : BOOLEAN]
    /\ \A s \in Settings : s.batch <= s.max

Events == Critical \cup Diagnostic

VARIABLES
    options,    \* what OptionsSource returns
    queue, signal, closed,
    pc,         \* where each Record call stands
    run,        \* where the batcher stands
    size,       \* the batch size it read when it woke up
    batch,      \* the events it took
    then,       \* where it goes on after the flush
    draining,   \* what ends the drain: "flush" (close done), "exit" or "none"
    failed,     \* flush's local
    degraded,
    cancelled,  \* the context of Run ended
    flusher,    \* where the FlushNow call stands
    written,    \* events a sink committed
    lost,       \* events counted by lost or lostDiagnostics
    shed,       \* diagnostics dropped under pressure
    refused,    \* events Record ignored: disabled or closed
    asked,      \* history: queued when FlushNow was called
    owed        \* history: queued when the context ended

serviceVars == <<queue, signal>>
batcherVars == <<run, size, batch, then, draining, failed, degraded>>
outcomeVars == <<written, lost, shed, refused>>
historyVars == <<asked, owed>>
vars == <<options, serviceVars, closed, pc, batcherVars, cancelled, flusher, outcomeVars, historyVars>>

Queued == ToSet(queue)

Init ==
    /\ options \in Settings
    /\ queue = <<>> /\ signal = FALSE /\ closed = FALSE
    /\ pc = [e \in Events |-> "new"]
    /\ run = "select" /\ size = 0 /\ batch = <<>> /\ then = "select"
    /\ draining = "none" /\ failed = FALSE /\ degraded = FALSE
    /\ cancelled = FALSE /\ flusher = "idle"
    /\ written = {} /\ lost = {} /\ shed = {} /\ refused = {}
    /\ asked = {} /\ owed = {}

Goto(e, to) == pc' = [pc EXCEPT ![e] = to]

-----------------------------------------------------------------------------
(* Record *)

HasRoom == ~closed /\ Len(queue) < options.max

\* enqueue appends and leaves a wake-up token.
Enter(e) == queue' = Append(queue, e) /\ signal' = TRUE

BeginRecord(e) ==
    /\ pc[e] = "new"
    /\ IF options.enabled /\ ~closed
       THEN Goto(e, "enqueue") /\ UNCHANGED refused
       ELSE Goto(e, "done") /\ refused' = refused \cup {e}
    /\ UNCHANGED <<options, serviceVars, closed, batcherVars, cancelled, flusher, written, lost, shed, historyVars>>

\* The first attempt, and a critical event's second one after its wait.
Enqueue(e) ==
    /\ pc[e] \in {"enqueue", "again"} /\ HasRoom
    /\ Enter(e)
    /\ Goto(e, "done")
    /\ UNCHANGED <<options, closed, batcherVars, cancelled, flusher, outcomeVars, historyVars>>

Full(e) ==
    /\ pc[e] \in {"enqueue", "again"} /\ ~HasRoom
    /\ IF e \in Diagnostic
       THEN Goto(e, "done") /\ shed' = shed \cup {e}
       ELSE Goto(e, IF pc[e] = "enqueue" THEN "again" ELSE "evict") /\ UNCHANGED shed
    /\ UNCHANGED <<options, serviceVars, closed, batcherVars, cancelled, flusher, written, lost, refused, historyVars>>

\* evictDiagnostic removes the oldest queued diagnostic, under its own lock ...
Evict(e) ==
    /\ pc[e] = "evict"
    /\ \E i \in DOMAIN queue :
        /\ queue[i] \in Diagnostic
        /\ \A j \in 1 .. i - 1 : queue[j] \notin Diagnostic
        /\ queue' = RemoveAt(queue, i)
        /\ shed' = shed \cup {queue[i]}
    /\ Goto(e, "retry")
    /\ UNCHANGED <<options, signal, closed, batcherVars, cancelled, flusher, written, lost, refused, historyVars>>

NothingToEvict(e) ==
    /\ pc[e] = "evict" /\ Queued \cap Diagnostic = {}
    /\ lost' = lost \cup {e}
    /\ Goto(e, "done")
    /\ UNCHANGED <<options, serviceVars, closed, batcherVars, cancelled, flusher, written, shed, refused, historyVars>>

\* ... and the last attempt may find the room taken by another event.
Retry(e) ==
    /\ pc[e] = "retry"
    /\ IF HasRoom THEN Enter(e) /\ UNCHANGED lost
                  ELSE lost' = lost \cup {e} /\ UNCHANGED serviceVars
    /\ Goto(e, "done")
    /\ UNCHANGED <<options, closed, batcherVars, cancelled, flusher, written, shed, refused, historyVars>>

-----------------------------------------------------------------------------
(* Run *)

AtMost(n) == IF n < Len(queue) THEN n ELSE Len(queue)

\* Broken variants: the events taken stay queued; a drain stops after a batch.
NothingRemoved(n) == queue
OneBatch == run = "drain"

\* takeBatch(n): the first n events leave the queue.
Remaining(n) == SubSeq(queue, AtMost(n) + 1, Len(queue))

TakeBatch(n) ==
    /\ batch' = SubSeq(queue, 1, AtMost(n))
    /\ queue' = Remaining(n)

\* Broken variant of FinalDrain: `break' leaves only the select statement.
BreakOut == "flush"

\* What the final drain ends with.
FinalDrain == "exit"

WakeCancelled ==
    /\ run = "select" /\ cancelled
    /\ run' = "drain" /\ draining' = FinalDrain
    /\ UNCHANGED <<options, serviceVars, closed, pc, size, batch, then, failed, degraded, cancelled, flusher, outcomeVars, historyVars>>

WakeFlush ==
    /\ run = "select" /\ flusher = "asking"
    /\ run' = "drain" /\ draining' = "flush" /\ flusher' = "waiting"
    /\ UNCHANGED <<options, serviceVars, closed, pc, size, batch, then, failed, degraded, cancelled, outcomeVars, historyVars>>

WakeSignal ==
    /\ run = "select" /\ signal
    /\ signal' = FALSE /\ size' = options.batch
    /\ run' = "check"
    /\ UNCHANGED <<options, queue, closed, pc, batch, then, draining, failed, degraded, cancelled, flusher, outcomeVars, historyVars>>

CheckDepth ==
    /\ run = "check"
    /\ IF Len(queue) >= size THEN run' = "take" /\ UNCHANGED size
                             ELSE run' = "select" /\ size' = 0
    /\ UNCHANGED <<options, serviceVars, closed, pc, batch, then, draining, failed, degraded, cancelled, flusher, outcomeVars, historyVars>>

TakeSignalled ==
    /\ run = "take"
    /\ TakeBatch(size)
    /\ run' = "details" /\ then' = "recheck"
    /\ UNCHANGED <<options, signal, closed, pc, size, draining, failed, degraded, cancelled, flusher, outcomeVars, historyVars>>

\* Broken variant of WakeUpAgain: a second full batch waits for the ticker.
NoWakeUp == signal

\* The batcher wakes itself up for another full batch.
WakeUpAgain == signal \/ Len(queue) >= size

Recheck ==
    /\ run = "recheck"
    /\ signal' = WakeUpAgain
    /\ run' = "select" /\ size' = 0
    /\ UNCHANGED <<options, queue, closed, pc, batch, then, draining, failed, degraded, cancelled, flusher, outcomeVars, historyVars>>

\* Broken variant of TickTakes: a partial batch is not written.
FullBatchOnly == Len(queue) >= options.batch

\* The ticker writes a partial batch too (an empty one is no step).
TickTakes == queue # <<>>

Tick ==
    /\ run = "select" /\ TickTakes
    /\ TakeBatch(options.batch)
    /\ run' = "details" /\ then' = "select"
    /\ UNCHANGED <<options, signal, closed, pc, size, draining, failed, degraded, cancelled, flusher, outcomeVars, historyVars>>

\* drainAll takes a batch, ...
Drain ==
    /\ run = "drain" /\ queue # <<>>
    /\ TakeBatch(options.batch)
    /\ run' = "details" /\ then' = "drain"
    /\ UNCHANGED <<options, signal, closed, pc, size, draining, failed, degraded, cancelled, flusher, outcomeVars, historyVars>>

\* ... and once none is left Run answers FlushNow, or returns.
Drained == run = "drain" /\ queue = <<>>

DrainDone ==
    /\ Drained
    /\ draining' = "none"
    /\ IF draining = "exit"
       THEN run' = "exiting" /\ UNCHANGED <<flusher, asked>>
       ELSE /\ run' = "select"
            /\ flusher' = IF flusher = "waiting" THEN "idle" ELSE flusher
            /\ asked' = IF flusher = "waiting" THEN {} ELSE asked
    /\ UNCHANGED <<options, serviceVars, closed, pc, size, batch, then, failed, degraded, cancelled, outcomeVars, owed>>

\* The deferred close of closedCh.
Exit ==
    /\ run = "exiting"
    /\ run' = "exited"
    /\ UNCHANGED <<options, serviceVars, closed, pc, size, batch, then, draining, failed, degraded, cancelled, flusher, outcomeVars, historyVars>>

-----------------------------------------------------------------------------
(* flush *)

\* Each detail is written, or counted lost, on its own.
FlushDetails ==
    /\ run = "details"
    /\ LET details == ToSet(batch) \cap Diagnostic IN
       \E unwritable \in SUBSET details :
        /\ written' = written \cup (details \ unwritable)
        /\ lost' = lost \cup unwritable
        /\ failed' = (unwritable # {})
    /\ run' = "usage"
    /\ UNCHANGED <<options, serviceVars, closed, pc, size, batch, then, draining, degraded, cancelled, flusher, shed, refused, historyVars>>

\* Any failing sink of the batch degrades the service.
Health(ok) == failed \/ ~ok

\* The usage events are committed in one transaction or counted lost.
FlushUsage ==
    /\ run = "usage"
    /\ LET usage == ToSet(batch) \cap Critical IN
       \E ok \in IF usage = {} THEN {TRUE} ELSE BOOLEAN :
        /\ written' = IF ok THEN written \cup usage ELSE written
        /\ lost' = IF ok THEN lost ELSE lost \cup usage
        /\ degraded' = Health(ok)
    /\ batch' = <<>> /\ failed' = FALSE
    /\ run' = then /\ then' = "select"
    /\ UNCHANGED <<options, serviceVars, closed, pc, size, draining, cancelled, flusher, shed, refused, historyVars>>

-----------------------------------------------------------------------------
(* FlushNow, shutdown and settings *)

BeginFlush ==
    /\ flusher = "idle" /\ ~closed
    /\ flusher' = "asking"
    /\ asked' = Queued
    /\ UNCHANGED <<options, serviceVars, closed, pc, batcherVars, cancelled, outcomeVars, owed>>

\* It returns when Run has returned, or when its own context ends.
EndFlush ==
    /\ flusher # "idle"
    /\ flusher' = "idle" /\ asked' = {}
    /\ UNCHANGED <<options, serviceVars, closed, pc, batcherVars, cancelled, outcomeVars, owed>>

\* serveOnce: stopServices ...
Cancel ==
    /\ ~cancelled
    /\ cancelled' = TRUE
    /\ owed' = Queued
    /\ UNCHANGED <<options, serviceVars, closed, pc, batcherVars, flusher, outcomeVars, asked>>

\* ... then Close.
Close ==
    /\ cancelled /\ ~closed
    /\ closed' = TRUE
    /\ UNCHANGED <<options, serviceVars, pc, batcherVars, cancelled, flusher, outcomeVars, historyVars>>

ChangeOptions ==
    /\ options' \in Settings
    /\ UNCHANGED <<serviceVars, closed, pc, batcherVars, cancelled, flusher, outcomeVars, historyVars>>

-----------------------------------------------------------------------------

Record(e) ==
    BeginRecord(e) \/ Enqueue(e) \/ Full(e) \/ Evict(e) \/ NothingToEvict(e) \/ Retry(e)

Run ==
    \/ WakeCancelled \/ WakeFlush \/ WakeSignal \/ CheckDepth \/ TakeSignalled \/ Recheck
    \/ Tick \/ Drain \/ DrainDone \/ Exit \/ FlushDetails \/ FlushUsage

Next ==
    \/ \E e \in Events : Record(e)
    \/ Run
    \/ BeginFlush \/ EndFlush \/ Cancel \/ Close \/ ChangeOptions

Spec == Init /\ [][Next]_vars

\* The batcher goroutine goes on and its ticker fires; select picks among its
\* ready cases at random, so it does not pass over the ended context forever.
TelemetryFairness == WF_vars(Run) /\ SF_vars(WakeCancelled)

-----------------------------------------------------------------------------
(* Properties *)

\* The variables hold what the Go fields can, and the queue stays within the
\* largest MaxQueueEvents ever set although Record adds in two attempts.
TypeOK ==
    /\ options \in Settings
    /\ queue \in Seq(Events) /\ (\E s \in Settings : Len(queue) <= s.max)
    /\ signal \in BOOLEAN /\ closed \in BOOLEAN
    /\ pc \in [Events -> {"new", "enqueue", "again", "evict", "retry", "done"}]
    /\ run \in {"select", "check", "take", "details", "usage", "recheck", "drain", "exiting", "exited"}
    /\ size \in Nat /\ batch \in Seq(Events)
    /\ then \in {"select", "recheck", "drain"} /\ draining \in {"none", "flush", "exit"}
    /\ failed \in BOOLEAN /\ degraded \in BOOLEAN /\ cancelled \in BOOLEAN
    /\ flusher \in {"idle", "asking", "waiting"}
    /\ written \subseteq Events /\ lost \subseteq Events
    /\ shed \subseteq Diagnostic /\ refused \subseteq Events
    /\ asked \subseteq Events /\ owed \subseteq Events

\* Where an event is: queued, in the batcher's hands, written, or counted out.
Places(e) == {p \in {"queue", "batch", "written", "lost", "shed", "refused"} :
    CASE p = "queue" -> e \in Queued
      [] p = "batch" -> e \in ToSet(batch) /\ e \notin written \cup lost
      [] p = "written" -> e \in written
      [] p = "lost" -> e \in lost
      [] p = "shed" -> e \in shed
      [] p = "refused" -> e \in refused}

\* No event is written twice, counted lost although written, or gone without a
\* trace: one whose Record call returned is in one place only, and a critical
\* one is never among the evicted (Record, evictDiagnostic, takeBatch, flush).
AccountedOnce ==
    /\ \A e \in Events : Cardinality(Places(e)) = IF pc[e] = "done" THEN 1 ELSE 0
    /\ IsInjective(queue) /\ IsInjective(batch)

\* What is a full batch by any of the options never waits for the ticker: a
\* batcher about to sleep on one has a wake-up token (notify, Run).
NoLostWakeup == run = "select" /\ (\A s \in Settings : Len(queue) >= s.batch) => signal

\* "Flush accepted critical telemetry" (SPEC 24): Run returns only after it
\* wrote, or counted lost, every event queued when its context ended.
ShutdownDrains == run \in {"exiting", "exited"} => owed \cap Queued = {}

\* FlushNow, answered by the batcher, has flushed what was queued when called.
FlushCovers ==
    [][flusher = "waiting" /\ flusher' = "idle" /\ run = "drain" /\ run' = "select"
            => asked \cap (Queued \cup ToSet(batch)) = {}]_vars

\* Every event queued while the service runs leaves the queue (Run's ticker).
EventsLeaveQueue ==
    \A e \in Events : e \in Queued /\ ~cancelled ~> e \notin Queued

\* Wait returns: Run ends after its context does.
RunEnds == cancelled ~> run = "exited"
=============================================================================
