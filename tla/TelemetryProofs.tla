-------------------------- MODULE TelemetryProofs --------------------------
(***************************************************************************)
(* Proofs about Telemetry, for any events and any settings.                *)
(***************************************************************************)
EXTENDS Telemetry, SequenceTheorems, FiniteSetTheorems, TLAPS

-----------------------------------------------------------------------------
(* What the queue's operations leave in it *)

\* Appending adds one element.
LEMMA AppendElements ==
    ASSUME NEW S, NEW s \in Seq(S), NEW e \in S
    PROVE  /\ Append(s, e) \in Seq(S) /\ Len(Append(s, e)) = Len(s) + 1
           /\ ToSet(Append(s, e)) = ToSet(s) \cup {e}
<1>1. /\ Append(s, e) \in Seq(S) /\ Len(Append(s, e)) = Len(s) + 1
      /\ \A i \in 1 .. Len(s) : Append(s, e)[i] = s[i]
      /\ Append(s, e)[Len(s) + 1] = e
  OBVIOUS
<1>2. ToSet(Append(s, e)) \subseteq ToSet(s) \cup {e}
  BY <1>1 DEF ToSet
<1>3. ToSet(s) \cup {e} \subseteq ToSet(Append(s, e))
  <2>1. e \in ToSet(Append(s, e))
    BY <1>1 DEF ToSet
  <2>2. ASSUME NEW i \in DOMAIN s PROVE s[i] \in ToSet(Append(s, e))
    <3>1. i \in DOMAIN Append(s, e) /\ Append(s, e)[i] = s[i]
      BY <1>1
    <3> QED
      BY <3>1 DEF ToSet
  <2> QED
    BY <2>1, <2>2 DEF ToSet
<1> QED
  BY <1>1, <1>2, <1>3

\* A part of a sequence adds none.
LEMMA SubSeqElements ==
    ASSUME NEW S, NEW s \in Seq(S), NEW m \in 1 .. Len(s) + 1, NEW n \in 0 .. Len(s)
    PROVE  /\ SubSeq(s, m, n) \in Seq(S) /\ Len(SubSeq(s, m, n)) <= Len(s)
           /\ ToSet(SubSeq(s, m, n)) \subseteq ToSet(s)
BY DEF ToSet

\* Nor does what is left after the removal of an element.
LEMMA RemoveAtElements ==
    ASSUME NEW S, NEW s \in Seq(S), NEW i \in DOMAIN s
    PROVE  /\ RemoveAt(s, i) \in Seq(S) /\ Len(RemoveAt(s, i)) <= Len(s)
           /\ ToSet(RemoveAt(s, i)) \subseteq ToSet(s)
<1> DEFINE a == SubSeq(s, 1, i - 1)
           b == SubSeq(s, i + 1, Len(s))
<1>1. /\ a \in Seq(S) /\ Len(a) = i - 1
      /\ b \in Seq(S) /\ Len(b) = Len(s) - i
  OBVIOUS
<1>2. ToSet(a) \subseteq ToSet(s)
  <2>1. 1 \in 1 .. Len(s) + 1 /\ i - 1 \in 0 .. Len(s)
    OBVIOUS
  <2> QED
    BY <2>1, SubSeqElements
<1>4. ToSet(b) \subseteq ToSet(s)
  <2>1. i + 1 \in 1 .. Len(s) + 1 /\ Len(s) \in 0 .. Len(s)
    OBVIOUS
  <2> QED
    BY <2>1, SubSeqElements
<1>3. ToSet(a \o b) \subseteq ToSet(a) \cup ToSet(b)
  <2> HIDE DEF a, b
  <2> QED
    BY <1>1 DEF ToSet
<1> QED
  BY <1>1, <1>2, <1>3, <1>4 DEF RemoveAt

\* The events taken, and the ones left, were queued.
LEMMA TakenElements ==
    ASSUME NEW n \in Nat, queue \in Seq(Events), TakeBatch(n)
    PROVE  /\ batch' \in Seq(Events) /\ queue' \in Seq(Events) /\ Len(queue') <= Len(queue)
           /\ Queued' \subseteq Queued
<1> DEFINE k == AtMost(n)
<1>1. Len(queue) \in Nat /\ k \in 0 .. Len(queue)
  BY DEF AtMost
<1>2. batch' = SubSeq(queue, 1, k) /\ queue' = SubSeq(queue, k + 1, Len(queue))
  BY DEF TakeBatch, Remaining
<1> HIDE DEF k
<1>3. SubSeq(queue, 1, k) \in Seq(Events)
  BY <1>1, SubSeqElements
<1>4. /\ SubSeq(queue, k + 1, Len(queue)) \in Seq(Events)
      /\ Len(SubSeq(queue, k + 1, Len(queue))) <= Len(queue)
      /\ ToSet(SubSeq(queue, k + 1, Len(queue))) \subseteq ToSet(queue)
  <2>1. k + 1 \in 1 .. Len(queue) + 1 /\ Len(queue) \in 0 .. Len(queue)
    BY <1>1
  <2> QED
    BY <2>1, SubSeqElements
<1> QED
  BY <1>2, <1>3, <1>4 DEF Queued

-----------------------------------------------------------------------------
(* Type correctness *)

\* Every action keeps the types.
LEMMA TypeStep == TypeOK /\ [Next]_vars => TypeOK'
<1> SUFFICES ASSUME TypeOK, [Next]_vars PROVE TypeOK'
  OBVIOUS
<1> USE DEF TypeOK, serviceVars, batcherVars, outcomeVars, historyVars, Goto, Events
<1>1. options.max \in Nat /\ options.batch \in Nat /\ \A s \in Settings : s.max \in Nat
  BY SettingsAssumption
<1>2. ASSUME NEW e \in Events, Record(e) PROVE TypeOK'
  <2>1. CASE BeginRecord(e)
    BY <2>1 DEF BeginRecord
  <2>2. CASE Enqueue(e)
    BY <2>2, <1>1, AppendElements DEF Enqueue, Enter, HasRoom
  <2>3. CASE Full(e)
    BY <2>3 DEF Full
  <2>4. CASE Evict(e)
    <3>1. PICK i \in DOMAIN queue : /\ queue[i] \in Diagnostic /\ queue' = RemoveAt(queue, i)
                                    /\ shed' = shed \cup {queue[i]}
      BY <2>4 DEF Evict
    <3>2. queue' \in Seq(Events) /\ Len(queue') <= Len(queue)
      BY <3>1, RemoveAtElements
    <3> QED
      BY <2>4, <3>1, <3>2, <1>1 DEF Evict
  <2>5. CASE NothingToEvict(e)
    BY <2>5 DEF NothingToEvict
  <2>6. CASE Retry(e)
    <3>1. CASE HasRoom
      <4>1. queue' = Append(queue, e) /\ UNCHANGED <<options, lost>>
        BY <2>6, <3>1 DEF Retry, Enter
      <4>2. queue' \in Seq(Events) /\ Len(queue') <= options.max
        BY <1>1, <3>1, <4>1, AppendElements DEF HasRoom
      <4> QED
        BY <2>6, <3>1, <4>1, <4>2 DEF Retry, Enter
    <3>2. CASE ~HasRoom
      BY <2>6, <3>2 DEF Retry
    <3> QED
      BY <3>1, <3>2
  <2> QED
    BY <1>2, <2>1, <2>2, <2>3, <2>4, <2>5, <2>6 DEF Record
<1>3. CASE TakeSignalled
  BY <1>3, <1>1, TakenElements DEF TakeSignalled
<1>4. CASE Tick
  BY <1>4, <1>1, TakenElements DEF Tick
<1>5. CASE Drain
  BY <1>5, <1>1, TakenElements DEF Drain
<1>6. CASE FlushDetails
  BY <1>6 DEF FlushDetails
<1>7. CASE FlushUsage
  <2>1. degraded' \in BOOLEAN
    BY <1>7 DEF FlushUsage, Health
  <2>2. written' \subseteq Events /\ lost' \subseteq Events
    BY <1>7 DEF FlushUsage
  <2>3. batch' \in Seq(Events)
    BY <1>7 DEF FlushUsage
  <2> QED
    BY <1>7, <2>1, <2>2, <2>3 DEF FlushUsage
<1>8. CASE WakeCancelled
  BY <1>8 DEF WakeCancelled, FinalDrain
<1>9. CASE WakeFlush
  BY <1>9 DEF WakeFlush
<1>10. CASE WakeSignal
  BY <1>10, <1>1 DEF WakeSignal
<1>11. CASE CheckDepth
  BY <1>11 DEF CheckDepth
<1>12. CASE Recheck
  BY <1>12 DEF Recheck, WakeUpAgain
<1>13. CASE DrainDone
  BY <1>13 DEF DrainDone
<1>14. CASE Exit
  BY <1>14 DEF Exit
<1>15. Queued \subseteq Events
  BY DEF Queued, ToSet
<1>16. CASE BeginFlush
  BY <1>15, <1>16 DEF BeginFlush
<1>17. CASE EndFlush
  BY <1>17 DEF EndFlush
<1>18. CASE Cancel
  BY <1>15, <1>18 DEF Cancel
<1>19. CASE Close
  BY <1>19 DEF Close
<1>20. CASE ChangeOptions
  BY <1>20 DEF ChangeOptions
<1>21. CASE UNCHANGED vars
  BY <1>21 DEF vars
<1> QED
  BY <1>2, <1>3, <1>4, <1>5, <1>6, <1>7, <1>8, <1>9, <1>10, <1>11, <1>12, <1>13, <1>14,
     <1>16, <1>17, <1>18, <1>19, <1>20, <1>21 DEF Next, Run

\* Every variable keeps its type; the queue respects some operator's bound.
THEOREM TypeCorrect == Spec => []TypeOK
<1>1. Init => TypeOK
  <2> SUFFICES ASSUME Init PROVE TypeOK
    OBVIOUS
  <2>1. Len(queue) <= options.max /\ queue \in Seq(Events) /\ batch \in Seq(Events)
    BY SettingsAssumption DEF Init
  <2> QED
    BY <2>1 DEF Init, TypeOK
<1> QED
  BY <1>1, TypeStep, PTL DEF Spec

-----------------------------------------------------------------------------
(* The shutdown drain *)

\* A Record call that has queued its event has returned, so an event owed at the
\* end of the context is not queued again behind the batcher's back; and only an
\* ended context makes the batcher return.
DrainInv ==
    /\ \A e \in Queued \cup owed : pc[e] = "done"
    /\ draining = "exit" \/ run \in {"exiting", "exited"} => cancelled
    /\ ShutdownDrains

\* The queue gains an event only from its own Record call.
LEMMA DrainStep == TypeOK /\ DrainInv /\ [Next]_vars => DrainInv'
<1> SUFFICES ASSUME TypeOK, DrainInv, [Next]_vars PROVE DrainInv'
  OBVIOUS
<1> USE DEF DrainInv, ShutdownDrains, serviceVars, batcherVars, outcomeVars, historyVars, Goto
<1>1. /\ queue \in Seq(Events) /\ size \in Nat /\ options.batch \in Nat
      /\ pc \in [Events -> {"new", "enqueue", "again", "evict", "retry", "done"}]
      /\ Queued \subseteq Events /\ owed \subseteq Events
      /\ then \in {"select", "recheck", "drain"}
  BY SettingsAssumption DEF TypeOK, Queued, ToSet
<1>2. ASSUME NEW e \in Events, Record(e) PROVE DrainInv'
  <2>1. CASE queue' = queue
    <3>1. Queued' = Queued /\ UNCHANGED <<owed, run, draining, cancelled>>
      BY <1>2, <2>1 DEF Record, BeginRecord, Enqueue, Full, Evict, NothingToEvict, Retry, Queued
    <3>2. pc[e] # "done" /\ \E to : pc' = [pc EXCEPT ![e] = to]
      BY <1>2 DEF Record, BeginRecord, Enqueue, Full, Evict, NothingToEvict, Retry
    <3> QED
      BY <1>1, <3>1, <3>2
  <2>2. CASE queue' = Append(queue, e) /\ pc[e] # "done" /\ Goto(e, "done")
             /\ UNCHANGED <<owed, run, draining, cancelled>>
    <3>1. Queued' = Queued \cup {e}
      BY <1>1, <2>2, AppendElements DEF Queued
    <3> QED
      BY <1>1, <2>2, <3>1
  <2>3. CASE Evict(e)
    <3>1. PICK i \in DOMAIN queue : queue' = RemoveAt(queue, i)
      BY <2>3 DEF Evict
    <3>2. Queued' \subseteq Queued
      BY <1>1, <3>1, RemoveAtElements DEF Queued
    <3> QED
      BY <1>1, <2>3, <3>2 DEF Evict
  <2> QED
    BY <1>2, <2>1, <2>2, <2>3
       DEF Record, BeginRecord, Enqueue, Full, NothingToEvict, Retry, Enter
<1>3. CASE TakeSignalled \/ Tick \/ Drain
  <2>1. Queued' \subseteq Queued
    BY <1>1, <1>3, TakenElements DEF TakeSignalled, Tick, Drain
  <2>2. /\ UNCHANGED <<pc, owed, draining, cancelled>> /\ run' = "details"
    BY <1>3 DEF TakeSignalled, Tick, Drain
  <2> QED
    BY <1>1, <2>1, <2>2
<1>4. CASE DrainDone
  <2>1. Queued = {}
    BY <1>4 DEF DrainDone, Drained, Queued, ToSet
  <2> QED
    BY <1>4, <2>1 DEF DrainDone, Queued
<1>5. CASE WakeCancelled \/ WakeFlush \/ WakeSignal \/ CheckDepth \/ Recheck \/ Exit
           \/ FlushDetails \/ FlushUsage
  <2>1. UNCHANGED <<Queued, pc, owed, cancelled>>
    BY <1>5 DEF WakeCancelled, WakeFlush, WakeSignal, CheckDepth, Recheck, Exit,
                FlushDetails, FlushUsage, Queued
  <2>2. /\ draining' = "exit" => draining = "exit" \/ cancelled
        /\ run' \in {"exiting", "exited"} => run = "exiting"
    BY <1>1, <1>5 DEF WakeCancelled, WakeFlush, WakeSignal, CheckDepth, Recheck, Exit,
                      FlushDetails, FlushUsage
  <2> QED
    BY <2>1, <2>2
<1>6. CASE Cancel
  BY <1>6 DEF Cancel, Queued
<1>7. CASE BeginFlush \/ EndFlush \/ Close \/ ChangeOptions \/ UNCHANGED vars
  BY <1>7 DEF BeginFlush, EndFlush, Close, ChangeOptions, Queued, vars
<1> QED
  BY <1>2, <1>3, <1>4, <1>5, <1>6, <1>7 DEF Next, Run

\* When Run has returned, every event queued at the end of its context has left
\* the queue (Run's final drainAll), however many calls and batches are under way.
THEOREM DrainComplete == Spec => []ShutdownDrains
<1>1. Init => DrainInv
  BY DEF Init, DrainInv, ShutdownDrains, Queued, ToSet
<1>2. DrainInv => ShutdownDrains
  BY DEF DrainInv
<1> QED
  BY <1>1, <1>2, DrainStep, TypeCorrect, PTL DEF Spec

-----------------------------------------------------------------------------
(* The wake-up token *)

\* No full batch, by any of the options, waits without a token.
Awake == (\A s \in Settings : Len(queue) >= s.batch) => signal

\* The size the batcher woke up with is one of the options', and a batch taken at the
\* ticker leaves the token as it is.
WakeInv ==
    /\ run = "select" \/ (run \in {"details", "usage"} /\ then = "select") => Awake
    /\ run \in {"check", "take", "recheck"} \/ (run \in {"details", "usage"} /\ then = "recheck")
          => \E s \in Settings : size = s.batch

\* A token goes only when the batcher looks at the queue after it.
LEMMA WakeStep == TypeOK /\ WakeInv /\ [Next]_vars => WakeInv'
<1> SUFFICES ASSUME TypeOK, WakeInv, [Next]_vars PROVE WakeInv'
  OBVIOUS
<1> USE DEF WakeInv, Awake, serviceVars, batcherVars, outcomeVars, historyVars, Goto
<1>1. /\ queue \in Seq(Events) /\ Len(queue) \in Nat /\ size \in Nat
      /\ options \in Settings /\ options.batch \in Nat
      /\ \A s \in Settings : s.batch \in Nat /\ s.batch > 0
      /\ then \in {"select", "recheck", "drain"}
  BY SettingsAssumption DEF TypeOK
<1>2. ASSUME NEW e \in Events, Record(e) PROVE WakeInv'
  <2>1. UNCHANGED <<run, then, size>>
    BY <1>2 DEF Record, BeginRecord, Enqueue, Full, Evict, NothingToEvict, Retry
  <2>2. signal' \/ UNCHANGED serviceVars \/ (UNCHANGED signal /\ Len(queue') \in Nat /\ Len(queue') <= Len(queue))
    <3>1. CASE Evict(e)
      <4>1. PICK i \in DOMAIN queue : queue' = RemoveAt(queue, i)
        BY <3>1 DEF Evict
      <4> QED
        BY <1>1, <3>1, <4>1, RemoveAtElements DEF Evict
    <3> QED
      BY <1>2, <3>1 DEF Record, BeginRecord, Enqueue, Full, NothingToEvict, Retry, Enter
  <2> QED
    BY <1>1, <2>1, <2>2
<1>3. CASE TakeSignalled
  BY <1>1, <1>3 DEF TakeSignalled
<1>4. CASE Tick
  <2>1. Len(queue') \in Nat /\ Len(queue') <= Len(queue)
    BY <1>1, <1>4, TakenElements DEF Tick
  <2> QED
    BY <1>1, <1>4, <2>1 DEF Tick
<1>5. CASE Drain
  BY <1>5 DEF Drain
<1>6. CASE DrainDone
  <2>1. Len(queue') = 0
    BY <1>6 DEF DrainDone, Drained
  <2> QED
    BY <1>1, <1>6, <2>1 DEF DrainDone
<1>7. CASE CheckDepth
  BY <1>1, <1>7 DEF CheckDepth
<1>8. CASE Recheck
  BY <1>1, <1>8 DEF Recheck, WakeUpAgain
<1>9. CASE WakeSignal
  BY <1>1, <1>9 DEF WakeSignal
<1>10. CASE FlushDetails
  BY <1>1, <1>10 DEF FlushDetails
<1>11. CASE FlushUsage
  BY <1>1, <1>11 DEF FlushUsage
<1>12. CASE WakeCancelled \/ WakeFlush \/ Exit
  BY <1>12 DEF WakeCancelled, WakeFlush, Exit
<1>13. CASE BeginFlush \/ EndFlush \/ Cancel \/ Close \/ ChangeOptions \/ UNCHANGED vars
  BY <1>13 DEF BeginFlush, EndFlush, Cancel, Close, ChangeOptions, vars
<1> QED
  BY <1>2, <1>3, <1>4, <1>5, <1>6, <1>7, <1>8, <1>9, <1>10, <1>11, <1>12, <1>13 DEF Next, Run

\* The batcher never goes to sleep on a batch that is full by every option without a
\* token to wake it (notify, Run), for any number of events and any settings.
THEOREM WakeUpKept == Spec => []NoLostWakeup
<1>1. Init => WakeInv
  BY SettingsAssumption DEF Init, WakeInv, Awake
<1>2. WakeInv => NoLostWakeup
  BY DEF WakeInv, Awake, NoLostWakeup
<1> QED
  BY <1>1, <1>2, WakeStep, TypeCorrect, PTL DEF Spec

-----------------------------------------------------------------------------
(* Every event in one place *)

\* A sequence without one of its elements is still without repetition.
LEMMA RemoveAtInjective ==
    ASSUME NEW S, NEW s \in Seq(S), IsInjective(s), NEW i \in DOMAIN s
    PROVE  IsInjective(RemoveAt(s, i)) /\ ToSet(RemoveAt(s, i)) = ToSet(s) \ {s[i]}
<1> DEFINE r == RemoveAt(s, i)
<1>1. /\ r \in Seq(S) /\ Len(r) = Len(s) - 1 /\ Len(s) \in Nat /\ i \in 1 .. Len(s)
      /\ \A j \in 1 .. Len(r) : r[j] = IF j < i THEN s[j] ELSE s[j + 1]
  <2>1. /\ SubSeq(s, 1, i - 1) \in Seq(S) /\ Len(SubSeq(s, 1, i - 1)) = i - 1
        /\ \A j \in 1 .. i - 1 : SubSeq(s, 1, i - 1)[j] = s[j]
    OBVIOUS
  <2>2. /\ SubSeq(s, i + 1, Len(s)) \in Seq(S) /\ Len(SubSeq(s, i + 1, Len(s))) = Len(s) - i
        /\ \A j \in 1 .. Len(s) - i : SubSeq(s, i + 1, Len(s))[j] = s[j + i]
    OBVIOUS
  <2>3. r = SubSeq(s, 1, i - 1) \o SubSeq(s, i + 1, Len(s))
    BY DEF RemoveAt
  <2> DEFINE a == SubSeq(s, 1, i - 1)
             b == SubSeq(s, i + 1, Len(s))
  <2> HIDE DEF a, b, r
  <2>4. /\ a \o b \in Seq(S) /\ Len(a \o b) = Len(a) + Len(b)
        /\ \A j \in 1 .. Len(a) + Len(b) : (a \o b)[j] = IF j <= Len(a) THEN a[j] ELSE b[j - Len(a)]
    BY <2>1, <2>2 DEF a, b
  <2>5. Len(s) \in Nat /\ i \in 1 .. Len(s) /\ r = a \o b
    BY <2>3 DEF a, b
  <2>6. ASSUME NEW j \in 1 .. Len(s) - 1 PROVE r[j] = IF j < i THEN s[j] ELSE s[j + 1]
    <3>0. Len(a) = i - 1 /\ Len(b) = Len(s) - i /\ j \in 1 .. Len(a) + Len(b)
      BY <2>1, <2>2, <2>5 DEF a, b
    <3>1. CASE j < i
      <4>1. r[j] = a[j]
        BY <2>4, <2>5, <3>0, <3>1
      <4>2. a[j] = s[j]
        BY <2>1, <2>5, <3>1 DEF a
      <4> QED
        BY <3>1, <4>1, <4>2
    <3>2. CASE j >= i
      <4>1. j - (i - 1) \in 1 .. Len(s) - i /\ (j - (i - 1)) + i = j + 1
        BY <2>5, <3>2
      <4>2. r[j] = b[j - (i - 1)]
        BY <2>4, <2>5, <3>0, <3>2
      <4>3. b[j - (i - 1)] = s[(j - (i - 1)) + i]
        BY <2>2, <4>1 DEF b
      <4>4. ~(j < i)
        BY <2>5, <3>2
      <4> QED
        BY <4>1, <4>2, <4>3, <4>4
    <3>3. j < i \/ j >= i
      BY <2>5
    <3> QED
      BY <3>1, <3>2, <3>3
  <2>7. Len(r) = Len(s) - 1
    BY <2>1, <2>2, <2>4, <2>5 DEF a, b
  <2>8. r \in Seq(S)
    BY <2>1, <2>2, <2>4, <2>5 DEF a, b
  <2> QED
    BY <2>5, <2>6, <2>7, <2>8
<1> HIDE DEF r
<1>2. \A j, k \in 1 .. Len(s) : s[j] = s[k] => j = k
  BY DEF IsInjective
<1>3. IsInjective(r)
  <2>1. \A j, k \in 1 .. Len(r) : r[j] = r[k] => j = k
    BY <1>1, <1>2
  <2> QED
    BY <1>1, <2>1 DEF IsInjective
<1>4. ASSUME NEW j \in 1 .. Len(r) PROVE r[j] \in ToSet(s) \ {s[i]}
  <2>1. \E k \in 1 .. Len(s) : k # i /\ r[j] = s[k]
    BY <1>1
  <2> QED
    BY <1>2, <2>1 DEF ToSet
<1>5. ASSUME NEW k \in 1 .. Len(s), k # i PROVE \E j \in 1 .. Len(r) : r[j] = s[k]
  <2>1. CASE k < i
    BY <1>1, <2>1
  <2>2. CASE k > i
    <3>1. k - 1 \in 1 .. Len(r) /\ ~(k - 1 < i) /\ (k - 1) + 1 = k
      BY <1>1, <2>2
    <3> QED
      BY <1>1, <3>1
  <2> QED
    BY <1>1, <1>5, <2>1, <2>2
<1>6. ToSet(r) = ToSet(s) \ {s[i]}
  <2>1. ToSet(r) \subseteq ToSet(s) \ {s[i]}
    BY <1>1, <1>4 DEF ToSet
  <2>2. ASSUME NEW x \in ToSet(s), x # s[i] PROVE x \in ToSet(r)
    <3>1. PICK k \in 1 .. Len(s) : x = s[k]
      BY DEF ToSet
    <3>2. PICK j \in 1 .. Len(r) : r[j] = s[k]
      BY <1>5, <2>2, <3>1
    <3> QED
      BY <1>1, <3>1, <3>2 DEF ToSet
  <2> QED
    BY <2>1, <2>2
<1> QED
  BY <1>3, <1>6 DEF r

\* The events taken and the ones left are the ones queued, each once.
LEMMA TakenApart ==
    ASSUME NEW n \in Nat, queue \in Seq(Events), IsInjective(queue), TakeBatch(n)
    PROVE  /\ IsInjective(batch') /\ IsInjective(queue')
           /\ Queued = Queued' \cup ToSet(batch') /\ Queued' \cap ToSet(batch') = {}
<1> DEFINE k == AtMost(n)
<1>1. Len(queue) \in Nat /\ k \in 0 .. Len(queue)
  BY DEF AtMost
<1>2. batch' = SubSeq(queue, 1, k) /\ queue' = SubSeq(queue, k + 1, Len(queue))
  BY DEF TakeBatch, Remaining
<1> HIDE DEF k
<1>3. DOMAIN batch' = 1 .. k /\ \A j \in 1 .. k : batch'[j] = queue[j]
  BY <1>1, <1>2
<1>4. DOMAIN queue' = 1 .. Len(queue) - k /\ \A j \in 1 .. Len(queue) - k : queue'[j] = queue[j + k]
  BY <1>1, <1>2
<1>5. DOMAIN queue = 1 .. Len(queue) /\ \A i, j \in 1 .. Len(queue) : queue[i] = queue[j] => i = j
  BY DEF IsInjective
<1>6. IsInjective(batch')
  BY <1>1, <1>3, <1>5 DEF IsInjective
<1>7. IsInjective(queue')
  <2>1. \A j \in 1 .. Len(queue) - k : j + k \in 1 .. Len(queue)
    BY <1>1
  <2>2. \A i, j \in 1 .. Len(queue) - k : i + k = j + k => i = j
    BY <1>1
  <2> QED
    BY <1>4, <1>5, <2>1, <2>2 DEF IsInjective
<1>8. ASSUME NEW i \in 1 .. Len(queue) PROVE queue[i] \in ToSet(batch') \cup ToSet(queue')
  <2>1. CASE i <= k
    BY <1>1, <1>3, <2>1 DEF ToSet
  <2>2. CASE i > k
    <3>1. i - k \in 1 .. Len(queue) - k /\ (i - k) + k = i
      BY <1>1, <2>2
    <3> QED
      BY <1>4, <3>1 DEF ToSet
  <2> QED
    BY <1>1, <2>1, <2>2
<1>9. ToSet(batch') \subseteq ToSet(queue)
  BY <1>1, <1>3, <1>5 DEF ToSet
<1>10. ToSet(queue') \subseteq ToSet(queue)
  <2>1. \A j \in 1 .. Len(queue) - k : j + k \in 1 .. Len(queue)
    BY <1>1
  <2> QED
    BY <1>4, <1>5, <2>1 DEF ToSet
<1>11. ToSet(queue') \cap ToSet(batch') = {}
  <2>1. \A i \in 1 .. k, j \in 1 .. Len(queue) - k : i \in 1 .. Len(queue) /\ j + k \in 1 .. Len(queue) /\ i # j + k
    BY <1>1
  <2>2. \A i \in 1 .. k, j \in 1 .. Len(queue) - k : batch'[i] # queue'[j]
    BY <1>3, <1>4, <1>5, <2>1
  <2> QED
    BY <1>3, <1>4, <2>2 DEF ToSet
<1>12. ToSet(queue) \subseteq ToSet(batch') \cup ToSet(queue')
  <2>1. ASSUME NEW x \in ToSet(queue) PROVE x \in ToSet(batch') \cup ToSet(queue')
    <3>1. PICK i \in 1 .. Len(queue) : x = queue[i]
      BY <1>5 DEF ToSet
    <3> QED
      BY <1>8, <3>1
  <2> QED
    BY <2>1
<1> QED
  BY <1>6, <1>7, <1>9, <1>10, <1>11, <1>12 DEF Queued

\* An event is known once its Record call returned.
Known == Queued \cup ToSet(batch) \cup written \cup lost \cup shed \cup refused

\* The places an event can be in have none in common; those of a batch under way are
\* written or lost one class after the other.
Apart ==
    /\ IsInjective(queue) /\ IsInjective(batch)
    /\ written \cap lost = {} /\ shed \cap refused = {} /\ (written \cup lost) \cap (shed \cup refused) = {}
    /\ Queued \cap (ToSet(batch) \cup written \cup lost \cup shed \cup refused) = {}
    /\ ToSet(batch) \cap (shed \cup refused) = {}
    /\ run = "details" => ToSet(batch) \cap (written \cup lost) = {}
    /\ run = "usage" => /\ ToSet(batch) \cap Critical \cap (written \cup lost) = {}
                        /\ ToSet(batch) \cap Diagnostic \subseteq written \cup lost
    /\ run \notin {"details", "usage"} => batch = <<>>

AccountInv ==
    /\ \A e \in Events : pc[e] = "done" <=> e \in Known
    /\ Apart

\* An event moves from one place to the next, and comes to the first as its call returns.
LEMMA AccountStep == TypeOK /\ AccountInv /\ [Next]_vars => AccountInv'
<1> SUFFICES ASSUME TypeOK, AccountInv, [Next]_vars PROVE AccountInv'
  OBVIOUS
<1> USE DEF AccountInv, Apart, Known, serviceVars, batcherVars, outcomeVars, historyVars, Goto
<1>1. /\ queue \in Seq(Events) /\ batch \in Seq(Events) /\ size \in Nat /\ options.batch \in Nat
      /\ pc \in [Events -> {"new", "enqueue", "again", "evict", "retry", "done"}]
      /\ Queued \subseteq Events /\ ToSet(batch) \subseteq Events
      /\ then \in {"select", "recheck", "drain"} /\ Critical \cap Diagnostic = {}
      /\ Events = Critical \cup Diagnostic
  BY SettingsAssumption DEF TypeOK, Queued, ToSet, Events
<1>2. ASSUME NEW e \in Events, Record(e) PROVE AccountInv'
  <2>0. pc[e] # "done" /\ UNCHANGED <<batch, run, written>>
    BY <1>2 DEF Record, BeginRecord, Enqueue, Full, Evict, NothingToEvict, Retry
  <2>1. CASE Goto(e, "done") /\ queue' = Append(queue, e) /\ UNCHANGED <<lost, shed, refused>>
    <3>1. Queued' = Queued \cup {e}
      BY <1>1, <2>1, AppendElements DEF Queued
    <3>2. IsInjective(queue')
      <4>1. e \notin Queued
        BY <2>0
      <4>2. /\ DOMAIN queue = 1 .. Len(queue) /\ DOMAIN queue' = 1 .. Len(queue) + 1 /\ Len(queue) \in Nat
            /\ queue'[Len(queue) + 1] = e /\ \A i \in 1 .. Len(queue) : queue'[i] = queue[i]
        BY <1>1, <2>1
      <4>3. \A i \in 1 .. Len(queue) : queue'[i] # e
        BY <4>1, <4>2 DEF Queued, ToSet
      <4> QED
        BY <4>2, <4>3 DEF IsInjective
    <3> QED
      BY <1>1, <2>0, <2>1, <3>1, <3>2
  <2>2. CASE /\ Goto(e, "done") /\ queue' = queue
             /\ \/ lost' = lost \cup {e} /\ UNCHANGED <<shed, refused>>
                \/ shed' = shed \cup {e} /\ UNCHANGED <<lost, refused>>
                \/ refused' = refused \cup {e} /\ UNCHANGED <<lost, shed>>
    <3>1. Queued' = Queued
      BY <2>2 DEF Queued
    <3>2. e \notin Known
      BY <2>0
    <3> QED
      BY <1>1, <2>0, <2>2, <3>1, <3>2
  <2>3. CASE /\ UNCHANGED <<queue, lost, shed, refused>>
             /\ \E to \in {"enqueue", "again", "evict"} : Goto(e, to)
    BY <1>1, <2>0, <2>3 DEF Queued
  <2>4. CASE Evict(e)
    <3>1. PICK i \in DOMAIN queue : queue' = RemoveAt(queue, i) /\ shed' = shed \cup {queue[i]}
      BY <2>4 DEF Evict
    <3>2. IsInjective(queue') /\ Queued' = Queued \ {queue[i]}
      BY <1>1, <3>1, RemoveAtInjective DEF Queued
    <3>3. queue[i] \in Queued
      BY DEF Queued, ToSet
    <3>4. pc' = [pc EXCEPT ![e] = "retry"] /\ UNCHANGED <<lost, refused>>
      BY <2>4 DEF Evict
    <3> QED
      BY <1>1, <2>0, <3>1, <3>2, <3>3, <3>4
  <2> QED
    BY <1>2, <2>1, <2>2, <2>3, <2>4 DEF Record, BeginRecord, Enqueue, Full, NothingToEvict, Retry, Enter
<1>3. CASE TakeSignalled \/ Tick \/ Drain
  <2>1. batch = <<>> /\ run' = "details" /\ UNCHANGED <<pc, written, lost, shed, refused>>
        /\ \E n \in Nat : TakeBatch(n)
    BY <1>1, <1>3 DEF TakeSignalled, Tick, Drain
  <2>2. /\ IsInjective(batch') /\ IsInjective(queue')
        /\ Queued = Queued' \cup ToSet(batch') /\ Queued' \cap ToSet(batch') = {}
    BY <1>1, <2>1, TakenApart
  <2>3. ToSet(batch) = {}
    BY <2>1 DEF ToSet
  <2> QED
    BY <2>1, <2>2, <2>3
<1>4. CASE FlushDetails
  <2>1. PICK unwritable \in SUBSET (ToSet(batch) \cap Diagnostic) :
            /\ written' = written \cup ((ToSet(batch) \cap Diagnostic) \ unwritable)
            /\ lost' = lost \cup unwritable
    BY <1>4 DEF FlushDetails
  <2>2. UNCHANGED <<queue, Queued, batch, pc, shed, refused>> /\ run = "details" /\ run' = "usage"
    BY <1>4 DEF FlushDetails, Queued
  <2> QED
    BY <1>1, <2>1, <2>2
<1>5. CASE FlushUsage
  <2>1. \/ written' = written \cup (ToSet(batch) \cap Critical) /\ lost' = lost
        \/ written' = written /\ lost' = lost \cup (ToSet(batch) \cap Critical)
    BY <1>5 DEF FlushUsage
  <2>2. UNCHANGED <<queue, Queued, pc, shed, refused>> /\ run = "usage" /\ batch' = <<>> /\ run' \notin {"details", "usage"}
    BY <1>1, <1>5 DEF FlushUsage, Queued
  <2>3. ToSet(batch') = {} /\ IsInjective(batch')
    BY <2>2 DEF ToSet, IsInjective
  <2>4. written' \cup lost' = written \cup lost \cup ToSet(batch)
    BY <1>1, <2>1, <2>2
  <2>5. written' \cap lost' = {}
    BY <1>1, <2>1, <2>2
  <2> QED
    BY <1>1, <2>2, <2>3, <2>4, <2>5
<1>6. CASE WakeCancelled \/ WakeFlush \/ WakeSignal \/ CheckDepth \/ Recheck \/ DrainDone \/ Exit
  <2>1. /\ UNCHANGED <<queue, Queued, batch, pc, outcomeVars>>
        /\ run \notin {"details", "usage"} /\ run' \notin {"details", "usage"}
    BY <1>6 DEF WakeCancelled, WakeFlush, WakeSignal, CheckDepth, Recheck, DrainDone, Drained, Exit, Queued
  <2> QED
    BY <2>1
<1>7. CASE BeginFlush \/ EndFlush \/ Cancel \/ Close \/ ChangeOptions \/ UNCHANGED vars
  <2>1. UNCHANGED <<queue, Queued, batch, pc, outcomeVars, run>>
    BY <1>7 DEF BeginFlush, EndFlush, Cancel, Close, ChangeOptions, vars, Queued
  <2> QED
    BY <2>1
<1> QED
  BY <1>2, <1>3, <1>4, <1>5, <1>6, <1>7 DEF Next, Run

\* What is apart is counted once.
LEMMA CountedOnce == TypeOK /\ AccountInv => AccountedOnce
<1> SUFFICES ASSUME TypeOK, AccountInv PROVE AccountedOnce
  OBVIOUS
<1>1. IsInjective(queue) /\ IsInjective(batch)
  BY DEF AccountInv, Apart
<1>2. ASSUME NEW e \in Events PROVE Cardinality(Places(e)) = IF pc[e] = "done" THEN 1 ELSE 0
  <2> USE DEF AccountInv, Apart, Known
  <2>1. CASE pc[e] # "done"
    <3>1. Places(e) = {}
      BY <2>1 DEF Places
    <3> QED
      BY <2>1, <3>1, FS_EmptySet
  <2>2. CASE pc[e] = "done"
    <3>1. \E p : Places(e) = {p}
      <4>1. CASE e \in Queued
        <5>1. Places(e) = {"queue"}
          BY <4>1 DEF Places
        <5> QED
          BY <5>1
      <4>2. CASE e \in ToSet(batch) \ (written \cup lost)
        <5>1. Places(e) = {"batch"}
          BY <4>2 DEF Places
        <5> QED
          BY <5>1
      <4>3. CASE e \in written
        <5>1. Places(e) = {"written"}
          BY <4>3 DEF Places
        <5> QED
          BY <5>1
      <4>4. CASE e \in lost
        <5>1. Places(e) = {"lost"}
          BY <4>4 DEF Places
        <5> QED
          BY <5>1
      <4>5. CASE e \in shed
        <5>1. Places(e) = {"shed"}
          BY <4>5 DEF Places
        <5> QED
          BY <5>1
      <4>6. CASE e \in refused
        <5>1. Places(e) = {"refused"}
          BY <4>6 DEF Places
        <5> QED
          BY <5>1
      <4> QED
        BY <2>2, <4>1, <4>2, <4>3, <4>4, <4>5, <4>6
    <3> QED
      BY <2>2, <3>1, FS_Singleton
  <2> QED
    BY <2>1, <2>2
<1> QED
  BY <1>1, <1>2 DEF AccountedOnce

\* Every event whose Record call returned is in one place, and none is written twice or
\* goes without a trace (Record, evictDiagnostic, takeBatch, flush), for any number of
\* events and any settings.
THEOREM EventsAccounted == Spec => []AccountedOnce
<1>1. Init => AccountInv
  BY DEF Init, AccountInv, Apart, Known, Queued, ToSet, IsInjective
<1> QED
  BY <1>1, AccountStep, CountedOnce, TypeCorrect, PTL DEF Spec

\* When the batcher answers FlushNow nothing is queued or in its hands (drainAll, Run),
\* so what was queued at the call has been written or counted lost.
THEOREM FlushAnswered == Spec => FlushCovers
<1>1. Init => AccountInv
  BY DEF Init, AccountInv, Apart, Known, Queued, ToSet, IsInjective
<1>2. AccountInv /\ [Next]_vars =>
        [flusher = "waiting" /\ flusher' = "idle" /\ run = "drain" /\ run' = "select"
            => asked \cap (Queued \cup ToSet(batch)) = {}]_vars
  <2> SUFFICES ASSUME AccountInv, Next, run = "drain", run' = "select"
               PROVE  Queued \cup ToSet(batch) = {}
    BY DEF AccountInv
  <2>1. Drained
    <3>1. ASSUME NEW e \in Events, Record(e) PROVE run' = run
      BY <3>1 DEF Record, BeginRecord, Enqueue, Full, Evict, NothingToEvict, Retry, batcherVars
    <3>2. BeginFlush \/ EndFlush \/ Cancel \/ Close \/ ChangeOptions => run' = run
      BY DEF BeginFlush, EndFlush, Cancel, Close, ChangeOptions, batcherVars
    <3>3. Run => DrainDone \/ run' # "select"
      BY DEF Run, WakeCancelled, WakeFlush, WakeSignal, CheckDepth, TakeSignalled, Recheck, Tick, Drain, Exit,
             FlushDetails, FlushUsage
    <3> QED
      BY <3>1, <3>2, <3>3 DEF Next, DrainDone
  <2>2. queue = <<>> /\ batch = <<>>
    BY <2>1 DEF Drained, AccountInv, Apart
  <2> QED
    BY <2>2 DEF Queued, ToSet
<1> QED
  BY <1>1, <1>2, AccountStep, TypeCorrect, PTL DEF Spec, FlushCovers
=============================================================================
