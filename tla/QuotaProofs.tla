------------------------------ MODULE QuotaProofs ------------------------------
(***************************************************************************)
(* Proofs about Quota, for any accounts and any bounds: that no two        *)
(* refreshers of jobs run, and that a reset is pinged twice only for cause.*)
(***************************************************************************)
EXTENDS Quota, FiniteSetTheorems, TLAPS

-----------------------------------------------------------------------------
(* The jobs *)

Busy(i) == runner[i] \in {"start", "wait", "settling"}

\* A job holds the slot until its refresher has returned, and only its runner
\* starts one.
JobInv ==
    /\ latest \in Nat /\ active \in BOOLEAN
    /\ at \in [Readers -> {"idle", "list", "prune", "next", "observe", "returned"}]
    /\ runner \in [Jobs -> {"none", "start", "wait", "settling", "done"}]
    /\ \A i \in Jobs : at[i] \notin {"idle", "returned"} => runner[i] \in {"wait", "settling"}
    /\ \A i, j \in Jobs : Busy(i) /\ Busy(j) => i = j
    /\ active <=> \E i \in Jobs : Busy(i)

LEMMA JobsAreReaders == Jobs \subseteq Readers /\ 0 \in Readers /\ 0 \notin Jobs
BY QuotaAssumption DEF Jobs, Readers

\* What concerns no job.
LEMMA JobsUntouched ==
    ASSUME JobInv, UNCHANGED <<latest, active, at, runner>>
    PROVE  JobInv'
BY DEF JobInv, Busy

\* A refresher goes on, or returns.
LEMMA RefreshKeepsJobs ==
    ASSUME JobInv, NEW r \in Readers, NEW to \in {"list", "prune", "next", "observe", "returned"},
           at[r] \notin {"idle", "returned"} \/ r = 0, Goto(r, to), UNCHANGED <<latest, active, runner>>
    PROVE  JobInv'
BY JobsAreReaders DEF JobInv, Busy, Goto

LEMMA JobInit == Init => JobInv
<1> SUFFICES ASSUME Init PROVE JobInv
  OBVIOUS
<1>1. /\ at = [r \in Readers |-> "idle"] /\ runner = [i \in Jobs |-> "none"] /\ latest = 0 /\ active = FALSE
  BY DEF Init, ProcessInit
<1> QED
  BY <1>1, JobsAreReaders DEF JobInv, Busy

LEMMA JobNext == JobInv /\ [Next]_vars => JobInv'
<1> SUFFICES ASSUME JobInv, [Next]_vars PROVE JobInv'
  OBVIOUS
<1> USE JobsAreReaders
<1>1. CASE UNCHANGED vars
  BY <1>1, JobsUntouched DEF vars, readerVars, jobVars
<1>2. CASE StartRun
  BY <1>2, RefreshKeepsJobs DEF StartRun, jobVars
<1>3. ASSUME NEW r \in Readers, Refresh(r) PROVE JobInv'
  <2>1. CASE List(r)
    BY <2>1, RefreshKeepsJobs DEF List, jobVars
  <2>2. CASE Prune(r)
    BY <2>2, RefreshKeepsJobs DEF Prune, jobVars
  <2>3. CASE Read(r)
    <3>1. CASE UNCHANGED at
      BY <2>3, <3>1, JobsUntouched DEF Read, jobVars
    <3>2. CASE Goto(r, "returned") \/ Goto(r, "observe")
      BY <2>3, <3>2, RefreshKeepsJobs DEF Read, jobVars
    <3> QED
      BY <2>3, <3>1, <3>2 DEF Read
  <2>4. CASE Observe(r)
    BY <2>4, RefreshKeepsJobs DEF Observe, jobVars
  <2> QED
    BY <1>3, <2>1, <2>2, <2>3, <2>4 DEF Refresh
<1>4. CASE Post
  <2>1. CASE latest + 1 \in Jobs
    BY <1>4, <2>1 DEF Post, JobInv, Busy, readerVars
  <2>2. latest + 1 \in Jobs
    BY <1>4, QuotaAssumption DEF Post, Jobs, JobInv
  <2> QED
    BY <2>1, <2>2
<1>5. ASSUME NEW i \in Jobs, StartJob(i) PROVE JobInv'
  BY <1>5 DEF StartJob, JobInv, Busy, Goto
<1>6. ASSUME NEW i \in Jobs, FinishJob(i) \/ Settle(i) PROVE JobInv'
  BY <1>6 DEF FinishJob, Settle, JobInv, Busy, readerVars
<1>7. ASSUME NEW i \in Jobs, Deadline(i) PROVE JobInv'
  BY <1>7 DEF Deadline, ActiveAfterDeadline, JobInv, Busy, readerVars
<1>8. CASE Crash
  BY <1>8 DEF Crash, JobInv, Busy
<1>9. CASE Tick \/ Attempt
  <2>1. UNCHANGED <<latest, active, at, runner>>
    BY <1>9 DEF Tick, Attempt, Visit, UsageUnread, ReadUsage, SendFails, SendSucceeds, Save, AbandonTick, EndTick,
                Others, readerVars, jobVars
  <2> QED
    BY <2>1, JobsUntouched
<1>10. ASSUME NEW a \in Accounts, Delete(a) \/ Approach(a) \/ Slide(a) \/ PauseEnds(a) \/ OptIn(a) PROVE JobInv'
  <2>1. UNCHANGED <<latest, active, at, runner>>
    BY <1>10 DEF Delete, Approach, Slide, PauseEnds, OptIn, Unmoved, readerVars, jobVars
  <2> QED
    BY <2>1, JobsUntouched
<1> QED
  BY <1>1, <1>2, <1>3, <1>4, <1>5, <1>6, <1>7, <1>8, <1>9, <1>10 DEF Next

LEMMA AtMostOne ==
    ASSUME NEW S, \A x, y \in S : x = y
    PROVE  Cardinality(S) <= 1
<1>1. CASE S = {}
  BY <1>1, FS_EmptySet
<1>2. CASE S # {}
  <2>1. PICK x \in S : TRUE
    BY <1>2
  <2>2. S = {x}
    BY <2>1
  <2> QED
    BY <2>2, FS_Singleton
<1> QED
  BY <1>1, <1>2

\* No two jobs refresh at a time, whatever their refreshers do with a cancelled
\* context, and the slot is held exactly as long as one may (quota_refresh.go:43,
\* 99-128, 153-185).
THEOREM OneRefresherHolds == Spec => []OneRefresher
<1>1. JobInv => OneRefresher
  <2> SUFFICES ASSUME JobInv PROVE OneRefresher
    OBVIOUS
  <2>1. \A x, y \in {i \in Jobs : at[i] \notin {"idle", "returned"}} : x = y
    BY DEF JobInv, Busy
  <2>2. Cardinality({i \in Jobs : at[i] \notin {"idle", "returned"}}) <= 1
    BY <2>1, AtMostOne
  <2>3. active <=> \E i \in Jobs : runner[i] \in {"start", "wait", "settling"}
    BY DEF JobInv, Busy
  <2> QED
    BY <2>2, <2>3 DEF OneRefresher
<1> QED
  BY <1>1, JobInit, JobNext, PTL DEF Spec

-----------------------------------------------------------------------------
(* The pings *)

\* The reset remembered for an account: once the history is loaded, in memory.
Remembering(a) == IF loaded THEN history[a] ELSE saved[a]

PingTypes ==
    /\ window \in [Accounts -> Nat] /\ history \in [Accounts -> Nat] /\ saved \in [Accounts -> Nat]
    /\ pinged \in [Accounts -> SUBSET Nat] /\ unsaved \in [Accounts -> SUBSET Nat] /\ excused \in [Accounts -> SUBSET Nat]
    /\ seen \in Nat /\ loaded \in BOOLEAN
    /\ target \in SUBSET Accounts /\ \A a, b \in target : a = b
    /\ targets \in SUBSET Accounts /\ optIn \in SUBSET Accounts
    /\ ping \in {"idle", "next", "read", "send", "save"}
    /\ ping # "idle" => loaded

\* Resets that were pinged and may not be pinged again.
Settled(a) == pinged[a] \ excused[a]

\* No reset yet to come was pinged; the present one is remembered once it is settled, and
\* is what was saved unless no save has succeeded since; and the one a ping is about to be
\* sent for is newer than all that are settled.
NeverAhead == \A a \in Accounts : \A w \in pinged[a] : w <= window[a]
PresentRemembered == \A a \in Accounts : window[a] \in Settled(a) => Remembering(a) = window[a]
PresentSaved == \A a \in Accounts : window[a] \in Settled(a) \ unsaved[a] => saved[a] = window[a]
SendsNewer == ping = "send" => \A a \in target : seen <= window[a] /\ \A w \in Settled(a) : w < seen

PingInv == PingTypes /\ NeverAhead /\ PresentRemembered /\ PresentSaved /\ SendsNewer

LEMMA PingInit == Init => PingInv
<1> SUFFICES ASSUME Init PROVE PingInv
  OBVIOUS
<1>1. /\ window = [a \in Accounts |-> 1] /\ saved = Nobody /\ history = Nobody /\ loaded = FALSE
      /\ pinged = Nothing /\ unsaved = Nothing /\ excused = Nothing /\ seen = 0 /\ ping = "idle"
      /\ targets = {} /\ target = {} /\ optIn = Accounts
  BY DEF Init, ProcessInit
<1> QED
  BY <1>1 DEF Nobody, Nothing, PingInv, PingTypes, NeverAhead, PresentRemembered, PresentSaved, Settled, SendsNewer

LEMMA PingsUntouched ==
    ASSUME PingInv, UNCHANGED <<window, saved, history, loaded, sentVars, optIn, ping, seen, target, targets>>
    PROVE  PingInv'
BY DEF sentVars, PingInv, PingTypes, NeverAhead, PresentRemembered, PresentSaved, SendsNewer, Settled, Remembering

\* A window that starts is later than every reset before it.
LEMMA WindowStarts ==
    ASSUME PingInv, NEW a \in Accounts, window' = [window EXCEPT ![a] = @ + 1],
           UNCHANGED <<saved, history, loaded, sentVars, optIn, ping, seen, target, targets>>
    PROVE  PingInv'
<1> USE DEF PingInv, sentVars
<1>1. PingTypes'
  BY DEF PingTypes
<1>2. NeverAhead' /\ SendsNewer'
  BY DEF PingTypes, NeverAhead, SendsNewer, Settled
<1>3. PresentRemembered' /\ PresentSaved'
  <2> SUFFICES ASSUME NEW b \in Accounts, window'[b] \in Settled(b)
               PROVE  Remembering(b)' = window'[b] /\ (window'[b] \notin unsaved[b] => saved[b] = window'[b])
    BY DEF PresentRemembered, PresentSaved, Settled
  <2>1. b # a
    BY DEF PingTypes, NeverAhead, Settled
  <2> QED
    BY <2>1 DEF PingTypes, PresentRemembered, PresentSaved, Settled, Remembering
<1> QED
  BY <1>1, <1>2, <1>3

\* A ping that is accepted: the window is the one it was sent for, or a later one.
LEMMA SendPreserves == PingInv /\ SendSucceeds => PingInv'
<1> SUFFICES ASSUME PingInv, SendSucceeds PROVE PingInv'
  OBVIOUS
<1> USE DEF PingInv
<1>1. PICK a \in target : /\ Accepted(a) /\ history' = [history EXCEPT ![a] = seen]
                          /\ pinged' = [pinged EXCEPT ![a] = @ \cup {seen}]
                          /\ unsaved' = [unsaved EXCEPT ![a] = @ \cup {seen}]
                          /\ excused' = [excused EXCEPT ![a] = @ \ {seen}]
  BY DEF SendSucceeds, Remembered
<1>2. /\ ping = "send" /\ ping' = "save" /\ seen' = 0 /\ loaded /\ loaded' = loaded
      /\ UNCHANGED <<saved, optIn, target, targets>>
  BY DEF SendSucceeds, Others, settingVars, PingTypes
<1>3. a \in Accounts /\ seen \in Nat /\ seen <= window[a] /\ \A w \in Settled(a) : w < seen
  BY <1>1, <1>2 DEF PingTypes, SendsNewer
<1>4. /\ window' \in [Accounts -> Nat] /\ window'[a] >= window[a]
      /\ \A b \in Accounts \ {a} : window'[b] = window[b]
  BY <1>1, <1>3 DEF Accepted, PingTypes, upstreamVars
<1> HIDE DEF PingInv
<1>5. PingTypes'
  BY <1>1, <1>2, <1>3, <1>4 DEF PingInv, PingTypes
<1>6. NeverAhead'
  <2> SUFFICES ASSUME NEW b \in Accounts, NEW w \in pinged'[b] PROVE w <= window'[b]
    BY DEF NeverAhead
  <2>1. w \in Nat /\ window[b] \in Nat /\ window'[b] \in Nat
    BY <1>4, <1>5 DEF PingInv, PingTypes
  <2>2. CASE b = a
    <3>1. w \in pinged[a] \/ w = seen
      BY <1>1, <1>3, <2>2 DEF PingInv, PingTypes
    <3>2. \A v \in pinged[a] : v <= window[a]
      BY <1>3 DEF PingInv, NeverAhead
    <3> QED
      BY <1>3, <1>4, <2>1, <2>2, <3>1, <3>2
  <2>3. CASE b # a
    <3>1. pinged'[b] = pinged[b]
      BY <1>1, <2>3 DEF PingInv, PingTypes
    <3>2. window'[b] = window[b]
      BY <1>4, <2>3
    <3> QED
      BY <3>1, <3>2 DEF PingInv, NeverAhead
  <2> QED
    BY <2>2, <2>3
<1>7. PresentRemembered' /\ PresentSaved'
  <2> SUFFICES ASSUME NEW b \in Accounts, window'[b] \in Settled(b)'
               PROVE  /\ Remembering(b)' = window'[b]
                      /\ window'[b] \notin unsaved'[b] => saved'[b] = window'[b]
    BY DEF PresentRemembered, PresentSaved
  <2>1. CASE b = a
    <3>1. window'[a] \in Settled(a) \/ window'[a] = seen
      BY <1>1, <1>3, <2>1 DEF PingInv, PingTypes, Settled
    <3>2. window[a] \in Nat /\ window'[a] \in Nat
      BY <1>3, <1>4 DEF PingInv, PingTypes
    <3>3. window'[a] = seen
      BY <1>3, <1>4, <3>1, <3>2
    <3> QED
      BY <1>1, <1>2, <1>3, <2>1, <3>3 DEF PingInv, PingTypes, Remembering
  <2>2. CASE b # a
    <3>1. window'[b] = window[b] /\ window[b] \in Settled(b) /\ unsaved'[b] = unsaved[b] /\ history'[b] = history[b]
      BY <1>1, <1>4, <2>2 DEF PingInv, PingTypes, Settled
    <3> QED
      BY <1>2, <3>1 DEF PingInv, PresentRemembered, PresentSaved, Remembering
  <2> QED
    BY <2>1, <2>2
<1>8. SendsNewer'
  BY <1>2 DEF SendsNewer
<1> QED
  BY <1>5, <1>6, <1>7, <1>8 DEF PingInv

\* The usage is read: a ping follows only for a reset that is not remembered.
LEMMA ReadPreserves == PingInv /\ ReadUsage => PingInv'
<1> SUFFICES ASSUME PingInv, ReadUsage PROVE PingInv'
  OBVIOUS
<1> USE DEF PingInv, sentVars
<1>1. ping = "read" /\ loaded /\ UNCHANGED <<window, saved, history, loaded, sentVars, optIn, targets>>
  BY DEF ReadUsage, Others, upstreamVars, settingVars, PingTypes
<1>2. CASE ping' = "send"
  <2>1. PICK a \in target : CallsForPing(a) /\ seen' = window[a] /\ target' = target
    BY <1>2 DEF ReadUsage, Succeed
  <2>2. a \in Accounts /\ target' = {a} /\ window[a] \in Nat /\ pinged[a] \in SUBSET Nat
    BY <2>1 DEF PingTypes
  <2>3. window[a] \notin Settled(a)
    BY <1>1, <2>1, <2>2 DEF CallsForPing, PresentRemembered, PresentSaved, Settled, Remembering
  <2>4. \A w \in Settled(a) : w < window[a]
    BY <2>2, <2>3 DEF NeverAhead, Settled
  <2> QED
    BY <1>1, <1>2, <2>1, <2>2, <2>4 DEF PingTypes, NeverAhead, PresentRemembered, PresentSaved, Settled, Remembering, SendsNewer
<1>3. CASE ping' # "send"
  <2>1. ping' = "next" /\ target' = {} /\ seen' = seen
    BY <1>3 DEF ReadUsage, Succeed
  <2> QED
    BY <1>1, <2>1 DEF PingTypes, NeverAhead, PresentRemembered, PresentSaved, Settled, Remembering, SendsNewer
<1> QED
  BY <1>2, <1>3

LEMMA EndTickPreserves == PingInv /\ EndTick => PingInv'
<1> SUFFICES ASSUME PingInv, EndTick PROVE PingInv'
  OBVIOUS
<1> DEFINE kept == [a \in Accounts |-> IF a \in opted THEN history[a] ELSE 0]
<1>1. /\ ping = "next" /\ ping' = "idle" /\ loaded /\ history' = kept
      /\ \/ saved' = kept /\ unsaved' = Nothing
         \/ saved' = saved /\ unsaved' = [a \in Accounts |-> IF a \in opted THEN unsaved[a] ELSE {}]
      /\ excused' = [a \in Accounts |-> IF a \in opted THEN excused[a] ELSE pinged[a]]
      /\ UNCHANGED <<window, loaded, pinged, optIn, targets, target, seen>>
  BY DEF EndTick, Others, upstreamVars, PingInv, PingTypes
<1>2. PingTypes'
  BY <1>1 DEF Nothing, PingInv, PingTypes
<1>3. NeverAhead' /\ SendsNewer'
  BY <1>1 DEF PingInv, NeverAhead, SendsNewer
<1>4. PresentRemembered' /\ PresentSaved'
  <2> SUFFICES ASSUME NEW a \in Accounts, window[a] \in Settled(a)'
               PROVE  history'[a] = window[a] /\ (window[a] \notin unsaved'[a] => saved'[a] = window[a])
    BY <1>1 DEF PresentRemembered, PresentSaved, Remembering
  <2>1. a \in opted /\ window[a] \in Settled(a)
    BY <1>1 DEF Settled
  <2>2. history[a] = window[a] /\ (window[a] \notin unsaved[a] => saved[a] = window[a])
    BY <1>1, <2>1 DEF PingInv, PresentRemembered, PresentSaved, Remembering
  <2> QED
    BY <1>1, <2>1, <2>2
<1> QED
  BY <1>2, <1>3, <1>4 DEF PingInv

\* What survives the process is what was saved; what was not is excused.
LEMMA CrashPreserves == PingInv /\ Crash => PingInv'
<1> SUFFICES ASSUME PingInv, Crash PROVE PingInv'
  OBVIOUS
<1>1. /\ history' = Nobody /\ loaded' = FALSE /\ seen' = 0 /\ ping' = "idle" /\ targets' = {} /\ target' = {}
      /\ unsaved' = Nothing /\ excused' = [a \in Accounts |-> excused[a] \cup unsaved[a]]
      /\ UNCHANGED <<window, saved, optIn, pinged>>
  BY DEF Crash, upstreamVars, settingVars
<1>2. PingTypes'
  BY <1>1 DEF Nobody, Nothing, PingInv, PingTypes
<1>3. NeverAhead' /\ SendsNewer'
  BY <1>1 DEF PingInv, NeverAhead, SendsNewer
<1>4. PresentRemembered' /\ PresentSaved'
  <2> SUFFICES ASSUME NEW a \in Accounts, window[a] \in Settled(a)' PROVE saved[a] = window[a]
    BY <1>1 DEF PresentRemembered, PresentSaved, Remembering
  <2>1. window[a] \in Settled(a) \ unsaved[a]
    BY <1>1 DEF Settled
  <2> QED
    BY <2>1 DEF PingInv, PresentSaved
<1> QED
  BY <1>2, <1>3, <1>4 DEF PingInv

LEMMA PingNext == PingInv /\ [Next]_vars => PingInv'
<1> SUFFICES ASSUME PingInv, [Next]_vars PROVE PingInv'
  OBVIOUS
<1>1. CASE UNCHANGED vars
  BY <1>1, PingsUntouched DEF vars, upstreamVars, settingVars, tickVars, pingerVars
<1>2. CASE StartRun \/ Post \/ (\E r \in Readers : Refresh(r)) \/ \E i \in Jobs : StartJob(i) \/ FinishJob(i) \/ Deadline(i) \/ Settle(i)
  <2>1. UNCHANGED <<upstreamVars, settingVars, tickVars, pingerVars, sentVars>>
    BY <1>2 DEF StartRun, Post, Refresh, List, Prune, Read, Observe, StartJob, FinishJob, Deadline, Settle
  <2> QED
    BY <2>1, PingsUntouched DEF upstreamVars, settingVars, tickVars, pingerVars
<1>3. CASE Tick
  BY <1>3 DEF Tick, Others, sentVars, upstreamVars, settingVars, PingInv, PingTypes, NeverAhead, PresentRemembered, PresentSaved, SendsNewer, Settled, Remembering
<1>4. CASE Visit
  BY <1>4 DEF Visit, Others, sentVars, upstreamVars, settingVars, pingerVars,
              PingInv, PingTypes, NeverAhead, PresentRemembered, PresentSaved, SendsNewer, Settled, Remembering
<1>5. CASE UsageUnread
  BY <1>5 DEF UsageUnread, Cool, Others, sentVars, upstreamVars, settingVars,
              PingInv, PingTypes, NeverAhead, PresentRemembered, PresentSaved, SendsNewer, Settled, Remembering
<1>6. CASE ReadUsage
  BY <1>6, ReadPreserves
<1>7. CASE SendFails
  <2>1. PICK a \in target : (Accepted(a) \/ UNCHANGED upstreamVars) /\ ping' = "next" /\ target' = {}
    BY <1>7 DEF SendFails, Cool
  <2>2. seen' = 0 /\ UNCHANGED <<saved, history, loaded, sentVars, optIn, targets>>
    BY <1>7 DEF SendFails, Others, settingVars
  <2>3. a \in Accounts /\ loaded
    BY <1>7, <2>1 DEF SendFails, PingInv, PingTypes
  <2>4. window' = [window EXCEPT ![a] = @ + 1] \/ window' = window
    BY <2>1 DEF Accepted, upstreamVars
  <2>5. PingTypes' /\ NeverAhead' /\ SendsNewer'
    BY <2>1, <2>2, <2>3, <2>4 DEF sentVars, PingInv, PingTypes, NeverAhead, SendsNewer
  <2>6. PresentRemembered' /\ PresentSaved'
    <3> SUFFICES ASSUME NEW b \in Accounts, window'[b] \in Settled(b)
                 PROVE  Remembering(b)' = window'[b] /\ (window'[b] \notin unsaved[b] => saved[b] = window'[b])
      BY <2>2 DEF PresentRemembered, PresentSaved, Settled, sentVars
    <3>1. window'[b] = window[b]
      BY <2>3, <2>4 DEF PingInv, PingTypes, NeverAhead, Settled
    <3> QED
      BY <2>2, <3>1 DEF PingInv, PresentRemembered, PresentSaved, Remembering
  <2> QED
    BY <2>5, <2>6 DEF PingInv
<1>8. CASE SendSucceeds
  BY <1>8, SendPreserves
<1>9. CASE Save
  BY <1>9 DEF Save, Succeed, Cool, Others, upstreamVars, Nothing,
              PingInv, PingTypes, NeverAhead, PresentRemembered, PresentSaved, SendsNewer, Settled, Remembering
<1>10. CASE AbandonTick
  BY <1>10 DEF AbandonTick, Others, sentVars, upstreamVars, settingVars, pingerVars,
              PingInv, PingTypes, NeverAhead, PresentRemembered, PresentSaved, SendsNewer, Settled, Remembering
<1>11. CASE EndTick
  BY <1>11, EndTickPreserves
<1>12. CASE Crash
  BY <1>12, CrashPreserves
<1>13. ASSUME NEW a \in Accounts, Delete(a) \/ PauseEnds(a) PROVE PingInv'
  <2>1. UNCHANGED <<window, saved, history, loaded, sentVars, optIn, ping, seen, target, targets>>
    BY <1>13 DEF Delete, PauseEnds, Unmoved, upstreamVars, settingVars, tickVars, pingerVars
  <2> QED
    BY <2>1, PingsUntouched
<1>14. ASSUME NEW a \in Accounts, Approach(a) \/ Slide(a) PROVE PingInv'
  <2>1. UNCHANGED <<saved, history, loaded, sentVars, optIn, ping, seen, target, targets>>
    BY <1>14 DEF Approach, Slide, Unmoved, settingVars, tickVars, pingerVars
  <2>2. window' = window \/ window' = [window EXCEPT ![a] = @ + 1]
    BY <1>14 DEF Approach, Slide
  <2> QED
    BY <2>1, <2>2, PingsUntouched, WindowStarts
<1>15. ASSUME NEW a \in Accounts, OptIn(a) PROVE PingInv'
  BY <1>15 DEF OptIn, Unmoved, sentVars, upstreamVars, tickVars, pingerVars,
              PingInv, PingTypes, NeverAhead, PresentRemembered, PresentSaved, SendsNewer, Settled, Remembering
<1> QED
  BY <1>1, <1>2, <1>3, <1>4, <1>5, <1>6, <1>7, <1>8, <1>9, <1>10, <1>11, <1>12, <1>13, <1>14, <1>15 DEF Next, Attempt

\* However saves fail, ticks are abandoned and the process dies, a reset that was pinged
\* is pinged again only when the process died before any save held the first ping, or a
\* tick dropped the account's record since because it was opted out; and once for each such
\* cause (autoping.go:103-123, 187-216: "Keep successful sends suppressed in this process
\* even if persistence fails"; P05_QUOTA_AUDIT.md:110 for the death before the save).
THEOREM PingedOnceHolds == Spec => PingedOnce
<1>1. PingInv => \A a \in target : ping = "send" /\ ping' = "save" => seen \notin pinged[a] \ excused[a]
  BY DEF PingInv, PingTypes, SendsNewer, Settled
<1>2. PingInv => [\A a \in target : ping = "send" /\ ping' = "save" => seen \notin pinged[a] \ excused[a]]_vars
  BY <1>1
<1> QED
  BY <1>2, PingInit, PingNext, PTL DEF Spec, PingedOnce
=============================================================================
