--------------------------------- MODULE Quota ---------------------------------
(***************************************************************************)
(* internal/quota and internal/control/api/quota_refresh.go: the periodic  *)
(* and the operator's refreshes of the accounts' quota (Service), the jobs *)
(* the latter run as, and the worker that warms the windows of opted-in    *)
(* accounts once for each reset (AutoPinger), through crashes.             *)
(*                                                                         *)
(* A session window is known by the number of its reset.  Time is what the *)
(* rules compare it with: a Claude reset is far, near (five minutes) or    *)
(* due (five seconds), a Codex window is idle (its reset slides) or active,*)
(* and the pauses of fifteen and ten minutes last until some step ends     *)
(* them.  The observation for routing is published as the detail is.       *)
(***************************************************************************)
EXTENDS Naturals, FiniteSets

CONSTANTS Accounts,   \* enabled OAuth connections
          Claude,     \* those of Claude; the others are of Codex
          MaxWindows, \* bound: resets of an account
          MaxJobs,    \* bound: operator refreshes of a process
          Casts       \* bound: the actors that meet in one behaviour

ASSUME QuotaAssumption == Claude \subseteq Accounts /\ MaxWindows \in Nat /\ MaxJobs \in Nat

Jobs == 1 .. MaxJobs
Readers == 0 .. MaxJobs \* Run's refreshes, and the refresher of each job

VARIABLES
    cast,
    window, phase,                         \* at the provider
    stored,                                \* connections that have a row
    optIn, saved,                          \* settings: who is to be warmed, and the ping history
    detail,                                \* Service.states
    at, todo, reading,                     \* each reader: where it stands, whom it still reads, whom it reads now
    status, latest, active, runner,        \* quotaRefreshJobs, and runQuotaRefresh of each job
    ping, targets, opted, target, seen, previous, \* Tick and its locals
    history, loaded, resets, failures, recent,    \* AutoPinger
    pinged,                                \* history: resets a ping was accepted for,
    unsaved,                               \* those no save has succeeded for since,
    excused                                \* and those that may be pinged once more

upstreamVars == <<window, phase>>
settingVars == <<optIn, saved>>
readerVars == <<at, todo, reading>>
jobVars == <<status, latest, active, runner>>
tickVars == <<ping, targets, opted, target, seen, previous>>
pingerVars == <<history, loaded, resets, failures, recent>>
sentVars == <<pinged, unsaved, excused>>
vars == <<cast, upstreamVars, stored, settingVars, detail, readerVars, jobVars, tickVars, pingerVars, sentVars>>

Nobody == [a \in Accounts |-> 0]
Nothing == [a \in Accounts |-> {}]

ProcessInit ==
    /\ detail = {}
    /\ at = [r \in Readers |-> "idle"] /\ todo = [r \in Readers |-> {}] /\ reading = [r \in Readers |-> {}]
    /\ status = [i \in Jobs |-> "none"] /\ latest = 0 /\ active = FALSE /\ runner = [i \in Jobs |-> "none"]
    /\ ping = "idle" /\ targets = {} /\ opted = {} /\ target = {} /\ seen = 0 /\ previous = 0
    /\ history = Nobody /\ loaded = FALSE /\ resets = Nobody /\ failures = {} /\ recent = {}

Init ==
    /\ cast \in Casts
    /\ window = [a \in Accounts |-> 1] /\ phase = [a \in Accounts |-> IF a \in Claude THEN "far" ELSE "idle"]
    /\ stored = Accounts /\ optIn = Accounts /\ saved = Nobody
    /\ ProcessInit /\ pinged = Nothing /\ unsaved = Nothing /\ excused = Nothing

Goto(r, to) == at' = [at EXCEPT ![r] = to]

-----------------------------------------------------------------------------
(* Service.RefreshAll *)

\* Listing the connections, or seeding the registry, may fail.
List(r) ==
    /\ at[r] = "list"
    /\ \/ todo' = [todo EXCEPT ![r] = stored] /\ Goto(r, "prune")
       \/ Goto(r, "returned") /\ UNCHANGED todo
    /\ UNCHANGED <<cast, upstreamVars, stored, settingVars, detail, reading, jobVars, tickVars, pingerVars, sentVars>>

\* Broken variant of Pruned: only an account that was read is looked at again.
PrunedNever(r) == detail

\* Detail of connections that were not listed is dropped.
Pruned(r) == detail \cap todo[r]

Prune(r) ==
    /\ at[r] = "prune"
    /\ detail' = Pruned(r)
    /\ Goto(r, "next")
    /\ UNCHANGED <<cast, upstreamVars, stored, settingVars, todo, reading, jobVars, tickVars, pingerVars, sentVars>>

\* An account without a usable credential is passed over.
Read(r) ==
    /\ at[r] = "next"
    /\ IF todo[r] = {} THEN Goto(r, "returned") /\ UNCHANGED <<todo, reading>>
       ELSE \E a \in todo[r] :
        /\ todo' = [todo EXCEPT ![r] = @ \ {a}]
        /\ \/ reading' = [reading EXCEPT ![r] = {a}] /\ Goto(r, "observe")
           \/ UNCHANGED <<reading, at>>
    /\ UNCHANGED <<cast, upstreamVars, stored, settingVars, detail, jobVars, tickVars, pingerVars, sentVars>>

\* A first read is kept whatever it was, and later ones that did not fail: either
\* way there is detail for the account, deleted meanwhile or not.
Observe(r) ==
    /\ at[r] = "observe"
    /\ detail' = detail \cup reading[r]
    /\ reading' = [reading EXCEPT ![r] = {}]
    /\ Goto(r, "next")
    /\ UNCHANGED <<cast, upstreamVars, stored, settingVars, todo, jobVars, tickVars, pingerVars, sentVars>>

\* Run, at its interval.
StartRun ==
    /\ "run" \in cast /\ at[0] \in {"idle", "returned"}
    /\ Goto(0, "list")
    /\ UNCHANGED <<cast, upstreamVars, stored, settingVars, detail, todo, reading, jobVars, tickVars, pingerVars, sentVars>>

Refresh(r) == List(r) \/ Prune(r) \/ Read(r) \/ Observe(r)

Delete(a) ==
    /\ "delete" \in cast /\ a \in stored
    /\ stored' = stored \ {a}
    /\ UNCHANGED <<cast, upstreamVars, settingVars, detail, readerVars, jobVars, tickVars, pingerVars, sentVars>>

-----------------------------------------------------------------------------
(* quotaRefreshJobs *)

Terminal(i) == status[i] \in {"succeeded", "failed"}

\* A POST that neither joins the latest job nor finds its refresher still running.
Post ==
    /\ "jobs" \in cast /\ latest < MaxJobs
    /\ latest > 0 => Terminal(latest)
    /\ ~active
    /\ latest' = latest + 1 /\ active' = TRUE
    /\ status' = [status EXCEPT ![latest + 1] = "queued"]
    /\ runner' = [runner EXCEPT ![latest + 1] = "start"]
    /\ UNCHANGED <<cast, upstreamVars, stored, settingVars, detail, readerVars, tickVars, pingerVars, sentVars>>

StartJob(i) ==
    /\ runner[i] = "start"
    /\ status' = [status EXCEPT ![i] = "running"]
    /\ runner' = [runner EXCEPT ![i] = "wait"]
    /\ Goto(i, "list")
    /\ UNCHANGED <<cast, upstreamVars, stored, settingVars, detail, todo, reading, latest, active, tickVars, pingerVars, sentVars>>

\* The refresher returned: the job ends and the slot is free, in one section.
FinishJob(i) ==
    /\ runner[i] = "wait" /\ at[i] = "returned"
    /\ \E end \in {"succeeded", "failed"} : status' = [status EXCEPT ![i] = end]
    /\ active' = FALSE
    /\ runner' = [runner EXCEPT ![i] = "done"]
    /\ UNCHANGED <<cast, upstreamVars, stored, settingVars, detail, readerVars, latest, tickVars, pingerVars, sentVars>>

\* Broken variant of ActiveAfterDeadline: the deadline frees the slot.
Inactive == FALSE

\* The slot is held for a refresher that has not returned.
ActiveAfterDeadline == active

\* The deadline ends the job whether or not the refresher returns.
Overdue(i) == at[i] # "returned"

Deadline(i) ==
    /\ runner[i] = "wait" /\ Overdue(i)
    /\ status' = [status EXCEPT ![i] = "failed"]
    /\ active' = ActiveAfterDeadline
    /\ runner' = [runner EXCEPT ![i] = "settling"]
    /\ UNCHANGED <<cast, upstreamVars, stored, settingVars, detail, readerVars, latest, tickVars, pingerVars, sentVars>>

Settle(i) ==
    /\ runner[i] = "settling" /\ at[i] = "returned"
    /\ active' = FALSE
    /\ runner' = [runner EXCEPT ![i] = "done"]
    /\ UNCHANGED <<cast, upstreamVars, stored, settingVars, detail, readerVars, status, latest, tickVars, pingerVars, sentVars>>

-----------------------------------------------------------------------------
(* AutoPinger.Tick *)

Others == <<cast, stored, readerVars, jobVars>>

\* The settings are read once a tick, the history once a process.
Tick ==
    /\ "ping" \in cast /\ ping = "idle"
    /\ opted' = optIn /\ loaded' = TRUE
    /\ history' = IF loaded THEN history ELSE saved
    /\ targets' = optIn \cap stored /\ ping' = "next"
    /\ UNCHANGED <<Others, upstreamVars, settingVars, detail, target, seen, previous, resets, failures, recent, sentVars>>

\* A Claude reset is not read again until it is near.
Fixed(a) == a \in Claude /\ resets[a] = window[a] /\ phase[a] = "far"

Visit ==
    /\ ping = "next"
    /\ \E a \in targets :
        /\ targets' = targets \ {a}
        /\ IF Fixed(a) \/ a \in failures
           THEN UNCHANGED <<ping, target>>
           ELSE ping' = "read" /\ target' = {a}
    /\ UNCHANGED <<Others, upstreamVars, settingVars, detail, opted, seen, previous, pingerVars, sentVars>>

\* The attempt failed: none follows for fifteen minutes.
Cool(a) == failures' = failures \cup {a} /\ ping' = "next" /\ target' = {}
Succeed(a) == failures' = failures \ {a} /\ ping' = "next" /\ target' = {}

UsageUnread ==
    /\ ping = "read"
    /\ \E a \in target :
        /\ Cool(a)
        /\ \E known \in BOOLEAN : detail' = IF known THEN detail \cup target ELSE detail
    /\ UNCHANGED <<Others, upstreamVars, settingVars, targets, opted, seen, previous, history, loaded, resets, recent, sentVars>>

\* Whether the window as read calls for a ping.  A Codex window is pinged when its
\* reset has slid since the last read, ten minutes after the last ping.
CallsForPing(a) ==
    /\ history[a] # window[a]
    /\ IF a \in Claude THEN phase[a] = "due"
       ELSE resets[a] # 0 /\ window[a] # resets[a] /\ a \notin recent

\* A session without a reset, an exhausted one, or a Codex account with another
\* exhausted window, calls for none; and no reset is no news.
ReadUsage ==
    /\ ping = "read"
    /\ detail' = detail \cup target
    /\ \E a \in target :
        \/ Succeed(a) /\ UNCHANGED <<resets, seen, previous>>
        \/ /\ resets' = [resets EXCEPT ![a] = window[a]]
           /\ \/ Succeed(a) /\ UNCHANGED <<seen, previous>>
              \/ /\ CallsForPing(a)
                 /\ seen' = window[a] /\ previous' = resets[a]
                 /\ ping' = "send" /\ UNCHANGED <<failures, target>>
    /\ UNCHANGED <<Others, upstreamVars, settingVars, targets, opted, history, loaded, recent, sentVars>>

\* What an accepted ping does at the provider: a window starts.
Accepted(a) ==
    IF a \in Claude
    THEN \/ window[a] < MaxWindows /\ window' = [window EXCEPT ![a] = @ + 1] /\ phase' = [phase EXCEPT ![a] = "far"]
         \/ UNCHANGED upstreamVars
    ELSE phase' = [phase EXCEPT ![a] = "active"] /\ UNCHANGED window

\* The send fails, though the provider may have accepted it.
SendFails ==
    /\ ping = "send"
    /\ \E a \in target :
        /\ \/ Accepted(a)
           \/ UNCHANGED upstreamVars
        /\ resets' = [resets EXCEPT ![a] = previous]
        /\ Cool(a)
    /\ seen' = 0 /\ previous' = 0
    /\ UNCHANGED <<Others, settingVars, detail, targets, opted, history, loaded, recent, sentVars>>

\* Broken variant of Remembered: a ping is remembered once it is saved.
RememberedSaved(a) == history

\* "Keep successful sends suppressed in this process even if persistence fails."
Remembered(a) == [history EXCEPT ![a] = seen]

SendSucceeds ==
    /\ ping = "send"
    /\ \E a \in target :
        /\ Accepted(a)
        /\ history' = Remembered(a)
        /\ recent' = recent \cup {a}
        /\ resets' = [resets EXCEPT ![a] = seen]
        /\ pinged' = [pinged EXCEPT ![a] = @ \cup {seen}]
        /\ unsaved' = [unsaved EXCEPT ![a] = @ \cup {seen}]
        /\ excused' = [excused EXCEPT ![a] = @ \ {seen}]
    /\ ping' = "save" /\ seen' = 0 /\ previous' = 0
    /\ UNCHANGED <<Others, settingVars, detail, targets, opted, target, loaded, failures>>

Save ==
    /\ ping = "save"
    /\ \E a \in target :
        \/ saved' = history /\ unsaved' = Nothing /\ Succeed(a)
        \/ Cool(a) /\ UNCHANGED <<saved, unsaved>>
    /\ UNCHANGED <<Others, upstreamVars, optIn, detail, targets, opted, seen, previous, history, loaded, resets, recent, pinged, excused>>

\* The connections of the next provider could not be listed.
AbandonTick ==
    /\ ping = "next" /\ targets # {}
    /\ ping' = "idle" /\ targets' = {} /\ opted' = {}
    /\ UNCHANGED <<Others, upstreamVars, settingVars, detail, target, seen, previous, pingerVars, sentVars>>

\* Records of accounts no longer opted in are dropped, and may be pinged anew.
EndTick ==
    LET kept == [a \in Accounts |-> IF a \in opted THEN history[a] ELSE 0] IN
    /\ ping = "next" /\ targets = {}
    /\ \E listed \in {x \in SUBSET opted : opted \cap stored \subseteq x} :
        /\ resets' = [a \in Accounts |-> IF a \in listed THEN resets[a] ELSE 0]
        /\ failures' = failures \cap listed
    /\ history' = kept
    /\ \/ kept # history /\ saved' = kept /\ unsaved' = Nothing
       \/ UNCHANGED saved /\ unsaved' = [a \in Accounts |-> IF a \in opted THEN unsaved[a] ELSE {}]
    /\ recent' = recent \cap opted
    /\ excused' = [a \in Accounts |-> IF a \in opted THEN excused[a] ELSE pinged[a]]
    /\ opted' = {}
    /\ ping' = "idle"
    /\ UNCHANGED <<Others, upstreamVars, optIn, detail, targets, target, seen, previous, loaded, pinged>>

Attempt == Visit \/ UsageUnread \/ ReadUsage \/ SendFails \/ SendSucceeds \/ Save \/ AbandonTick \/ EndTick

-----------------------------------------------------------------------------
(* The provider, time, the operator, the process *)

Unmoved == <<cast, stored, detail, readerVars, jobVars, tickVars>>

\* A reset comes nearer; once it has passed, a client's request starts a window.
Approach(a) ==
    /\ "clock" \in cast /\ a \in Claude
    /\ \/ phase[a] = "far" /\ phase' = [phase EXCEPT ![a] = "near"] /\ UNCHANGED window
       \/ phase[a] = "near" /\ phase' = [phase EXCEPT ![a] = "due"] /\ UNCHANGED window
       \/ /\ phase[a] = "due" /\ window[a] < MaxWindows
          /\ window' = [window EXCEPT ![a] = @ + 1] /\ phase' = [phase EXCEPT ![a] = "far"]
    /\ UNCHANGED <<Unmoved, settingVars, pingerVars, sentVars>>

Slide(a) ==
    /\ "clock" \in cast /\ a \notin Claude /\ window[a] < MaxWindows
    /\ window' = [window EXCEPT ![a] = @ + 1] /\ phase' = [phase EXCEPT ![a] = "idle"]
    /\ UNCHANGED <<Unmoved, settingVars, pingerVars, sentVars>>

PauseEnds(a) ==
    /\ \/ a \in failures /\ failures' = failures \ {a} /\ UNCHANGED recent
       \/ a \in recent /\ recent' = recent \ {a} /\ UNCHANGED failures
    /\ UNCHANGED <<Unmoved, upstreamVars, settingVars, history, loaded, resets, sentVars>>

OptIn(a) ==
    /\ "operator" \in cast
    /\ optIn' = IF a \in optIn THEN optIn \ {a} ELSE optIn \cup {a}
    /\ UNCHANGED <<Unmoved, upstreamVars, saved, pingerVars, sentVars>>

\* Memory is lost.  What was sent and not saved may be sent again.
Crash ==
    /\ "crash" \in cast
    /\ detail' = {}
    /\ at' = [r \in Readers |-> "idle"] /\ todo' = [r \in Readers |-> {}] /\ reading' = [r \in Readers |-> {}]
    /\ status' = [i \in Jobs |-> "none"] /\ latest' = 0 /\ active' = FALSE /\ runner' = [i \in Jobs |-> "none"]
    /\ ping' = "idle" /\ targets' = {} /\ opted' = {} /\ target' = {} /\ seen' = 0 /\ previous' = 0
    /\ history' = Nobody /\ loaded' = FALSE /\ resets' = Nobody /\ failures' = {}
    /\ recent' = {a \in recent : saved[a] = history[a]}
    /\ unsaved' = Nothing /\ excused' = [a \in Accounts |-> excused[a] \cup unsaved[a]]
    /\ UNCHANGED <<cast, upstreamVars, stored, settingVars, pinged>>

Next ==
    \/ StartRun \/ Post \/ Tick \/ Attempt \/ Crash
    \/ \E r \in Readers : Refresh(r)
    \/ \E i \in Jobs : StartJob(i) \/ FinishJob(i) \/ Deadline(i) \/ Settle(i)
    \/ \E a \in Accounts : Delete(a) \/ Approach(a) \/ Slide(a) \/ PauseEnds(a) \/ OptIn(a)

Spec == Init /\ [][Next]_vars

\* Run refreshes at its interval, and listing the connections succeeds if it is
\* tried again and again.  The refresher of a job may hang.
QuotaFairness == WF_vars(StartRun \/ Refresh(0)) /\ SF_vars(List(0) /\ at'[0] = "prune")

-----------------------------------------------------------------------------
(* Properties *)

\* "A refresher that ignores cancellation never runs alongside another" (:43),
\* and none is refused on account of one that has returned and was settled.
OneRefresher ==
    /\ Cardinality({i \in Jobs : at[i] \notin {"idle", "returned"}}) <= 1
    /\ active <=> \E i \in Jobs : runner[i] \in {"start", "wait", "settling"}

\* A reset that was pinged is pinged again only if the process died before any save
\* held the first ping, or a tick saw the account opted out since ("a crash after the
\* provider accepts ... can repeat a ping"; "a persistence failure suppresses repetition
\* in the running process", P05_QUOTA_AUDIT.md:110).  Each such cause allows one.
PingedOnce == [][\A a \in target : ping = "send" /\ ping' = "save" => seen \notin pinged[a] \ excused[a]]_vars

\* Detail of a deleted account goes for good, though a read that was under way
\* puts it back after the prune.
DetailFollowsRows == <>[]("run" \in cast => detail \subseteq stored)
=============================================================================
