------------------------------- MODULE UsageFeed -------------------------------
(***************************************************************************)
(* internal/control/events/usage.go and control/api/usage_stream.go: the   *)
(* live feed of completed requests.  A publisher never waits: it looks at  *)
(* a counter without the lock, and a subscriber whose buffer is full is    *)
(* removed and its channel closed on the spot.  The stream that reads the  *)
(* channel may be closing the same subscription meanwhile.                 *)
(***************************************************************************)
EXTENDS Naturals, Sequences, FiniteSets

CONSTANTS Requests,            \* requests that complete
          Streams,             \* live usage streams that a browser opens
          UsageBuffer,
          MaxUsageSubscribers

ASSUME UsageFeedAssumption ==
    IsFiniteSet(Streams) /\ UsageBuffer \in Nat /\ MaxUsageSubscribers \in Nat

VARIABLES
    nextID,   \* events numbered
    subs,     \* streams subscribed
    active,   \* the counter read without the lock
    channel,    \* what each channel holds
    closes,   \* times each channel was closed
    lagged,
    publisher, \* where each completed request's Publish is
    stream,   \* where each stream's handler is
    last,     \* history: the event each stream took last, or that was last when it subscribed
    sessions  \* streams whose session is still good
feedVars == <<nextID, subs, active, channel, closes, lagged>>
usageVars == <<feedVars, publisher, stream, last, sessions>>

StreamStates == {"new", "greeting", "select", "check", "write", "closing", "ended"}

UsageTypeOK ==
    /\ nextID \in Nat /\ active \in Nat
    /\ subs \in SUBSET Streams /\ sessions \in SUBSET Streams /\ lagged \in SUBSET Streams
    /\ channel \in [Streams -> Seq(Nat)] /\ closes \in [Streams -> Nat] /\ last \in [Streams -> Nat]
    /\ publisher \in [Requests -> {"running", "locking", "done"}]
    /\ stream \in [Streams -> StreamStates]

UsageInit ==
    /\ nextID = 0 /\ active = 0 /\ subs = {} /\ lagged = {}
    /\ channel = [s \in Streams |-> <<>>] /\ closes = [s \in Streams |-> 0]
    /\ last = [s \in Streams |-> 0]
    /\ publisher = [r \in Requests |-> "running"] /\ stream = [s \in Streams |-> "new"]
    /\ sessions = Streams

Handler(s, from, to) == stream[s] = from /\ stream' = [stream EXCEPT ![s] = to]

-----------------------------------------------------------------------------
(* Publish *)

\* The counter is read without the lock.
Load(r) ==
    /\ publisher[r] = "running"
    /\ publisher' = [publisher EXCEPT ![r] = IF active = 0 THEN "done" ELSE "locking"]
    /\ UNCHANGED <<feedVars, stream, last, sessions>>

\* Broken variant of Fallen: a full buffer sheds the event, as the Bus does.
FallenNever == {}

\* The subscribers whose buffer is full.
Fallen == {s \in subs : Len(channel[s]) = UsageBuffer}

\* Broken variant of Deliver: the removed subscriber's channel is left open.
DeliverOpen(r) ==
    /\ publisher[r] = "locking" /\ publisher' = [publisher EXCEPT ![r] = "done"]
    /\ nextID' = nextID + 1
    /\ channel' = [s \in Streams |-> IF s \in subs /\ Len(channel[s]) < UsageBuffer THEN Append(channel[s], nextID') ELSE channel[s]]
    /\ subs' = subs \ Fallen /\ lagged' = lagged \cup Fallen
    /\ active' = Cardinality(subs')
    /\ UNCHANGED <<closes, stream, last, sessions>>

\* Under the lock: one number, one send that does not wait for each subscriber.
Deliver(r) ==
    /\ publisher[r] = "locking" /\ publisher' = [publisher EXCEPT ![r] = "done"]
    /\ nextID' = nextID + 1
    /\ channel' = [s \in Streams |-> IF s \in subs /\ Len(channel[s]) < UsageBuffer THEN Append(channel[s], nextID') ELSE channel[s]]
    /\ subs' = subs \ Fallen /\ lagged' = lagged \cup Fallen
    /\ closes' = [s \in Streams |-> IF s \in Fallen THEN closes[s] + 1 ELSE closes[s]]
    /\ active' = Cardinality(subs')
    /\ UNCHANGED <<stream, last, sessions>>

-----------------------------------------------------------------------------
(* A stream *)

Subscribe(s) ==
    /\ Cardinality(subs) < MaxUsageSubscribers /\ Handler(s, "new", "greeting")
    /\ subs' = subs \cup {s} /\ active' = Cardinality(subs')
    /\ last' = [last EXCEPT ![s] = nextID]
    /\ UNCHANGED <<nextID, channel, closes, lagged, publisher, sessions>>

TooMany(s) ==
    /\ Cardinality(subs) >= MaxUsageSubscribers /\ Handler(s, "new", "ended")
    /\ UNCHANGED <<feedVars, publisher, last, sessions>>

\* A frame is written, or the write fails or passes its deadline.
Written(s, from) ==
    /\ Handler(s, from, "select") \/ Handler(s, from, "closing")
    /\ UNCHANGED <<feedVars, publisher, last, sessions>>

\* A closed channel gives what it still holds first.
Receive(s) ==
    /\ channel[s] # <<>> /\ Handler(s, "select", "check")
    /\ last' = [last EXCEPT ![s] = Head(channel[s])] /\ channel' = [channel EXCEPT ![s] = Tail(@)]
    /\ UNCHANGED <<nextID, subs, active, closes, lagged, publisher, sessions>>

SeeClosed(s) ==
    /\ channel[s] = <<>> /\ closes[s] > 0 /\ Handler(s, "select", "closing")
    /\ UNCHANGED <<feedVars, publisher, last, sessions>>

\* An event is written if the session is still good and the filter lets it by.
Check(s) ==
    /\ IF s \in sessions THEN Handler(s, "check", "write") \/ Handler(s, "check", "select")
       ELSE Handler(s, "check", "closing")
    /\ UNCHANGED <<feedVars, publisher, last, sessions>>

Heartbeat(s) ==
    /\ IF s \in sessions THEN Handler(s, "select", "write") ELSE Handler(s, "select", "closing")
    /\ UNCHANGED <<feedVars, publisher, last, sessions>>

\* The browser goes away.
Leave(s) == Handler(s, "select", "closing") /\ UNCHANGED <<feedVars, publisher, last, sessions>>

\* Broken variant of Subscribed: Close does not look whether Publish removed it.
SubscribedAlways(s) == TRUE

Subscribed(s) == s \in subs

\* The deferred Close.
CloseSubscription(s) ==
    /\ Handler(s, "closing", "ended")
    /\ subs' = subs \ {s}
    /\ IF Subscribed(s) THEN closes' = [closes EXCEPT ![s] = @ + 1] /\ active' = Cardinality(subs')
       ELSE UNCHANGED <<closes, active>>
    /\ UNCHANGED <<nextID, channel, lagged, publisher, last, sessions>>

\* The session is revoked or expires.
Revoke(s) ==
    /\ s \in sessions /\ sessions' = sessions \ {s}
    /\ UNCHANGED <<feedVars, publisher, stream, last>>

Stream(s) ==
    \/ Written(s, "greeting") \/ Written(s, "write")
    \/ Receive(s) \/ SeeClosed(s) \/ Check(s) \/ CloseSubscription(s)

UsageNext ==
    \/ \E r \in Requests : Load(r) \/ Deliver(r)
    \/ \E s \in Streams : Subscribe(s) \/ TooMany(s) \/ Stream(s) \/ Heartbeat(s) \/ Leave(s) \/ Revoke(s)

UsageSpec == UsageInit /\ [][UsageNext]_usageVars

\* A handler's goroutine runs and its ticker fires; a select takes a channel that is
\* ready sooner or later, however often the tick is ready too (it picks at random).
UsageFairness == \A s \in Streams :
    /\ WF_usageVars(Stream(s) \/ (Heartbeat(s) /\ s \notin sessions))
    /\ SF_usageVars(Receive(s) \/ SeeClosed(s))

-----------------------------------------------------------------------------
(* Properties *)

\* A channel is closed once, by Publish or by Close, and nothing is sent on it after
\* (usage.go:79-91, 116-123: a second close, or a send, would panic).
ClosedOnce == \A s \in Streams : closes[s] <= 1 /\ (s \in subs => closes[s] = 0)

\* A subscriber is given every event published since it subscribed, in order: what its
\* channel holds follows what it took, without a gap, up to the newest event as long as
\* it is subscribed (usage.go:49-53: "a gap would leave the UI with stale rows").
NoGap == \A s \in Streams :
    /\ \A i \in DOMAIN channel[s] : channel[s][i] = last[s] + i
    /\ s \in subs => last[s] + Len(channel[s]) = nextID

\* A stream that fell behind, or whose session is gone, ends (usage_stream.go:127-150).
StreamsEnd == \A s \in Streams :
    (s \in lagged \/ s \notin sessions) /\ stream[s] # "new" ~> stream[s] = "ended"
=============================================================================
