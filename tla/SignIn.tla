-------------------------------- MODULE SignIn --------------------------------
(***************************************************************************)
(* internal/control/api/oauth.go: the pending sign-in attempts (oauthFlows) *)
(* and the requests that start, poll, complete and cancel them, with the   *)
(* saves of Connections that approved attempts end in.                     *)
(*                                                                         *)
(* A device attempt is polled, by overlapping requests if its dashboard    *)
(* repeats them; a browser attempt is completed once, by a callback.  The  *)
(* provider may answer a poll with anything.  Time is counted from one     *)
(* poll of an attempt to the next; an attempt may expire at any point.     *)
(***************************************************************************)
EXTENDS Connections

CONSTANTS Attempts,
          Device,        \* the attempts that are polled; the others' callbacks are pasted
          Polls,         \* the requests that poll; the other sign-ins paste, or import
          Imports,
          Session,       \* the admin session of each attempt
          SignsIn,       \* the account each attempt is for
          Target,        \* the connection a Reauthenticate was started for, or None
          Follows,       \* attempts of providers that follow the duplicate rule
          Asked,         \* the poll interval a provider asked for
          MinInterval, MaxInterval, Step,
          MaxPerSession, MaxPending,
          MaxSlowDowns,  \* bound: slow_down answers for an attempt
          Together       \* bound: the attempts and requests that meet in one behaviour

ASSUME SignInAssumption ==
    /\ Device \subseteq Attempts /\ Follows \subseteq Attempts
    /\ Polls \cup Imports \subseteq SignIns /\ Polls \cap Imports = {}
    /\ DOMAIN Session = Attempts /\ SignsIn \in [Attempts -> Accounts] /\ Target \in [Attempts -> Ids \cup {None}]
    /\ Asked \in [Attempts -> Nat] /\ MinInterval \in Nat /\ MaxInterval \in Nat /\ Step \in Nat
    /\ MaxPerSession \in Nat /\ MaxPending \in Nat /\ MaxSlowDowns \in Nat
    /\ None \notin Attempts
    /\ {Target[a] : a \in Attempts \ (Device \cup Follows)} \subseteq Unlocked \cup {None}

VARIABLES
    pending,    \* oauthFlows.pending: the attempts that can still complete
    begun, expired, cancelled,
    completing, \* attempts whose approval a poll is saving
    interval, wait,
    slowed,     \* slow_down answers so far
    attempt     \* the attempt each request is about

flowVars == <<pending, begun, expired, cancelled, completing, interval, wait, slowed, attempt>>
vars == <<connectionVars, flowVars>>

AtLeast(x, least) == IF x < least THEN least ELSE x
PollInterval(x) == AtLeast(x, MinInterval)

Init ==
    /\ ConnectionsInit
    /\ pending = {} /\ begun = {} /\ expired = {} /\ cancelled = {} /\ completing = {}
    /\ interval = [a \in Attempts |-> PollInterval(Asked[a])] /\ wait = [a \in Attempts |-> Asked[a]]
    /\ slowed = [a \in Attempts |-> 0]
    /\ attempt = [h \in Handlers |-> None]

\* Each behaviour of the instance starts one of its sets, or a part of it.
Meets(x) == \E scene \in Together : {x} \cup begun \cup {h \in Handlers : pc[h] # "idle"} \subseteq scene

Tick ==
    /\ \E a \in Device \cap pending : wait[a] > 0
    /\ wait' = [a \in Attempts |-> IF a \in pending /\ wait[a] > 0 THEN wait[a] - 1 ELSE wait[a]]
    /\ UNCHANGED <<connectionVars, pending, begun, expired, cancelled, completing, interval, slowed, attempt>>

Expire(a) ==
    /\ a \in pending \ expired
    /\ expired' = expired \cup {a}
    /\ UNCHANGED <<connectionVars, pending, begun, cancelled, completing, interval, wait, slowed, attempt>>

-----------------------------------------------------------------------------
(* oauthFlows *)

Live(a) == a \in pending \ expired

\* A session over its limit loses its oldest attempt; too many are refused.
Begin(a) ==
    LET kept == pending \ expired
        owned == {b \in kept : Session[b] = Session[a]}
    IN
    /\ a \notin begun /\ Meets(a)
    /\ begun' = begun \cup {a}
    /\ \E lost \in IF Cardinality(owned) >= MaxPerSession THEN {{b} : b \in owned} ELSE {{}} :
        LET left == kept \ lost IN
        /\ pending' = IF Cardinality(left) >= MaxPending THEN left ELSE left \cup {a}
        /\ completing' = completing \cap pending'
    /\ UNCHANGED <<connectionVars, expired, cancelled, interval, wait, slowed, attempt>>

Drop(a) == pending' = pending \ {a} /\ completing' = completing \ {a}

\* An attempt that is being saved is left to finish.
Cancel(a) ==
    /\ Live(a) /\ a \notin completing
    /\ Drop(a) /\ cancelled' = cancelled \cup {a}
    /\ UNCHANGED <<connectionVars, begun, expired, interval, wait, slowed, attempt>>

\* claimPoll: the upstream is polled unless it is too early.
Claim(h) ==
    /\ h \in Polls /\ pc[h] = "idle" /\ Meets(h)
    /\ \E a \in Device :
        /\ attempt' = [attempt EXCEPT ![h] = a]
        /\ IF ~Live(a)
           THEN Goto(h, "done") /\ pending' = pending \ {a} /\ completing' = completing \ {a} /\ UNCHANGED wait
           ELSE IF a \in completing \/ wait[a] > 0
           THEN Goto(h, "done") /\ UNCHANGED <<pending, completing, wait>>
           ELSE /\ Goto(h, "polling")
                /\ wait' = [wait EXCEPT ![a] = PollInterval(interval[a])]
                /\ UNCHANGED <<pending, completing>>
        /\ a \in begun
    /\ UNCHANGED <<storeVars, registryVars, lock, work, begun, expired, cancelled, interval, slowed>>

\* The poll is answered "pending", or the provider could not be reached.
StillPending(h) ==
    /\ pc[h] = "polling"
    /\ Goto(h, "done")
    /\ UNCHANGED <<storeVars, registryVars, lock, work, flowVars>>

SlowedInterval(a) ==
    LET next == PollInterval(interval[a]) + Step IN
    IF PollInterval(Asked[a]) <= MaxInterval /\ next > MaxInterval THEN MaxInterval ELSE next

SlowDown(h) ==
    LET a == attempt[h] IN
    /\ pc[h] = "polling" /\ slowed[a] < MaxSlowDowns
    /\ Goto(h, "done")
    /\ slowed' = [slowed EXCEPT ![a] = @ + 1]
    /\ IF a \in pending
       THEN /\ interval' = [interval EXCEPT ![a] = SlowedInterval(a)]
            /\ wait' = [wait EXCEPT ![a] = SlowedInterval(a)]
       ELSE UNCHANGED <<interval, wait>>
    /\ UNCHANGED <<storeVars, registryVars, lock, work, pending, begun, expired, cancelled, completing, attempt>>

\* Denied, expired or failed at the provider: the attempt is consumed, even one
\* that another poll is saving.
Rejected(h) ==
    /\ pc[h] = "polling"
    /\ Goto(h, "done") /\ Drop(attempt[h])
    /\ UNCHANGED <<storeVars, registryVars, lock, work, begun, expired, cancelled, interval, wait, slowed, attempt>>

\* Broken variant of StartSave: the duplicate is looked up without connectionMu.
StartSaveUnlocked(h, account, id, rule) ==
    /\ Update(h, [work[h] EXCEPT !.account = account, !.id = id, !.locked = rule])
    /\ Goto(h, "match")

\* The sign-in's save begins.
StartSave(h, account, id, rule) ==
    /\ Update(h, [work[h] EXCEPT !.account = account, !.id = id, !.locked = rule])
    /\ Goto(h, IF rule THEN "lock" ELSE "match")

\* Broken variant of MayReserve: any poll may save a pending approval.
ReserveAny(a) == Live(a)

MayReserve(a) == Live(a) /\ a \notin completing

\* Approved: reserve gives one poll the right to save.
Reserve(h) ==
    LET a == attempt[h] IN
    /\ pc[h] = "polling"
    /\ IF MayReserve(a)
       THEN completing' = completing \cup {a} /\ StartSave(h, SignsIn[a], Target[a], TRUE)
       ELSE Goto(h, "done") /\ UNCHANGED <<completing, work>>
    /\ UNCHANGED <<storeVars, registryVars, lock, pending, begun, expired, cancelled, interval, wait, slowed, attempt>>

\* Broken variant of Settle: a save that persisted nothing is not released.
SettleSavedOnly(h) ==
    LET a == attempt[h] IN
    /\ h \in Polls /\ pc[h] \in {"saved", "unsaved"}
    /\ IF pc[h] = "saved" THEN Drop(a) /\ Goto(h, "connected")
       ELSE Goto(h, "done") /\ UNCHANGED <<pending, completing>>
    /\ UNCHANGED <<storeVars, registryVars, lock, work, begun, expired, cancelled, interval, wait, slowed, attempt>>

\* finish, or release when the save persisted nothing.
Settle(h) ==
    LET a == attempt[h] IN
    /\ h \in Polls /\ pc[h] \in {"saved", "unsaved"}
    /\ IF pc[h] = "saved" THEN Drop(a) /\ Goto(h, "connected")
       ELSE completing' = completing \ {a} /\ Goto(h, "done") /\ UNCHANGED pending
    /\ UNCHANGED <<storeVars, registryVars, lock, work, begun, expired, cancelled, interval, wait, slowed, attempt>>

\* A callback consumes its attempt, then exchanges the code.
Consume(h) ==
    /\ h \in SignIns \ (Polls \cup Imports) /\ pc[h] = "idle" /\ Meets(h)
    /\ \E a \in Attempts \ Device :
        /\ Live(a)
        /\ attempt' = [attempt EXCEPT ![h] = a]
        /\ Drop(a)
    /\ Goto(h, "exchange")
    /\ UNCHANGED <<storeVars, registryVars, lock, work, begun, expired, cancelled, interval, wait, slowed>>

Exchange(h) ==
    LET a == attempt[h] IN
    /\ pc[h] = "exchange"
    /\ \/ StartSave(h, SignsIn[a], Target[a], a \in Follows)
       \/ Goto(h, "done") /\ UNCHANGED work
    /\ UNCHANGED <<storeVars, registryVars, lock, flowVars>>

\* An import, single or in bulk, follows the duplicate rule of its provider.
Import(h) ==
    /\ h \in Imports /\ pc[h] = "idle" /\ Meets(h)
    /\ \E account \in Accounts : StartSave(h, account, None, TRUE)
    /\ UNCHANGED <<storeVars, registryVars, lock, flowVars>>

Save(h) ==
    \/ Lock(h) /\ UNCHANGED flowVars
    \/ Match(h) /\ UNCHANGED flowVars
    \/ Lookup(h) /\ UNCHANGED flowVars
    \/ Adopt(h) /\ UNCHANGED flowVars
    \/ TakeSlot(h) /\ UNCHANGED flowVars
    \/ ReadStored(h) /\ UNCHANGED flowVars
    \/ Write(h) /\ UNCHANGED flowVars
    \/ Publish(h) /\ UNCHANGED flowVars
    \/ FallBack(h) /\ UNCHANGED flowVars
    \/ Insert(h) /\ UNCHANGED flowVars
    \/ Register(h) /\ UNCHANGED flowVars

Poll(h) ==
    \/ StillPending(h) \/ SlowDown(h) \/ Rejected(h) \/ Reserve(h) \/ Settle(h)

Request(h) ==
    \/ StartEdit(h) /\ Meets(h) /\ UNCHANGED flowVars
    \/ DeleteRow(h) /\ UNCHANGED flowVars
    \/ Forget(h) /\ UNCHANGED flowVars
    \/ List(h) /\ Meets(h) /\ UNCHANGED flowVars
    \/ SeedNext(h) /\ UNCHANGED flowVars
    \/ StartRefresh(h) /\ Meets(h) /\ UNCHANGED flowVars
    \/ Rotate(h) /\ UNCHANGED flowVars

Next ==
    \/ Tick
    \/ \E a \in Attempts : Begin(a) \/ Expire(a) \/ Cancel(a)
    \/ \E h \in Handlers : Claim(h) \/ Poll(h) \/ Consume(h) \/ Exchange(h) \/ Import(h) \/ Save(h) \/ Request(h)

Spec == Init /\ [][Next]_vars

\* A request that is being served goes on: its upstream calls have deadlines.
FairSpec == Spec /\ \A h \in Handlers :
    /\ WF_vars(Poll(h)) /\ WF_vars(Save(h))
    /\ WF_vars(DeleteRow(h) /\ UNCHANGED flowVars) /\ WF_vars(Rotate(h) /\ UNCHANGED flowVars)

-----------------------------------------------------------------------------
(* Properties *)

\* The variables hold what the fields and locals can; only a pending attempt is
\* being completed, and only a device one.
TypeOK ==
    /\ ConnectionsTypeOK
    /\ pending \subseteq begun /\ begun \subseteq Attempts /\ expired \subseteq begun
    /\ cancelled \subseteq begun \ pending /\ completing \subseteq pending \cap Device
    /\ interval \in [Attempts -> Nat] /\ wait \in [Attempts -> Nat]
    /\ slowed \in [Attempts -> 0 .. MaxSlowDowns]
    /\ attempt \in [Handlers -> Attempts \cup {None}]
    /\ pc \in [Handlers -> {"idle", "polling", "exchange", "lock", "match", "lookup", "look again", "adopt", "slot", "read",
                            "write", "publish", "fall back", "insert", "register", "delete", "forget", "seed",
                            "exchanging", "rotated", "saved", "unsaved", "connected", "done"}]

\* An account stored once at the start that is signed in by requests that follow the
\* duplicate rule, or that the store keeps to one row, has one row, however many of them,
\* imports included, save it at the same time.
Ruled == {account \in Accounts :
    /\ \A i, j \in DOMAIN Stored : Stored[i] = account /\ Stored[j] = account => i = j
    /\ account \in Unique \/ \A a \in Attempts \ (Device \cup Follows) : SignsIn[a] # account}
OneRowPerAccount == \A account \in Ruled : \A i, j \in IdsOf(account) : i = j

Saving(h) == pc[h] \notin {"idle", "polling", "exchange", "unsaved", "done"}

\* However many polls see one approval, one saves it; and none saves that of an
\* attempt the operator was told is cancelled.
ApprovalSavedOnce == \A h \in Polls : Saving(h) =>
    /\ attempt[h] \notin cancelled
    /\ \A g \in Polls \ {h} : Saving(g) => attempt[g] # attempt[h]

\* A save ends, so the attempt it completes does not refuse polls for ever.
ApprovalSettles == \A a \in Device : a \in completing ~> a \notin completing
=============================================================================
