------------------------------ MODULE Dispatch ------------------------------
(***************************************************************************)
(* internal/ingress/dispatch.go: the attempt loop that serves a request    *)
(* from the accounts of one model, or from the models of a Combo, with     *)
(* what it shares with every other request: the cooldowns, cursors and     *)
(* preferred wires of runtime/state.go, the refreshes of                   *)
(* credentials/registry.go, the in-flight entries of live/live.go and the  *)
(* accounting of ingress.go.                                               *)
(*                                                                         *)
(* A client may leave at any point; the request's context ends with it,    *)
(* and the loop looks at the context only where the code does.  Deadlines  *)
(* are kept as the time that remains of them.                              *)
(***************************************************************************)
EXTENDS Naturals, Sequences, FiniteSets

CONSTANTS Requests, Models, Accounts,
          Route,       \* the models each request is served from
          Combos,      \* the requests planned over a Combo
          Native,      \* each model's accounts that speak the request's protocol
          Translated,  \* ... and those reached through a translation
          RoundRobin,  \* models whose provider rotates its accounts
          StickyLimit, \* requests served before the rotation advances
          Surfaces,    \* wire endpoints an account is tried on (more than one: Kiro)
          TwoWires,    \* models a refusal may move to another wire
          Rotating,    \* accounts whose credential is refreshed; the others' is static
          Sealed,      \* accounts whose exchange reads sealed account data
          MaxAttempts, \* maxAccountAttempts
          Loads,       \* bound: the sets of requests served at the same time
          None

ASSUME DispatchAssumption ==
    /\ Combos \subseteq Requests /\ RoundRobin \subseteq Models
    /\ TwoWires \subseteq Models /\ Sealed \subseteq Accounts /\ Rotating \subseteq Accounts
    /\ Route \in [Requests -> Seq(Models)]
    /\ Native \in [Models -> Seq(Accounts)] /\ Translated \in [Models -> Seq(Accounts)]
    /\ \A r \in Requests \ Combos : Len(Route[r]) = 1
    /\ Surfaces \in [Accounts -> Nat \ {0}]
    /\ StickyLimit \in Nat \ {0} /\ MaxAttempts \in Nat \ {0}
    /\ None \notin Accounts /\ None \notin Requests

\* How long an account is cooled: a retry or backoff, or an authentication
\* failure and the longer Retry-After answers.
Short == 1
Long == 2

VARIABLES
    cooling,    \* cooldowns: what remains of each account's
    cursor,     \* cursors: requests planned for each model's provider
    preferred,  \* wires: models known to be served on their other wire
    expired,    \* accounts whose credential must be refreshed before use
    leader,     \* the request that runs an account's refresh
    unlocked,   \* whether the program has the key that opens credentials
    pc,         \* where each request stands
    walk,       \* the locals of its attempt loop
    entry,      \* its entry in the live tracker: the account, or None
    records,    \* the usage records published for it
    left,       \* the requests whose client left
    wronged     \* history: accounts cooled because some client left

sharedVars == <<cooling, cursor, preferred, expired, leader, unlocked>>
vars == <<cooling, cursor, preferred, expired, leader, unlocked, pc, walk, entry, records, left, wronged>>

\* One account of one member of the route, with its place among that member's.
Slot == [member : Nat, rank : Nat, account : Accounts \cup {None}]

Walk == [
    slots      : SUBSET Slot,            \* the candidates not reached yet
    slot       : Slot,                   \* the current one
    budget     : Nat,                    \* attemptCap
    used       : Nat,
    noted      : SUBSET Nat,             \* comboTrace: the members that failed
    retry      : 0 .. 1,
    surface    : Nat,                    \* endpointAttempt
    escalated  : BOOLEAN,
    authSeen   : BOOLEAN,                \* authFailureSeen
    kept       : Accounts \cup {None},   \* attemptResponse, by its account
    keptOK     : BOOLEAN,                \* ... and whether it is a 2xx
    failed     : BOOLEAN,                \* attemptErr
    causes     : SUBSET {"translation", "credentials"},
    answer     : Accounts \cup {None},   \* the account whose response is returned
    answerOK   : BOOLEAN,
    error      : {"none", "refused", "no_accounts", "locked", "configuration", "left", "unavailable",
                  "attempt", "translation", "credentials"}]

NewWalk == [
    slots |-> {}, slot |-> [member |-> 0, rank |-> 0, account |-> None], budget |-> MaxAttempts, used |-> 0,
    noted |-> {}, retry |-> 0, surface |-> 0, escalated |-> FALSE, authSeen |-> FALSE,
    kept |-> None, keptOK |-> FALSE, failed |-> FALSE, causes |-> {}, answer |-> None, answerOK |-> FALSE, error |-> "none"]

Init ==
    /\ cooling = [a \in Accounts |-> 0] /\ cursor = [m \in Models |-> 0] /\ preferred = {}
    /\ expired \in SUBSET Rotating
    /\ leader = [a \in Accounts |-> None] /\ unlocked \in BOOLEAN
    /\ pc = [r \in Requests |-> "plan"] /\ walk = [r \in Requests |-> NewWalk]
    /\ entry = [r \in Requests |-> None] /\ records = [r \in Requests |-> <<>>]
    /\ left = {} /\ wronged = {}

Goto(r, to) == pc' = [pc EXCEPT ![r] = to]
Update(r, new) == walk' = [walk EXCEPT ![r] = new]

-----------------------------------------------------------------------------
(* Shared state *)

\* State.Cooldown never shortens a deadline.
Cooled(a, time) == [cooling EXCEPT ![a] = IF time > @ THEN time ELSE @]

\* recordClassification, and whether the failure was a client's leaving.
Cool(a, time, cancelled) ==
    /\ cooling' = Cooled(a, time)
    /\ wronged' = IF cancelled THEN wronged \cup {a} ELSE wronged

Tick ==
    /\ \E a \in Accounts : cooling[a] > 0
    /\ cooling' = [a \in Accounts |-> IF cooling[a] > 0 THEN cooling[a] - 1 ELSE 0]
    /\ UNCHANGED <<cursor, preferred, expired, leader, unlocked, pc, walk, entry, records, left, wronged>>

Leave(r) ==
    /\ r \notin left /\ pc[r] \notin {"plan", "done"}
    /\ left' = left \cup {r}
    /\ UNCHANGED <<sharedVars, pc, walk, entry, records, wronged>>

\* expireLocked: an entry nobody ended is dropped after PendingTimeout.
PendingTimeout(r) ==
    /\ entry[r] # None
    /\ entry' = [entry EXCEPT ![r] = None]
    /\ UNCHANGED <<sharedVars, pc, walk, records, left, wronged>>

-----------------------------------------------------------------------------
(* Planning *)

Eligible(accounts) == {i \in DOMAIN accounts : cooling[accounts[i]] = 0}

\* Select: the eligible accounts in priority order, rotated to the cursor.
Start(m, n) == IF m \in RoundRobin THEN (cursor[m] \div StickyLimit) % n ELSE 0

Place(m, accounts, i) ==
    LET n == Cardinality(Eligible(accounts))
        before == Cardinality({j \in Eligible(accounts) : j < i})
    IN  (before + n - Start(m, n)) % n

\* planProviderAttempts: native accounts first, at most MaxAttempts of them.
Ranked(m) ==
    {<<Place(m, Native[m], i), Native[m][i]>> : i \in Eligible(Native[m])} \cup
    {<<Cardinality(Eligible(Native[m])) + Place(m, Translated[m], i), Translated[m][i]>> :
        i \in Eligible(Translated[m])}

Candidates(r, i) ==
    {[member |-> i, rank |-> p[1], account |-> p[2]] : p \in {q \in Ranked(Route[r][i]) : q[1] < MaxAttempts}}

\* A Combo keeps a slot for a member without an account, to count as its failure.
SlotsOf(r, i) ==
    IF r \in Combos /\ Candidates(r, i) = {} THEN {[member |-> i, rank |-> 0, account |-> None]}
                                            ELSE Candidates(r, i)

\* Ten attempts for each model that has an account.
Budget(r) ==
    LET served == {i \in DOMAIN Route[r] : Candidates(r, i) # {}}
    IN  IF r \in Combos /\ served # {} THEN MaxAttempts * Cardinality(served) ELSE MaxAttempts

Arrives(r) ==
    /\ pc[r] = "plan"
    /\ \E load \in Loads : {r} \cup {q \in Requests : pc[q] # "plan"} \subseteq load

Plan(r) ==
    /\ Arrives(r)
    /\ LET slots == UNION {SlotsOf(r, i) : i \in DOMAIN Route[r]} IN
       IF slots = {}
       THEN Update(r, [walk[r] EXCEPT !.error = "no_accounts"]) /\ Goto(r, "return")
       ELSE Update(r, [walk[r] EXCEPT !.slots = slots, !.budget = Budget(r)]) /\ Goto(r, "next")
    /\ cursor' = [m \in Models |->
                    IF m \in RoundRobin /\ (\E i \in DOMAIN Route[r] : Route[r][i] = m) THEN cursor[m] + 1 ELSE cursor[m]]
    /\ UNCHANGED <<cooling, preferred, expired, leader, unlocked, entry, records, left, wronged>>

\* The key may not use the model, the model is unknown, or nothing is configured.
Refuse(r) ==
    /\ Arrives(r)
    /\ Update(r, [walk[r] EXCEPT !.error = "refused"])
    /\ Goto(r, "return")
    /\ UNCHANGED <<sharedVars, entry, records, left, wronged>>

-----------------------------------------------------------------------------
(* The loop over the candidates *)

Member(r) == walk[r].slot.member
Account(r) == walk[r].slot.account
Model(r) == Route[r][Member(r)]

First(r, s) == \A t \in walk[r].slots : s.member < t.member \/ (s.member = t.member /\ s.rank <= t.rank)

\* trace.note: only a Combo keeps a trace.
Note(r) == IF r \in Combos THEN walk[r].noted \cup {Member(r)} ELSE walk[r].noted

ReturnError(r, e) == Update(r, [walk[r] EXCEPT !.error = e]) /\ Goto(r, "return")
ReturnAnswer(r, a, ok) == Update(r, [walk[r] EXCEPT !.answer = a, !.answerOK = ok]) /\ Goto(r, "return")

\* The candidate failed before it reached its upstream.
PassOver(r, cause) ==
    /\ Update(r, [walk[r] EXCEPT !.causes = @ \cup {cause}, !.noted = Note(r)])
    /\ Goto(r, "next")

\* failedAttempt: the latest failure replaces an earlier one and its response.
FailAttempt(r, noted) ==
    /\ Update(r, [walk[r] EXCEPT !.failed = TRUE, !.kept = None, !.noted = noted])
    /\ Goto(r, "next")

KeepResponse(r, ok) ==
    /\ Update(r, [walk[r] EXCEPT !.failed = FALSE, !.kept = Account(r), !.keptOK = ok, !.noted = Note(r)])
    /\ Goto(r, "next")

\* trace.wait pauses after a member whose last failure names a short condition.
MayPause(r) == r \in Combos /\ Member(r) \in walk[r].noted

Advance(r) ==
    /\ pc[r] = "next"
    /\ \E s \in walk[r].slots :
        /\ First(r, s)
        /\ \/ Goto(r, "slot")
           \/ s.member # Member(r) /\ MayPause(r) /\ Goto(r, "pause")
        /\ Update(r, [walk[r] EXCEPT !.slots = @ \ {s}, !.slot = s])
    /\ UNCHANGED <<sharedVars, entry, records, left, wronged>>

\* No candidate is left, or no attempt.
Finish(r) ==
    /\ \/ pc[r] = "next" /\ walk[r].slots = {}
       \/ pc[r] = "slot" /\ Account(r) # None /\ walk[r].used = walk[r].budget
    /\ \/ Goto(r, "exhausted")
       \/ MayPause(r) /\ Goto(r, "last pause")
    /\ UNCHANGED <<sharedVars, walk, entry, records, left, wronged>>

Pause(r) ==
    /\ pc[r] \in {"pause", "last pause"}
    /\ \/ r \in left /\ ReturnError(r, "left")
       \/ Goto(r, IF pc[r] = "pause" THEN "slot" ELSE "exhausted") /\ UNCHANGED walk
    /\ UNCHANGED <<sharedVars, entry, records, left, wronged>>

NoAccount(r) ==
    /\ pc[r] = "slot" /\ Account(r) = None
    /\ PassOver(r, "credentials")
    /\ UNCHANGED <<sharedVars, entry, records, left, wronged>>

LeftBetween(r) ==
    /\ pc[r] = "slot" /\ Account(r) # None /\ walk[r].used < walk[r].budget
    /\ r \in left
    /\ ReturnError(r, "left")
    /\ UNCHANGED <<sharedVars, entry, records, left, wronged>>

-----------------------------------------------------------------------------
(* The credential (Registry.Credential, called with the request's context) *)

Begin(r) == pc[r] = "slot" /\ Account(r) # None /\ walk[r].used < walk[r].budget /\ r \notin left

NoKey(r) ==
    /\ Begin(r) /\ ~unlocked
    /\ Cool(Account(r), Long, FALSE)
    /\ ReturnError(r, "locked")
    /\ UNCHANGED <<cursor, preferred, expired, leader, unlocked, entry, records, left>>

Ask(r) ==
    /\ Begin(r) /\ unlocked
    /\ LET a == Account(r) IN
       IF a \notin expired THEN Goto(r, "prepare") /\ UNCHANGED leader
       ELSE IF leader[a] = None THEN Goto(r, "refresh") /\ leader' = [leader EXCEPT ![a] = r]
       ELSE Goto(r, "wait") /\ UNCHANGED leader
    /\ UNCHANGED <<cooling, cursor, preferred, expired, unlocked, walk, entry, records, left, wronged>>

\* The leader and everyone waiting for it get one result.
Settle(r, to) ==
    LET a == Account(r) IN
    /\ pc' = [q \in Requests |-> IF q = r \/ (pc[q] = "wait" /\ Account(q) = a) THEN to ELSE pc[q]]
    /\ leader' = [leader EXCEPT ![a] = None]

\* The exchange runs under its leader's context: when that client leaves, the
\* waiters are given the leader's cancellation as their own failure.
Refresh(r) ==
    /\ pc[r] = "refresh"
    /\ \/ Settle(r, "prepare") /\ expired' = expired \ {Account(r)}
       \/ Settle(r, "denied") /\ UNCHANGED expired
       \/ r \in left /\ Settle(r, "orphaned") /\ UNCHANGED expired
    /\ UNCHANGED <<cooling, cursor, preferred, unlocked, walk, entry, records, left, wronged>>

StopWaiting(r) ==
    /\ pc[r] = "wait" /\ r \in left
    /\ ReturnError(r, "left")
    /\ UNCHANGED <<sharedVars, entry, records, left, wronged>>

NoCredential(r) ==
    /\ pc[r] \in {"denied", "orphaned"}
    /\ IF r \in left
       THEN ReturnError(r, "left") /\ UNCHANGED <<cooling, wronged>>
       ELSE Cool(Account(r), Long, pc[r] = "orphaned") /\ PassOver(r, "credentials")
    /\ UNCHANGED <<cursor, preferred, expired, leader, unlocked, entry, records, left>>

-----------------------------------------------------------------------------
(* One candidate's attempts *)

\* A model moved to its other wire before goes straight to it.
Prepare(r) ==
    /\ pc[r] = "prepare"
    /\ Update(r, [walk[r] EXCEPT !.retry = 0, !.surface = 0, !.escalated = Model(r) \in preferred])
    /\ Goto(r, "attempt")
    /\ UNCHANGED <<sharedVars, entry, records, left, wronged>>

\* A provider that signs with its credential is never called without one.
Unsigned(r) ==
    /\ pc[r] = "prepare"
    /\ Cool(Account(r), Long, FALSE)
    /\ PassOver(r, "credentials")
    /\ UNCHANGED <<cursor, preferred, expired, leader, unlocked, entry, records, left>>

NotExpressible(r) ==
    /\ pc[r] = "prepare"
    /\ PassOver(r, "translation")
    /\ UNCHANGED <<sharedVars, entry, records, left, wronged>>

\* The loop asks for budget too; every way to it has just made sure of some.
Attempting(r) == pc[r] = "attempt"

LeftBeforeAttempt(r) ==
    /\ Attempting(r) /\ r \in left
    /\ ReturnError(r, "left")
    /\ UNCHANGED <<sharedVars, entry, records, left, wronged>>

Misconfigured(r) ==
    /\ Attempting(r) /\ r \notin left
    /\ ReturnError(r, "configuration")
    /\ UNCHANGED <<sharedVars, entry, records, left, wronged>>

RouteRefused(r) ==
    /\ Attempting(r) /\ r \notin left
    /\ PassOver(r, "translation")
    /\ UNCHANGED <<sharedVars, entry, records, left, wronged>>

\* The request's headers, or its sealed data, lack their credential.  Reading
\* the data refreshes a credential that has come due since, with the request's
\* context, whose end is not told from a failure.
DataMissing(r) ==
    /\ Attempting(r)
    /\ \/ r \notin left
       \/ Account(r) \in Sealed \cap Rotating
    /\ Cool(Account(r), Long, r \in left)
    /\ PassOver(r, "credentials")
    /\ UNCHANGED <<cursor, preferred, expired, leader, unlocked, entry, records, left>>

\* An earlier attempt's entry ends as this one's begins.
Send(r) ==
    /\ Attempting(r) /\ r \notin left
    /\ Update(r, [walk[r] EXCEPT !.used = @ + 1])
    /\ entry' = [entry EXCEPT ![r] = Account(r)]
    /\ Goto(r, "wire")
    /\ UNCHANGED <<sharedVars, records, left, wronged>>

-----------------------------------------------------------------------------
(* What comes back *)

More(r) == r \in Combos \/ walk[r].slots # {}
CanFallBack(r) == More(r) /\ walk[r].used < walk[r].budget

Cut(r) ==
    /\ pc[r] \in {"wire", "delay"} /\ r \in left
    /\ ReturnError(r, "left")
    /\ UNCHANGED <<sharedVars, entry, records, left, wronged>>

NoResponse(r) ==
    /\ pc[r] = "wire" /\ r \notin left
    /\ Cool(Account(r), Short, FALSE)
    /\ FailAttempt(r, Note(r))
    /\ UNCHANGED <<cursor, preferred, expired, leader, unlocked, entry, records, left>>

\* A 2xx of a stream-only gateway that cannot be folded; the trace is not told.
Unfoldable(r) ==
    /\ pc[r] = "wire" /\ r \notin left
    /\ Cool(Account(r), Short, FALSE)
    /\ FailAttempt(r, walk[r].noted)
    /\ UNCHANGED <<cursor, preferred, expired, leader, unlocked, entry, records, left>>

Success(r) ==
    /\ pc[r] = "wire"
    /\ ReturnAnswer(r, Account(r), TRUE)
    /\ UNCHANGED <<sharedVars, entry, records, left, wronged>>

AcceptedFailure(r) ==
    /\ pc[r] = "wire"
    /\ Cool(Account(r), Short, FALSE)
    /\ IF CanFallBack(r) THEN KeepResponse(r, TRUE) ELSE ReturnAnswer(r, Account(r), TRUE)
    /\ UNCHANGED <<cursor, preferred, expired, leader, unlocked, entry, records, left>>

\* A surface that answers 401, 403 or 404 may be followed by the next one.
NextSurface(r) ==
    /\ pc[r] = "wire" /\ Surfaces[Account(r)] > 1
    /\ walk[r].surface + 1 < Surfaces[Account(r)] /\ walk[r].used < walk[r].budget
    /\ Update(r, [walk[r] EXCEPT !.surface = @ + 1])
    /\ Goto(r, "attempt")
    /\ UNCHANGED <<sharedVars, entry, records, left, wronged>>

\* "A request-scoped auth rejection must not cool the entire fallback chain."
AuthCools(r) == ~walk[r].authSeen

SurfacesRefuse(r, auth) ==
    LET a == Account(r)
        last == walk[r].surface + 1 = Surfaces[a]
        cools == auth /\ last /\ AuthCools(r)
    IN
    /\ pc[r] = "wire" /\ Surfaces[a] > 1 /\ (last \/ walk[r].used >= walk[r].budget)
    /\ IF cools THEN Cool(a, Long, FALSE) ELSE UNCHANGED <<cooling, wronged>>
    /\ Update(r, [walk[r] EXCEPT !.authSeen = @ \/ cools,
                                 !.failed = FALSE, !.kept = a, !.keptOK = FALSE, !.noted = Note(r)])
    /\ Goto(r, "next")
    /\ UNCHANGED <<cursor, preferred, expired, leader, unlocked, entry, records, left>>

\* A refused wire is replayed once on the other ...
MayEscalate(r) == Model(r) \in TwoWires /\ ~walk[r].escalated /\ walk[r].used < walk[r].budget

Escalate(r) ==
    /\ pc[r] = "wire" /\ r \notin left /\ MayEscalate(r)
    /\ preferred' = preferred \cup {Model(r)}
    /\ Update(r, [walk[r] EXCEPT !.escalated = TRUE])
    /\ Goto(r, "attempt")
    /\ UNCHANGED <<cooling, cursor, expired, leader, unlocked, entry, records, left, wronged>>

\* How a failed status is classified, with the cooldowns it may carry.
Penalty(outcome) ==
    CASE outcome = "auth" -> {Long}
      [] outcome = "fallback" -> {Short, Long}
      [] outcome = "retry" -> {Short}
      [] OTHER -> {0}

MayRetry(r) == walk[r].retry = 0 /\ walk[r].used < walk[r].budget

\* ... and remembered even if the replay cannot be prepared.
Failure(r, outcome, readable) ==
    LET a == Account(r)
        auth == outcome = "auth"
        cools == auth => AuthCools(r)
        seen == [walk[r] EXCEPT !.authSeen = @ \/ auth]
    IN
    /\ pc[r] = "wire" /\ r \notin left
    /\ IF cools THEN \E time \in Penalty(outcome) : Cool(a, time, FALSE)
                ELSE UNCHANGED <<cooling, wronged>>
    /\ IF outcome = "retry" /\ MayRetry(r) /\ readable
       THEN Update(r, seen) /\ Goto(r, "delay")
       ELSE IF outcome # "terminal" /\ readable /\ CanFallBack(r)
       THEN /\ Update(r, [seen EXCEPT !.failed = FALSE, !.kept = a, !.keptOK = FALSE, !.noted = Note(r)])
            /\ Goto(r, "next")
       ELSE /\ Update(r, [seen EXCEPT !.answer = a, !.answerOK = FALSE])
            /\ Goto(r, "return")
    /\ \/ UNCHANGED preferred
       \/ readable /\ MayEscalate(r) /\ preferred' = preferred \cup {Model(r)}
    /\ UNCHANGED <<cursor, expired, leader, unlocked, entry, records, left>>

RetrySame(r) ==
    /\ pc[r] = "delay"
    /\ Update(r, [walk[r] EXCEPT !.retry = 1])
    /\ Goto(r, "attempt")
    /\ UNCHANGED <<sharedVars, entry, records, left, wronged>>

-----------------------------------------------------------------------------
(* The answer and its accounting *)

\* What the client is told when no candidate served.
Verdict(w) ==
    IF w.failed THEN "attempt"
    ELSE IF "translation" \in w.causes THEN "translation"
    ELSE IF "credentials" \in w.causes THEN "credentials"
    ELSE "no_accounts"

Exhausted(r) ==
    /\ pc[r] = "exhausted"
    /\ LET w == walk[r] IN
       IF r \in Combos /\ w.noted # {} THEN ReturnError(r, "unavailable")
       ELSE IF w.kept # None THEN ReturnAnswer(r, w.kept, w.keptOK)
       ELSE ReturnError(r, Verdict(w))
    /\ UNCHANGED <<sharedVars, entry, records, left, wronged>>

\* Broken variant of Ended: a request that failed leaves its entry behind.
NotEnded(r) == entry

\* The end Tracker.Begin returned takes the request's entry out.
Ended(r) == [entry EXCEPT ![r] = None]

\* publishOutcomeFlagged: the record, and the end of the in-flight entry.
Record(r, termination) ==
    /\ records' = [records EXCEPT ![r] = Append(@, termination)]
    /\ entry' = Ended(r)

\* Broken variant of Billed: a request whose client left is always recorded.
LeftIsBilled(r) == r \in left

\* The client left after an upstream request was issued, and no answer came.
Billed(r) == walk[r].error # "none" /\ walk[r].used > 0 /\ r \in left

\* dispatchAttempts returns: its deferred function looks at the context ...
Return(r) ==
    /\ pc[r] = "return"
    /\ IF Billed(r) THEN Record(r, "client_abandoned") ELSE UNCHANGED <<records, entry>>
    /\ Goto(r, IF walk[r].error = "none" THEN "relay" ELSE "error")
    /\ UNCHANGED <<sharedVars, walk, left, wronged>>

\* ... and dispatchError looks again: for a client still there it ends the
\* in-flight entry and writes the error.
DispatchError(r) ==
    /\ pc[r] = "error"
    /\ IF r \in left THEN UNCHANGED entry ELSE entry' = Ended(r)
    /\ Goto(r, "done")
    /\ UNCHANGED <<sharedVars, walk, records, left, wronged>>

\* kiroRepairRequest, under the integrity gate: one more request to the account.
Repair(r) ==
    /\ pc[r] = "relay" /\ walk[r].answerOK
    /\ Surfaces[walk[r].answer] > 1 /\ walk[r].used < MaxAttempts /\ r \notin left
    /\ Update(r, [walk[r] EXCEPT !.used = @ + 1])
    /\ \/ UNCHANGED <<cooling, wronged>>
       \/ Cool(walk[r].answer, Short, FALSE)
    /\ UNCHANGED <<cursor, preferred, expired, leader, unlocked, pc, entry, records, left>>

\* Every relay ends in one record.  A translation that fails while the client
\* is there cools the account.
Relay(r) ==
    /\ pc[r] = "relay"
    /\ Record(r, IF r \in left THEN "client_abandoned" ELSE "completed")
    /\ \/ UNCHANGED <<cooling, wronged>>
       \/ walk[r].answerOK /\ r \notin left /\ Cool(walk[r].answer, Short, FALSE)
    /\ Goto(r, "done")
    /\ UNCHANGED <<cursor, preferred, expired, leader, unlocked, walk, left>>

-----------------------------------------------------------------------------

Outcomes == {"auth", "fallback", "retry", "terminal"}

Loop(r) ==
    \/ Plan(r) \/ Refuse(r) \/ Advance(r) \/ Finish(r) \/ Pause(r) \/ NoAccount(r) \/ LeftBetween(r)
    \/ NoKey(r) \/ Ask(r) \/ Refresh(r) \/ StopWaiting(r) \/ NoCredential(r)

Attempt(r) ==
    \/ Prepare(r) \/ Unsigned(r) \/ NotExpressible(r) \/ LeftBeforeAttempt(r)
    \/ Misconfigured(r) \/ RouteRefused(r) \/ DataMissing(r) \/ Send(r)

Response(r) ==
    \/ Cut(r) \/ NoResponse(r) \/ Unfoldable(r) \/ Success(r) \/ AcceptedFailure(r)
    \/ NextSurface(r) \/ (\E auth \in BOOLEAN : SurfacesRefuse(r, auth)) \/ Escalate(r)
    \/ (\E outcome \in Outcomes, readable \in BOOLEAN : Failure(r, outcome, readable)) \/ RetrySame(r)

Answer(r) == Exhausted(r) \/ Return(r) \/ DispatchError(r) \/ Repair(r) \/ Relay(r)

Serve(r) == Loop(r) \/ Attempt(r) \/ Response(r) \/ Answer(r)

Next == Tick \/ \E r \in Requests : Serve(r) \/ Leave(r) \/ PendingTimeout(r)

Spec == Init /\ [][Next]_vars

-----------------------------------------------------------------------------
(* Properties *)

\* The variables hold what the Go fields and locals can.
TypeOK ==
    /\ cooling \in [Accounts -> {0, Short, Long}] /\ cursor \in [Models -> Nat]
    /\ preferred \subseteq Models /\ expired \subseteq Accounts
    /\ leader \in [Accounts -> Requests \cup {None}] /\ unlocked \in BOOLEAN
    /\ pc \in [Requests -> {"plan", "next", "pause", "last pause", "slot", "refresh", "wait", "denied", "orphaned",
                            "prepare", "attempt", "wire", "delay", "exhausted", "return", "relay", "error", "done"}]
    /\ walk \in [Requests -> Walk] /\ entry \in [Requests -> Accounts \cup {None}]
    /\ records \in [Requests -> Seq({"completed", "client_abandoned"})]
    /\ left \subseteq Requests /\ wronged \subseteq Accounts

\* A request is accounted at most once whichever way it ends; one that was
\* answered exactly once; one whose client stayed and got an error not at all,
\* however many upstream requests it cost; and one that cost none never.
RecordedOnce == \A r \in Requests :
    /\ Len(records[r]) <= 1
    /\ pc[r] = "done" /\ walk[r].error = "none" => Len(records[r]) = 1
    /\ records[r] # <<>> => walk[r].used > 0 /\ pc[r] \in {"error", "done"}
    /\ records[r] # <<>> /\ r \notin left => walk[r].error = "none"

\* The live view shows a request under the account now serving it, and a
\* request whose client stayed leaves nothing in flight behind.
LiveTracksAttempt == \A r \in Requests :
    /\ entry[r] # None => walk[r].used > 0
    /\ entry[r] # None /\ pc[r] \in {"wire", "delay"} => entry[r] = Account(r)
    /\ pc[r] = "done" /\ r \notin left => entry[r] = None

\* "Client cancellation does not penalize the account" (SPEC 9.3).
CancellationPenalizesNobody == wronged = {}
=============================================================================
