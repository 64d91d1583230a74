# A TLA+ verification of RouteWeft

RouteWeft is a Go program: a router that accepts model requests from local
clients, chooses a provider connection, and serves the answer. It keeps its
configuration and its sealed credentials in SQLite and serves every request from
memory. These modules model the parts in which several goroutines, the database
and restarts meet. Each definition names, in `PROJECT.json` under `map`, the
lines of Go it stands for.

Check a module with `tlc -config <run>.cfg <MC module>.tla` and a proof module
with `tlapm <module>.tla`.

## 1. The system and its parts

| part (source) | state it keeps | operations | what is hard in it | what makes it correct |
|---|---|---|---|---|
| credential registry (`internal/credentials/registry.go`) | per connection: the current secret, a generation, a refused-token marker, the call in flight, an install lock | `Secret`, `ForceRefresh`, `Update`, `ReviseSecret`, `Import`, `Load`, `Seed`, `Register`, `Forget` | a token exchange takes seconds and uses up the refresh token; installs, lists and restarts happen meanwhile | one exchange at a time; a spent refresh token is never used again; memory is what SQLite holds |
| telemetry service (`internal/telemetry/telemetry.go`) | a bounded queue, a wake-up channel with one place, the batcher, counters | `Record`, `FlushNow`, `Run`, `Close`, `Wait`, changed options | eviction and retry, coalesced wake-ups, shutdown between any two steps | every event is written or counted once; nothing queued sleeps; shutdown drains |
| configuration manager (`internal/runtime/manager.go`) | the compiled snapshot, the mutation gate, the tables | `Update`, `SetSettings`, `UpdateProviders`, `RefreshPoolBindings` | copy, compile, commit, publish under one gate, with writers that commit before they take it | what is served is what is stored; a change is whole or absent |
| request dispatch (`internal/ingress`) with runtime state and the live tracker (`internal/runtime/state.go`, `internal/routing`, `internal/live`) | per request: its candidates, attempts and outcome; shared: cooldowns, cursors, preferred wires, refreshes, in-flight entries | attempts, retries, fallbacks, replays, streaming, accounting | the client leaves at any point; requests share accounts and refreshes | each request is accounted once; the live view follows it; failures cool the right account |
| fusion serving (`internal/ingress/fusion_serving.go`, `combo_walk.go`) | a tree of concurrent calls, global slots | panel, quorum, grace and hard timers, judge, walks | timers race the last answers; calls nest | slots come back on every path; nobody is sent two answers |
| sign-ins and connections (`internal/control/api/oauth.go`, `providers.go`) | pending attempts, the rows, the registry's map | start, poll, callback, import, save, edit, relink, delete, load | polls overlap; each save reads, writes and publishes in separate sections, beside refreshes | one approval is saved once; one row per account; nothing reverted |
| application lifecycle (`internal/app/app.go`, `internal/backup`, `internal/store/sqlite`) | services, the restore queue, the database file, its log and the copies of it | start, drain, restore, rollback, shutdown | any file operation fails, the process dies or power is lost between any two, handlers outlive the drain; a commit is acknowledged before it is on disk | the database is the old or the new one, and no acknowledged change is lost but the last ones, to a loss of power |
| quota, automatic pings (`internal/quota`, `internal/control/api/quota_refresh.go`) | detail per connection, refresh jobs, the ping history | refresh, prune, start and end a job, ping | deadlines that end a job whose goroutine goes on; a ping sent and not remembered | one refresher; one ping a reset, but after a death before it was saved; no detail of a deleted account for good |
| event feeds (`internal/control/events`, `internal/control/api/usage_stream.go`, `logs.go`) | bounded subscriber channels, the console's buffer and timer | publish, subscribe, close, flush, clear | a lagging subscriber is dropped while it closes; lines come while a flush runs | no double close, no gap, every line announced |
| proxy pools, outbound transport (`internal/proxy`, `internal/transport`) | pools and members; a client per proxy | edit, delete, choose; get and release | edits beside requests | a bound pool exists |
| sessions and keys (`internal/adminauth`, `internal/auth`) | sessions, login throttle, key index | log in, check | small sections under one mutex | |
| migrations (`internal/store`) | the schema version | migrate | one transaction each | |
| stream translation (`internal/ingress/translate.go`, `internal/protocol`) | per stream: open blocks or items, calls, usage, the finish reason; two goroutines and a pipe; Kiro's gate and its held answer | an event of the provider's, an event written, a leg that ends, a repair | calls interleave and their arguments come in pieces, whole, or twice; a stream breaks off; one leg stops while the other waits | the client's answer is the provider's; a broken one is told; the request ends |
| provider clients, whole-body codecs, transforms (`internal/providers`, `internal/protocol`, `internal/transforms`) | none, or one stream's | conversion | data, not order | |

How they meet: the control API's handlers change the configuration through the
manager and credentials through the registry; both write through the credential
store, whose commits take the manager's gate. A request loads one snapshot,
plans its candidates by the cooldowns and cursors of the runtime state, asks the
registry for the chosen connection's secret, and records telemetry events; a
Fusion or a walk sends sub-requests to the same handler. An answer in another
protocol than the client's goes through one or two legs on its way. Completed
requests are published to the live feed. `app` starts the services, and stops them by
cancelling their contexts, waiting, and closing the telemetry service last; a
restore drains the handlers, stops the services, swaps the file and serves
again.

## 2. Modules

| module | models |
|---|---|
| `CredentialCell` | what the registry promises of a connection's stored credential: a register with installs and rotations, in which no two rotations use up the same credential |
| `CredentialRegistry` | `registry.go` for one connection and any number of goroutines |
| `Connections` | the rows and the registry's map of entries: the saves of `oauth.go`, edits, relinks and deletes of `providers.go`, `Load`, and the refreshes that rotate what they save |
| `SignIn` (extends `Connections`) | the pending attempts of `oauth.go` with the requests that poll, complete and cancel them |
| `Telemetry` | `telemetry.go` with the shutdown order of `app.go` |
| `ConfigManager` | `manager.go`, `providers.go`, `proxy_update.go`, the pool store and the handlers that call them |
| `Dispatch` | the attempt loop of `dispatch.go`, with cooldowns, cursors, shared refreshes, live entries and the records of `ingress.go` |
| `Fusion` | `fusion_serving.go` and `combo_walk.go`: the tree of calls |
| `DatabaseCell` | what a restore promises of the database: it is replaced as a whole, brought back as it was kept, and only a loss of power undoes a replacement or takes commits not yet on disk |
| `Restore` | the serving loop and activation of `app.go` over the database file, its log, the copy and the directory, on a disk that may lose what was not synced |
| `Quota` | the quota service, the refresh jobs and the automatic pings |
| `Legs` | the four stream conversions between Chat, Messages and Responses, as step functions |
| `WireLegs` (extends `Legs`) | the conversions to Chat from the wires of Ollama, Gemini and CommandCode |
| `KiroLegs` (extends `WireLegs`) | those from Kiro's to Chat and to Messages, behind the integrity gate |
| `Translation` (extends `KiroLegs`) | a translated stream: the provider, one or two legs with the pipe between them, the client, the gate's repair, and the failures of each |
| `UsageFeed`, `ConsoleFeed` | the live feed of completed requests; the console's log feed |
| `MC...` | instances for TLC |
| `...Proofs` | theorems, in one module per component; `ConsoleProofs` holds those of `SignIn` and `UsageFeed`, `ServingProofs` those of `Dispatch` and `Translation` |

### CredentialRegistry

`entry.mu` guards short sections, and each is one action. `entry.installMu` is
held across a durable write, so it is the variable `installLock` and the sections
under it are several actions; `entry.inflight` is the variable `inflight`. `pc`
tells where each goroutine stands; the comments of the actions name the
functions. A credential is a number and a higher one is newer, because
providers and operators hand out credentials nobody has seen. One caller of
`Update` does not: a relink may supply a refresh token it read before and that was
spent since (`providers.go:288`). What that does is shown with `Connections`; the
properties of this module are about the registry given new credentials. `Restart`
may come at any point and loads the row.

Abstractions: one connection, which rotates and which the registry holds (the
map of entries is `Connections`). `Expire` makes an access token due at any time,
except that a token outlives the commit (at most 30 s, `registry.go:547`) of the
refresh that obtained it. A durable write succeeds or fails as a whole. That the
provider has used up a token whose rotation then failed to commit is not visible
to the program and not modelled.

### Connections and SignIn

Each read, each write and each lock section of a request is an action;
`connectionMu` is `lock`, an entry's refresh slot is in `slots`, and an entry has
a number so that one that was forgotten and made again is another. A credential is
an access and a refresh token, each known by the request that wrote it, and so is
the rest of a row; a lost or resurrected write shows. `Named` says which tokens a
request carries: an import may carry no refresh token, a `PATCH` none, one or both.
A `PATCH` that names none keeps the credential stored when it writes; one that
names any (a relink) has filled the others from the row it read after it took
`connectionMu`, which is the row of its `Match` (`Merged`). A refresh takes the
entry's slot, exchanges what is in memory and, unless superseded, writes what it
got and publishes it (`StartRefresh`, `Rotate`, `Publish`); what its waiters see
of it is `CredentialRegistry`'s. A request is used once. The publication of a saved
connection to the snapshot is `ConfigManager`'s. `SignIn` adds the attempts:
`pending`, the reservation `completing`, intervals and `slow_down`, expiry,
eviction and cancellation; the provider may answer a poll with anything.
`MaxPerSession` and `MaxPending` are scaled down to 1.

### Telemetry

Critical events are the ones without a detail and diagnostic events the ones with
one, as `app.go:266-330` records them. `enqueue`, `evictDiagnostic` and the
second `enqueue` of `Record` are separate actions because `mu` is released in
between. `Run` is the batcher, one action per section; a flush writes the
details one by one and the usage events in one transaction, and each may fail.
`Cancel` and `Close` are the steps of `serveOnce` (`app.go:916-933`).
`ChangeOptions` is a settings change at run time.

`FlushNow` is modelled although its only caller in production (`app.go:749-756`)
runs after `Close`, where it does nothing; the tests call it on a running
service.

### ConfigManager

A writer is one request. Three parts of the configuration are written in three
ways and kept apart: `general` (rewritten whole from the candidate), `bindings`
(one row's change), `pools` (committed before the gate is taken, and re-read by
`RefreshPoolBindings`). A token renewal commits a row and publishes nothing.
What a part holds is told by the writers whose change is in it, so a lost or
resurrected change shows. `Crash` may come at any point, and startup compiles
the tables.

Abstractions: what the compiler accepts is any choice (`Abandon`); the compile
counter `Manager.version` is left out; a refresh reads bindings and pools in one
step, which its two queries are as far as bindings go (only a holder of the gate
writes them, and a bound pool cannot be deleted) — the pools' two queries may
see an edit's members and not its row until that edit's own refresh. A
`providerStrategies` entry naming a pool, which also forbids its deletion, is
not modelled.

### Dispatch

`walk[r]` holds the locals of one request's attempt loop and `pc[r]` the place in
it. A candidate is a member of the route, an account and its rank. An upstream
answers an attempt with a success, a failure of one of the classified kinds, a
cut connection or nothing; what each does (retry on the same account, another
surface, another wire, the next candidate, the end) is one action each. A client
may leave at any point, and the loop notices only where the code looks at the
context: the two looks at the end (`dispatchAttempts`' deferred one and
`dispatchError`'s) are two steps. Cooldowns, cursors and preferred wires are
shared, and so are refreshes: the request that leads one runs it under its own
context.

Abstractions: a deadline is what remains of it, counted down by `Tick`; an
exhausted quota excludes an account as a cooldown does (`policy.go:304-309`) and
is not told apart; a superseded refresh is `CredentialRegistry`'s; cursors are
kept for each model; the bytes of a relay, its stream readers and the shapes of
requests are left out. A relayed stream completes or breaks off; what a
translated one goes through meanwhile is `Translation`'s.

### Legs and Translation

A leg is a state and a function of an event: what `chatStreamState`,
`messagesStreamState` and the local variables of the two `openai` functions hold
becomes a record, and each `case` of their loops an operator. The events a step
has still to write are in `out`, how the leg ended in `end`. A text is the
sequence of its pieces, each piece a number of its own, so that one lost,
doubled or put under another call shows. `Translation` adds a provider for each
protocol, which may do all that the protocol lets it, break off, report an error
or fall silent, and a client that puts the answer together the way an SDK does
and notices an event that does not fit; an event that says the answer is over ends
it for the client even so.

The legs of the other wires (`WireLegs`) lead to Chat, and a second leg takes the
answer from there; Kiro's has one to Messages as well. Kiro's gate reads an answer
to its end before anything of it is sent, judges it, and has an unusable one
repeated once; it reads through the same machine as the leg that converts what it
held, so one pass with a judgement at the end stands for both, and after a repair
the provider begins again (`RepairAnswer`).

The pipe holds nothing, so an event passes from one leg to the other in one step
(`Hand`), at which the size limit of the reader may end it (`Limited`). A leg
whose write fails ends with that error or keeps the failure it was about to
tell, as the two packages do (`Causes`). `chainStreams` cancels the first leg
and closes the upstream body only when the second has returned (`StopFirst`).

Abstractions: what one chunk carries beside is so many chunks; the parts of a
Responses item are one; names, ids and JSON are left out (a call's id only in
that it may come again), as are encrypted reasoning and the repair of arguments.
The provider gives no content after its finish reason, and texts of one kind in
the order of their blocks. Of the other wires, Gemini's store of thought
signatures and its generated images, the reader of `<thinking>` tags, the gate's
byte bounds and diagnostics, and the legs that buffer a whole answer are left out;
the switch that allows a repair stays on, a stream of Kiro's gives one failing
reason at most, and an event of CommandCode's carries both ids of its call, the
second or none, of which a delta tells no new one.

### Fusion

A call is known by its path in the tree. A panel call has a writer of its own
(`bufferedResponse`), so has a walk's member (`probeWriter`); `written` counts
the answers begun on it. The ordinary handler is a model here: it answers,
streams, fails or hangs. The buffer of `arrived` and the slots are counted; the
timers may fire at any time their condition holds. The order in which `planCombo`
puts members, the extraction of text and the shaping of bodies are left out; a
body that cannot be used is one of the reasons of `Refuse`.

### Restore

`main`, `wal` and `copy` are the database file, its log and the copy made before
an activation; `file` tells one inode from the next, so a log left beside another
file, or a handle to a file unlinked, shows. The log holds its commits in their
order and how many of them are on disk (`synced`). Every operation of
`activateRestore`, `replaceDatabase` and `restoreRollback` is an action and may
fail. Handlers hold the store they were given and may commit after the drain
deadline. `replaced` is a history: what was in the file when another was renamed
over it.

The store opens SQLite with `journal_mode(WAL)` and `synchronous(NORMAL)`
(`store.go:71`): a commit is appended to the log and acknowledged, and the log is
synced only by a checkpoint, which then moves it into the file. A checkpoint is
made by `Store.Close` and by SQLite itself when the log grows (`AutoCheckpoint`,
at any time while a handle reaches the file). So two things can end a process.
When it dies (`Crash`) the files stay as they are. When power is lost
(`LosePower`) the directory is what it was before some change that was not synced
(`unsynced`), and its log ends at any of the commits that no checkpoint has moved;
the commits that went are in the history `lost`. A loss of power never takes a
commit from the middle of the log, one that was checkpointed, or the copy.
`ToldChangesKept` allows exactly `lost`.

`DatabaseCell` is the promise: the database changes by commits, is kept, is
replaced whole by a candidate when the copy is of the database in place, and is
brought back; only a database that is on disk as it is (`sure`) is replaced. A
power loss may undo a replacement not yet synced, or take changes the disk was not
yet sure of, and nothing else.

In the other modules a crash is the death of the process, after which the
database holds every change committed to it. What a loss of power may take from it
is modelled here alone, so what those modules show of a restart (`ServesDurable`,
`AllOrNothing`, `ImplementsCell`, `PingedOnce`) is not claimed of a power loss that
takes their last commits.

### Quota, UsageFeed, ConsoleFeed

`Quota` has readers (the service's own loop and the refresher of each job), the jobs
of `quota_refresh.go` with their deadline, and the pinger's `Tick` with its history
and what a crash leaves of it. Three histories tell what was pinged: `pinged` never
shrinks; `unsaved` are the resets no save has held yet; `excused` are those the code
may ping again, once for each cause: the process died while they were unsaved, or a
tick saw the account opted out and dropped its record. Publishing an observation to
the runtime state is not told apart from keeping its detail; `lastErr` has no reader
in production. `UsageFeed` reads the subscriber counter outside the lock and closes
a channel in `Publish` or in `Close`; `ConsoleFeed` takes the buffer's, the feed's
and the bus's lock one after another; goroutines that log are alike, so `logging`
counts those that have not told the feed yet. The two share no state, nor do they with
`Telemetry`, so `MCFeeds` runs one of the three in each behaviour; the instances of
`Quota` and `Translation` and of `Dispatch` and `Translation` do the same.

## 3. Runs

| run | instance | shows |
|---|---|---|
| `registry_safety` | 3 goroutines, 3 credentials, one install per process life, restarts, no `Import`; 2.6 M states | `NoTokenReuse`, `NewestWins`, and `ImplementsCell`: the row refines `CredentialCell` |
| `registry_import` | 2 goroutines, `Import` too, no restart; 0.35 M states | `MemoryMatchesRow`, `NeverServedExpired`, `CallsReturn` |
| `telemetry_safety` | 3 critical events, 1 diagnostic, three settings (queue of 3 in batches of 2, queue of 1, off); 4.7 M states | `AccountedOnce`, `ShutdownDrains`, `NoLostWakeup` |
| `config` | 3 requests of any kind, 1 connection, 1 pool, 1 restart; 1.0 M states | `ServesDurable`, `AllOrNothing`, `PoolAnswerServed`, `BindingsResolve` |
| `dispatch` | a Combo of three members (one without an account, one with two surfaces), a model with two accounts in rotation, two requests for a single account; and, in other behaviours, an answer of three pieces through each single leg (two from Kiro), or of two through a pair; the pairs from CommandCode and the one from Kiro to Responses are left out; 3.0 M states | `RecordedOnce`, `LiveTracksAttempt`, `AnswerWhole`, `CutIsTold` |
| `dispatch_penalized` | two requests that share a refresh | a violation, see section 6 |
| `fusion` | a Fusion of Fusions, or a Fusion of walks of a Fusion; 2 slots, depth 3; 0.29 M states | `SlotsHeld`, `AnsweredOnce`, `RunsForSomebody`, `PanelsEnd` |
| `restore` | 2 restores, 2 control requests, one start after a crash or a power loss; 1.15 M states | `SwapIsQuiet`, `ToldChangesKept`, `RestoreEnds`, and `ImplementsDatabase`: the directory refines `DatabaseCell` |
| `signin` | 2 device attempts and an import of one account, a browser Reauthenticate of another, an edit, a relink, a delete, a load and a refresh, in the sixteen scenes of `Together`; 0.33 M states | `OneRowPerAccount`, `SavedIsServed`, `ApprovalSavedOnce`, `NothingReverted`, `ApprovalSettles` |
| `relink` | an edit or a relink beside a refresh and a load | a violation, see section 6 |
| `timers` | 2 accounts, 2 windows, 2 jobs; casts of a refresh, jobs, deletes, the pinger, crashes and the operator; and, in other behaviours, a translated answer of one piece, through one leg, two, or the gate; 0.62 M states | `OneRefresher`, `PingedOnce`, `DetailFollowsRows`, `TranslationEnds` |
| `feeds` | 3 completions and 2 streams with one place and room for one subscriber; 3 lines, 2 timers and 2 clears over a buffer of 2; a critical and a diagnostic event, under options that change between pairs and singles; 0.15 M states | `ClosedOnce`, `NoGap`, `StreamsEnd`, `LinesAnnounced`, `EventsLeaveQueue`, `RunEnds` |

Why the bounds are enough. *Registry*: the races need a refresh, something that
installs or lists, and a waiter: three goroutines. A third credential lets one
rotation and one install happen in either order. In a process life `MaxGeneration =
2` allows one install that moves the generation, and a restart allows it again; a
second install only repeats what the first can do to a refresh that compares for
inequality. *Telemetry*: the interesting sizes of the queue are empty, less than a
batch, a batch, full, and full beyond a lowered limit, all of which occur with three
places; whether an event leaves it depends on its being part of a full batch or of a
partial one, for which two events and two sizes are enough. *Configuration*: one writer can be before the gate, one under it and one
past it, which is all the gate distinguishes. *Dispatch*: requests meet over an
account, its refresh or a cursor, for which two are enough; `Loads` names the sets
that run together. The loop's own branches need one account more than an attempt
allows (`MaxAttempts = 2`), a member without an account and an account with two
surfaces. *Translation*: three pieces are two calls and more arguments for the
first, or a text, a call and a text; with two legs, two calls, or a call and its
arguments, as each leg alone has met three. What CommandCode's and Kiro's legs hand
to a second one are events that Ollama's and Gemini's hand to it too, so the pairs
of these two stand for theirs. That the goroutines end depends on who waits for whom
and not on how much was said. *Fusion*: two slots for three collections make the
last one find none; a Fusion in a panel, one as a judge, a walk in a panel, one as a
judge and a Fusion in a walk are the ways in which the kinds nest. *Restore*: two
restores make one meet the other's activation, and a late one meet a first that
failed; one change can be in the log, another in the file, or both in a log of which
a power loss keeps none, one or two. *SignIn*: two polls of one attempt beside a
save of the same account by another way are the races the code guards against, with
a load or an edit as a third; a refresh meets each way of writing a credential
(sign-in, import, edit, relink) and a load or a delete, two or three at a time.
`Together` keeps the scenes apart, whose union is out of reach. *Quota*: two jobs
are the one cut off and the one after; two accounts are one Claude account and one
that is not. *Feeds*: a buffer of one is full after one event, and one subscriber is
too many for the second stream. Goroutines, events and requests of a kind are
interchangeable, so `registry_safety` and `telemetry_safety`, which check no
liveness, take them up to symmetry.

Deadlock is checked in the registry's runs, where goroutines may always start
another call. The other runs switch it off: there every event and every request
is handled once, after which the system stops.

Fairness. *Registry*: a goroutine within a call goes on (`WF`), because
exchanges and database writes have deadlines; the install lock is a
`sync.Mutex`, which hands itself to a goroutine that starves (`SF` on taking it).
No fairness is asked of starting calls, expiry or abandonment, and `CallsReturn`
is asked under the condition that updates end (`UpdatesEnd`): a waiter may find
another update in the slot each time. It is asked of a process that stays up: a
restart ends every call. *Telemetry*: `Run` goes on and its ticker fires (`WF`);
`select` chooses at random among ready cases, so it does not pass over the ended
context for ever (`SF` on `WakeCancelled`). *Fusion*: the gateway's own steps are
taken, timers included; nothing is asked of providers. *Restore*: the serving
loop goes on (`WF`); nothing is asked of handlers or uploads. *SignIn*: a request
being served goes on, as its upstream calls have deadlines. *Quota*: the
service's loop refreshes at its interval, and a list of the connections tried
again and again succeeds once (`SF`); the refresher of a job may hang for ever.
*Feeds*: a stream's goroutine runs, a ready channel is chosen by `select` sooner
or later however often the ticker is ready too (`SF`), and the heartbeat of a
stream whose session is gone comes (`WF`). *Translation*: the goroutines run and
a read or write that can go on does (`WF`); the provider may fall silent for ever,
but a gate's timers end a silent body (`Silent`, `gate.go:364-414`) and its repair
request is answered or times out (`RepairAnswer`, `pool.go:201`).

## 4. Proofs

Each proof holds for every value of the constants allowed by the `ASSUME` of its
module, and each is checked by TLAPS to the last leaf. The assumptions say how
the constants are related (which requests are sign-ins, that `None` is none of
the values) and bound nothing.

*Registry.* `Invariance` proves the inductive `IInv`: `MemoryMatchesRow` is not
inductive alone, because it must know that a goroutine between its write and its
publication holds the install lock (`Locks`) and is about to publish what the row
holds (`Written`); `SingleFlight` needs that the slot is held exactly by the
goroutine whose place says so (`Slots`). From it follow `TypeCorrect`,
`OneRefresh` and `MemoryFollowsRow`. A second invariant orders the credentials
(`OrderStep`): without `Import`, what a refresh is about to store is newer than
what the row holds, and what was rotated away is older. It gives
`TokensUsedOnce`, `NewestCredentialWins`, and `RegistryImplementsCell`, the
refinement, in which each action is an install, a rotation, or a stutter. With
`Import` called these three do not hold (section 6). `NothingExpiredServed` holds
with it: by `Unexpired`, what a call may not be served is due, and what an exchange
obtained is not due until its call is settled, so neither the entry's own check nor
a settled call hands out what may not be served.

*Telemetry.* `TypeCorrect` includes that the queue never exceeds the largest
limit. `DrainComplete` proves `ShutdownDrains` from `DrainInv`: a `Record` call
that has queued its event has returned, so nothing owed when the context ended is
queued again behind the batcher's back, and only an ended context makes `Run`
return. `WakeUpKept` rests on `WakeInv` (a batch large enough by every setting is
announced by a token, or the batcher is on its way to look). `EventsAccounted`
rests on `AccountInv`: queue and batch are injective and disjoint from each other
and from the counts, and only an event whose `Record` has returned is anywhere.
`FlushAnswered` follows from the drain emptying the queue before it answers.

*Configuration.* `ServesDurable` and `AllOrNothing` rest on `CandidateInv` (a
compiled candidate is the snapshot with the writer's own change), which stays
true because nobody else publishes while the gate is held; on `CommittedInv`
(between commit and publication the tables hold the candidate); on `KindInv` and
`OwnedInv` (which requests can be in the tables, and where those stand). On
these rest `PoolEditServed` (by `PoolInv`: whoever may still publish over a
finished pool edit holds a candidate that includes it), `NoDanglingBinding`,
`ToldRevisionServed` and `OneConfigurationPerRevision`.

*Restore.* The inductive invariant is a conjunction of named parts, each with a
lemma of its own that has one step per action: the types (`FileTypes`, `StoreTypes`,
`LoopTypes`, `HandlerTypes`); what the log and the handles refer to (`Logs`,
`Handles`, `Ids`, `Held`); what is closed at each place of the loop (`Gate`,
`Doors`); whom a late handler's commit can reach (`Late`, `Untold`); where a
database came from and what the copy has of it (`Origins`, `Kept`); and what a power
loss can undo (`Undo`). That a directory not yet synced has no log (`Logs`) is what
keeps a power loss from both bringing back a database and taking commits of it.
`SwapIsQuietHolds` follows from `Gate` and `Doors`. `ToldChangesKeptHolds` is the
interesting one: a change acknowledged before the copy is in the copy or was lost to
a power cut before it, and a handler that commits after it was cut off tells nobody.
`DatabaseImplemented` maps each step to one of `DatabaseCell`'s or to a stutter, for
any number of restores and requests.

*Dispatch.* `RequestRecordedOnce` and `EntryTracksAttempt` rest on `ServeInv`,
which relates what one request holds: an account while it tries one, an upstream
request it counted before it waits for, keeps or returns an answer, no record
before its loop returns, and an error exactly when it returns with one. A step of
one request writes nothing of another's but its place, when a refresh settles, so
each action has one case and the lemmas (`Moved`, `Passed`, `ErrorReturned`,
`AnswerReturned`, `NextTried`, `Onward`) carry most of them. The types include that
a candidate's place is a number: the remainder in `Place` is by the number of
eligible accounts, which is positive where there is an account to place.

*Translation.* `CutIsToldAlways` is about any of the routes and answers of any
length. `TranslationInv` says of each leg that what it has still to write is either a
run of events none of which ends an answer, or such a run with an ending after it,
and then the leg is over, well or not as that ending tells (`Told`); of the client
that stays, that it has heard no ending while the last leg owes it one, and the one
that leg wrote otherwise (`Shown`); of the second leg, that it ends well only behind a
first that did (`Handed`); and of the provider's stream, that a first leg that ends
well was given its end (`Linked`). The last is short for most wires: the events with
which such a leg may end well come only with a finished stream. Kiro's gate judges by
what it holds: so the invariant also says which of the calls and stop reasons that the
provider gave are in its machine (`ToolsTold`, `StopTold`), that a failing reason is
never hidden by a milder one, and that after a repair the machine is empty. One lemma
for each leg shows that a step leaves it calm or over (`CMStep`, `CRStep`, ...,
`LegMakes`), one for the client that it reads such a run so (`ReadTold`), and one for
each action that it keeps the invariant.

A step of a leg folds over the calls it holds, and the client's over the events it is
sent, so these lemmas need induction over sequences. The provers cannot instantiate
the library's rule, which takes a predicate. `SetInduction` states it for a set of
numbers, from the well-foundedness of `<`; `FoldSteps` derives from the definition of
`FoldLeft` that a fold is the last of a path of states, one step for each element, and
`Along` that what the first state has and each step keeps the last has. A fold's step
is an operator as well, so each of the seven folds has a lemma that says the path is
its own.

*Sign-ins.* `ApprovalsSavedOnce` rests on `Reserved`: a poll that saves owns its
attempt, which is reserved or no longer pending, and no two own the same.

*Saves.* `OneRow` rests on `RowsInv`, `SavesServed` and `SavesRevertNothing` on
`ServedInv`. `RowsInv` says who holds `connectionMu` (`LockOk`: only a sign-in for
an account of a browser Reauthenticate goes without), that a row is renewed under an
id that keeps its account whoever else renews it (`RowOk`, `SameAccount`), and that
what the holder of the lock saw of its account still holds (`OneOk`). The accounts
of `OneRowPerAccount` are the `Ruled` ones: stored once at the start, and either
kept to one row by the store's unique index or signed in only by requests that
follow the duplicate rule. `ServedInv` adds that one request holds an entry's slot
(`SlotOk`), that the entry it looked up is the registry's and what it read is what
is stored, or for a relink was until a refresh changed it (`Current`), that a
refresh publishes what is stored (`RefreshOk`), that a load adds only what nobody
has added meanwhile (`ListOk`), and that deleted rows stay gone (`Gone`). The ids a
Reauthenticate saves without the lock (`Unlocked`) are exempt; section 6 shows why.

*Fusion.* `SlotsComeBack` is about any Combos, however deep they nest: a call
that is made holds no slot, only `StartPanel` takes one, and every return gives
back what the call held. Its invariant is `SlotsHeld` with the shape of the tree
(finitely many calls, each with a record), and the proof is by counting.
`OneAnswer` and `NoOrphans` rest on `TreeInv`, about the paths of the tree: of the
calls that share a writer the running ones wait each for the next (`Lines`,
`InTurn`), so only the foremost may write, and nothing is written where it still
may (`Untouched`); where an awaited leg failed, nothing is but the failure its own
`probeWriter` holds back (`FailedClean`); only a cancelled call ends with nothing
(`Silenced`). What the actions of a call have in common is stated once (`Acts`: the
foremost call moves on, writes, makes a call or returns); one lemma for each part
shows that such a step keeps it, and one for each action that it is such a step. The
two other kinds, an answer heard or a client that leaves (`Rests`) and one that comes
(`Comes`), are proved directly.

*Quota.* `OneRefresherHolds` rests on `JobInv` (which stages of a job, its
refresher and the `active` flag go together), `PingedOnceHolds` on `PingInv` (what
the process or the saved history remembers of the resets already pinged: the process
whatever is present and was pinged, the saved history what is no longer unsaved).

*Usage feed.* `ChannelsCloseOnce` and `EventsWithoutGap` rest on `FeedInv`.

Only model-checked: all liveness properties, whose fairness is out of TLAPS's reach;
`ConsoleFeed`; `AnswerWhole`, whose invariant would have to relate what each leg,
the pipe and the client hold of every block and its pieces. Only proved:
`FlushCovers` and `ToldIsServed`.

## 5. Hazards

`PROJECT.json` lists, at their lines, the behaviours that tests of this code
hardly reach, with the properties that would catch each. Those without a
property say why: the code does the thing its comment excludes (section 6), or
no state the program can reach is at stake.

Smaller ones, not in that list: an `Import` whose durable write fails; a crash
between the provider's rotation and the commit, which nothing local can observe;
a telemetry sink that fails for long; a `PUT` that brings back a pool deleted
meanwhile; candidates planned from cooldowns that changed since; a read of a
quota under way when a reset credit is spent, which puts the earlier detail back
(`quota_credits.go:124`).

## 6. Where the code and its words differ

With a run in which TLC finds the counterexample:

- `dispatch_penalized`: a shared refresh runs under its leader's context. When
  that client leaves, the requests that wait for it receive the cancellation,
  record an authentication failure and cool the account, although SPEC 9.3 says
  that a client's cancellation penalizes no account.

- `relink`: a `PATCH` that names a new access token and no refresh token fills the
  latter from the row it read at `providers.go:240` (`relinkedSecret`, line 288),
  before it enters the registry's section, where the merge takes it whole
  (`oauth.go:1879`). A refresh that commits in between is overwritten: row and memory
  hold the refresh token that was rotated away, though `oauth.go:1686-1687` says that
  an edit never merges onto "an earlier read a refresh may since have rotated".
  `NothingReverted` holds of everything else.

Steps of the models, without a run of their own:

- `Import` moves the generation before the imported credential is in memory. A
  refresh that starts in between reads the new generation with the old
  credential, passes the check and overwrites the import (`registry.go:611`,
  against 64-67). Nothing in production calls `Import`.
- A `Load` that listed a connection before it was deleted and forgotten puts it back
  into memory, where it stays until a restart; only its row is gone
  (`registry.go:161`).
- Of two callers refused the same token, one's failed refresh withdraws the mark
  both rely on, and the other is answered with the refused token
  (`registry.go:487`, against 463).
- The place an eviction freed can be taken before the critical event tries again,
  which is then counted lost while a diagnostic is queued (`telemetry.go:192`,
  against 170-172).
- A client that leaves between the deferred look at its context and
  `dispatchError`'s is not recorded as having left, and its live entry stays
  until its timeout (`dispatch.go:230` and 54, against 225-227).
- An attempt that "reached an upstream and failed" does not outrank what came
  before it when it is retried on the same account and the retry's account data
  cannot be read (`dispatch.go:200-217`); that read's error cools the account
  without a look at the context (421-427).
- A browser Reauthenticate saves without `connectionMu` and can bring back a
  connection deleted meanwhile (`api.go:178-184`, against `oauth.go:971`).
- Eviction by a new attempt, or the consumption by a rejected poll, removes an
  approval another poll is saving (`oauth.go:157-165`, 175-192, against 271-273).
- `publishMergedConnection` reports that nothing was persisted when the row was
  written and only its seeding failed (`oauth.go:1694-1702`).
- A console flush that read its lines before a clear publishes them after
  `console.cleared`, and a clear stores a newest id older than one a flush
  published, so lines are told twice (`logs.go:189`).
- `finishLive` counts an answer of 400 or more as the provider's failure, and a
  client that left only by its status, against its comment (`observe.go:178-186`).
- A streamed request whose translation has no stream is answered with an error
  after its upstream was used, and not recorded (`openai.go:265-268`).
- A handler that outlives the drain deadline and commits between the copy and
  the closing of the store loses its change if the activation then fails and the
  copy is brought back; its client was not told of the change (SPEC 25).
- A restore claimed by such a handler once requests are admitted again makes the
  loop initialize a second time, and the first store stays open. A candidate
  accepted while the program is told to stop is never activated, and its staging
  directory stays.
- The runtime state's quotas of a deleted connection can come back with an
  observation under way (`state.go:113-116`).
- A tool call whose id the provider repeats with every piece, as some do
  (`from_chat_response.go:223`), reaches a Responses client with its ids joined
  (`translate_stream.go:296`, against `to_chat_response.go:198-200`).
- An announced Responses item may have a greater index than one announced after
  it: a call takes its index when it is first heard of and is announced with its
  first argument, a call without one only at the end (`translate_stream.go:295-306`).
- Every id an event of CommandCode's carries names its call (PARITY V36), but one
  that a delta is the first to tell is not remembered: an event that carries that
  id alone is taken for another call's, or fails the stream
  (`to_chat_response.go:118-128`).
- Ollama's reason "tool_calls" is passed on with no call behind it
  (`ollama/to_chat_response.go:96-99`), which `concerns/finish.go:95-101` calls an
  error: the client is told of a tool that did not run.
- The text of a refusal has no place in a Messages answer and is dropped
  (`from_chat_response.go:194-215`).
- `config.updated` events are published after the gate is released, so two may
  arrive in the wrong order, against SPEC 7.

## 7. Plan

Next, in this order:

1. *Composition of dispatch with registry and telemetry*: an account of requests
   in which each ends in one outcome as the abstract specification, with the
   registry's calls in place of the shared refreshes of `Dispatch`.
2. *The rest of the proof of the translation*: `AnswerWhole`, first that no event falls
   outside a block, leg by leg, then that no piece is lost.
3. *Outbound clients and the choice of a pool's member*: get and release beside
   an edit.

## 8. Not modelled

The access checks and the rewriting of requests, the codecs of whole bodies and
of requests, the stream of Cursor, body transforms, pricing and the provider
integrations convert one request's data, or one stream's in the way the modelled
legs do; they
make up most of the source (providers, codecs and transforms alone are 49,000 of
its lines), and most of it has no order of steps in which something could go wrong
that a table of examples would not show. The read models of the control API and the user
interface compute views. Administrator sessions,
the login throttle, client keys, outbound clients and the choice of a pool's
member are short sections under one lock each. Migrations are one transaction
each; creating a backup is one copy and its verification. The command line parses
flags. HTTP and the network are present only as what they can do to a step:
answer, fail, hang, or be abandoned. So the map names about 7,900 of the
82,600 lines: those in which goroutines, streams, the database, files and restarts
meet.
