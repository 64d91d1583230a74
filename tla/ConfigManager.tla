--------------------------- MODULE ConfigManager ---------------------------
(***************************************************************************)
(* internal/runtime/manager.go: how a control request changes the          *)
(* configuration.  SQLite holds the configuration (table); requests are    *)
(* served from an immutable compiled snapshot (active).  A writer takes    *)
(* the mutation gate, builds a candidate from the snapshot, compiles it,   *)
(* commits it and publishes it.                                            *)
(*                                                                         *)
(* Three parts of the configuration are written in three ways, and are     *)
(* told apart here:                                                        *)
(*   general    settings, API keys, models, aliases and combos: the commit *)
(*              rewrites the tables from the candidate;                    *)
(*   bindings   the provider configuration, of which a connection's proxy  *)
(*              pool is kept: the commit updates the changed row;          *)
(*   pools      proxy pools: the control API commits the row before it     *)
(*              asks for the gate, and the update re-reads the table.      *)
(* A token renewal (tokens) changes a sealed row and no snapshot.          *)
(*                                                                         *)
(* Each writer is one control request, so what a part holds is told by the *)
(* writers whose change it carries.                                        *)
(***************************************************************************)
EXTENDS Naturals

CONSTANTS Writers,      \* control requests and background saves
          Connections,  \* provider connections
          Pools,        \* proxy pool ids
          MaxCrashes    \* bound: restarts in a run

ASSUME ConfigAssumption ==
    /\ MaxCrashes \in Nat
    /\ 0 \notin Writers \cup Pools

Nobody == 0
NoPool == 0

\* A pool's row: who wrote or deleted it last, and whether it is there.
Row == [by : Writers \cup {Nobody}, live : BOOLEAN]
Binding == [Connections -> Pools \cup {NoPool}]
Snapshot == [general : SUBSET Writers, bindings : Binding,
             pools : [Pools -> Row], revision : Nat]

Config(general, bindings, pools, revision) ==
    [general |-> general, bindings |-> bindings, pools |-> pools, revision |-> revision]

Change ==
    [kind : {"none", "settings", "token"}]
      \cup [kind : {"bind"}, connection : Connections, pool : Pools \cup {NoPool}]
      \cup [kind : {"put", "delete"}, pool : Pools]

VARIABLES
    table,      \* SQLite: a snapshot's parts
    tokens,     \* SQLite: writers whose token renewal is stored
    active,     \* Manager.active
    gate,       \* Manager.mutation: its holder, or Nobody
    pc,         \* where each writer stands
    change,     \* what each writer asks for
    candidate,  \* the compiled candidate of each writer under the gate
    announced,  \* the revision of the last config.updated event
    crashes     \* history: restarts so far

vars == <<table, tokens, active, gate, pc, change, candidate, announced, crashes>>

-----------------------------------------------------------------------------
(* States of a writer *)

Holding == {"locked", "built", "renewing", "committed"}

\* "unserved": the pool row is committed and the request failed after it.
\* "crashed": the process stopped under the request.
Ended == {"ok", "failed", "unserved", "crashed"}
Succeeded == {"announcing", "ok"}
States == {"idle", "editing", "waiting"} \cup Holding \cup Succeeded \cup Ended

Settings(w) == change[w].kind = "settings"
Token(w) == change[w].kind = "token"
Bind(w) == change[w].kind = "bind"
PoolChange(w) == change[w].kind \in {"put", "delete"}

Bound(p) == \E c \in Connections : table.bindings[c] = p

\* Broken variants of the definitions below; no action uses them.
GateIgnored(w) == gate' = w
DeletedUnchecked(p) == table.pools[p].live
PoolsKept == active.pools
RewrittenFrom(w) == [general |-> {w}, revision |-> candidate[w].revision]

\* A request waits until the gate's one place is free.
TakeGate(w) == gate = Nobody /\ gate' = w

\* A request that fails under the gate lets it go.
ReleaseGate(w) == gate' = Nobody

\* DeletePoolIfUnbound: the row is there and no connection names it.
Deletable(p) == table.pools[p].live /\ ~Bound(p)

\* The foreign key of provider_connections.proxy_pool_id.
KeyHolds(p) == p # NoPool => table.pools[p].live

\* RefreshPoolBindings reads the pools of the table.
ReadPools == table.pools

NextRevision == active.revision + 1

\* The part of the tables that a commit rewrites from the candidate.
Rewritten(w) == [general |-> candidate[w].general, revision |-> candidate[w].revision]

Init ==
    /\ table \in [general : {{}}, bindings : Binding,
                  pools : [Pools -> [by : {Nobody}, live : BOOLEAN]], revision : {0}]
    /\ \A c \in Connections : KeyHolds(table.bindings[c])
    /\ active = table
    /\ tokens = {}
    /\ gate = Nobody
    /\ pc = [w \in Writers |-> "idle"]
    /\ change = [w \in Writers |-> [kind |-> "none"]]
    /\ candidate = [w \in Writers |-> table]
    /\ announced = 0
    /\ crashes = 0

Goto(w, to) == pc' = [pc EXCEPT ![w] = to]

-----------------------------------------------------------------------------
(* Before the gate *)

\* SetSettings and the other callers of Update, UpdateProviders with a changed
\* binding (SetConnectionProxy) or with sealed material only (RotateSecret).
Begin(w) ==
    /\ pc[w] = "idle"
    /\ \E ch \in Change :
          /\ ch.kind \in {"settings", "token", "bind"}
          /\ change' = [change EXCEPT ![w] = ch]
    /\ Goto(w, "waiting")
    /\ UNCHANGED <<table, tokens, active, gate, candidate, announced, crashes>>

\* A pool's id is fresh until its row is written: nobody else names it.
Fresh(p) ==
    /\ table.pools[p] = [by |-> Nobody, live |-> FALSE]
    /\ \A v \in Writers : change[v].kind \in {"put", "delete"} => change[v].pool # p

\* PUT reads the row it edits first, POST creates one; DELETE reads nothing.
BeginPool(w) ==
    /\ pc[w] = "idle"
    /\ \E ch \in Change :
          /\ \/ ch.kind = "put" /\ (table.pools[ch.pool].live \/ Fresh(ch.pool))
             \/ ch.kind = "delete" /\ ~Fresh(ch.pool)
          /\ change' = [change EXCEPT ![w] = ch]
    /\ Goto(w, "editing")
    /\ UNCHANGED <<table, tokens, active, gate, candidate, announced, crashes>>

WriteRow(w, live) ==
    table' = Config(table.general, table.bindings,
                    [table.pools EXCEPT ![change[w].pool] = [by |-> w, live |-> live]],
                    table.revision)

\* PutPool commits the row: an upsert, so a row deleted meanwhile returns.
PutPool(w) ==
    /\ pc[w] = "editing" /\ change[w].kind = "put"
    /\ WriteRow(w, TRUE)
    /\ Goto(w, "waiting")
    /\ UNCHANGED <<tokens, active, gate, change, candidate, announced, crashes>>

\* DeletePoolIfUnbound: the check and the delete are one transaction.
DeletePool(w) ==
    /\ pc[w] = "editing" /\ change[w].kind = "delete"
    /\ Deletable(change[w].pool)
    /\ WriteRow(w, FALSE)
    /\ Goto(w, "waiting")
    /\ UNCHANGED <<tokens, active, gate, change, candidate, announced, crashes>>

\* The pool is bound or missing, or its transaction fails.
PoolRefused(w) ==
    /\ pc[w] = "editing"
    /\ Goto(w, "failed")
    /\ UNCHANGED <<table, tokens, active, gate, change, candidate, announced, crashes>>

-----------------------------------------------------------------------------
(* Under the gate *)

\* lockMutation.
Lock(w) ==
    /\ pc[w] = "waiting"
    /\ TakeGate(w)
    /\ Goto(w, "locked")
    /\ UNCHANGED <<table, tokens, active, change, candidate, announced, crashes>>

Refused(w) == IF PoolChange(w) THEN "unserved" ELSE "failed"

\* The request's context ends while it waits, or just as it has the gate.
Cancelled(w) ==
    /\ pc[w] = "waiting"
    /\ Goto(w, Refused(w))
    /\ UNCHANGED <<table, tokens, active, gate, change, candidate, announced, crashes>>

Rebind(w, bindings) == [bindings EXCEPT ![change[w].connection] = change[w].pool]
Rebound(w) == Rebind(w, active.bindings)

Changed(w) ==
    Config(IF Settings(w) THEN active.general \cup {w} ELSE active.general,
           IF Bind(w) THEN Rebound(w)
           ELSE IF PoolChange(w) THEN table.bindings ELSE active.bindings,
           IF PoolChange(w) THEN ReadPools ELSE active.pools,
           NextRevision)

\* UpdateProviders: the provider configuration stays what it is.
SameConfiguration(w) == Token(w) \/ (Bind(w) /\ Rebound(w) = active.bindings)

\* The candidate is copied from the snapshot, changed and compiled.  A refresh
\* reads bindings and pools; only a holder of the gate writes a binding.
Build(w) ==
    /\ pc[w] = "locked" /\ ~SameConfiguration(w)
    /\ candidate' = [candidate EXCEPT ![w] = Changed(w)]
    /\ Goto(w, "built")
    /\ UNCHANGED <<table, tokens, active, gate, change, announced, crashes>>

\* updateLocked's transaction: the provider row, then the rewritten tables.
Commit(w) ==
    /\ pc[w] = "built"
    /\ Bind(w) => KeyHolds(change[w].pool)
    /\ table' = Config(Rewritten(w).general,
                       IF Bind(w) THEN Rebind(w, table.bindings) ELSE table.bindings,
                       table.pools, Rewritten(w).revision)
    /\ Goto(w, "committed")
    /\ UNCHANGED <<tokens, active, gate, change, candidate, announced, crashes>>

\* The compiled snapshot is published and the gate let go.  SetSettings and the
\* pool handlers announce the revision afterwards.
Publish(w) ==
    /\ pc[w] = "committed"
    /\ active' = candidate[w]
    /\ gate' = Nobody
    /\ Goto(w, IF Bind(w) THEN "ok" ELSE "announcing")
    /\ UNCHANGED <<table, tokens, change, candidate, announced, crashes>>

\* UpdateProviders with an unchanged configuration: persist and commit alone.
SkipBuild(w) ==
    /\ pc[w] = "locked" /\ SameConfiguration(w)
    /\ Goto(w, "renewing")
    /\ UNCHANGED <<table, tokens, active, gate, change, candidate, announced, crashes>>

Renew(w) ==
    /\ pc[w] = "renewing"
    /\ Bind(w) => KeyHolds(change[w].pool)
    /\ tokens' = IF Token(w) THEN tokens \cup {w} ELSE tokens
    /\ table' = Config(table.general,
                       IF Bind(w) THEN Rebind(w, table.bindings) ELSE table.bindings,
                       table.pools, table.revision)
    /\ gate' = Nobody
    /\ Goto(w, "ok")
    /\ UNCHANGED <<active, change, candidate, announced, crashes>>

\* The mutation, its compilation, the transaction or the commit fails.
Abandon(w) ==
    /\ pc[w] \in Holding \ {"committed"}
    /\ ReleaseGate(w)
    /\ Goto(w, Refused(w))
    /\ UNCHANGED <<table, tokens, active, change, candidate, announced, crashes>>

\* The handler publishes config.updated, after Update has returned.
Announce(w) ==
    /\ pc[w] = "announcing"
    /\ announced' = candidate[w].revision
    /\ Goto(w, "ok")
    /\ UNCHANGED <<table, tokens, active, gate, change, candidate, crashes>>

-----------------------------------------------------------------------------

\* The process stops at any point; the next one compiles what SQLite holds.
Crash ==
    /\ crashes < MaxCrashes
    /\ crashes' = crashes + 1
    /\ active' = table
    /\ gate' = Nobody
    /\ pc' = [w \in Writers |-> IF pc[w] \in Ended \cup {"idle"} THEN pc[w] ELSE "crashed"]
    /\ UNCHANGED <<table, tokens, change, candidate, announced>>

\* What a request under way does unless its context ends.
Continue(w) ==
    \/ PutPool(w) \/ DeletePool(w) \/ PoolRefused(w)
    \/ Lock(w) \/ Build(w) \/ Commit(w) \/ Publish(w)
    \/ SkipBuild(w) \/ Renew(w) \/ Abandon(w) \/ Announce(w)

Step(w) == Begin(w) \/ BeginPool(w) \/ Cancelled(w) \/ Continue(w)

Next == Crash \/ \E w \in Writers : Step(w)

Spec == Init /\ [][Next]_vars

-----------------------------------------------------------------------------
(* Properties *)

\* The variables hold what the Go types and the protocol allow, and the gate is
\* held by the one writer that is past lockMutation.
TypeOK ==
    /\ table \in Snapshot /\ active \in Snapshot
    /\ tokens \subseteq Writers
    /\ gate \in Writers \cup {Nobody}
    /\ pc \in [Writers -> States]
    /\ change \in [Writers -> Change]
    /\ candidate \in [Writers -> Snapshot]
    /\ announced \in Nat /\ crashes \in 0 .. MaxCrashes
    /\ \A w \in Writers : gate = w <=> pc[w] \in Holding

\* What requests are served is what a restart would serve, except between a
\* commit and its publication (SPEC 7): neither the rewrite of the settings
\* nor the row update of a binding loses what another writer committed.
ServesDurable ==
    (\A w \in Writers : pc[w] # "committed") =>
        /\ active.general = table.general
        /\ active.bindings = table.bindings
        /\ active.revision = table.revision

\* A settings change or token renewal that succeeded is in SQLite for good and
\* one that failed is nowhere, whatever ran or crashed in between (SPEC 7: if
\* commit fails, discard candidate and retain old snapshot).
AllOrNothing ==
    \A w \in Writers :
        /\ Settings(w) /\ pc[w] \in Succeeded => w \in table.general
        /\ Settings(w) /\ pc[w] = "failed" => w \notin table.general \cup active.general
        /\ Token(w) /\ pc[w] = "ok" => w \in tokens
        /\ Token(w) /\ pc[w] = "failed" => w \notin tokens

\* A pool edit that was answered with success is in the snapshot, until a later
\* edit of the pool is committed: no concurrent refresh, which may have read
\* the pools before the edit, publishes over it (publishProxyPools).
PoolAnswerServed ==
    \A w \in Writers : PoolChange(w) /\ pc[w] \in Succeeded =>
        LET p == change[w].pool
        IN  table.pools[p].by = w => active.pools[p] = table.pools[p]

\* No stored connection names a pool that is gone (DeletePoolIfUnbound: a
\* binding created concurrently cannot be silently unbound).
BindingsResolve ==
    \A c \in Connections : KeyHolds(table.bindings[c])

\* A running process never serves two configurations under one revision, and
\* never goes back to an older one.
PublishedByRevision ==
    [][crashes' = crashes /\ active' # active => active'.revision = active.revision + 1]_vars

\* A client that reads the configuration on config.updated finds the revision
\* the event told, or a later one, even from a process started since: the
\* revision is durable and published before the event (updateLocked, handlers).
ToldIsServed == announced <= active.revision
=============================================================================
