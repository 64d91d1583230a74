------------------------ MODULE ConfigManagerProofs ------------------------
(***************************************************************************)
(* Proofs about ConfigManager, for any set of requests, connections and    *)
(* pools.  ServesDurable and AllOrNothing are not inductive: they rest on  *)
(* what a candidate built under the gate is, compared with the snapshot it *)
(* was copied from (CandidateInv), which stays because nobody else         *)
(* publishes while the gate is held.                                       *)
(***************************************************************************)
EXTENDS ConfigManager, TLAPS

Compiled == {"built", "committed"}

\* A compiled candidate is the snapshot with the writer's own change.
CandidateInv ==
    \A w \in Writers : pc[w] \in Compiled =>
        /\ candidate[w].revision = active.revision + 1
        /\ candidate[w].general = IF Settings(w) THEN active.general \cup {w} ELSE active.general
        /\ candidate[w].bindings = IF Bind(w) THEN Rebound(w) ELSE active.bindings

\* Between commit and publication SQLite holds the candidate.
CommittedInv ==
    \A w \in Writers : pc[w] = "committed" =>
        /\ table.general = candidate[w].general
        /\ table.bindings = candidate[w].bindings
        /\ table.revision = candidate[w].revision

\* Where each kind of request can stand.
KindInv ==
    \A w \in Writers :
        /\ pc[w] = "editing" => PoolChange(w)
        /\ pc[w] = "renewing" => SameConfiguration(w)
        /\ Token(w) => pc[w] \notin Compiled \cup {"editing", "announcing"}

\* Only a request past its commit is in what is stored or served.
OwnedInv ==
    \A w \in Writers :
        /\ w \in table.general \cup active.general =>
              Settings(w) /\ pc[w] \in {"committed", "announcing", "ok", "crashed"}
        /\ w \in tokens => Token(w) /\ pc[w] = "ok"
        /\ Settings(w) /\ pc[w] \in Succeeded \cup {"committed"} => w \in table.general
        /\ Token(w) /\ pc[w] = "ok" => w \in tokens

IInv == TypeOK /\ ServesDurable /\ CandidateInv /\ CommittedInv /\ KindInv /\ OwnedInv

\* The latest edit of a pool, once refreshed, is in the snapshot and in every
\* candidate that may replace it.
PoolInv ==
    \A w \in Writers : PoolChange(w) =>
        LET p == change[w].pool
        IN  table.pools[p].by = w =>
              /\ pc[w] \in Compiled => candidate[w].pools[p] = table.pools[p]
              /\ pc[w] \in Succeeded =>
                    /\ active.pools[p] = table.pools[p]
                    /\ \A v \in Writers : pc[v] \in Compiled =>
                          candidate[v].pools[p] = table.pools[p]

\* A revision about to be announced is one that is served already.
ToldInv ==
    /\ ToldIsServed
    /\ \A w \in Writers : pc[w] = "announcing" => candidate[w].revision <= active.revision

-----------------------------------------------------------------------------

\* The initial states are well typed.
LEMMA TypeInit == Init => TypeOK
BY ConfigAssumption DEF Init, TypeOK, Snapshot, Row, Binding, Change, States, Holding,
     Succeeded, Ended, Nobody, NoPool

\* Every step keeps the types, and the gate with the writer under it.
LEMMA TypeStep == TypeOK /\ [Next]_vars => TypeOK'
<1> SUFFICES ASSUME TypeOK, [Next]_vars PROVE TypeOK'
    OBVIOUS
<1> USE ConfigAssumption DEF Nobody, NoPool
<1>1. CASE Crash
      BY <1>1 DEF Crash, TypeOK, States, Holding, Succeeded, Ended
<1>2. ASSUME NEW w \in Writers, Step(w) PROVE TypeOK'
      <2> USE DEF TypeOK, Goto
      <2>1. CASE Begin(w)
            BY <2>1 DEF Begin, States, Holding
      <2>2. CASE BeginPool(w)
            BY <2>2 DEF BeginPool, States, Holding
      <2>3. CASE (PutPool(w) \/ DeletePool(w)) /\ pc[w] = "editing" /\ PoolChange(w)
            <3>1. change[w].pool \in Pools
                  BY <2>3 DEF PoolChange, Change
            <3>2. PICK b \in BOOLEAN : WriteRow(w, b)
                  BY <2>3 DEF PutPool, DeletePool
            <3>3. table' \in Snapshot
                  BY <3>1, <3>2 DEF WriteRow, Config, Snapshot, Row
            <3> QED BY <2>3, <3>3 DEF PutPool, DeletePool, States, Holding
      <2>4. CASE PoolRefused(w)
            BY <2>4 DEF PoolRefused, States, Holding, Ended
      <2>5. CASE Lock(w)
            BY <2>5 DEF Lock, TakeGate, States, Holding
      <2>6. CASE Cancelled(w)
            BY <2>6 DEF Cancelled, Refused, States, Holding, Ended
      <2>7. CASE Build(w)
            <3>1. Changed(w) \in Snapshot
                  <4>1. active.revision + 1 \in Nat
                        BY DEF Snapshot
                  <4>2. Bind(w) => Rebound(w) \in Binding
                        BY DEF Bind, Rebound, Rebind, Change, Snapshot, Binding
                  <4> QED BY <4>1, <4>2 DEF Changed, Config, NextRevision, ReadPools, Snapshot
            <3> QED BY <2>7, <3>1 DEF Build, States, Holding
      <2>8. CASE Commit(w)
            <3>1. table' \in Snapshot
                  <4>1. Bind(w) => Rebind(w, table.bindings) \in Binding
                        BY DEF Bind, Rebind, Change, Snapshot, Binding
                  <4> QED BY <2>8, <4>1 DEF Commit, Config, Rewritten, Snapshot
            <3> QED BY <2>8, <3>1 DEF Commit, States, Holding
      <2>9. CASE Publish(w)
            BY <2>9 DEF Publish, States, Holding, Succeeded, Ended
      <2>10. CASE SkipBuild(w)
            BY <2>10 DEF SkipBuild, States, Holding
      <2>11. CASE Renew(w)
            <3>1. table' \in Snapshot
                  <4>1. Bind(w) => Rebind(w, table.bindings) \in Binding
                        BY DEF Bind, Rebind, Change, Snapshot, Binding
                  <4> QED BY <2>11, <4>1 DEF Renew, Config, Snapshot
            <3> QED BY <2>11, <3>1 DEF Renew, States, Holding, Ended
      <2>12. CASE Abandon(w)
            BY <2>12 DEF Abandon, ReleaseGate, Refused, States, Holding, Ended
      <2>13. CASE Announce(w)
            BY <2>13 DEF Announce, Snapshot, States, Holding, Ended
      <2> QED BY <1>2, <2>1, <2>2, <2>3, <2>4, <2>5, <2>6, <2>7, <2>8, <2>9, <2>10, <2>11,
                <2>12, <2>13 DEF Step, Continue, PutPool, DeletePool, PoolChange
<1>3. CASE UNCHANGED vars
      BY <1>3 DEF vars, TypeOK
<1> QED BY <1>1, <1>2, <1>3 DEF Next

-----------------------------------------------------------------------------

\* The gate has one holder.
LEMMA OneHolder == ASSUME TypeOK, NEW w \in Writers, pc[w] \in Holding
                   PROVE  \A v \in Writers : pc[v] \in Holding => v = w
BY DEF TypeOK

\* The initial states satisfy the invariants.
LEMMA InvInit == Init => IInv /\ PoolInv /\ BindingsResolve
<1> SUFFICES ASSUME Init PROVE IInv /\ PoolInv /\ BindingsResolve
    OBVIOUS
<1>1. TypeOK
      BY TypeInit
<1>2. /\ \A w \in Writers : pc[w] = "idle" /\ ~Settings(w) /\ ~Token(w) /\ ~PoolChange(w)
      /\ active = table /\ table.general = {} /\ tokens = {}
      BY DEF Init, Settings, Token, PoolChange
<1> QED BY <1>1, <1>2 DEF Init, IInv, PoolInv, BindingsResolve, ServesDurable, CandidateInv,
          CommittedInv, KindInv, OwnedInv, Compiled, Succeeded

\* A step that changes neither what is stored or served nor any candidate, and
\* moves one writer between states that the invariants treat alike.
Quiet(w) ==
    /\ UNCHANGED <<table, tokens, active, candidate>>
    /\ \A v \in Writers \ {w} : pc'[v] = pc[v] /\ change'[v] = change[v]
    /\ pc[w] \notin {"committed", "announcing", "ok", "crashed"} /\ pc'[w] \notin Compiled \cup Succeeded
    /\ \/ change'[w] = change[w] /\ pc[w] # "idle" /\ pc'[w] \notin {"editing", "renewing"}
       \/ pc[w] = "idle" /\ pc'[w] = "waiting" /\ change'[w].kind \in {"settings", "token", "bind"}
       \/ pc[w] = "idle" /\ pc'[w] = "editing" /\ change'[w].kind \in {"put", "delete"}
       \/ change'[w] = change[w] /\ pc'[w] = "renewing" /\ SameConfiguration(w)

\* A quiet step preserves the invariants.
LEMMA QuietStep == ASSUME IInv, TypeOK', NEW w \in Writers, Quiet(w)
                   PROVE  IInv'
<1> USE DEF IInv, Quiet
<1>1. ServesDurable'
      BY DEF ServesDurable, Compiled
<1>2. CandidateInv'
      BY DEF CandidateInv, Compiled, Settings, Bind, Rebound, Rebind
<1>3. CommittedInv'
      BY DEF CommittedInv, Compiled
<1>4. KindInv'
      BY DEF KindInv, Compiled, Succeeded, PoolChange, Token, Bind, SameConfiguration, Rebound, Rebind
<1>5. OwnedInv'
      BY DEF OwnedInv, Compiled, Succeeded, Settings, Token
<1> QED BY <1>1, <1>2, <1>3, <1>4, <1>5

\* Every step preserves the invariant.
LEMMA InvStep == IInv /\ [Next]_vars => IInv'
<1> SUFFICES ASSUME IInv, [Next]_vars PROVE IInv'
    OBVIOUS
<1>0. TypeOK /\ TypeOK'
      BY TypeStep DEF IInv
<1>1. CASE UNCHANGED vars
      <2> QED BY <1>0, <1>1 DEF vars, IInv, ServesDurable, CandidateInv, CommittedInv, KindInv,
                OwnedInv, Settings, Bind, Token, PoolChange, SameConfiguration, Rebound, Rebind
<1>2. CASE Crash
      <2>1. /\ active' = table /\ table' = table /\ tokens' = tokens /\ change' = change
            /\ \A w \in Writers : pc'[w] = IF pc[w] \in Ended \cup {"idle"} THEN pc[w] ELSE "crashed"
            BY <1>2 DEF Crash
      <2>2. \A w \in Writers : /\ pc'[w] \notin Compiled \cup {"committed", "editing", "renewing", "announcing"}
                               /\ pc'[w] = "ok" <=> pc[w] = "ok"
            BY <2>1 DEF Compiled, Ended
      <2>3. ServesDurable'
            BY <2>1 DEF ServesDurable
      <2>4. OwnedInv'
            <3>1. ASSUME NEW w \in Writers, w \in table.general PROVE Settings(w) /\ pc'[w] \in {"ok", "crashed"}
                  BY <2>1, <3>1 DEF IInv, OwnedInv, Ended
            <3>2. ASSUME NEW w \in Writers, pc'[w] \in Succeeded \cup {"committed"} PROVE pc[w] = "ok"
                  BY <2>2, <3>2 DEF Succeeded
            <3> QED BY <2>1, <2>2, <3>1, <3>2 DEF IInv, OwnedInv, Succeeded, Settings, Token
      <2>5. CandidateInv' /\ CommittedInv'
            BY <2>2 DEF CandidateInv, CommittedInv, Compiled
      <2>6. KindInv'
            BY <2>2 DEF KindInv
      <2> QED BY <1>0, <2>3, <2>4, <2>5, <2>6 DEF IInv
<1>3. ASSUME NEW w \in Writers, Step(w) PROVE IInv'
      <2> USE DEF Goto
      <2>0. pc \in [Writers -> States] /\ change \in [Writers -> Change] /\ candidate \in [Writers -> Snapshot]
            BY <1>0 DEF TypeOK
      <2>1. CASE Begin(w) \/ BeginPool(w) \/ PoolRefused(w) \/ Lock(w) \/ Cancelled(w) \/ SkipBuild(w) \/ Abandon(w)
            <3>1. Quiet(w)
                  BY <2>0, <2>1 DEF Begin, BeginPool, PoolRefused, Lock, Cancelled, SkipBuild, Abandon,
                     Quiet, Refused, Holding, Compiled, Succeeded
            <3> QED BY <1>0, <3>1, QuietStep
      <2>2. CASE PutPool(w) \/ DeletePool(w)
            <3>1. /\ table'.general = table.general /\ table'.bindings = table.bindings
                  /\ table'.revision = table.revision
                  /\ active' = active /\ tokens' = tokens /\ candidate' = candidate /\ change' = change
                  /\ pc[w] = "editing" /\ pc' = [pc EXCEPT ![w] = "waiting"]
                  BY <2>2 DEF PutPool, DeletePool, WriteRow, Config
            <3>2. PoolChange(w) /\ ~Settings(w) /\ ~Token(w)
                  BY <3>1 DEF IInv, KindInv, PoolChange, Settings, Token
            <3> QED BY <1>0, <2>0, <3>1, <3>2 DEF IInv, ServesDurable, CandidateInv, CommittedInv, KindInv, OwnedInv,
                      Compiled, Succeeded, Settings, Bind, Token, PoolChange, SameConfiguration, Rebound, Rebind
      <2>3. CASE Build(w)
            <3>1. /\ table' = table /\ active' = active /\ tokens' = tokens /\ change' = change
                  /\ pc[w] = "locked" /\ pc' = [pc EXCEPT ![w] = "built"]
                  /\ \A v \in Writers \ {w} : candidate'[v] = candidate[v]
                  /\ candidate'[w] = Changed(w)
                  /\ ~SameConfiguration(w)
                  BY <2>0, <2>3 DEF Build
            <3>2. table.bindings = active.bindings
                  BY <1>0, <3>1, OneHolder DEF IInv, ServesDurable, Holding
            <3>3. CandidateInv'
                  <4>1. /\ candidate'[w].revision = active.revision + 1
                        /\ candidate'[w].general = IF Settings(w) THEN active.general \cup {w} ELSE active.general
                        /\ candidate'[w].bindings = IF Bind(w) THEN Rebound(w) ELSE active.bindings
                        BY <3>1, <3>2 DEF Changed, Config, NextRevision
                  <4>2. \A v \in Writers : /\ Settings(v)' <=> Settings(v)
                                           /\ Bind(v)' <=> Bind(v)
                                           /\ Rebound(v)' = Rebound(v)
                        BY <3>1 DEF Settings, Bind, Rebound, Rebind
                  <4>3. \A v \in Writers \ {w} : pc'[v] = pc[v]
                        BY <2>0, <3>1
                  <4> QED BY <3>1, <4>1, <4>2, <4>3 DEF IInv, CandidateInv
            <3>4. CommittedInv' /\ ServesDurable' /\ OwnedInv'
                  BY <2>0, <3>1 DEF IInv, CommittedInv, ServesDurable, OwnedInv, Settings, Token, Succeeded
            <3>5. KindInv'
                  BY <2>0, <3>1 DEF IInv, KindInv, Compiled, SameConfiguration, Settings, Token, Bind,
                     PoolChange, Rebound, Rebind
            <3> QED BY <1>0, <3>3, <3>4, <3>5 DEF IInv
      <2>4. CASE Commit(w)
            <3>1. /\ active' = active /\ tokens' = tokens /\ change' = change /\ candidate' = candidate
                  /\ pc[w] = "built" /\ pc' = [pc EXCEPT ![w] = "committed"]
                  BY <2>4 DEF Commit
            <3>2. \A v \in Writers : pc[v] \in Holding => v = w
                  BY <1>0, <3>1, OneHolder DEF Holding
            <3>3. table.general = active.general /\ table.bindings = active.bindings
                  BY <3>1, <3>2 DEF IInv, ServesDurable, Holding
            <3>4. /\ table'.general = candidate[w].general /\ table'.revision = candidate[w].revision
                  /\ table'.bindings = candidate[w].bindings
                  BY <2>4, <3>1, <3>3 DEF Commit, Config, Rewritten, IInv, CandidateInv, Compiled, Rebound
            <3>5. CandidateInv' /\ KindInv'
                  BY <2>0, <3>1 DEF IInv, CandidateInv, KindInv, Compiled, SameConfiguration, Settings, Token,
                     Bind, PoolChange, Rebound, Rebind
            <3>6. CommittedInv' /\ ServesDurable'
                  BY <2>0, <3>1, <3>2, <3>4 DEF CommittedInv, ServesDurable, Holding
            <3>7. OwnedInv'
                  <4>1. table'.general = IF Settings(w) THEN table.general \cup {w} ELSE table.general
                        BY <3>1, <3>3, <3>4 DEF IInv, CandidateInv, Compiled
                  <4> QED BY <2>0, <3>1, <3>3, <4>1 DEF IInv, OwnedInv, Settings, Token, Succeeded
            <3> QED BY <1>0, <3>5, <3>6, <3>7 DEF IInv
      <2>5. CASE Publish(w)
            <3>1. /\ active' = candidate[w] /\ table' = table /\ tokens' = tokens /\ change' = change
                  /\ candidate' = candidate
                  /\ pc[w] = "committed" /\ pc' = [pc EXCEPT ![w] = IF Bind(w) THEN "ok" ELSE "announcing"]
                  BY <2>5 DEF Publish
            <3>2. \A v \in Writers : pc[v] \in Holding => v = w
                  BY <1>0, <3>1, OneHolder DEF Holding
            <3>3. /\ active'.general = table.general /\ active'.bindings = table.bindings
                  /\ active'.revision = table.revision
                  BY <3>1 DEF IInv, CommittedInv
            <3>4. \A v \in Writers : pc'[v] \notin Holding
                  BY <2>0, <3>1, <3>2 DEF Holding
            <3>5. ServesDurable' /\ CandidateInv' /\ CommittedInv'
                  BY <3>1, <3>3, <3>4 DEF ServesDurable, CandidateInv, CommittedInv, Compiled, Holding
            <3>6. KindInv'
                  BY <2>0, <3>1, <3>4 DEF IInv, KindInv, Compiled, Holding, Token, Bind, PoolChange
            <3>7. OwnedInv'
                  BY <2>0, <3>1, <3>3 DEF IInv, OwnedInv, KindInv, Compiled, Settings, Token, Bind, Succeeded
            <3> QED BY <1>0, <3>5, <3>6, <3>7 DEF IInv
      <2>6. CASE Renew(w)
            <3>1. /\ active' = active /\ change' = change /\ candidate' = candidate
                  /\ pc[w] = "renewing" /\ pc' = [pc EXCEPT ![w] = "ok"]
                  /\ tokens' = IF Token(w) THEN tokens \cup {w} ELSE tokens
                  /\ table'.general = table.general /\ table'.revision = table.revision
                  BY <2>6 DEF Renew, Config
            <3>2. \A v \in Writers : pc[v] \in Holding => v = w
                  BY <1>0, <3>1, OneHolder DEF Holding
            <3>3. table.bindings = active.bindings /\ SameConfiguration(w) /\ ~Settings(w)
                  BY <3>1, <3>2 DEF IInv, ServesDurable, KindInv, Holding, SameConfiguration, Token, Bind, Settings
            <3>4. table'.bindings = table.bindings
                  BY <2>6, <3>3 DEF Renew, Config, SameConfiguration, Rebound, Token, Bind
            <3>5. ServesDurable' /\ CandidateInv' /\ CommittedInv'
                  BY <2>0, <3>1, <3>4 DEF IInv, ServesDurable, CandidateInv, CommittedInv, Compiled, Settings,
                     Bind, Rebound, Rebind
            <3>6. KindInv'
                  BY <2>0, <3>1 DEF IInv, KindInv, Compiled, SameConfiguration, Token, Bind, PoolChange,
                     Rebound, Rebind
            <3>7. OwnedInv'
                  BY <2>0, <3>1, <3>3 DEF IInv, OwnedInv, Settings, Token, Succeeded
            <3> QED BY <1>0, <3>5, <3>6, <3>7 DEF IInv
      <2>7. CASE Announce(w)
            <3>1. /\ UNCHANGED <<table, tokens, active, candidate, change>>
                  /\ pc[w] = "announcing" /\ pc' = [pc EXCEPT ![w] = "ok"]
                  BY <2>7 DEF Announce
            <3> QED BY <1>0, <2>0, <3>1 DEF IInv, ServesDurable, CandidateInv, CommittedInv, KindInv, OwnedInv,
                      Compiled, Succeeded, Settings, Bind, Token, PoolChange, SameConfiguration, Rebound, Rebind
      <2> QED BY <1>3, <2>1, <2>2, <2>3, <2>4, <2>5, <2>6, <2>7 DEF Step, Continue
<1> QED BY <1>1, <1>2, <1>3 DEF Next

-----------------------------------------------------------------------------

\* Every step keeps the latest refreshed edit of a pool in the snapshot.
LEMMA PoolStep == IInv /\ PoolInv /\ [Next]_vars => PoolInv'
<1> SUFFICES ASSUME IInv, PoolInv, [Next]_vars PROVE PoolInv'
    OBVIOUS
<1>0. TypeOK /\ TypeOK'
      BY TypeStep DEF IInv
<1>1. CASE UNCHANGED vars
      BY <1>1 DEF vars, PoolInv, PoolChange
<1>2. CASE Crash
      <2>1. /\ active' = table /\ table' = table /\ change' = change
            /\ \A w \in Writers : pc'[w] \notin Compiled
            BY <1>2 DEF Crash, Compiled, Ended
      <2> QED BY <2>1 DEF PoolInv, PoolChange
<1>3. ASSUME NEW w \in Writers, Step(w) PROVE PoolInv'
      <2> USE DEF Goto
      <2>0. pc \in [Writers -> States] /\ change \in [Writers -> Change] /\ candidate \in [Writers -> Snapshot]
            BY <1>0 DEF TypeOK
      <2>1. CASE Begin(w) \/ BeginPool(w) \/ PoolRefused(w) \/ Lock(w) \/ Cancelled(w) \/ SkipBuild(w) \/ Abandon(w)
            <3>1. /\ UNCHANGED <<table, active, candidate>>
                  /\ \A v \in Writers \ {w} : pc'[v] = pc[v] /\ change'[v] = change[v]
                  /\ pc'[w] \notin Compiled \cup Succeeded
                  BY <2>0, <2>1 DEF Begin, BeginPool, PoolRefused, Lock, Cancelled, SkipBuild, Abandon,
                     Refused, Holding, Compiled, Succeeded
            <3>2. \A v \in Writers : pc'[v] \in Compiled \cup Succeeded => v # w
                  BY <3>1
            <3> QED BY <3>1, <3>2 DEF PoolInv, PoolChange
      <2>2. CASE PutPool(w) \/ DeletePool(w)
            <3>0. PICK live \in BOOLEAN : WriteRow(w, live)
                  BY <2>2 DEF PutPool, DeletePool
            <3>1. /\ table'.pools = [table.pools EXCEPT ![change[w].pool] = [by |-> w, live |-> live]]
                  /\ active' = active /\ candidate' = candidate /\ change' = change
                  /\ pc' = [pc EXCEPT ![w] = "waiting"]
                  BY <2>2, <3>0 DEF PutPool, DeletePool, WriteRow, Config
            <3>2. table.pools \in [Pools -> Row]
                  BY <1>0 DEF TypeOK, Snapshot
            <3>3. \A p \in Pools : \/ p = change[w].pool /\ table'.pools[p].by = w
                                   \/ table'.pools[p] = table.pools[p]
                  BY <3>1, <3>2 DEF Row
            <3>4. \A v \in Writers : PoolChange(v) => change[v].pool \in Pools
                  BY <2>0 DEF PoolChange, Change
            <3>5. /\ \A v \in Writers \ {w} : pc'[v] = pc[v]
                  /\ pc'[w] \notin Compiled \cup Succeeded
                  BY <2>0, <3>1 DEF Compiled, Succeeded
            <3> QED BY <3>1, <3>3, <3>4, <3>5 DEF PoolInv, PoolChange
      <2>3. CASE Build(w)
            <3>1. /\ table' = table /\ active' = active /\ change' = change
                  /\ pc[w] = "locked" /\ pc'[w] = "built"
                  /\ \A v \in Writers \ {w} : candidate'[v] = candidate[v] /\ pc'[v] = pc[v]
                  /\ candidate'[w].pools = IF PoolChange(w) THEN table.pools ELSE active.pools
                  BY <2>0, <2>3 DEF Build, Changed, Config, ReadPools
            <3> QED BY <3>1 DEF PoolInv, PoolChange, Compiled, Succeeded
      <2>4. CASE Commit(w)
            <3>1. /\ table'.pools = table.pools /\ active' = active /\ change' = change /\ candidate' = candidate
                  /\ pc[w] = "built" /\ pc'[w] = "committed"
                  /\ \A v \in Writers \ {w} : pc'[v] = pc[v]
                  BY <2>0, <2>4 DEF Commit, Config
            <3> QED BY <3>1 DEF PoolInv, PoolChange, Compiled, Succeeded
      <2>5. CASE Publish(w)
            <3>1. /\ table' = table /\ active' = candidate[w] /\ change' = change /\ candidate' = candidate
                  /\ pc[w] = "committed" /\ pc'[w] \in Succeeded /\ pc'[w] \notin Compiled
                  /\ \A v \in Writers \ {w} : pc'[v] = pc[v]
                  BY <2>0, <2>5 DEF Publish, Compiled, Succeeded
            <3>2. \A v \in Writers : pc'[v] \notin Compiled
                  BY <1>0, <3>1, OneHolder DEF Holding, Compiled
            <3> QED BY <3>1, <3>2 DEF PoolInv, PoolChange, Compiled
      <2>6. CASE Renew(w)
            <3>1. /\ table'.pools = table.pools /\ active' = active /\ change' = change /\ candidate' = candidate
                  /\ pc[w] = "renewing" /\ pc'[w] = "ok"
                  /\ \A v \in Writers \ {w} : pc'[v] = pc[v]
                  BY <2>0, <2>6 DEF Renew, Config
            <3>2. ~PoolChange(w)
                  BY <3>1 DEF IInv, KindInv, SameConfiguration, Token, Bind, PoolChange
            <3> QED BY <3>1, <3>2 DEF PoolInv, PoolChange, Compiled, Succeeded
      <2>7. CASE Announce(w)
            <3>1. /\ table' = table /\ active' = active /\ change' = change /\ candidate' = candidate
                  /\ pc[w] = "announcing" /\ pc'[w] = "ok"
                  /\ \A v \in Writers \ {w} : pc'[v] = pc[v]
                  BY <2>0, <2>7 DEF Announce
            <3> QED BY <3>1 DEF PoolInv, PoolChange, Compiled, Succeeded
      <2> QED BY <1>3, <2>1, <2>2, <2>3, <2>4, <2>5, <2>6, <2>7 DEF Step, Continue
<1> QED BY <1>1, <1>2, <1>3 DEF Next

\* Every step keeps the stored bindings resolved.
LEMMA BindingStep == TypeOK /\ BindingsResolve /\ [Next]_vars => BindingsResolve'
<1> SUFFICES ASSUME TypeOK, BindingsResolve, [Next]_vars PROVE BindingsResolve'
    OBVIOUS
<1> USE DEF BindingsResolve, KeyHolds
<1>1. CASE table' = table
      BY <1>1
<1>2. ASSUME NEW w \in Writers, PutPool(w) \/ DeletePool(w) PROVE BindingsResolve'
      <2>1. table' = Config(table.general, table.bindings, table'.pools, table.revision)
            BY <1>2 DEF PutPool, DeletePool, WriteRow, Config
      <2>2. table'.bindings = table.bindings /\ table.bindings \in Binding /\ table.pools \in [Pools -> Row]
            BY <2>1 DEF Config, TypeOK, Snapshot
      <2>3. change[w].pool \in Pools
            BY <1>2 DEF PutPool, DeletePool, TypeOK, Change
      <2>4. CASE PutPool(w)
            <3>1. table'.pools = [table.pools EXCEPT ![change[w].pool] = [by |-> w, live |-> TRUE]]
                  BY <2>4 DEF PutPool, WriteRow, Config
            <3> QED BY <2>2, <2>3, <3>1 DEF Binding, Row
      <2>5. CASE DeletePool(w)
            <3>1. /\ table'.pools = [table.pools EXCEPT ![change[w].pool] = [by |-> w, live |-> FALSE]]
                  /\ ~Bound(change[w].pool)
                  BY <2>5 DEF DeletePool, Deletable, WriteRow, Config
            <3> QED BY <2>2, <2>3, <3>1 DEF Binding, Row, Bound
      <2> QED BY <1>2, <2>4, <2>5
<1>3. ASSUME NEW w \in Writers, Commit(w) \/ Renew(w) PROVE BindingsResolve'
      <2>1. /\ table'.pools = table.pools
            /\ table'.bindings = IF Bind(w) THEN Rebind(w, table.bindings) ELSE table.bindings
            /\ Bind(w) => KeyHolds(change[w].pool)
            BY <1>3 DEF Commit, Renew, Config
      <2>2. table.bindings \in Binding
            BY DEF TypeOK, Snapshot
      <2> QED BY <2>1, <2>2 DEF Rebind, Binding
<1>4. \/ table' = table
      \/ \E w \in Writers : PutPool(w) \/ DeletePool(w) \/ Commit(w) \/ Renew(w)
      BY DEF Next, Step, Continue, vars, Crash, Begin, BeginPool, PoolRefused, Lock, Cancelled, Build, Publish,
         SkipBuild, Abandon, Announce
<1> QED BY <1>1, <1>2, <1>3, <1>4

\* The served revision never decreases, restarts included.
LEMMA RevisionGrows == IInv /\ [Next]_vars => active'.revision >= active.revision
<1> SUFFICES ASSUME IInv, [Next]_vars PROVE active'.revision >= active.revision
    OBVIOUS
<1>1. active.revision \in Nat
      BY DEF IInv, TypeOK, Snapshot
<1>2. CASE Crash
      <2>1. active' = table
            BY <1>2 DEF Crash
      <2>2. CASE \A w \in Writers : pc[w] # "committed"
            BY <1>1, <2>1, <2>2 DEF IInv, ServesDurable
      <2>3. ASSUME NEW w \in Writers, pc[w] = "committed" PROVE table.revision = active.revision + 1
            BY <2>3 DEF IInv, CommittedInv, CandidateInv, Compiled
      <2> QED BY <1>1, <2>1, <2>2, <2>3
<1>3. ASSUME NEW w \in Writers, Publish(w) PROVE active'.revision = active.revision + 1
      BY <1>3 DEF Publish, IInv, CandidateInv, Compiled
<1>4. active' = active \/ Crash \/ \E w \in Writers : Publish(w)
      BY DEF Next, Step, Continue, vars, Begin, BeginPool, PutPool, DeletePool, PoolRefused, Lock, Cancelled,
         Build, Commit, SkipBuild, Renew, Abandon, Announce
<1> QED BY <1>1, <1>2, <1>3, <1>4

\* Every step keeps what is or will be announced served.
LEMMA ToldStep == IInv /\ ToldInv /\ [Next]_vars => ToldInv'
<1> SUFFICES ASSUME IInv, ToldInv, [Next]_vars PROVE ToldInv'
    OBVIOUS
<1> USE DEF ToldInv, ToldIsServed
<1>1. /\ active'.revision >= active.revision
      /\ active.revision \in Nat /\ active'.revision \in Nat /\ announced \in Nat
      /\ \A w \in Writers : candidate[w].revision \in Nat
      /\ pc \in [Writers -> States] /\ candidate \in [Writers -> Snapshot]
      BY RevisionGrows, TypeStep DEF IInv, TypeOK, Snapshot
<1>2. CASE Crash \/ UNCHANGED vars
      BY <1>1, <1>2 DEF Crash, vars, Ended
<1>3. ASSUME NEW w \in Writers, Step(w) PROVE ToldInv'
      <2> USE DEF Goto
      <2>1. CASE Publish(w)
            <3>1. /\ active' = candidate[w] /\ candidate' = candidate /\ announced' = announced
                  /\ \A v \in Writers \ {w} : pc'[v] = pc[v]
                  BY <1>1, <2>1 DEF Publish
            <3> QED BY <1>1, <3>1
      <2>2. CASE Announce(w)
            <3>1. /\ active' = active /\ candidate' = candidate /\ announced' = candidate[w].revision
                  /\ pc[w] = "announcing" /\ pc'[w] = "ok"
                  /\ \A v \in Writers \ {w} : pc'[v] = pc[v]
                  BY <1>1, <2>2 DEF Announce
            <3> QED BY <1>1, <3>1
      <2>3. CASE Build(w)
            <3>1. /\ active' = active /\ announced' = announced /\ pc'[w] = "built"
                  /\ \A v \in Writers \ {w} : pc'[v] = pc[v] /\ candidate'[v] = candidate[v]
                  BY <1>1, <2>3 DEF Build
            <3> QED BY <1>1, <3>1
      <2>4. CASE ~Publish(w) /\ ~Announce(w) /\ ~Build(w)
            <3>1. /\ active' = active /\ candidate' = candidate /\ announced' = announced
                  /\ \A v \in Writers \ {w} : pc'[v] = pc[v]
                  /\ pc'[w] # "announcing"
                  BY <1>1, <1>3, <2>4 DEF Step, Continue, Begin, BeginPool, PutPool, DeletePool, PoolRefused, Lock,
                     Cancelled, Refused, Commit, SkipBuild, Renew, Abandon
            <3> QED BY <1>1, <3>1
      <2> QED BY <2>1, <2>2, <2>3, <2>4
<1> QED BY <1>2, <1>3 DEF Next

-----------------------------------------------------------------------------
(* Theorems *)

\* The invariants hold in every reachable state.
THEOREM Invariance == Spec => [](IInv /\ PoolInv /\ BindingsResolve)
<1>1. IInv /\ PoolInv /\ BindingsResolve /\ [Next]_vars => (IInv /\ PoolInv /\ BindingsResolve)'
      BY InvStep, PoolStep, BindingStep DEF IInv
<1> QED BY <1>1, InvInit, PTL DEF Spec

\* The types and the gate's exclusion (lockMutation).
THEOREM TypeCorrect == Spec => []TypeOK
<1>1. IInv => TypeOK
      BY DEF IInv
<1> QED BY <1>1, Invariance, PTL

\* Requests are served what a restart would serve (updateLocked).
THEOREM ServedIsDurable == Spec => []ServesDurable
<1>1. IInv => ServesDurable
      BY DEF IInv
<1> QED BY <1>1, Invariance, PTL

\* A change that was accepted stays, one that was refused left no trace.
THEOREM AcceptedOrAbsent == Spec => []AllOrNothing
<1>1. IInv => AllOrNothing
      BY DEF IInv, OwnedInv, AllOrNothing, Succeeded
<1> QED BY <1>1, Invariance, PTL

\* An accepted pool edit is served until a later one is stored.
THEOREM PoolEditServed == Spec => []PoolAnswerServed
<1>1. PoolInv => PoolAnswerServed
      BY DEF PoolInv, PoolAnswerServed
<1> QED BY <1>1, Invariance, PTL

\* No stored connection names a pool that is gone.
THEOREM NoDanglingBinding == Spec => []BindingsResolve
BY Invariance, PTL

\* An announced revision is served, by this process and by those after it.
THEOREM ToldRevisionServed == Spec => []ToldIsServed
<1>1. Init => ToldInv
      BY ConfigAssumption DEF Init, ToldInv, ToldIsServed
<1>2. ToldInv => ToldIsServed
      BY DEF ToldInv
<1> QED BY <1>1, <1>2, ToldStep, Invariance, PTL DEF Spec

\* Without a restart the snapshot changes only to the next revision.
THEOREM OneConfigurationPerRevision == Spec => PublishedByRevision
<1>1. IInv /\ [Next]_vars =>
        [crashes' = crashes /\ active' # active => active'.revision = active.revision + 1]_vars
      <2> SUFFICES ASSUME IInv, [Next]_vars, crashes' = crashes, active' # active
                   PROVE  active'.revision = active.revision + 1
          OBVIOUS
      <2>1. ~Crash
            BY DEF Crash, IInv, TypeOK
      <2>2. PICK w \in Writers : Publish(w)
            BY <2>1 DEF Next, Step, Continue, vars, Begin, BeginPool, PutPool, DeletePool, PoolRefused, Lock, Cancelled,
               Build, Commit, SkipBuild, Renew, Abandon, Announce
      <2> QED BY <2>2 DEF Publish, IInv, CandidateInv, Compiled
<1> QED BY <1>1, Invariance, PTL DEF Spec, PublishedByRevision
=============================================================================
