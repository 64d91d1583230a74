---------------------------- MODULE ConsoleProofs ----------------------------
(***************************************************************************)
(* Proofs about what the operator's console relies on.                     *)
(*                                                                         *)
(* SignIn, for any attempts, polls and other requests: that one approval   *)
(* is saved by one poll, and none that was cancelled; and of the saves of  *)
(* Connections it ends in, that an account keeps one row, that nothing     *)
(* read before another's write is written back, and that what is served is *)
(* what is stored.                                                         *)
(*                                                                         *)
(* UsageFeed, for any requests, any finite set of streams and any limits:  *)
(* that no event is lost or out of order and no channel closed twice.  The *)
(* counter read without the lock plays no part: a publisher misled by it   *)
(* publishes nothing, or to nobody.                                        *)
(***************************************************************************)
EXTENDS SignIn, UsageFeed, FiniteSetTheorems, TLAPS

-----------------------------------------------------------------------------
(* Sign-in: its inductive invariant *)

\* Places of a request that holds an approval: its save, and what follows it.
Owned == {"lock", "match", "lookup", "look again", "adopt", "slot", "read", "write", "publish", "fall back", "insert",
          "register", "delete", "forget", "seed", "exchanging", "rotated", "saved", "unsaved", "connected"}
Places == Owned \cup {"idle", "polling", "exchange", "done"}

Owns(h) == pc[h] \in Owned

FlowTypes ==
    /\ pc \in [Handlers -> Places] /\ attempt \in [Handlers -> Attempts \cup {None}]
    /\ begun \subseteq Attempts /\ pending \subseteq begun /\ cancelled \subseteq begun \ pending

\* While a poll saves an approval its attempt is being completed or is no longer
\* pending, so that no other poll can reserve it and the operator cannot cancel it; an
\* attempt evicted or consumed under the save does not come back.
Reserved ==
    \A h \in Polls :
        /\ pc[h] # "exchange"
        /\ pc[h] = "polling" => attempt[h] \in begun
        /\ Owns(h) => /\ attempt[h] \in begun \ cancelled
                      /\ attempt[h] \in completing \/ attempt[h] \notin pending
                      /\ \A g \in Polls \ {h} : Owns(g) => attempt[g] # attempt[h]

IInv == FlowTypes /\ Reserved

-----------------------------------------------------------------------------
(* The steps *)

\* The step of one request that says nothing of the attempts: a save that goes on, or
\* a request that is no poll.
LEMMA Moves ==
    ASSUME IInv, NEW h \in Handlers, NEW to \in Places, pc' = [pc EXCEPT ![h] = to], UNCHANGED flowVars,
           h \notin Polls \/ (Owns(h) /\ to \in Owned) \/ to \in {"idle", "done"}
    PROVE  IInv'
<1>1. FlowTypes'
  BY DEF IInv, FlowTypes, flowVars
<1>2. \A g \in Handlers : pc'[g] = IF g = h THEN to ELSE pc[g]
  BY DEF IInv, FlowTypes
<1>3. Polls \subseteq Handlers
  BY SignInAssumption, ConnectionsAssumption
<1>4. \A g \in Polls : Owns(g)' => Owns(g)
  BY <1>2, <1>3 DEF Owns, Owned
<1>5. \A g \in Polls : pc'[g] \in {"polling", "exchange"} => pc'[g] = pc[g]
  BY <1>2, <1>3 DEF Owned
<1> QED
  BY <1>1, <1>4, <1>5 DEF IInv, Reserved, flowVars

\* A save goes on within its places.
LEMMA SaveMoves ==
    ASSUME NEW h \in Handlers, Save(h), FlowTypes
    PROVE  UNCHANGED flowVars /\ Owns(h) /\ \E to \in Owned : pc' = [pc EXCEPT ![h] = to]
<1> USE DEF Owns, Owned, Goto, End, FreeSlot
<1>1. CASE Lock(h) /\ UNCHANGED flowVars
  BY <1>1 DEF Lock
<1>2. CASE Match(h) /\ UNCHANGED flowVars
  <2>1. pc[h] = "match" /\ \E to \in {"lookup", "unsaved", "insert"} : pc' = [pc EXCEPT ![h] = to]
    BY <1>2, Zenon DEF Match
  <2> QED
    BY <1>2, <2>1
<1>3. CASE Lookup(h) /\ UNCHANGED flowVars
  BY <1>3 DEF Lookup
<1>4. CASE Adopt(h) /\ UNCHANGED flowVars
  BY <1>4 DEF Adopt
<1>5. CASE TakeSlot(h) /\ UNCHANGED flowVars
  BY <1>5 DEF TakeSlot
<1>6. CASE ReadStored(h) /\ UNCHANGED flowVars
  BY <1>6 DEF ReadStored
<1>7. CASE Write(h) /\ UNCHANGED flowVars
  BY <1>7 DEF Write
<1>8. CASE Publish(h) /\ UNCHANGED flowVars
  BY <1>8 DEF Publish
<1>9. CASE FallBack(h) /\ UNCHANGED flowVars
  BY <1>9 DEF FallBack
<1>10. CASE Insert(h) /\ UNCHANGED flowVars
  <2>1. pc[h] = "insert" /\ (Goto(h, "register") \/ Goto(h, "unsaved"))
    BY <1>10, Zenon DEF Insert
  <2> QED
    BY <1>10, <2>1
<1>11. CASE Register(h) /\ UNCHANGED flowVars
  BY <1>11 DEF Register
<1> QED
  BY <1>1, <1>2, <1>3, <1>4, <1>5, <1>6, <1>7, <1>8, <1>9, <1>10, <1>11 DEF Save

\* An edit, a delete, a load or a refresh is no poll; and a delete goes on within its places.
LEMMA RequestMoves ==
    ASSUME NEW h \in Handlers, Request(h), IInv
    PROVE  IInv'
<1> USE DEF Goto, End
<1>1. CASE StartEdit(h) /\ UNCHANGED flowVars
  <2>1. h \notin Polls
    BY <1>1, SignInAssumption, ConnectionsAssumption DEF StartEdit
  <2> QED
    BY <1>1, <2>1, Moves DEF StartEdit, Places, Owned
<1>2. CASE DeleteRow(h) /\ UNCHANGED flowVars
  BY <1>2, Moves DEF DeleteRow, Places, Owned, Owns
<1>3. CASE Forget(h) /\ UNCHANGED flowVars
  BY <1>3, Moves DEF Forget, Places, Owned, Owns
<1>4. CASE List(h) /\ UNCHANGED flowVars
  <2>1. h \notin Polls
    BY <1>4, SignInAssumption, ConnectionsAssumption DEF List
  <2> QED
    BY <1>4, <2>1, Moves DEF List, Places, Owned
<1>5. CASE SeedNext(h) /\ UNCHANGED flowVars
  BY <1>5 DEF SeedNext, IInv, FlowTypes, Reserved, Owns, flowVars
<1>6. CASE StartRefresh(h) /\ UNCHANGED flowVars
  <2>1. h \notin Polls
    BY <1>6, SignInAssumption, ConnectionsAssumption DEF StartRefresh
  <2> QED
    BY <1>6, <2>1, Moves DEF StartRefresh, Places, Owned
<1>7. CASE Rotate(h) /\ UNCHANGED flowVars
  <2>1. pc[h] = "exchanging" /\ (pc' = [pc EXCEPT ![h] = "rotated"] \/ pc' = [pc EXCEPT ![h] = "unsaved"])
    BY <1>7 DEF Rotate
  <2> QED
    BY <1>7, <2>1, Moves DEF Places, Owned, Owns
<1> QED
  BY <1>1, <1>2, <1>3, <1>4, <1>5, <1>6, <1>7 DEF Request

\* An attempt that stops being pending, cancelled or not, cannot be reserved again.
LEMMA Dropped ==
    ASSUME IInv, NEW gone, pending' = pending \ gone, UNCHANGED <<begun, cancelled>>,
           completing \ gone \subseteq completing',
           UNCHANGED attempt, \A g \in Polls : Owns(g)' => Owns(g),
           \A g \in Polls : pc'[g] \in {"polling", "exchange"} => pc'[g] = pc[g],
           pc' \in [Handlers -> Places]
    PROVE  IInv'
BY DEF IInv, FlowTypes, Reserved

\* Every action keeps the invariant.
LEMMA NextPreserves == IInv /\ [Next]_vars => IInv'
<1> SUFFICES ASSUME IInv, [Next]_vars PROVE IInv'
  OBVIOUS
<1> USE DEF flowVars, Goto
<1>0. /\ Polls \subseteq Handlers /\ None \notin Attempts /\ Device \subseteq Attempts
      /\ pc \in [Handlers -> Places] /\ attempt \in [Handlers -> Attempts \cup {None}]
  BY SignInAssumption, ConnectionsAssumption DEF IInv, FlowTypes
<1>1. CASE UNCHANGED vars
  BY <1>1 DEF vars, connectionVars, IInv, FlowTypes, Reserved, Owns
<1>2. CASE Tick
  BY <1>2 DEF Tick, connectionVars, IInv, FlowTypes, Reserved, Owns
<1>3. ASSUME NEW a \in Attempts, Expire(a) PROVE IInv'
  BY <1>3 DEF Expire, connectionVars, IInv, FlowTypes, Reserved, Owns
<1>4. ASSUME NEW a \in Attempts, Begin(a) PROVE IInv'
  <2>1. PICK lost : LET left == (pending \ expired) \ lost IN
                    /\ pending' = IF Cardinality(left) >= MaxPending THEN left ELSE left \cup {a}
                    /\ completing' = completing \cap pending'
    BY <1>4 DEF Begin
  <2>2. pending' \subseteq pending \cup {a} /\ completing' = completing \cap pending'
    BY <2>1
  <2>3. a \notin begun /\ begun' = begun \cup {a} /\ UNCHANGED <<pc, attempt, cancelled>>
    BY <1>4 DEF Begin, connectionVars
  <2> QED
    BY <2>2, <2>3 DEF IInv, FlowTypes, Reserved, Owns
<1>5. ASSUME NEW a \in Attempts, Cancel(a) PROVE IInv'
  <2>1. /\ a \in pending /\ a \notin completing /\ pending' = pending \ {a} /\ completing' = completing \ {a}
        /\ cancelled' = cancelled \cup {a} /\ UNCHANGED <<pc, attempt, begun>>
    BY <1>5 DEF Cancel, Live, Drop, connectionVars
  <2> QED
    BY <2>1 DEF IInv, FlowTypes, Reserved, Owns
<1>6. ASSUME NEW h \in Handlers, Claim(h) PROVE IInv'
  <2>1. PICK a \in Device :
            /\ attempt' = [attempt EXCEPT ![h] = a] /\ a \in begun
            /\ \/ /\ pc' = [pc EXCEPT ![h] = "done"] /\ pending' = pending \ {a} /\ completing' = completing \ {a}
               \/ /\ pc' = [pc EXCEPT ![h] = "done"] /\ UNCHANGED <<pending, completing>>
               \/ /\ pc' = [pc EXCEPT ![h] = "polling"] /\ UNCHANGED <<pending, completing>>
    BY <1>6 DEF Claim
  <2>2. pc[h] = "idle" /\ h \in Polls /\ UNCHANGED <<begun, cancelled>>
    BY <1>6 DEF Claim
  <2>3. /\ \A g \in Polls \ {h} : pc'[g] = pc[g] /\ attempt'[g] = attempt[g]
        /\ pc'[h] \in {"done", "polling"} /\ attempt'[h] = a
        /\ pc' \in [Handlers -> Places] /\ attempt' \in [Handlers -> Attempts \cup {None}]
    BY <1>0, <2>1 DEF Places
  <2>4. \A g \in Polls : Owns(g)' => g # h /\ Owns(g)
    BY <2>3 DEF Owns, Owned
  <2>5. pending' \subseteq pending /\ \A b : b \in completing => b \in completing' \/ b \notin pending'
    BY <2>1
  <2>6. FlowTypes'
    BY <2>2, <2>3, <2>5 DEF IInv, FlowTypes
  <2> QED
    BY <2>1, <2>2, <2>3, <2>4, <2>5, <2>6 DEF IInv, Reserved
<1>7. ASSUME NEW h \in Handlers, Poll(h) PROVE IInv'
  <2>1. CASE StillPending(h)
    BY <2>1, Moves DEF StillPending, Places
  <2>2. CASE SlowDown(h)
    <3>1. pc' = [pc EXCEPT ![h] = "done"] /\ UNCHANGED <<pending, begun, cancelled, completing, attempt>>
      BY <2>2 DEF SlowDown
    <3>2. \A g \in Polls : (Owns(g)' => Owns(g)) /\ (pc'[g] \in {"polling", "exchange"} => pc'[g] = pc[g])
      BY <1>0, <3>1 DEF Owns, Owned
    <3>3. pc' \in [Handlers -> Places]
      BY <1>0, <3>1 DEF Places
    <3> QED
      BY <3>1, <3>2, <3>3 DEF IInv, FlowTypes, Reserved
  <2>3. CASE Rejected(h)
    <3>1. pc' = [pc EXCEPT ![h] = "done"] /\ UNCHANGED <<begun, cancelled, attempt>>
          /\ pending' = pending \ {attempt[h]} /\ completing' = completing \ {attempt[h]}
      BY <2>3 DEF Rejected, Drop
    <3>2. \A g \in Polls : (Owns(g)' => Owns(g)) /\ (pc'[g] \in {"polling", "exchange"} => pc'[g] = pc[g])
      BY <1>0, <3>1 DEF Owns, Owned
    <3>3. pc' \in [Handlers -> Places]
      BY <1>0, <3>1 DEF Places
    <3> QED
      BY <3>1, <3>2, <3>3, Dropped
  <2>4. CASE Reserve(h)
    <3>1. CASE MayReserve(attempt[h])
      <4>1. /\ completing' = completing \cup {attempt[h]} /\ pc' = [pc EXCEPT ![h] = "lock"] /\ pc[h] = "polling"
            /\ attempt[h] \in pending /\ attempt[h] \notin completing
            /\ UNCHANGED <<pending, begun, cancelled, attempt>>
        BY <2>4, <3>1 DEF Reserve, StartSave, MayReserve, Live
      <4>2. \A g \in Polls : pc'[g] = IF g = h THEN "lock" ELSE pc[g]
        BY <1>0, <4>1
      <4>3. \A g \in Polls \ {h} : Owns(g) => attempt[g] # attempt[h]
        BY <4>1 DEF IInv, Reserved
      <4>4. attempt[h] \in begun \ cancelled
        BY <4>1 DEF IInv, FlowTypes
      <4>5. FlowTypes'
        BY <4>1 DEF IInv, FlowTypes, Places, Owned
      <4>6. \A g \in Polls \ {h} : Owns(g)' = Owns(g)
        BY <4>2 DEF Owns
      <4> QED
        BY <4>1, <4>2, <4>3, <4>4, <4>5, <4>6 DEF IInv, Reserved
    <3>2. CASE ~MayReserve(attempt[h])
      BY <2>4, <3>2, Moves DEF Reserve, Places
    <3> QED
      BY <3>1, <3>2
  <2>5. CASE Settle(h)
    <3>0. h \in Polls /\ Owns(h) /\ UNCHANGED <<begun, cancelled, attempt>>
      BY <2>5 DEF Settle, Owns, Owned
    <3>1. CASE pc[h] = "saved"
      <4>1. pc' = [pc EXCEPT ![h] = "connected"]
            /\ pending' = pending \ {attempt[h]} /\ completing' = completing \ {attempt[h]}
        BY <2>5, <3>1 DEF Settle, Drop
      <4>2. \A g \in Polls : (Owns(g)' => Owns(g)) /\ (pc'[g] \in {"polling", "exchange"} => pc'[g] = pc[g])
        BY <1>0, <3>0, <4>1 DEF Owns, Owned
      <4>3. pc' \in [Handlers -> Places]
        BY <1>0, <4>1 DEF Places, Owned
      <4> QED
        BY <3>0, <4>1, <4>2, <4>3, Dropped
    <3>2. CASE pc[h] # "saved"
      <4>1. pc' = [pc EXCEPT ![h] = "done"] /\ completing' = completing \ {attempt[h]} /\ UNCHANGED pending
        BY <2>5, <3>2 DEF Settle
      <4>2. \A g \in Polls : (Owns(g)' => g # h /\ Owns(g)) /\ (pc'[g] \in {"polling", "exchange"} => pc'[g] = pc[g])
        BY <1>0, <4>1 DEF Owns, Owned
      <4>3. pc' \in [Handlers -> Places]
        BY <1>0, <4>1 DEF Places
      <4>4. \A g \in Polls \ {h} : Owns(g) => attempt[g] # attempt[h]
        BY <3>0 DEF IInv, Reserved
      <4> QED
        BY <3>0, <4>1, <4>2, <4>3, <4>4 DEF IInv, FlowTypes, Reserved
    <3> QED
      BY <3>1, <3>2
  <2> QED
    BY <1>7, <2>1, <2>2, <2>3, <2>4, <2>5 DEF Poll
<1>8. ASSUME NEW h \in Handlers, Consume(h) PROVE IInv'
  <2>1. PICK a \in Attempts \ Device :
            /\ attempt' = [attempt EXCEPT ![h] = a]
            /\ pending' = pending \ {a} /\ completing' = completing \ {a}
    BY <1>8 DEF Consume, Drop
  <2>2. h \notin Polls /\ pc' = [pc EXCEPT ![h] = "exchange"] /\ UNCHANGED <<begun, cancelled>>
    BY <1>8 DEF Consume
  <2>3. \A g \in Polls : pc'[g] = pc[g] /\ attempt'[g] = attempt[g]
    BY <1>0, <2>1, <2>2
  <2>4. pc' \in [Handlers -> Places] /\ attempt' \in [Handlers -> Attempts \cup {None}]
    BY <1>0, <2>1, <2>2 DEF Places
  <2> QED
    BY <2>1, <2>2, <2>3, <2>4 DEF IInv, FlowTypes, Reserved, Owns
<1>9. ASSUME NEW h \in Handlers, Exchange(h) PROVE IInv'
  <2>1. h \notin Polls
    BY <1>9 DEF Exchange, IInv, Reserved
  <2>2. UNCHANGED flowVars /\ \E to \in Places : pc' = [pc EXCEPT ![h] = to]
    BY <1>9 DEF Exchange, StartSave, Places, Owned
  <2> QED
    BY <2>1, <2>2, Moves
<1>10. ASSUME NEW h \in Handlers, Import(h) PROVE IInv'
  <2>1. h \notin Polls
    BY <1>10, SignInAssumption DEF Import
  <2>2. UNCHANGED flowVars /\ \E to \in Places : pc' = [pc EXCEPT ![h] = to]
    BY <1>10 DEF Import, StartSave, Places, Owned
  <2> QED
    BY <2>1, <2>2, Moves
<1>11. ASSUME NEW h \in Handlers, Save(h) PROVE IInv'
  <2>1. UNCHANGED flowVars /\ Owns(h) /\ \E to \in Owned : pc' = [pc EXCEPT ![h] = to]
    BY <1>11, SaveMoves DEF IInv
  <2> QED
    BY <2>1, Moves DEF Places
<1>12. ASSUME NEW h \in Handlers, Request(h) PROVE IInv'
  BY <1>12, RequestMoves
<1> QED
  BY <1>1, <1>2, <1>3, <1>4, <1>5, <1>6, <1>7, <1>8, <1>9, <1>10, <1>11, <1>12 DEF Next

\* However many polls see one approval, and whatever is evicted, rejected, cancelled or
\* expires meanwhile, one of them saves it, and none saves what was cancelled
\* (oauthFlows.reserve, cancel, finish, release).
THEOREM ApprovalsSavedOnce == Spec => []ApprovalSavedOnce
<1>1. Init => IInv
  <2> SUFFICES ASSUME Init PROVE IInv
    OBVIOUS
  <2>1. /\ pc = [h \in Handlers |-> "idle"] /\ "idle" \in Places /\ "idle" \notin Owned
    BY DEF Init, ConnectionsInit, Places, Owned
  <2>2. Polls \subseteq Handlers
    BY SignInAssumption, ConnectionsAssumption
  <2> QED
    BY <2>1, <2>2 DEF Init, IInv, FlowTypes, Reserved, Owns
<1>2. IInv => ApprovalSavedOnce
  <2> SUFFICES ASSUME IInv PROVE ApprovalSavedOnce
    OBVIOUS
  <2>1. \A h \in Polls : Saving(h) => Owns(h)
    BY SignInAssumption, ConnectionsAssumption DEF IInv, FlowTypes, Saving, Owns, Places
  <2> QED
    BY <2>1 DEF IInv, Reserved, ApprovalSavedOnce
<1> QED
  BY <1>1, <1>2, NextPreserves, PTL DEF Spec

-----------------------------------------------------------------------------
(* Saves: their inductive invariant *)

\* Places of a request that renews a row it has read, and those at which it may hold
\* connectionMu.
RowAgain == {"lookup", "look again", "adopt", "slot", "read", "write", "fall back"}
Critical == RowAgain \cup {"match", "publish", "insert", "register", "delete"}
Renews(h) == pc[h] \in RowAgain \/ (pc[h] = "insert" /\ work[h].id # None)

\* An id that is, or has been, stored; no row is ever added under it anew.
Known(i) == rows[i] # None \/ i \in deleted

\* Accounts of sign-ins that do not take connectionMu.
Loose == {SignsIn[a] : a \in Attempts \ (Device \cup Follows)}

SaveTypes ==
    /\ ConnectionsTypeOK /\ pc \in [Handlers -> Places] /\ attempt \in [Handlers -> Attempts \cup {None}]

\* Who holds connectionMu, and that only a sign-in for a loose account goes without.
LockOk(h) ==
    /\ pc[h] = "lock" => work[h].locked /\ h \in SignIns \cup Edits \cup Deletes
    /\ pc[h] \in Critical /\ work[h].locked => lock = h
    /\ pc[h] \in Critical /\ ~work[h].locked =>
          /\ h \in SignIns /\ work[h].account \in Loose
          /\ work[h].id # None /\ pc[h] # "register" => work[h].id \in Unlocked
    /\ pc[h] = "exchange" => h \in SignIns /\ attempt[h] \in Attempts \ Device
    /\ pc[h] = "polling" => h \in Polls /\ attempt[h] \in Attempts
    /\ h \in SignIns /\ pc[h] \in Critical \cup {"lock"} => work[h].account \in Accounts
    /\ h \notin SignIns /\ pc[h] \in Critical \cup {"lock"} => work[h].id # None
    /\ pc[h] \in Critical \ {"delete"} => h \in SignIns \cup Edits
    /\ pc[h] = "delete" => work[h].locked /\ h \in Deletes
    /\ pc[h] \in {"exchanging", "rotated"} => h \in Refreshes

\* A row is renewed under an id that keeps its account, whoever else renews it.
RowOk(h) ==
    /\ pc[h] = "insert" /\ work[h].id = None => h \in SignIns
    /\ pc[h] \in {"publish", "register", "rotated", "saved"} => work[h].id # None /\ Known(work[h].id)
    /\ pc[h] \in {"publish", "register", "rotated"} => work[h].row # None
    /\ pc[h] = "exchanging" => work[h].id # None
    /\ pc[h] = "forget" => work[h].id \in deleted
    /\ Renews(h) =>
       /\ work[h].id # None /\ work[h].row # None /\ Known(work[h].id)
       /\ rows[work[h].id] # None => rows[work[h].id].account = work[h].row.account
       /\ h \in SignIns => work[h].row.account = work[h].account
SameAccount(h, g) == Renews(h) /\ Renews(g) /\ work[g].id = work[h].id => work[g].row.account = work[h].row.account

\* What the holder of connectionMu saw of its account still holds.
OneOk(h) ==
    /\ Renews(h) /\ work[h].row.account \in Ruled \ Unique => IdsOf(work[h].row.account) \subseteq {work[h].id}
    /\ pc[h] = "insert" /\ work[h].id = None /\ work[h].account \in Ruled \ Unique => IdsOf(work[h].account) = {}

RowsInv ==
    /\ SaveTypes
    /\ \A h \in Handlers : LockOk(h) /\ RowOk(h) /\ OneOk(h) /\ \A g \in Handlers : SameAccount(h, g)
    /\ OneRowPerAccount

\* A step of one request that writes no row: it leaves what it renews as it was, or has
\* just read it.
LEMMA QuietRows ==
    ASSUME RowsInv, NEW h \in Handlers, NEW to \in Places, NEW new \in Work,
           pc' = [pc EXCEPT ![h] = to], work' = [work EXCEPT ![h] = new],
           UNCHANGED <<rows, deleted>>, SaveTypes', \A g \in Handlers \ {h} : attempt'[g] = attempt[g],
           lock' \in {lock, h} \/ (lock = h /\ lock' = None), lock' = h => lock \in {h, None},
           LockOk(h)',
           to = "insert" /\ new.id = None => h \in SignIns /\ (new.account \in Ruled \ Unique => IdsOf(new.account) = {}),
           to \in {"publish", "register"} => new.id # None /\ Known(new.id) /\ new.row # None,
           to = "exchanging" => new.id # None, to # "rotated",
           to = "saved" => new.id # None /\ Known(new.id),
           to = "forget" => new.id \in deleted,
           to \in RowAgain \/ (to = "insert" /\ new.id # None) =>
              /\ new.id # None /\ new.row # None
              /\ h \in SignIns => new.row.account = new.account
              /\ \/ Renews(h) /\ new.id = work[h].id /\ new.row.account = work[h].row.account
                 \/ rows[new.id] # None /\ rows[new.id].account = new.row.account
    PROVE  RowsInv'
<1>1. pc \in [Handlers -> Places] /\ work \in [Handlers -> Work] /\ rows \in [Ids -> Row \cup {None}]
  BY DEF RowsInv, SaveTypes, ConnectionsTypeOK
<1>2. pc'[h] = to /\ work'[h] = new /\ \A g \in Handlers \ {h} : pc'[g] = pc[g] /\ work'[g] = work[g]
  BY <1>1
<1>3. new.id \in Ids \cup {None}
  BY DEF Work
<1>4. (\A account : IdsOf(account)' = IdsOf(account)) /\ \A i : Known(i)' <=> Known(i)
  BY DEF IdsOf, Held, Known
<1>5. Renews(h)' => \/ Renews(h) /\ new.id = work[h].id /\ new.row.account = work[h].row.account
                    \/ rows[new.id] # None /\ rows[new.id].account = new.row.account
  BY <1>2 DEF Renews
<1>6. Renews(h)' => /\ new.id # None /\ new.row # None /\ Known(new.id)
                    /\ rows[new.id] # None => rows[new.id].account = new.row.account
                    /\ h \in SignIns => new.row.account = new.account
  BY <1>2, <1>5 DEF Renews, RowsInv, RowOk, Known
<1>7. RowOk(h)'
  BY <1>2, <1>4, <1>6 DEF RowOk
<1>8. OneOk(h)'
  <2>1. ASSUME Renews(h)', new.row.account \in Ruled \ Unique PROVE IdsOf(new.row.account) \subseteq {new.id}
    <3>1. CASE Renews(h) /\ new.id = work[h].id /\ new.row.account = work[h].row.account
      BY <2>1, <3>1 DEF RowsInv, OneOk
    <3>2. CASE rows[new.id] # None /\ rows[new.id].account = new.row.account
      <4>1. new.id \in IdsOf(new.row.account)
        BY <1>3, <1>6, <2>1, <3>2 DEF IdsOf, Held
      <4> QED
        BY <2>1, <4>1 DEF RowsInv, OneRowPerAccount
    <3> QED
      BY <1>5, <2>1, <3>1, <3>2
  <2> QED
    BY <1>2, <1>4, <2>1 DEF OneOk
<1>9. ASSUME NEW g \in Handlers \ {h} PROVE LockOk(g)' /\ RowOk(g)' /\ OneOk(g)' /\ SameAccount(h, g)' /\ SameAccount(g, h)'
  <2>1. (Renews(g)' <=> Renews(g)) /\ work'[g] = work[g] /\ pc'[g] = pc[g] /\ attempt'[g] = attempt[g]
    BY <1>2 DEF Renews
  <2>2. LockOk(g) /\ RowOk(g) /\ OneOk(g) /\ SameAccount(h, g)
    BY DEF RowsInv
  <2>3. LockOk(g)'
    <3>1. lock' = h \/ lock' = lock \/ (lock = h /\ lock' = None)
      OBVIOUS
    <3>2. lock = g => lock' = g
      BY <3>1, ConnectionsAssumption
    <3> QED
      BY <2>1, <2>2, <3>2 DEF LockOk
  <2>4. RowOk(g)'
    BY <1>4, <2>1, <2>2 DEF RowOk
  <2>5. OneOk(g)'
    BY <1>4, <2>1, <2>2 DEF OneOk
  <2>6. ASSUME Renews(g), Renews(h)', new.id = work[g].id PROVE work[g].row.account = new.row.account
    BY <1>5, <2>2, <2>6 DEF RowOk, SameAccount
  <2> QED
    BY <1>2, <2>1, <2>3, <2>4, <2>5, <2>6 DEF SameAccount
<1>10. ASSUME NEW g \in Handlers \ {h}, NEW o \in Handlers \ {h} PROVE SameAccount(g, o)'
  <2>1. SameAccount(g, o)
    BY DEF RowsInv
  <2> QED
    BY <1>2, <2>1 DEF SameAccount, Renews
<1>11. SameAccount(h, h)'
  BY DEF SameAccount
<1>12. OneRowPerAccount'
  BY <1>4 DEF RowsInv, OneRowPerAccount
<1> QED
  BY <1>7, <1>8, <1>9, <1>10, <1>11, <1>12 DEF RowsInv

\* A credential made of tokens is one.
LEMMA TakenIs ==
    /\ NoToken \in Credential
    /\ \A h \in Handlers, old \in Credential : Taken(h, old) \in Credential
    /\ \A h \in Handlers, old \in Credential, renewed \in SUBSET Tokens : Renewed(h, old, renewed) \in Credential
BY DEF NoToken, Taken, Renewed, Credential, Writer

\* The row a request goes on to write is one, of the account of the row it read.
LEMMA MergedIs ==
    ASSUME NEW h \in Handlers, NEW row \in Row, work[h].row \in Row
    PROVE  /\ Merged(h, row) \in Row
           /\ h \in Edits => Merged(h, row).account = row.account
           /\ h \notin Edits => /\ Merged(h, row).account = work[h].row.account
                                /\ Merged(h, row).settings = work[h].row.settings
<1> DEFINE old == IF h \in Edits /\ Named[h] # {} THEN work[h].row.credential ELSE row.credential
<1>1. row.credential \in Credential /\ work[h].row.credential \in Credential
  BY DEF Row
<1>2. old \in Credential
  BY <1>1
<1>3. Taken(h, old) \in Credential
  BY <1>2, TakenIs
<1>4. row.account \in Accounts /\ work[h].row.account \in Accounts /\ work[h].row.settings \in Writer /\ h \in Writer
  BY DEF Row, Writer
<1> HIDE DEF old
<1>5. Merged(h, row) = IF h \in Edits THEN [account |-> row.account, credential |-> Taken(h, old), settings |-> h]
                       ELSE [account |-> work[h].row.account, credential |-> Taken(h, old), settings |-> work[h].row.settings]
  BY DEF Merged, old
<1> QED
  BY <1>3, <1>4, <1>5 DEF Row

\* What the types say of a request and of the store.
LEMMA Typed ==
    ASSUME RowsInv, NEW h \in Handlers
    PROVE  /\ work[h] \in Work /\ work[h].id \in Ids \cup {None} /\ work[h].row \in Row \cup {None}
           /\ work[h].account \in Accounts \cup {None} /\ work[h].entry \in Nat /\ work[h].locked \in BOOLEAN
           /\ pc \in [Handlers -> Places] /\ work \in [Handlers -> Work] /\ rows \in [Ids -> Row \cup {None}]
           /\ entries \in [Ids -> Entry \cup {None}] /\ made \in Nat /\ slots \subseteq Nat /\ deleted \subseteq Ids
           /\ lock \in Handlers \cup {None} /\ attempt \in [Handlers -> Attempts \cup {None}]
           /\ LockOk(h) /\ RowOk(h) /\ OneOk(h)
BY DEF RowsInv, SaveTypes, ConnectionsTypeOK, Work

LEMMA LockRows == ASSUME RowsInv, NEW h \in Handlers, Lock(h), UNCHANGED flowVars PROVE RowsInv'
<1> USE Typed DEF flowVars, storeVars, registryVars
<1> DEFINE to == IF h \in Deletes THEN "delete" ELSE "match"
<1>1. /\ pc[h] = "lock" /\ lock = None /\ lock' = h /\ pc' = [pc EXCEPT ![h] = to] /\ work' = [work EXCEPT ![h] = work[h]]
      /\ to \in Places /\ UNCHANGED <<rows, deleted, entries, made, slots, work, attempt>>
  BY DEF Lock, Goto, Places, Owned
<1>2. SaveTypes'
  BY <1>1 DEF SaveTypes, ConnectionsTypeOK
<1>3. LockOk(h)'
  BY <1>1, SignInAssumption DEF LockOk, Critical, RowAgain
<1> QED
  BY <1>1, <1>2, <1>3, QuietRows DEF RowAgain

\* A request ends, and with it what it had locked.
LEMMA EndRows ==
    ASSUME RowsInv, NEW h \in Handlers, NEW to \in {"saved", "unsaved", "forget"}, End(h, to),
           to = "saved" => work[h].id # None /\ Known(work[h].id),
           to = "forget" => work[h].id \in deleted,
           UNCHANGED <<rows, deleted, work, attempt>>,
           entries' \in [Ids -> Entry \cup {None}], made' \in Nat, slots' \subseteq Nat
    PROVE  RowsInv'
<1> USE Typed
<1>1. /\ pc' = [pc EXCEPT ![h] = to] /\ work' = [work EXCEPT ![h] = work[h]] /\ to \in Places
      /\ lock' = IF lock = h THEN None ELSE lock
  BY DEF End, Goto, Places, Owned
<1>2. SaveTypes'
  BY <1>1 DEF SaveTypes, ConnectionsTypeOK
<1>3. LockOk(h)'
  BY <1>1 DEF LockOk, Critical, RowAgain
<1>4. lock' = h => FALSE
  BY <1>1, ConnectionsAssumption
<1> QED
  BY <1>1, <1>2, <1>3, <1>4, QuietRows DEF RowAgain

\* A request goes on with its save, and keeps its lock and the account it is for.
LEMMA GoOnRows ==
    ASSUME RowsInv, NEW h \in Handlers, NEW to \in RowAgain \cup {"insert", "publish", "register"}, NEW new \in Work,
           pc' = [pc EXCEPT ![h] = to], work' = [work EXCEPT ![h] = new], pc[h] \in Critical \ {"delete", "register"},
           UNCHANGED <<rows, deleted, lock, attempt>>,
           entries' \in [Ids -> Entry \cup {None}], made' \in Nat, slots' \subseteq Nat,
           new.account = work[h].account, new.locked = work[h].locked,
           ~new.locked /\ to # "register" => new.id = work[h].id,
           h \notin SignIns => new.id # None,
           to = "insert" /\ new.id = None => (new.account \in Ruled \ Unique => IdsOf(new.account) = {}),
           to \in {"publish", "register"} => new.id # None /\ Known(new.id) /\ new.row # None,
           to \in RowAgain \/ (to = "insert" /\ new.id # None) =>
              /\ new.id # None /\ new.row # None
              /\ h \in SignIns => new.row.account = new.account
              /\ \/ Renews(h) /\ new.id = work[h].id /\ new.row.account = work[h].row.account
                 \/ rows[new.id] # None /\ rows[new.id].account = new.row.account
    PROVE  RowsInv'
<1> USE Typed
<1>1. to \in Places
  BY DEF RowAgain, Places, Owned
<1>2. SaveTypes'
  BY <1>1 DEF SaveTypes, ConnectionsTypeOK
<1>3. pc'[h] = to /\ work'[h] = new
  OBVIOUS
<1>4. LockOk(h)'
  <2>1. /\ to \in Critical \ {"delete"} /\ to \notin {"lock", "exchange", "polling", "exchanging", "rotated"}
        /\ pc[h] \in Critical /\ pc[h] \notin {"delete", "register", "lock"}
    BY DEF Critical, RowAgain
  <2>2. LockOk(h)
    OBVIOUS
  <2>3. work[h].locked => lock' = h
    BY <2>1, <2>2 DEF LockOk
  <2>4. ~work[h].locked => h \in SignIns /\ new.account \in Loose /\ (new.id # None /\ to # "register" => new.id \in Unlocked)
    BY <2>1, <2>2 DEF LockOk
  <2>5. h \in SignIns \cup Edits /\ (h \in SignIns => new.account \in Accounts)
    BY <2>1, <2>2 DEF LockOk
  <2> QED
    BY <1>3, <2>1, <2>3, <2>4, <2>5 DEF LockOk
<1>5. h \in SignIns \cup Edits /\ (lock' = h => lock \in {h, None}) /\ \A g \in Handlers \ {h} : attempt'[g] = attempt[g]
  BY DEF LockOk
<1>6. to = "insert" /\ new.id = None => h \in SignIns
  OBVIOUS
<1>7. to \notin {"forget", "saved", "exchanging", "rotated"}
  BY DEF RowAgain
<1> QED
  BY <1>1, <1>2, <1>4, <1>5, <1>6, <1>7, QuietRows


\* An account that is ruled by the duplicate rule alone has no sign-in that skips it.
LEMMA RuledNotLoose == \A account \in Ruled \ Unique : account \notin Loose
BY SignInAssumption DEF Ruled, Loose

LEMMA Disjoint ==
    /\ SignIns \subseteq Handlers /\ Edits \subseteq Handlers /\ Deletes \subseteq Handlers /\ Loads \subseteq Handlers
    /\ Refreshes \subseteq Handlers /\ Refreshes \cap (SignIns \cup Edits \cup Deletes \cup Loads) = {}
    /\ SignIns \cap (Edits \cup Deletes \cup Loads) = {} /\ Polls \cup Imports \subseteq SignIns
    /\ None \notin Handlers /\ None \notin Accounts /\ None \notin Ids /\ None \notin Row /\ None \notin Entry
BY ConnectionsAssumption, SignInAssumption, NoneAssumption

LEMMA MatchRows == ASSUME RowsInv, NEW h \in Handlers, Match(h), UNCHANGED flowVars PROVE RowsInv'
<1> USE Typed DEF flowVars, storeVars, registryVars
<1> DEFINE w == work[h]
           same == IdsOf(w.account)
<1>1. pc[h] = "match" /\ UNCHANGED <<rows, deleted, entries, made, slots, attempt>>
  BY DEF Match
<1>2. (h \in SignIns => w.account \in Accounts) /\ (h \notin SignIns => w.id # None) /\ h \in SignIns \cup Edits
  BY <1>1 DEF LockOk, Critical
<1>3. CASE w.id # None /\ rows[w.id] # None /\ (h \in Edits \/ rows[w.id].account = w.account)
  <2> DEFINE new == [w EXCEPT !.row = rows[w.id]]
  <2>1. pc' = [pc EXCEPT ![h] = "lookup"] /\ work' = [work EXCEPT ![h] = new] /\ UNCHANGED lock
    BY <1>3, Zenon DEF Match, Goto, Update
  <2>2. rows[w.id] \in Row
    BY <1>3
  <2>3. new \in Work /\ new.row = rows[w.id] /\ new.id = w.id /\ new.account = w.account /\ new.locked = w.locked
    BY <2>2, Typed DEF Work
  <2>4. h \in SignIns => new.row.account = new.account
    BY <1>3, <2>3, Disjoint
  <2> HIDE DEF new
  <2> QED
    BY <1>1, <1>2, <1>3, <2>1, <2>2, <2>3, <2>4, GoOnRows DEF RowAgain, Critical
<1>4. CASE w.id # None /\ ~(rows[w.id] # None /\ (h \in Edits \/ rows[w.id].account = w.account))
  <2>1. End(h, "unsaved") /\ UNCHANGED work
    BY <1>4, Zenon DEF Match
  <2> QED
    BY <1>1, <2>1, EndRows
<1>5. CASE w.id = None /\ w.locked /\ same # {}
  <2>1. PICK first \in same :
            work' = [work EXCEPT ![h] = [w EXCEPT !.id = first, !.row = rows[first]]] /\ pc' = [pc EXCEPT ![h] = "lookup"]
            /\ UNCHANGED lock
    BY <1>5, Zenon DEF Match, Goto, Update
  <2> DEFINE new == [w EXCEPT !.id = first, !.row = rows[first]]
  <2>2. first \in Ids /\ rows[first] \in Row /\ rows[first].account = w.account
    BY DEF IdsOf, Held
  <2>3. new \in Work /\ new.row = rows[first] /\ new.id = first /\ new.account = w.account /\ new.locked = w.locked
    BY <2>2, Typed DEF Work
  <2>4. work' = [work EXCEPT ![h] = new]
    BY <2>1
  <2> HIDE DEF new
  <2>5. /\ new.id # None /\ new.row # None /\ rows[new.id] # None /\ rows[new.id].account = new.row.account
        /\ new.row.account = new.account
    BY <2>2, <2>3, Disjoint
  <2>6. pc[h] \in Critical \ {"delete", "register"} /\ (~new.locked => new.id = work[h].id)
    BY <1>1, <1>5, <2>3 DEF Critical
  <2> QED
    BY <1>1, <2>1, <2>3, <2>4, <2>5, <2>6, GoOnRows DEF RowAgain
<1>6. CASE w.id = None /\ ~(w.locked /\ same # {})
  <2>1. pc' = [pc EXCEPT ![h] = "insert"] /\ UNCHANGED <<work, lock>>
    BY <1>6, Zenon DEF Match, Goto
  <2>2. work' = [work EXCEPT ![h] = w]
    BY <2>1
  <2>3. w.account \in Ruled \ Unique => same = {}
    <3>1. ~w.locked => w.account \in Loose
      BY <1>1 DEF LockOk, Critical
    <3> QED
      BY <1>6, <3>1, RuledNotLoose
  <2> QED
    BY <1>1, <1>2, <1>6, <2>1, <2>2, <2>3, GoOnRows DEF Critical, RowAgain
<1> QED
  BY <1>3, <1>4, <1>5, <1>6

\* A request that renews a row goes on with the row it has.
LEMMA AgainRows ==
    ASSUME RowsInv, NEW h \in Handlers, Renews(h), NEW to \in RowAgain, NEW new \in Work,
           pc' = [pc EXCEPT ![h] = to], work' = [work EXCEPT ![h] = new],
           UNCHANGED <<rows, deleted, lock, attempt>>,
           entries' \in [Ids -> Entry \cup {None}], made' \in Nat, slots' \subseteq Nat,
           new.row = work[h].row, new.id = work[h].id, new.account = work[h].account, new.locked = work[h].locked
    PROVE  RowsInv'
<1> USE Typed
<1>1. pc[h] \in Critical \ {"delete", "register"}
  BY DEF Renews, RowAgain, Critical
<1>2. new.id # None /\ new.row # None /\ (h \in SignIns => new.row.account = new.account)
  BY DEF RowOk
<1> QED
  BY <1>1, <1>2, GoOnRows DEF RowAgain

LEMMA LookupRows == ASSUME RowsInv, NEW h \in Handlers, Lookup(h), UNCHANGED flowVars PROVE RowsInv'
<1> USE Typed DEF flowVars, storeVars, registryVars
<1> DEFINE w == work[h]
<1>1. pc[h] \in {"lookup", "look again"} /\ UNCHANGED <<rows, deleted, entries, made, slots, lock, attempt>>
  BY DEF Lookup
<1>2. Renews(h) /\ pc[h] \in Critical \ {"delete", "register"}
  BY <1>1 DEF Renews, RowAgain, Critical
<1>3. w.id \in Ids /\ w.row \in Row /\ (h \in SignIns => w.row.account = w.account)
  BY <1>2 DEF RowOk
<1>5. CASE entries[w.id] # None
  <2> DEFINE new == [w EXCEPT !.entry = entries[w.id].entry]
  <2>1. pc' = [pc EXCEPT ![h] = "slot"] /\ work' = [work EXCEPT ![h] = new]
    BY <1>5, Zenon DEF Lookup, Goto, Update
  <2>2. entries[w.id] \in Entry
    BY <1>3, <1>5
  <2>3. entries[w.id].entry \in Nat
    BY <2>2 DEF Entry
  <2>4. new \in Work /\ new.row = w.row /\ new.id = w.id /\ new.account = w.account /\ new.locked = w.locked
    BY <2>3 DEF Work
  <2> HIDE DEF new
  <2> QED
    BY <1>1, <1>2, <2>1, <2>4, AgainRows DEF RowAgain
<1>6. CASE entries[w.id] = None /\ (pc[h] = "look again" \/ rows[w.id] = None)
  <2>1. pc' = [pc EXCEPT ![h] = "fall back"] /\ work' = work
    BY <1>6, Zenon DEF Lookup, Goto
  <2>2. work' = [work EXCEPT ![h] = w]
    BY <2>1
  <2> QED
    BY <1>1, <1>2, <2>1, <2>2, AgainRows DEF RowAgain
<1>7. CASE entries[w.id] = None /\ ~(pc[h] = "look again" \/ rows[w.id] = None)
  <2> DEFINE new == [w EXCEPT !.listed = {[id |-> w.id, credential |-> rows[w.id].credential]}]
  <2>1. pc' = [pc EXCEPT ![h] = "adopt"] /\ work' = [work EXCEPT ![h] = new]
    BY <1>7, Zenon DEF Lookup, Goto, Update
  <2>2. rows[w.id].credential \in Credential
    BY <1>3, <1>7 DEF Row
  <2>3. new \in Work /\ new.row = w.row /\ new.id = w.id /\ new.account = w.account /\ new.locked = w.locked
    BY <1>3, <2>2 DEF Work, Read
  <2> HIDE DEF new
  <2> QED
    BY <1>1, <1>2, <2>1, <2>3, AgainRows DEF RowAgain
<1> QED
  BY <1>5, <1>6, <1>7

LEMMA SeededTyped ==
    ASSUME RowsInv, NEW h \in Handlers, NEW i \in Ids, NEW credential \in Credential, Seeded(i, credential)
    PROVE  entries' \in [Ids -> Entry \cup {None}] /\ made' \in Nat
<1> USE Typed
<1>1. CASE entries[i] = None
  <2>1. [entry |-> made + 1, credential |-> credential] \in Entry
    BY DEF Entry
  <2> QED
    BY <1>1, <2>1 DEF Seeded, Add
<1>2. CASE entries[i] # None /\ rows[i] = None
  BY <1>2 DEF Seeded
<1>3. CASE entries[i] # None /\ rows[i] # None
  <2> DEFINE new == [entries[i] EXCEPT !.credential = rows[i].credential]
  <2>1. entries' = [entries EXCEPT ![i] = new] /\ UNCHANGED made
    BY <1>3 DEF Seeded
  <2>2. entries[i] \in Entry /\ rows[i] \in Row
    BY <1>3
  <2>3. new \in Entry
    BY <2>2 DEF Entry, Row
  <2> HIDE DEF new
  <2> QED
    BY <2>1, <2>3
<1> QED
  BY <1>1, <1>2, <1>3

LEMMA AdoptRows == ASSUME RowsInv, NEW h \in Handlers, Adopt(h), UNCHANGED flowVars PROVE RowsInv'
<1> USE Typed DEF flowVars, storeVars, registryVars
<1> DEFINE w == work[h]
<1>1. /\ pc[h] = "adopt" /\ pc' = [pc EXCEPT ![h] = "look again"]
      /\ UNCHANGED <<rows, deleted, slots, lock, work, attempt>>
  BY DEF Adopt, Goto
<1>2. Renews(h) /\ pc[h] \in Critical \ {"delete", "register"}
  BY <1>1 DEF Renews, RowAgain, Critical
<1>3. w.id \in Ids /\ w.row \in Row /\ (h \in SignIns => w.row.account = w.account)
  BY <1>2 DEF RowOk
<1>4. entries' \in [Ids -> Entry \cup {None}] /\ made' \in Nat
  <2>1. PICK c \in w.listed : Seeded(c.id, c.credential)
    BY DEF Adopt
  <2>2. c.id \in Ids /\ c.credential \in Credential
    BY DEF Work, Read
  <2> QED
    BY <2>1, <2>2, SeededTyped
<1>5. work' = [work EXCEPT ![h] = w]
  BY <1>1
<1> QED
  BY <1>1, <1>2, <1>4, <1>5, AgainRows DEF RowAgain

LEMMA TakeSlotRows == ASSUME RowsInv, NEW h \in Handlers, TakeSlot(h), UNCHANGED flowVars PROVE RowsInv'
<1> USE Typed DEF flowVars, storeVars, registryVars
<1> DEFINE w == work[h]
<1>1. /\ pc[h] = "slot" /\ pc' = [pc EXCEPT ![h] = "read"] /\ slots' = slots \cup {w.entry}
      /\ UNCHANGED <<rows, deleted, entries, made, lock, work, attempt>>
  BY DEF TakeSlot, Goto
<1>2. Renews(h) /\ pc[h] \in Critical \ {"delete", "register"}
  BY <1>1 DEF Renews, RowAgain, Critical
<1>3. w.id \in Ids /\ w.row \in Row /\ (h \in SignIns => w.row.account = w.account)
  BY <1>2 DEF RowOk
<1>4. slots' \subseteq Nat
  BY <1>1
<1>5. work' = [work EXCEPT ![h] = w]
  BY <1>1
<1> QED
  BY <1>1, <1>2, <1>4, <1>5, AgainRows DEF RowAgain

\* The row that a request which renews has read, merged with what it brings.
LEMMA MergedRows ==
    ASSUME RowsInv, NEW h \in Handlers, NEW to \in {"write", "insert"}, Renews(h), rows[work[h].id] # None,
           Update(h, [work[h] EXCEPT !.row = Merged(h, rows[work[h].id])]), Goto(h, to),
           UNCHANGED <<rows, deleted, entries, made, slots, lock, attempt>>
    PROVE  RowsInv'
<1> USE Typed
<1> DEFINE w == work[h]
           row == Merged(h, rows[w.id])
           new == [w EXCEPT !.row = row]
<1>1. w.id \in Ids /\ w.row \in Row /\ (h \in SignIns => w.row.account = w.account)
  BY DEF RowOk
<1>2. rows[w.id] \in Row
  BY <1>1
<1>3. row \in Row /\ (row.account = rows[w.id].account \/ row.account = w.row.account)
      /\ (h \in SignIns => row.account = w.row.account)
  BY <1>1, <1>2, MergedIs, Disjoint
<1>4. new \in Work /\ new.row = row /\ new.id = w.id /\ new.account = w.account /\ new.locked = w.locked
  <2> HIDE DEF row
  <2> QED
    BY <1>3 DEF Work
<1>5. pc' = [pc EXCEPT ![h] = to] /\ work' = [work EXCEPT ![h] = new]
  BY Zenon DEF Goto, Update
<1>6. pc[h] \in Critical \ {"delete", "register"}
  BY DEF Renews, Critical, RowAgain
<1> HIDE DEF new, row
<1>7. /\ new.id # None /\ new.row # None /\ (h \in SignIns => new.row.account = new.account)
      /\ \/ Renews(h) /\ new.id = w.id /\ new.row.account = w.row.account
         \/ rows[new.id] # None /\ rows[new.id].account = new.row.account
  BY <1>1, <1>2, <1>3, <1>4, Disjoint
<1> QED
  BY <1>4, <1>5, <1>6, <1>7, GoOnRows DEF RowAgain

LEMMA ReadStoredRows == ASSUME RowsInv, NEW h \in Handlers, ReadStored(h), UNCHANGED flowVars PROVE RowsInv'
<1> USE Typed DEF flowVars, storeVars, registryVars
<1> DEFINE w == work[h]
<1>1. pc[h] = "read" /\ UNCHANGED <<rows, deleted, entries, made, lock, attempt>>
  BY DEF ReadStored
<1>2. Renews(h) /\ pc[h] \in Critical \ {"delete", "register"}
  BY <1>1 DEF Renews, RowAgain, Critical
<1>3. w.id \in Ids /\ w.row \in Row /\ (h \in SignIns => w.row.account = w.account)
  BY <1>2 DEF RowOk
<1>4. CASE rows[w.id] = None
  <2>1. pc' = [pc EXCEPT ![h] = "fall back"] /\ slots' = slots \ {w.entry} /\ work' = work
    BY <1>4 DEF ReadStored, Goto, FreeSlot
  <2>2. slots' \subseteq Nat /\ work' = [work EXCEPT ![h] = w]
    BY <2>1
  <2> QED
    BY <1>1, <1>2, <2>1, <2>2, AgainRows DEF RowAgain
<1>5. CASE rows[w.id] # None
  <2>1. Update(h, [work[h] EXCEPT !.row = Merged(h, rows[work[h].id])]) /\ Goto(h, "write") /\ UNCHANGED slots
    BY <1>5, Zenon DEF ReadStored
  <2> QED
    BY <1>1, <1>2, <1>5, <2>1, MergedRows
<1> QED
  BY <1>4, <1>5

LEMMA FallBackRows == ASSUME RowsInv, NEW h \in Handlers, FallBack(h), UNCHANGED flowVars PROVE RowsInv'
<1> USE Typed DEF flowVars, storeVars, registryVars
<1>1. pc[h] = "fall back" /\ UNCHANGED <<rows, deleted, entries, made, slots, attempt>>
  BY DEF FallBack
<1>2. CASE rows[work[h].id] = None
  <2>1. End(h, "unsaved") /\ UNCHANGED work
    BY <1>2, Zenon DEF FallBack
  <2> QED
    BY <1>1, <2>1, EndRows
<1>3. CASE rows[work[h].id] # None
  <2>1. Update(h, [work[h] EXCEPT !.row = Merged(h, rows[work[h].id])]) /\ Goto(h, "insert") /\ UNCHANGED lock
    BY <1>3, Zenon DEF FallBack
  <2>2. Renews(h)
    BY <1>1 DEF Renews, RowAgain
  <2> QED
    BY <1>1, <1>3, <2>1, <2>2, MergedRows
<1> QED
  BY <1>2, <1>3

LEMMA PublishRows == ASSUME RowsInv, NEW h \in Handlers, Publish(h), UNCHANGED flowVars PROVE RowsInv'
<1> USE Typed DEF flowVars, storeVars, registryVars
<1> DEFINE w == work[h]
<1>1. /\ pc[h] \in {"publish", "rotated"} /\ End(h, "saved") /\ slots' = slots \ {w.entry}
      /\ UNCHANGED <<rows, deleted, made, work, attempt>>
  BY DEF Publish, FreeSlot
<1>2. w.id \in Ids /\ Known(w.id)
  BY <1>1 DEF RowOk
<1>3. entries' \in [Ids -> Entry \cup {None}]
  <2>1. CASE entries[w.id] # None /\ entries[w.id].entry = w.entry
    <3> DEFINE new == [entries[w.id] EXCEPT !.credential = w.row.credential]
    <3>1. entries' = [entries EXCEPT ![w.id] = new]
      BY <2>1 DEF Publish
    <3>2. entries[w.id] \in Entry
      BY <1>2, <2>1
    <3>3. w.row.credential \in Credential
      BY <1>1 DEF RowOk, Row
    <3>4. new \in Entry
      BY <3>2, <3>3 DEF Entry
    <3> HIDE DEF new
    <3> QED
      BY <1>2, <3>1, <3>4
  <2>2. CASE ~(entries[w.id] # None /\ entries[w.id].entry = w.entry)
    BY <2>2 DEF Publish
  <2> QED
    BY <2>1, <2>2
<1>4. slots' \subseteq Nat /\ made' \in Nat
  BY <1>1
<1> QED
  BY <1>1, <1>2, <1>3, <1>4, Disjoint, EndRows

LEMMA RegisterRows == ASSUME RowsInv, NEW h \in Handlers, Register(h), UNCHANGED flowVars PROVE RowsInv'
<1> USE Typed DEF flowVars, storeVars, registryVars
<1> DEFINE w == work[h]
<1>1. pc[h] = "register" /\ UNCHANGED <<rows, deleted, slots, work, attempt>>
  BY DEF Register
<1>2. w.id \in Ids /\ Known(w.id) /\ w.row \in Row
  BY <1>1 DEF RowOk
<1>3. CASE Seeded(w.id, w.row.credential) /\ End(h, "saved")
  <2>1. w.row.credential \in Credential
    BY <1>2 DEF Row
  <2>2. entries' \in [Ids -> Entry \cup {None}] /\ made' \in Nat
    BY <1>2, <1>3, <2>1, SeededTyped
  <2> QED
    BY <1>1, <1>2, <1>3, <2>2, Disjoint, EndRows
<1>4. CASE UNCHANGED <<entries, made>> /\ End(h, "unsaved")
  BY <1>1, <1>4, EndRows
<1> QED
  BY <1>3, <1>4 DEF Register

LEMMA ForgetRows == ASSUME RowsInv, NEW h \in Handlers, Forget(h), UNCHANGED flowVars PROVE RowsInv'
<1> USE Typed DEF flowVars, storeVars, registryVars
<1> DEFINE i == work[h].id
<1>1. /\ pc[h] = "forget" /\ End(h, "saved") /\ entries' = [entries EXCEPT ![i] = None]
      /\ UNCHANGED <<rows, deleted, made, slots, work, attempt>>
  BY DEF Forget
<1>2. i \in Ids /\ Known(i)
  BY <1>1 DEF RowOk, Known
<1>3. entries' \in [Ids -> Entry \cup {None}]
  BY <1>1
<1> QED
  BY <1>1, <1>2, <1>3, Disjoint, EndRows

\* A request that saves nothing yet, or no longer: it holds no lock and names no row.
LEMMA OtherRows ==
    ASSUME RowsInv, NEW h \in Handlers, NEW to \in {"idle", "polling", "exchange", "done", "connected", "lock", "seed"},
           NEW new \in Work,
           pc' = [pc EXCEPT ![h] = to], work' = [work EXCEPT ![h] = new],
           UNCHANGED <<rows, deleted, slots, lock>>, made' \in Nat, entries' \in [Ids -> Entry \cup {None}],
           attempt' \in [Handlers -> Attempts \cup {None}],
           \A g \in Handlers \ {h} : attempt'[g] = attempt[g],
           to = "polling" => h \in Polls /\ attempt'[h] \in Attempts,
           to = "exchange" => h \in SignIns /\ attempt'[h] \in Attempts \ Device,
           to = "lock" => /\ new.locked /\ h \in SignIns \cup Edits \cup Deletes
                          /\ IF h \in SignIns THEN new.account \in Accounts ELSE new.id # None
    PROVE  RowsInv'
<1> USE Typed
<1>1. to \in Places /\ pc'[h] = to /\ work'[h] = new
  BY DEF Places, Owned
<1>2. SaveTypes'
  BY <1>1 DEF SaveTypes, ConnectionsTypeOK
<1>3. LockOk(h)'
  BY <1>1 DEF LockOk, Critical, RowAgain
<1>4. lock' = h => lock \in {h, None}
  OBVIOUS
<1> QED
  BY <1>1, <1>2, <1>3, <1>4, QuietRows DEF RowAgain

LEMMA StartEditRows == ASSUME RowsInv, NEW h \in Handlers, StartEdit(h), UNCHANGED flowVars PROVE RowsInv'
<1> USE Typed DEF flowVars, storeVars, registryVars
<1>1. PICK i \in Held : Update(h, [work[h] EXCEPT !.id = i, !.locked = TRUE])
  BY DEF StartEdit
<1> DEFINE new == [work[h] EXCEPT !.id = i, !.locked = TRUE]
<1>2. /\ h \in Edits \cup Deletes /\ pc' = [pc EXCEPT ![h] = "lock"]
      /\ UNCHANGED <<rows, deleted, entries, made, slots, lock, attempt>>
  BY DEF StartEdit, Goto
<1>3. i \in Ids
  BY DEF Held
<1>4. new \in Work /\ new.id = i /\ new.locked
  BY <1>3 DEF Work
<1>5. work' = [work EXCEPT ![h] = new]
  BY <1>1 DEF Update
<1>6. h \notin SignIns
  BY <1>2, Disjoint
<1> HIDE DEF new
<1>7. new.id # None
  BY <1>3, <1>4, Disjoint
<1>8. attempt' \in [Handlers -> Attempts \cup {None}] /\ entries' \in [Ids -> Entry \cup {None}] /\ made' \in Nat
  BY <1>2
<1> QED
  BY <1>2, <1>4, <1>5, <1>6, <1>7, <1>8, OtherRows

LEMMA ListRows == ASSUME RowsInv, NEW h \in Handlers, List(h), UNCHANGED flowVars PROVE RowsInv'
<1> USE Typed DEF flowVars, storeVars, registryVars
<1> DEFINE listed == {[id |-> i, credential |-> rows[i].credential] : i \in Held}
           new == [work[h] EXCEPT !.listed = listed]
<1>1. /\ pc' = [pc EXCEPT ![h] = "seed"] /\ work' = [work EXCEPT ![h] = new]
      /\ UNCHANGED <<rows, deleted, entries, made, slots, lock, attempt>>
  BY DEF List, Goto, Update
<1>2. listed \in SUBSET Read
  <2>1. ASSUME NEW i \in Held PROVE i \in Ids /\ rows[i].credential \in Credential
    BY DEF Held, Row
  <2> QED
    BY <2>1 DEF Read
<1>3. new \in Work
  <2> HIDE DEF listed
  <2> QED
    BY <1>2 DEF Work
<1> HIDE DEF new
<1> QED
  BY <1>1, <1>3, OtherRows

LEMMA SeedNextRows == ASSUME RowsInv, NEW h \in Handlers, SeedNext(h), UNCHANGED flowVars PROVE RowsInv'
<1> USE Typed DEF flowVars, storeVars, registryVars
<1>1. PICK c \in work[h].listed :
          Seeded(c.id, c.credential) /\ Update(h, [work[h] EXCEPT !.listed = @ \ {c}])
  BY DEF SeedNext
<1> DEFINE new == [work[h] EXCEPT !.listed = @ \ {c}]
<1>2. pc[h] = "seed" /\ UNCHANGED <<rows, deleted, slots, lock, pc, attempt>>
  BY DEF SeedNext
<1>3. c.id \in Ids /\ c.credential \in Credential /\ new \in Work
  BY DEF Work, Read
<1>4. entries' \in [Ids -> Entry \cup {None}] /\ made' \in Nat
  BY <1>1, <1>3, SeededTyped
<1>5. work' = [work EXCEPT ![h] = new] /\ pc' = [pc EXCEPT ![h] = "seed"]
  BY <1>1, <1>2 DEF Update
<1> HIDE DEF new
<1>6. SaveTypes'
  BY <1>2, <1>3, <1>4, <1>5 DEF SaveTypes, ConnectionsTypeOK
<1>7. LockOk(h)'
  BY <1>2, <1>5 DEF LockOk, Critical, RowAgain
<1>8. lock' = h => lock \in {h, None}
  BY <1>2
<1>9. "seed" \in Places /\ "seed" \notin RowAgain
  BY DEF Places, Owned, RowAgain
<1> QED
  BY <1>2, <1>3, <1>5, <1>6, <1>7, <1>8, <1>9, QuietRows

LEMMA StartRefreshRows == ASSUME RowsInv, NEW h \in Handlers, StartRefresh(h), UNCHANGED flowVars PROVE RowsInv'
<1> USE Typed DEF flowVars, storeVars, registryVars
<1>1. PICK i \in Ids :
        /\ entries[i] # None /\ slots' = slots \cup {entries[i].entry}
        /\ Update(h, [work[h] EXCEPT !.id = i, !.entry = entries[i].entry,
                                      !.listed = {[id |-> i, credential |-> entries[i].credential]}])
  BY Zenon DEF StartRefresh
<1> DEFINE n == entries[i].entry
           ls == {[id |-> i, credential |-> entries[i].credential]}
           new == [work[h] EXCEPT !.id = i, !.entry = n, !.listed = ls]
<1>2. h \in Refreshes /\ pc' = [pc EXCEPT ![h] = "exchanging"] /\ UNCHANGED <<rows, deleted, entries, made, lock, attempt>>
  BY DEF StartRefresh, Goto
<1>3. n \in Nat /\ ls \in SUBSET Read
  <2>1. entries[i] \in Entry
    BY <1>1
  <2> QED
    BY <2>1 DEF Entry, Read
<1>4. work' = [work EXCEPT ![h] = new]
  BY <1>1 DEF Update
<1>5. new \in Work /\ new.id = i
  <2> HIDE DEF n, ls
  <2> QED
    BY <1>3 DEF Work
<1>6. slots' \subseteq Nat
  BY <1>1, <1>3
<1> HIDE DEF new, n, ls
<1>7. pc'[h] = "exchanging" /\ "exchanging" \in Places
  BY <1>2 DEF Places, Owned
<1>8. SaveTypes'
  BY <1>2, <1>4, <1>5, <1>6, <1>7 DEF SaveTypes, ConnectionsTypeOK
<1>9. LockOk(h)'
  BY <1>2, <1>7 DEF LockOk, Critical, RowAgain
<1>10. new.id # None /\ (lock' = h => lock \in {h, None})
  BY <1>2, <1>5, Disjoint
<1> QED
  BY <1>2, <1>4, <1>5, <1>7, <1>8, <1>9, <1>10, QuietRows DEF RowAgain

\* A rotation changes nothing but the credential of a row.
LEMMA RotateRows == ASSUME RowsInv, NEW h \in Handlers, Rotate(h), UNCHANGED flowVars PROVE RowsInv'
<1> USE Typed DEF flowVars, storeVars, registryVars
<1> DEFINE i == work[h].id
<1>1. pc[h] = "exchanging" /\ UNCHANGED <<deleted, entries, made, attempt>> /\ i \in Ids /\ h \in Refreshes
  BY DEF Rotate, RowOk, LockOk
<1>2. CASE FreeSlot(h) /\ End(h, "unsaved") /\ UNCHANGED <<rows, work>>
  <2>1. slots' \subseteq Nat
    BY <1>2 DEF FreeSlot
  <2> QED
    BY <1>1, <1>2, <2>1, EndRows
<1>3. ASSUME NEW c \in work[h].listed, NEW renewed \in {Tokens, {"access"}}, rows[i] # None,
             Put(i, [account |-> rows[i].account, credential |-> Renewed(h, c.credential, renewed), settings |-> rows[i].settings]),
             Update(h, [work[h] EXCEPT !.row = [account |-> rows[i].account, credential |-> Renewed(h, c.credential, renewed),
                                                settings |-> rows[i].settings]]),
             Goto(h, "rotated"), UNCHANGED <<slots, lock>>
      PROVE  RowsInv'
  <2> DEFINE row == [account |-> rows[i].account, credential |-> Renewed(h, c.credential, renewed), settings |-> rows[i].settings]
             new == [work[h] EXCEPT !.row = row]
  <2>1. c.credential \in Credential /\ renewed \in SUBSET Tokens
    BY DEF Work, Read, Tokens
  <2>2. rows[i] \in Row
    BY <1>1, <1>3
  <2>3. row \in Row /\ row.account = rows[i].account
    BY <2>1, <2>2, TakenIs DEF Row
  <2>4. rows' = [rows EXCEPT ![i] = row] /\ work' = [work EXCEPT ![h] = new] /\ pc' = [pc EXCEPT ![h] = "rotated"]
    BY <1>3, Zenon DEF Put, Update, Goto
  <2> HIDE DEF row
  <2>5. new \in Work /\ new.row = row /\ new.id = i
    BY <2>3 DEF Work
  <2> HIDE DEF new
  <2>6. /\ pc'[h] = "rotated" /\ work'[h] = new /\ "rotated" \in Places
        /\ \A g \in Handlers \ {h} : pc'[g] = pc[g] /\ work'[g] = work[g]
    BY <2>4 DEF Places, Owned
  <2>7. row # None /\ i # None
    BY <1>1, <2>3, Disjoint
  <2>8. \A j \in Ids : (rows'[j] # None <=> rows[j] # None) /\ (rows[j] # None => rows'[j].account = rows[j].account)
    BY <1>1, <1>3, <2>3, <2>4, <2>7
  <2>9. (\A account : IdsOf(account)' = IdsOf(account)) /\ \A j \in Ids : Known(j)' <=> Known(j)
    BY <1>1, <2>8 DEF IdsOf, Held, Known
  <2>10. SaveTypes'
    BY <1>1, <1>3, <2>3, <2>4, <2>5, <2>6 DEF SaveTypes, ConnectionsTypeOK
  <2>11. ~Renews(h)' /\ LockOk(h)' /\ OneOk(h)'
    BY <1>1, <2>6 DEF Renews, RowAgain, LockOk, Critical, OneOk
  <2>12. RowOk(h)'
    BY <1>1, <1>3, <2>5, <2>6, <2>7, <2>8, <2>11 DEF RowOk, Known
  <2>13. ASSUME NEW g \in Handlers \ {h}
         PROVE  LockOk(g)' /\ RowOk(g)' /\ OneOk(g)' /\ (Renews(g)' <=> Renews(g))
    <3>1. LockOk(g) /\ RowOk(g) /\ OneOk(g) /\ work[g].id \in Ids \cup {None}
      OBVIOUS
    <3>2. (Renews(g)' <=> Renews(g)) /\ work'[g] = work[g] /\ pc'[g] = pc[g] /\ attempt'[g] = attempt[g]
      BY <1>1, <2>6 DEF Renews
    <3>3. LockOk(g)'
      BY <1>3, <3>1, <3>2 DEF LockOk
    <3>4. RowOk(g)'
      BY <1>1, <2>8, <2>9, <3>1, <3>2 DEF RowOk
    <3>5. OneOk(g)'
      BY <2>9, <3>1, <3>2 DEF OneOk
    <3> QED
      BY <3>2, <3>3, <3>4, <3>5
  <2>14. ASSUME NEW g \in Handlers, NEW o \in Handlers PROVE SameAccount(g, o)'
    <3>1. SameAccount(g, o)
      BY DEF RowsInv
    <3>2. CASE g = h \/ o = h
      BY <2>11, <3>2 DEF SameAccount
    <3>3. CASE g # h /\ o # h
      BY <2>6, <2>13, <3>1, <3>3 DEF SameAccount
    <3> QED
      BY <3>2, <3>3
  <2>15. OneRowPerAccount'
    BY <2>9 DEF RowsInv, OneRowPerAccount
  <2> QED
    BY <2>10, <2>11, <2>12, <2>13, <2>14, <2>15 DEF RowsInv
<1> QED
  BY <1>2, <1>3, Zenon DEF Rotate

\* Whoever has read, or looked for, a row of an account ruled by the duplicate rule alone
\* holds connectionMu.
LEMMA RuledHolds ==
    ASSUME RowsInv, NEW h \in Handlers, NEW account \in Ruled \ Unique,
           \/ Renews(h) /\ work[h].row.account = account
           \/ pc[h] = "insert" /\ work[h].id = None /\ work[h].account = account
    PROVE  lock = h
<1> USE Typed
<1>1. pc[h] \in Critical
  BY DEF Renews, RowAgain, Critical
<1>2. work[h].locked => lock = h
  BY <1>1 DEF LockOk
<1>3. ~work[h].locked => h \in SignIns /\ work[h].account \in Loose
  BY <1>1 DEF LockOk
<1>4. h \in SignIns => work[h].account = account
  BY DEF RowOk
<1> QED
  BY <1>2, <1>3, <1>4, RuledNotLoose

\* The ids of an account after a row is put.
LEMMA PutIds ==
    ASSUME rows \in [Ids -> Row \cup {None}], NEW i \in Ids, NEW row \in Row, rows' = [rows EXCEPT ![i] = row]
    PROVE  \A account : IdsOf(account)' \subseteq IF account = row.account THEN IdsOf(account) \cup {i} ELSE IdsOf(account)
BY DEF IdsOf, Held

\* A row is put under an id that no renewal has read as another account's, by a request
\* that knows of every row of a ruled account.
LEMMA PutRows ==
    ASSUME RowsInv, NEW h \in Handlers, NEW to \in {"publish", "register"}, NEW new \in Work,
           rows' = [rows EXCEPT ![new.id] = new.row], new.id \in Ids, new.row \in Row,
           pc' = [pc EXCEPT ![h] = to], work' = [work EXCEPT ![h] = new],
           UNCHANGED <<deleted, entries, made, slots, lock, attempt>>,
           pc[h] \in {"write", "insert"}, new.account = work[h].account, new.locked = work[h].locked,
           to = "publish" => new.id = work[h].id,
           \A g \in Handlers : Renews(g) /\ work[g].id = new.id => work[g].row.account = new.row.account,
           new.row.account \in Ruled => IdsOf(new.row.account) \subseteq {new.id},
           new.row.account \in Ruled \ Unique => lock = h
    PROVE  RowsInv'
<1> USE Typed
<1> DEFINE i == new.id
           row == new.row
<1>1. /\ pc'[h] = to /\ work'[h] = new /\ to \in Places
      /\ \A g \in Handlers \ {h} : pc'[g] = pc[g] /\ work'[g] = work[g] /\ attempt'[g] = attempt[g]
  BY DEF Places, Owned
<1>2. SaveTypes'
  BY <1>1 DEF SaveTypes, ConnectionsTypeOK
<1>3. \A account : IdsOf(account)' \subseteq IF account = row.account THEN IdsOf(account) \cup {i} ELSE IdsOf(account)
  BY PutIds
<1>4. row # None /\ i # None
  BY Disjoint
<1>5. \A j : Known(j) => Known(j)'
  BY <1>4 DEF Known
<1>6. Known(i)'
  BY <1>4 DEF Known
<1>7. ~Renews(h)'
  BY <1>1 DEF Renews, RowAgain
<1>8. LockOk(h)' /\ RowOk(h)' /\ OneOk(h)'
  <2>1. LockOk(h)'
    <3>1. work[h].locked => lock' = h
      BY DEF LockOk, Critical, RowAgain
    <3>2. ~work[h].locked => h \in SignIns /\ new.account \in Loose /\ (to # "register" => new.id \in Unlocked)
      BY <1>4 DEF LockOk, Critical, RowAgain
    <3>3. h \in SignIns \cup Edits /\ (h \in SignIns => new.account \in Accounts)
      BY DEF LockOk, Critical, RowAgain
    <3> QED
      BY <1>1, <1>4, <3>1, <3>2, <3>3 DEF LockOk
  <2>2. RowOk(h)'
    BY <1>1, <1>4, <1>6, <1>7 DEF RowOk
  <2>3. OneOk(h)'
    BY <1>1, <1>7 DEF OneOk
  <2> QED
    BY <2>1, <2>2, <2>3
<1>9. ASSUME NEW g \in Handlers \ {h} PROVE LockOk(g)' /\ RowOk(g)' /\ OneOk(g)' /\ (Renews(g)' <=> Renews(g))
  <2>1. LockOk(g) /\ RowOk(g) /\ OneOk(g)
    BY DEF RowsInv
  <2>2. (Renews(g)' <=> Renews(g)) /\ work'[g] = work[g] /\ pc'[g] = pc[g] /\ attempt'[g] = attempt[g]
    BY <1>1 DEF Renews
  <2>3. LockOk(g)'
    BY <2>1, <2>2 DEF LockOk
  <2>4. Renews(g) /\ rows'[work[g].id] # None => rows'[work[g].id].account = work[g].row.account
    <3>1. CASE work[g].id = i
      BY <3>1
    <3>2. CASE work[g].id # i
      BY <2>1, <3>2 DEF RowOk
    <3> QED
      BY <3>1, <3>2
  <2>5. RowOk(g)'
    BY <1>5, <2>1, <2>2, <2>4 DEF RowOk
  <2>6. ASSUME NEW account \in Ruled \ Unique,
               \/ Renews(g) /\ work[g].row.account = account
               \/ pc[g] = "insert" /\ work[g].id = None /\ work[g].account = account
        PROVE  IdsOf(account)' \subseteq IdsOf(account)
    <3>1. lock = g
      BY <2>6, RuledHolds
    <3>2. account # row.account
      BY <3>1
    <3> QED
      BY <1>3, <3>2
  <2>7. OneOk(g)'
    BY <2>1, <2>2, <2>6 DEF OneOk
  <2> QED
    BY <2>2, <2>3, <2>5, <2>7
<1>10. ASSUME NEW g \in Handlers, NEW o \in Handlers PROVE SameAccount(g, o)'
  <2>1. CASE g = h \/ o = h
    BY <1>7, <2>1 DEF SameAccount
  <2>2. CASE g # h /\ o # h
    <3>1. SameAccount(g, o)
      BY DEF RowsInv
    <3> QED
      BY <1>1, <1>9, <2>2, <3>1 DEF SameAccount
  <2> QED
    BY <2>1, <2>2
<1>11. OneRowPerAccount'
  <2> SUFFICES ASSUME NEW account \in Ruled, NEW j \in IdsOf(account)', NEW k \in IdsOf(account)' PROVE j = k
    BY DEF OneRowPerAccount
  <2>1. CASE account = row.account
    BY <1>3, <2>1
  <2>2. CASE account # row.account
    BY <1>3, <2>2 DEF RowsInv, OneRowPerAccount
  <2> QED
    BY <2>1, <2>2
<1> QED
  BY <1>2, <1>8, <1>9, <1>10, <1>11 DEF RowsInv

LEMMA WriteRows == ASSUME RowsInv, NEW h \in Handlers, Write(h), UNCHANGED flowVars PROVE RowsInv'
<1> USE Typed DEF flowVars, storeVars, registryVars
<1> DEFINE w == work[h]
<1>1. pc[h] = "write" /\ UNCHANGED <<deleted, entries, made, work, attempt>>
  BY DEF Write
<1>2. Renews(h)
  BY <1>1 DEF Renews, RowAgain
<1>3. w.id \in Ids /\ w.row \in Row
  BY <1>2 DEF RowOk
<1>4. CASE Accepts(w.id, w.row.account) /\ Put(w.id, w.row) /\ Goto(h, "publish") /\ UNCHANGED <<slots, lock>>
  <2>1. rows' = [rows EXCEPT ![w.id] = w.row] /\ pc' = [pc EXCEPT ![h] = "publish"] /\ work' = [work EXCEPT ![h] = w]
    BY <1>1, <1>4 DEF Put, Goto
  <2>2. \A g \in Handlers : Renews(g) /\ work[g].id = w.id => work[g].row.account = w.row.account
    BY <1>2 DEF RowsInv, SameAccount
  <2>3. w.row.account \in Ruled => IdsOf(w.row.account) \subseteq {w.id}
    BY <1>2, <1>4 DEF Accepts, OneOk
  <2>4. w.row.account \in Ruled \ Unique => lock = h
    BY <1>2, RuledHolds
  <2> QED
    BY <1>1, <1>3, <1>4, <2>1, <2>2, <2>3, <2>4, PutRows
<1>5. CASE FreeSlot(h) /\ End(h, "unsaved") /\ UNCHANGED rows
  <2>1. slots' \subseteq Nat
    BY <1>5 DEF FreeSlot
  <2> QED
    BY <1>1, <1>5, <2>1, EndRows
<1> QED
  BY <1>4, <1>5 DEF Write

LEMMA InsertRows == ASSUME RowsInv, NEW h \in Handlers, Insert(h), UNCHANGED flowVars PROVE RowsInv'
<1> USE Typed DEF flowVars, storeVars, registryVars
<1> DEFINE w == work[h]
           row == IF w.id = None THEN [account |-> w.account, credential |-> Taken(h, NoToken), settings |-> None] ELSE w.row
<1>1. pc[h] = "insert" /\ UNCHANGED <<deleted, entries, made, slots, attempt>>
  BY DEF Insert
<1>2. ASSUME NEW i \in IF w.id = None THEN Fresh ELSE {w.id},
             Accepts(i, row.account), Put(i, row), Update(h, [w EXCEPT !.id = i, !.row = row]), Goto(h, "register"), UNCHANGED lock
      PROVE  RowsInv'
  <2> DEFINE new == [w EXCEPT !.id = i, !.row = row]
  <2>1. i \in Ids /\ row \in Row
    <3>1. CASE w.id = None
      BY <1>1, <3>1, TakenIs DEF Fresh, RowOk, LockOk, Critical, Row, Writer
    <3>2. CASE w.id # None
      BY <1>1, <3>2 DEF RowOk, Renews
    <3> QED
      BY <3>1, <3>2
  <2> HIDE DEF row
  <2>2. new \in Work /\ new.id = i /\ new.row = row /\ new.account = w.account /\ new.locked = w.locked
    BY <2>1 DEF Work
  <2>3. rows' = [rows EXCEPT ![i] = row] /\ pc' = [pc EXCEPT ![h] = "register"] /\ work' = [work EXCEPT ![h] = new]
    BY <1>2 DEF Put, Goto, Update
  <2>4. /\ \A g \in Handlers : Renews(g) /\ work[g].id = i => work[g].row.account = row.account
        /\ row.account \in Ruled => IdsOf(row.account) \subseteq {i}
        /\ row.account \in Ruled \ Unique => lock = h
    <3>1. CASE w.id = None
      <4>1. row.account = w.account /\ i \in Fresh
        BY <3>1 DEF row
      <4>2. \A g \in Handlers : ~(Renews(g) /\ work[g].id = i)
        BY <4>1 DEF RowsInv, RowOk, Known, Fresh, Held
      <4> QED
        BY <1>1, <1>2, <3>1, <4>1, <4>2, RuledHolds DEF Accepts, OneOk
    <3>2. CASE w.id # None
      <4>1. row = w.row /\ i = w.id /\ Renews(h)
        BY <1>1, <3>2 DEF row, Renews
      <4>2. \A g \in Handlers : Renews(g) /\ work[g].id = i => work[g].row.account = row.account
        BY <4>1 DEF RowsInv, SameAccount
      <4> QED
        BY <1>2, <4>1, <4>2, RuledHolds DEF Accepts, OneOk
    <3> QED
      BY <3>1, <3>2
  <2> HIDE DEF new, row
  <2>5. /\ new.id \in Ids /\ new.row \in Row /\ rows' = [rows EXCEPT ![new.id] = new.row]
        /\ \A g \in Handlers : Renews(g) /\ work[g].id = new.id => work[g].row.account = new.row.account
        /\ new.row.account \in Ruled => IdsOf(new.row.account) \subseteq {new.id}
        /\ new.row.account \in Ruled \ Unique => lock = h
    BY <2>1, <2>2, <2>3, <2>4
  <2>6. UNCHANGED <<deleted, entries, made, slots, lock, attempt>>
    BY <1>1, <1>2
  <2> QED
    BY <1>1, <2>2, <2>3, <2>5, <2>6, PutRows
<1>3. CASE End(h, "unsaved") /\ UNCHANGED <<rows, work>>
  BY <1>1, <1>3, EndRows
<1> QED
  BY <1>2, <1>3, Zenon DEF Insert

LEMMA DeleteRowRows == ASSUME RowsInv, NEW h \in Handlers, DeleteRow(h), UNCHANGED flowVars PROVE RowsInv'
<1> USE Typed DEF flowVars, storeVars, registryVars
<1> DEFINE i == work[h].id
<1>1. pc[h] = "delete" /\ UNCHANGED <<entries, made, slots, work, attempt>>
  BY DEF DeleteRow
<1>2. CASE rows[i] = None
  <2>1. End(h, "unsaved") /\ UNCHANGED <<rows, deleted>>
    BY <1>2 DEF DeleteRow
  <2> QED
    BY <1>1, <2>1, EndRows
<1>3. CASE rows[i] # None
  <2>1. rows' = [rows EXCEPT ![i] = None] /\ deleted' = deleted \cup {i} /\ pc' = [pc EXCEPT ![h] = "forget"]
        /\ lock' = IF lock = h THEN None ELSE lock
    BY <1>3 DEF DeleteRow, Put, End, Goto
  <2>2. h \in Deletes /\ work[h].locked
    BY <1>1 DEF LockOk
  <2>3. i # None /\ lock = h
    BY <1>1, <2>2, Disjoint DEF LockOk, Critical
  <2>4. i \in Ids /\ i \in deleted'
    BY <2>1, <2>3
  <2>5. (\A account : IdsOf(account)' \subseteq IdsOf(account)) /\ \A j : (Known(j) => Known(j)') /\ (rows'[j] # None => rows'[j] = rows[j])
    BY <2>1, <2>4 DEF IdsOf, Held, Known
  <2>6. /\ pc'[h] = "forget" /\ \A g \in Handlers \ {h} : pc'[g] = pc[g]
    BY <2>1
  <2>7. SaveTypes'
    BY <1>1, <2>1, <2>4 DEF SaveTypes, ConnectionsTypeOK, Places, Owned
  <2>8. ~Renews(h)' /\ LockOk(h)' /\ RowOk(h)' /\ OneOk(h)'
    BY <1>1, <2>4, <2>6 DEF Renews, RowAgain, LockOk, Critical, RowOk, OneOk
  <2>9. ASSUME NEW g \in Handlers \ {h}
        PROVE  LockOk(g)' /\ RowOk(g)' /\ OneOk(g)' /\ (Renews(g)' <=> Renews(g))
    <3>1. LockOk(g) /\ RowOk(g) /\ OneOk(g)
      BY DEF RowsInv
    <3>2. (Renews(g)' <=> Renews(g)) /\ work'[g] = work[g] /\ pc'[g] = pc[g] /\ attempt'[g] = attempt[g]
      BY <1>1, <2>6 DEF Renews
    <3>3. LockOk(g)'
      BY <2>3, <3>1, <3>2, Disjoint DEF LockOk
    <3>4. RowOk(g)'
      BY <2>1, <2>5, <3>1, <3>2 DEF RowOk
    <3>5. OneOk(g)'
      BY <2>5, <3>1, <3>2 DEF OneOk
    <3> QED
      BY <3>2, <3>3, <3>4, <3>5
  <2>10. ASSUME NEW g \in Handlers, NEW o \in Handlers PROVE SameAccount(g, o)'
    <3>1. SameAccount(g, o)
      BY DEF RowsInv
    <3> QED
      BY <1>1, <2>8, <2>9, <3>1 DEF SameAccount
  <2>11. OneRowPerAccount'
    BY <2>5 DEF RowsInv, OneRowPerAccount
  <2> QED
    BY <2>7, <2>8, <2>9, <2>10, <2>11 DEF RowsInv
<1> QED
  BY <1>2, <1>3

\* A request that begins, ends or gives up without saving.
LEMMA PollRows ==
    ASSUME RowsInv, NEW h \in Handlers,
           NEW to \in {"polling", "exchange", "done", "connected"}, pc' = [pc EXCEPT ![h] = to],
           UNCHANGED <<storeVars, registryVars, lock, work>>,
           attempt' \in [Handlers -> Attempts \cup {None}],
           \A g \in Handlers \ {h} : attempt'[g] = attempt[g],
           to = "polling" => h \in Polls /\ attempt'[h] \in Attempts,
           to = "exchange" => h \in SignIns /\ attempt'[h] \in Attempts \ Device
    PROVE  RowsInv'
<1> USE Typed DEF storeVars, registryVars
<1>1. work' = [work EXCEPT ![h] = work[h]] /\ entries' \in [Ids -> Entry \cup {None}] /\ made' \in Nat
  OBVIOUS
<1> QED
  BY <1>1, OtherRows

\* A sign-in that takes connectionMu waits for it; one that does not is for a loose account
\* and renews, if anything, an unlocked connection.
LEMMA StartSaveRows ==
    ASSUME RowsInv, NEW h \in SignIns, NEW account \in Accounts, NEW id \in Ids \cup {None}, NEW rule \in BOOLEAN,
           StartSave(h, account, id, rule), ~rule => account \in Loose /\ id \in Unlocked \cup {None},
           UNCHANGED <<storeVars, registryVars, lock, attempt>>
    PROVE  RowsInv'
<1> USE Typed DEF storeVars, registryVars
<1> DEFINE new == [work[h] EXCEPT !.account = account, !.id = id, !.locked = rule]
<1>1. h \in Handlers /\ h \notin Edits /\ account # None
  BY Disjoint
<1>2. new \in Work /\ new.account = account /\ new.id = id /\ new.locked = rule
  BY <1>1 DEF Work
<1>3. pc' = [pc EXCEPT ![h] = IF rule THEN "lock" ELSE "match"] /\ work' = [work EXCEPT ![h] = new]
  BY <1>1 DEF StartSave, Goto, Update
<1> HIDE DEF new
<1>4. CASE rule
  BY <1>1, <1>2, <1>3, <1>4, OtherRows
<1>5. CASE ~rule
  <2>1. pc' = [pc EXCEPT ![h] = "match"] /\ "match" \in Places /\ "match" \notin RowAgain
    BY <1>3, <1>5 DEF Places, Owned, RowAgain
  <2>2. SaveTypes'
    BY <1>1, <1>2, <1>3, <2>1 DEF SaveTypes, ConnectionsTypeOK
  <2>3. pc'[h] = "match" /\ work'[h] = new
    BY <1>1, <1>3, <2>1
  <2>4. LockOk(h)'
    BY <1>1, <1>2, <1>5, <2>3 DEF LockOk, Critical, RowAgain
  <2>5. lock' = h => lock \in {h, None}
    OBVIOUS
  <2> QED
    BY <1>1, <1>2, <1>3, <2>1, <2>2, <2>4, <2>5, QuietRows
<1> QED
  BY <1>4, <1>5

LEMMA PollActionRows == ASSUME RowsInv, NEW h \in Handlers, Poll(h) PROVE RowsInv'
<1> USE Typed, Disjoint DEF flowVars, Goto
<1>1. CASE StillPending(h)
  BY <1>1, PollRows DEF StillPending
<1>2. CASE SlowDown(h)
  BY <1>2, PollRows DEF SlowDown
<1>3. CASE Rejected(h)
  BY <1>3, PollRows DEF Rejected
<1>4. CASE Reserve(h)
  <2>1. /\ pc[h] = "polling" /\ UNCHANGED <<storeVars, registryVars, lock, attempt>>
    BY <1>4 DEF Reserve
  <2>2. h \in SignIns /\ attempt[h] \in Attempts
    BY <2>1 DEF LockOk
  <2>3. CASE MayReserve(attempt[h])
    <3>1. StartSave(h, SignsIn[attempt[h]], Target[attempt[h]], TRUE)
      BY <1>4, <2>3 DEF Reserve
    <3>2. SignsIn[attempt[h]] \in Accounts /\ Target[attempt[h]] \in Ids \cup {None}
      BY <2>2, SignInAssumption
    <3> QED
      BY <2>1, <2>2, <3>1, <3>2, StartSaveRows
  <2>4. CASE ~MayReserve(attempt[h])
    BY <1>4, <2>1, <2>4, PollRows DEF Reserve
  <2> QED
    BY <2>3, <2>4
<1>5. CASE Settle(h)
  <2>1. \E to \in {"connected", "done"} : pc' = [pc EXCEPT ![h] = to]
    BY <1>5 DEF Settle
  <2> QED
    BY <1>5, <2>1, PollRows DEF Settle
<1> QED
  BY <1>1, <1>2, <1>3, <1>4, <1>5 DEF Poll

LEMMA RowsInit == Init => RowsInv
<1> SUFFICES ASSUME Init PROVE RowsInv
  OBVIOUS
<1> USE DEF Init, ConnectionsInit
<1>1. SaveTypes
  <2>1. rows \in [Ids -> Row \cup {None}]
    BY ConnectionsAssumption, TakenIs DEF Row, Writer
  <2>2. NewWork \in Work
    BY DEF NewWork, Work
  <2> QED
    BY <2>1, <2>2 DEF SaveTypes, ConnectionsTypeOK, Places
<1>2. \A h \in Handlers : pc[h] = "idle"
  OBVIOUS
<1>3. \A h \in Handlers : LockOk(h) /\ RowOk(h) /\ OneOk(h) /\ ~Renews(h)
  BY <1>2 DEF LockOk, RowOk, OneOk, Renews, RowAgain, Critical
<1>4. \A i \in Ids : rows[i] # None => i \in DOMAIN Stored /\ rows[i].account = Stored[i]
  OBVIOUS
<1>5. OneRowPerAccount
  BY <1>4 DEF OneRowPerAccount, Ruled, IdsOf, Held
<1> QED
  BY <1>1, <1>3, <1>5 DEF RowsInv, SameAccount

LEMMA RowsNext == RowsInv /\ [Next]_vars => RowsInv'
<1> SUFFICES ASSUME RowsInv, [Next]_vars PROVE RowsInv'
  OBVIOUS
<1> USE Typed, Disjoint
<1>1. CASE UNCHANGED <<connectionVars, attempt>>
  BY <1>1 DEF connectionVars, storeVars, registryVars, RowsInv, SaveTypes, ConnectionsTypeOK, LockOk, RowOk, OneOk,
              SameAccount, Renews, Known, OneRowPerAccount, IdsOf, Held
<1>2. CASE UNCHANGED vars
  BY <1>1, <1>2 DEF vars, flowVars
<1>3. CASE Tick
  BY <1>1, <1>3 DEF Tick
<1>4. ASSUME NEW a \in Attempts, Begin(a) \/ Expire(a) \/ Cancel(a) PROVE RowsInv'
  BY <1>1, <1>4 DEF Begin, Expire, Cancel
<1>5. ASSUME NEW h \in Handlers, Claim(h) PROVE RowsInv'
  <2>1. PICK a \in Device : /\ attempt' = [attempt EXCEPT ![h] = a]
                            /\ \E to \in {"done", "polling"} : pc' = [pc EXCEPT ![h] = to]
    BY <1>5 DEF Claim, Goto
  <2>2. a \in Attempts
    BY SignInAssumption
  <2>3. attempt' \in [Handlers -> Attempts \cup {None}] /\ attempt'[h] \in Attempts /\ \A g \in Handlers \ {h} : attempt'[g] = attempt[g]
    BY <2>1, <2>2
  <2>4. h \in Polls /\ UNCHANGED <<storeVars, registryVars, lock, work>>
    BY <1>5 DEF Claim
  <2>5. PICK to \in {"done", "polling"} : pc' = [pc EXCEPT ![h] = to]
    BY <2>1
  <2> QED
    BY <2>3, <2>4, <2>5, PollRows
<1>6. ASSUME NEW h \in Handlers, Poll(h) PROVE RowsInv'
  BY <1>6, PollActionRows
<1>7. ASSUME NEW h \in Handlers, Consume(h) PROVE RowsInv'
  <2>1. PICK a \in Attempts \ Device : attempt' = [attempt EXCEPT ![h] = a]
    BY <1>7 DEF Consume
  <2>2. attempt' \in [Handlers -> Attempts \cup {None}] /\ attempt'[h] \in Attempts \ Device /\ \A g \in Handlers \ {h} : attempt'[g] = attempt[g]
    BY <2>1
  <2>3. h \in SignIns /\ pc' = [pc EXCEPT ![h] = "exchange"] /\ UNCHANGED <<storeVars, registryVars, lock, work>>
    BY <1>7 DEF Consume, Goto
  <2>4. "exchange" \in {"polling", "exchange", "done", "connected"} /\ "exchange" # "polling"
    OBVIOUS
  <2> QED
    BY <2>2, <2>3, <2>4, PollRows
<1>8. ASSUME NEW h \in Handlers, Exchange(h) PROVE RowsInv'
  <2> DEFINE a == attempt[h]
  <2>1. pc[h] = "exchange" /\ UNCHANGED <<storeVars, registryVars, lock, attempt>>
    BY <1>8 DEF Exchange, flowVars
  <2>2. h \in SignIns /\ a \in Attempts \ Device
    BY <2>1 DEF LockOk
  <2>3. CASE StartSave(h, SignsIn[a], Target[a], a \in Follows)
    <3>1. SignsIn[a] \in Accounts /\ Target[a] \in Ids \cup {None} /\ (a \in Follows) \in BOOLEAN
      BY <2>2, SignInAssumption
    <3>2. a \notin Follows => SignsIn[a] \in Loose /\ Target[a] \in Unlocked \cup {None}
      BY <2>2, SignInAssumption DEF Loose
    <3>3. CASE a \in Follows
      <4>1. (a \in Follows) = TRUE
        BY <3>3
      <4>2. StartSave(h, SignsIn[a], Target[a], TRUE)
        BY <2>3, <4>1, Zenon
      <4> QED
        BY <2>1, <2>2, <3>1, <4>2, StartSaveRows
    <3>4. CASE a \notin Follows
      <4>1. (a \in Follows) = FALSE
        BY <3>4
      <4>2. StartSave(h, SignsIn[a], Target[a], FALSE)
        BY <2>3, <4>1, Zenon
      <4> QED
        BY <2>1, <2>2, <3>1, <3>2, <3>4, <4>2, StartSaveRows
    <3> QED
      BY <3>3, <3>4
  <2>4. CASE Goto(h, "done") /\ UNCHANGED work
    BY <2>1, <2>4, PollRows DEF Goto
  <2> QED
    BY <1>8, <2>3, <2>4 DEF Exchange
<1>9. ASSUME NEW h \in Handlers, Import(h) PROVE RowsInv'
  <2>1. PICK account \in Accounts : StartSave(h, account, None, TRUE)
    BY <1>9 DEF Import
  <2>2. h \in SignIns /\ UNCHANGED <<storeVars, registryVars, lock, attempt>>
    BY <1>9 DEF Import, flowVars
  <2> QED
    BY <2>1, <2>2, StartSaveRows
<1>10. ASSUME NEW h \in Handlers, Save(h) PROVE RowsInv'
  BY <1>10, LockRows, MatchRows, LookupRows, AdoptRows, TakeSlotRows, ReadStoredRows, WriteRows, PublishRows, FallBackRows,
     InsertRows, RegisterRows DEF Save
<1>11. ASSUME NEW h \in Handlers, Request(h) PROVE RowsInv'
  BY <1>11, StartEditRows, DeleteRowRows, ForgetRows, ListRows, SeedNextRows, StartRefreshRows, RotateRows DEF Request
<1> QED
  BY <1>2, <1>3, <1>4, <1>5, <1>6, <1>7, <1>8, <1>9, <1>10, <1>11 DEF Next

\* Whatever sign-ins, imports, edits and deletes overlap, a ruled account has at most one
\* row: a save that follows the duplicate rule matches and adds under connectionMu
\* (oauth.go saveOnboardedResult), and one that does not meets the unique index.
THEOREM OneRow == Spec => []OneRowPerAccount
BY RowsInit, RowsNext, PTL DEF Spec, RowsInv
-----------------------------------------------------------------------------
(* Saves: what the registry serves *)

\* Places at which a request holds its entry's refresh slot, and at which it has looked
\* that entry up.
Holding(h) == pc[h] \in {"read", "write", "publish", "exchanging", "rotated"}
LookedUp(h) == pc[h] \in {"slot", "read", "write", "publish"}

\* The request names a connection that every save of it locks.
Lasting(h) == work[h].id # None /\ work[h].id \notin Unlocked

\* A credential that was read may be added to the registry: nobody has it there, and what
\* is stored is still what was read.
Listed(i, credential) ==
    /\ Known(i)
    /\ i \notin Unlocked /\ entries[i] = None /\ rows[i] # None => rows[i].credential = credential

\* One request at a time writes what an entry holds.
SlotOk(h) == Holding(h) =>
    /\ work[h].entry \in slots
    /\ \A g \in Handlers \ {h} : Holding(g) => work[g].entry # work[h].entry

\* The tokens a request names are its own; of the others, what a relink has read may since
\* have been refreshed, and what any other save has read has not.
Relink(h) == h \in Edits /\ Named[h] # {}
Brought(h, row) == \A t \in Named[h] : row.credential[t] = h
KeepsStored(h, row, stored) == \A t \in Tokens \ Named[h] : row.credential[t] = stored.credential[t]
KeepsRead(h, row, stored) ==
    \A t \in Tokens \ Named[h] : row.credential[t] = stored.credential[t] \/ stored.credential[t] \in Refreshes

\* A refresh holds the entry of its connection while the connection is stored, and
\* publishes what is stored.
RefreshOk(h) ==
    /\ pc[h] \in {"exchanging", "rotated"} => Known(work[h].id)
    /\ pc[h] = "exchanging" => \A c \in work[h].listed : c.id = work[h].id
    /\ pc[h] \in {"exchanging", "rotated"} /\ Lasting(h) /\ rows[work[h].id] # None =>
       /\ entries[work[h].id] # None /\ entries[work[h].id].entry = work[h].entry
       /\ pc[h] = "rotated" => work[h].row.credential = rows[work[h].id].credential

\* What a request that renews a lasting connection has read is what is stored, and the
\* entry it has looked up is the one in the registry.
Current(h) ==
    /\ RefreshOk(h)
    /\ pc[h] = "write" => Brought(h, work[h].row) /\ (h \in Edits => work[h].row.settings = h)
    /\ Renews(h) /\ Lasting(h) =>
       /\ pc[h] \notin {"fall back", "insert"} /\ rows[work[h].id] # None
       /\ h \in SignIns => work[h].row.settings = rows[work[h].id].settings
       /\ Relink(h) => KeepsRead(h, work[h].row, rows[work[h].id])
       /\ ~Relink(h) /\ pc[h] = "write" => KeepsStored(h, work[h].row, rows[work[h].id])
       /\ pc[h] = "look again" => entries[work[h].id] # None
    /\ pc[h] = "publish" /\ Lasting(h) =>
       rows[work[h].id] # None /\ work[h].row.credential = rows[work[h].id].credential
    /\ LookedUp(h) /\ Lasting(h) => entries[work[h].id] # None /\ entries[work[h].id].entry = work[h].entry
    /\ pc[h] = "saved" /\ h \in SignIns \cup Edits /\ Lasting(h) /\ rows[work[h].id] # None => entries[work[h].id] # None

\* What a request goes on to add to the registry may be added.
ListOk(h) ==
    /\ pc[h] \in {"seed", "adopt"} =>
       \A x \in work[h].listed : Listed(x.id, x.credential) /\ (pc[h] = "adopt" => x.id = work[h].id)
    /\ pc[h] = "register" => Listed(work[h].id, work[h].row.credential)

\* A deleted row does not come back, and the registry holds nothing that was never stored.
Gone == \A i \in deleted \ Unlocked : rows[i] = None
Entered == \A i \in Ids : entries[i] # None => Known(i)

Served(i) ==
    rows[i] # None /\ entries[i] # None =>
       entries[i].credential = rows[i].credential \/ \E h \in Handlers : pc[h] \in {"publish", "rotated"} /\ work[h].id = i

ServedInv ==
    /\ RowsInv /\ Gone /\ Entered
    /\ \A h \in Handlers : SlotOk(h) /\ Current(h) /\ ListOk(h)
    /\ \A i \in Ids \ Unlocked : Served(i)

\* At most one request is at the save of a lasting connection: the one that holds
\* connectionMu.
LEMMA LastingHolds ==
    ASSUME RowsInv, NEW h \in Handlers, Lasting(h), pc[h] \in Critical \ {"register"}
    PROVE  lock = h
<1> USE Typed
<1>1. LockOk(h) /\ work[h].locked \in BOOLEAN
  OBVIOUS
<1> QED
  BY <1>1 DEF LockOk, Lasting

\* A row of which only tokens change, and only to what a refresh brings.
Renewal(i) ==
    /\ rows'[i] # None /\ rows'[i].settings = rows[i].settings
    /\ \A t \in Tokens : rows'[i].credential[t] = rows[i].credential[t] \/ rows'[i].credential[t] \in Refreshes

\* A step of one request: the others keep what they know of the connections they save.
LEMMA ServedStep ==
    ASSUME ServedInv, RowsInv', NEW h \in Handlers,
           \A g \in Handlers \ {h} : pc'[g] = pc[g] /\ work'[g] = work[g],
           Gone', Entered', Current(h)', ListOk(h)',
           \A g \in Handlers \ {h} : Holding(g) =>
              work[g].entry \in slots' /\ (Holding(h)' => work[g].entry # work'[h].entry),
           Holding(h)' => work'[h].entry \in slots',
           \A i \in Ids : Known(i) => Known(i)',
           \A g \in Handlers \ {h} : Lasting(g) /\ (Renews(g) \/ pc[g] = "publish") =>
              /\ \/ rows'[work[g].id] = rows[work[g].id]
                 \/ ~Holding(g) /\ Renewal(work[g].id)
              /\ entries[work[g].id] # None => /\ entries'[work[g].id] # None
                                               /\ entries'[work[g].id].entry = entries[work[g].id].entry,
           \A g \in Handlers \ {h} : pc[g] \in {"exchanging", "rotated"} /\ Lasting(g) /\ rows'[work[g].id] # None =>
              /\ rows[work[g].id] # None
              /\ entries[work[g].id] # None => /\ entries'[work[g].id] # None
                                               /\ entries'[work[g].id].entry = entries[work[g].id].entry
              /\ pc[g] = "rotated" => rows'[work[g].id].credential = rows[work[g].id].credential,
           \A i \in Ids \ Unlocked : Known(i) /\ rows'[i] # None /\ entries'[i] = None =>
              rows[i] # None /\ entries[i] = None /\ rows'[i].credential = rows[i].credential,
           \A i \in Ids \ Unlocked :
              \/ Served(i)'
              \/ rows'[i] = rows[i] /\ entries'[i] = entries[i] /\ ~(pc[h] \in {"publish", "rotated"} /\ work[h].id = i)
    PROVE  ServedInv'
<1> USE Typed DEF ServedInv
<1>1. ASSUME NEW g \in Handlers \ {h} PROVE SlotOk(g)' /\ Current(g)' /\ ListOk(g)'
  <2>1. /\ pc'[g] = pc[g] /\ work'[g] = work[g] /\ (Renews(g)' <=> Renews(g)) /\ (Holding(g)' <=> Holding(g))
        /\ (Lasting(g)' <=> Lasting(g)) /\ (LookedUp(g)' <=> LookedUp(g))
    BY DEF Renews, Holding, Lasting, LookedUp
  <2>2. SlotOk(g) /\ Current(g) /\ ListOk(g) /\ RowOk(g)
    OBVIOUS
  <2>3. SlotOk(g)'
    <3>1. ASSUME Holding(g), NEW o \in Handlers \ {g}, Holding(o)' PROVE work'[o].entry # work'[g].entry
      <4>1. CASE o = h
        BY <2>1, <3>1, <4>1
      <4>2. CASE o # h
        BY <2>1, <2>2, <3>1, <4>2 DEF SlotOk, Holding
      <4> QED
        BY <4>1, <4>2
    <3> QED
      BY <2>1, <2>2, <3>1 DEF SlotOk
  <2>4. Listed(work[g].id, work[g].row.credential)' \/ pc[g] # "register"
    BY <2>1, <2>2 DEF ListOk, Listed, RowOk
  <2>5. ListOk(g)'
    <3>1. ASSUME NEW x \in work[g].listed, pc[g] \in {"seed", "adopt"} PROVE Listed(x.id, x.credential)'
      <4>1. Listed(x.id, x.credential) /\ x.id \in Ids
        BY <2>2, <3>1 DEF ListOk, Work, Read
      <4> QED
        BY <4>1 DEF Listed
    <3> QED
      BY <2>1, <2>2, <2>4, <3>1 DEF ListOk
  <2>6. LookedUp(g) => Renews(g) \/ pc[g] = "publish"
    BY DEF LookedUp, Renews, RowAgain
  <2>8. pc[g] = "saved" /\ g \in SignIns \cup Edits /\ Lasting(g) /\ rows'[work[g].id] # None => entries'[work[g].id] # None
    BY <2>2 DEF Current, RefreshOk, Brought, KeepsRead, KeepsStored, RowOk, Lasting
  <2>9. ASSUME Renews(g), Lasting(g)
        PROVE  /\ pc[g] \notin {"fall back", "insert"} /\ rows'[work[g].id] # None
               /\ g \in SignIns => work[g].row.settings = rows'[work[g].id].settings
               /\ Relink(g) => KeepsRead(g, work[g].row, rows'[work[g].id])
               /\ ~Relink(g) /\ pc[g] = "write" => KeepsStored(g, work[g].row, rows'[work[g].id])
               /\ pc[g] = "look again" => entries'[work[g].id] # None
    <3>1. /\ pc[g] \notin {"fall back", "insert"} /\ rows[work[g].id] # None
          /\ g \in SignIns => work[g].row.settings = rows[work[g].id].settings
          /\ Relink(g) => KeepsRead(g, work[g].row, rows[work[g].id])
          /\ ~Relink(g) /\ pc[g] = "write" => KeepsStored(g, work[g].row, rows[work[g].id])
          /\ pc[g] = "look again" => entries[work[g].id] # None
      BY <2>2, <2>9 DEF Current
    <3>2. rows'[work[g].id] = rows[work[g].id] \/ (~Holding(g) /\ Renewal(work[g].id))
      BY <2>9
    <3>3. CASE rows'[work[g].id] = rows[work[g].id]
      BY <2>9, <3>1, <3>3
    <3>4. CASE ~Holding(g) /\ Renewal(work[g].id)
      <4>1. pc[g] # "write"
        BY <3>4 DEF Holding
      <4>2. Relink(g) => KeepsRead(g, work[g].row, rows'[work[g].id])
        BY <3>1, <3>4 DEF KeepsRead, Renewal
      <4> QED
        BY <2>9, <3>1, <3>4, <4>1, <4>2 DEF Renewal
    <3> QED
      BY <3>2, <3>3, <3>4
  <2>10. pc[g] = "publish" /\ Lasting(g) =>
         rows'[work[g].id] # None /\ work[g].row.credential = rows'[work[g].id].credential
    BY <2>2 DEF Current, Holding
  <2>11. LookedUp(g) /\ Lasting(g) => entries'[work[g].id] # None /\ entries'[work[g].id].entry = work[g].entry
    BY <2>2, <2>6 DEF Current
  <2>12. pc[g] = "write" => Brought(g, work[g].row) /\ (g \in Edits => work[g].row.settings = g)
    BY <2>2 DEF Current
  <2>14. RefreshOk(g)'
    <3>1. RefreshOk(g) /\ (pc[g] \in {"exchanging", "rotated"} => work[g].id \in Ids)
      BY <2>2 DEF Current, RowOk
    <3> QED
      BY <2>1, <3>1 DEF RefreshOk
  <2>13. Current(g)'
    <3>1. /\ Brought(g, work[g].row)' <=> Brought(g, work[g].row)
          /\ KeepsRead(g, work[g].row, rows[work[g].id])' <=> KeepsRead(g, work[g].row, rows'[work[g].id])
          /\ KeepsStored(g, work[g].row, rows[work[g].id])' <=> KeepsStored(g, work[g].row, rows'[work[g].id])
      BY <2>1 DEF Brought, KeepsRead, KeepsStored
    <3> QED
      BY <2>1, <2>8, <2>9, <2>10, <2>11, <2>12, <2>14, <3>1 DEF Current
  <2> QED
    BY <2>3, <2>5, <2>13
<1>2. SlotOk(h)'
  <2>1. ASSUME Holding(h)', NEW o \in Handlers \ {h}, Holding(o)' PROVE work'[o].entry # work'[h].entry
    BY <2>1 DEF Holding
  <2> QED
    BY <2>1 DEF SlotOk
<1>3. ASSUME NEW i \in Ids \ Unlocked PROVE Served(i)'
  <2>1. CASE rows'[i] = rows[i] /\ entries'[i] = entries[i] /\ ~(pc[h] \in {"publish", "rotated"} /\ work[h].id = i)
    <3>1. Served(i)
      OBVIOUS
    <3>2. \A g \in Handlers : pc[g] \in {"publish", "rotated"} /\ work[g].id = i => pc'[g] = pc[g] /\ work'[g].id = i
      BY <2>1
    <3> QED
      BY <2>1, <3>1, <3>2 DEF Served
  <2> QED
    BY <2>1
<1> QED
  BY <1>1, <1>2, <1>3

\* A step that changes neither the rows nor the registry.
LEMMA QuietServed ==
    ASSUME ServedInv, RowsInv', NEW h \in Handlers, NEW to \in Places, NEW new \in Work,
           pc' = [pc EXCEPT ![h] = to], work' = [work EXCEPT ![h] = new],
           UNCHANGED <<rows, deleted, entries>>, pc[h] \notin {"publish", "rotated"},
           slots \ {work[h].entry} \subseteq slots', Holding(h) \/ slots \subseteq slots',
           to \in {"read", "write", "publish", "exchanging", "rotated"} =>
              /\ new.entry \in slots'
              /\ \/ Holding(h) /\ new.entry = work[h].entry
                 \/ new.entry \notin slots,
           Current(h)', ListOk(h)'
    PROVE  ServedInv'
<1> USE Typed DEF ServedInv
<1>1. pc'[h] = to /\ work'[h] = new /\ \A g \in Handlers \ {h} : pc'[g] = pc[g] /\ work'[g] = work[g]
  OBVIOUS
<1>2. Gone' /\ Entered' /\ \A i : Known(i) => Known(i)'
  BY DEF Gone, Entered, Known
<1>3. ASSUME NEW g \in Handlers \ {h}, Holding(g)
      PROVE  work[g].entry \in slots' /\ (Holding(h)' => work[g].entry # work'[h].entry)
  <2>1. work[g].entry \in slots /\ (Holding(h) => work[g].entry # work[h].entry)
    BY <1>3 DEF SlotOk
  <2>2. Holding(h)' => to \in {"read", "write", "publish", "exchanging", "rotated"}
    BY <1>1 DEF Holding
  <2> QED
    BY <1>1, <2>1, <2>2
<1>4. Holding(h)' => work'[h].entry \in slots'
  BY <1>1 DEF Holding
<1> QED
  BY <1>1, <1>2, <1>3, <1>4, ServedStep

\* A request that is not, or no longer, saving, or has read no row.
LEMMA UnclaimedServed ==
    ASSUME ServedInv, RowsInv', NEW h \in Handlers, NEW new \in Work,
           NEW to \in {"idle", "polling", "exchange", "done", "connected", "lock", "match", "delete", "insert", "unsaved"},
           pc' = [pc EXCEPT ![h] = to], work' = [work EXCEPT ![h] = new], to = "insert" => new.id = None,
           UNCHANGED <<rows, deleted, entries>>, pc[h] \notin {"publish", "rotated"},
           slots' = slots \/ (Holding(h) /\ slots' = slots \ {work[h].entry})
    PROVE  ServedInv'
<1> USE Typed DEF ServedInv
<1>1. pc'[h] = to /\ work'[h] = new /\ to \in Places
  BY DEF Places, Owned
<1>2. Current(h)' /\ ListOk(h)'
  BY <1>1 DEF Current, RefreshOk, Brought, KeepsRead, KeepsStored, ListOk, Renews, RowAgain, LookedUp
<1> QED
  BY <1>1, <1>2, QuietServed

\* A request that renews a row goes on, or stops to hold the slot of its entry.
LEMMA AgainServed ==
    ASSUME ServedInv, RowsInv', NEW h \in Handlers, NEW new \in Work, NEW to \in RowAgain \cup {"insert"},
           pc' = [pc EXCEPT ![h] = to], work' = [work EXCEPT ![h] = new],
           UNCHANGED <<rows, deleted, entries>>, pc[h] \in RowAgain, new.id = work[h].id,
           slots' = slots \/ (Holding(h) /\ slots' = slots \ {work[h].entry}),
           to \notin {"read", "write"} \/ (pc[h] = "read" /\ slots' = slots /\ new.entry = work[h].entry),
           to = "look again" => pc[h] = "look again",
           to = "write" => Brought(h, new.row) /\ (h \in Edits => new.row.settings = h),
           Lasting(h) =>
              /\ to \notin {"fall back", "insert"}
              /\ h \in SignIns => new.row.settings = rows[new.id].settings
              /\ Relink(h) => KeepsRead(h, new.row, rows[new.id])
              /\ ~Relink(h) /\ to = "write" => KeepsStored(h, new.row, rows[new.id])
              /\ to \in {"slot", "read", "write"} => entries[new.id] # None /\ entries[new.id].entry = new.entry,
           to = "adopt" => \A x \in new.listed : Listed(x.id, x.credential) /\ x.id = new.id
    PROVE  ServedInv'
<1> USE Typed DEF ServedInv
<1>1. pc'[h] = to /\ work'[h] = new /\ to \in Places /\ Renews(h)
  BY DEF Places, Owned, RowAgain, Renews
<1>2. Lasting(h)' <=> Lasting(h)
  BY <1>1 DEF Lasting
<1>3. Lasting(h) => rows[new.id] # None /\ (pc[h] = "look again" => entries[new.id] # None)
  <2>1. Current(h)
    OBVIOUS
  <2> QED
    BY <1>1, <2>1 DEF Current
<1>4. Current(h)'
  <2>1. LookedUp(h)' <=> to \in {"slot", "read", "write"}
    BY <1>1 DEF LookedUp, RowAgain
  <2>2. to # "publish" /\ to \notin {"saved", "exchanging", "rotated"}
    BY DEF RowAgain
  <2> QED
    BY <1>1, <1>2, <1>3, <2>1, <2>2 DEF Current, RefreshOk
<1>5. ListOk(h)'
  <2>1. to # "seed" /\ to # "register"
    BY DEF RowAgain
  <2> QED
    BY <1>1, <2>1 DEF ListOk, Listed, Known
<1>6. /\ slots \ {work[h].entry} \subseteq slots' /\ (Holding(h) \/ slots \subseteq slots')
      /\ to \in {"read", "write", "publish", "exchanging", "rotated"} => new.entry \in slots' /\ Holding(h) /\ new.entry = work[h].entry
  BY DEF SlotOk, Holding, RowAgain
<1>7. pc[h] \notin {"publish", "rotated"}
  BY DEF RowAgain
<1> QED
  BY <1>1, <1>4, <1>5, <1>6, <1>7, QuietServed

LEMMA MatchServed == ASSUME ServedInv, RowsInv', NEW h \in Handlers, Match(h) PROVE ServedInv'
<1> USE Typed DEF ServedInv, storeVars, registryVars
<1> DEFINE w == work[h]
           same == IdsOf(w.account)
<1>1. pc[h] = "match" /\ UNCHANGED <<rows, deleted, entries, made, slots>>
  BY DEF Match
<1>2. ASSUME NEW i \in Ids, NEW new \in Work, rows[i] # None, new.id = i, new.row = rows[i],
             pc' = [pc EXCEPT ![h] = "lookup"], work' = [work EXCEPT ![h] = new]
      PROVE  ServedInv'
  <2>1. pc'[h] = "lookup" /\ work'[h] = new /\ "lookup" \in Places
    BY <1>2 DEF Places, Owned
  <2>2. RefreshOk(h)' /\ ListOk(h)' /\ ~LookedUp(h)'
    BY <2>1 DEF RefreshOk, ListOk, LookedUp
  <2>3. KeepsRead(h, new.row, rows[i])
    BY <1>2 DEF KeepsRead
  <2>4. Current(h)'
    BY <1>1, <1>2, <2>1, <2>2, <2>3 DEF Current
  <2> QED
    BY <1>1, <1>2, <2>1, <2>2, <2>4, QuietServed
<1>3. CASE w.id # None /\ rows[w.id] # None /\ (h \in Edits \/ rows[w.id].account = w.account)
  <2> DEFINE new == [w EXCEPT !.row = rows[w.id]]
  <2>1. pc' = [pc EXCEPT ![h] = "lookup"] /\ work' = [work EXCEPT ![h] = new]
    BY <1>3, Zenon DEF Match, Goto, Update
  <2>2. w.id \in Ids /\ rows[w.id] \in Row
    BY <1>3
  <2>3. new \in Work /\ new.row = rows[w.id] /\ new.id = w.id
    BY <2>2 DEF Work
  <2> HIDE DEF new
  <2> QED
    BY <1>2, <1>3, <2>1, <2>2, <2>3
<1>4. CASE w.id # None /\ ~(rows[w.id] # None /\ (h \in Edits \/ rows[w.id].account = w.account))
  <2>1. pc' = [pc EXCEPT ![h] = "unsaved"] /\ work' = [work EXCEPT ![h] = w]
    BY <1>4, Zenon DEF Match, End, Goto
  <2> QED
    BY <1>1, <2>1, UnclaimedServed
<1>5. CASE w.id = None /\ w.locked /\ same # {}
  <2>1. PICK first \in same :
            work' = [work EXCEPT ![h] = [w EXCEPT !.id = first, !.row = rows[first]]] /\ pc' = [pc EXCEPT ![h] = "lookup"]
    BY <1>5, Zenon DEF Match, Goto, Update
  <2> DEFINE new == [w EXCEPT !.id = first, !.row = rows[first]]
  <2>2. first \in Ids /\ rows[first] # None /\ rows[first] \in Row
    BY DEF IdsOf, Held
  <2>3. new \in Work /\ new.row = rows[first] /\ new.id = first
    BY <2>2 DEF Work
  <2>4. work' = [work EXCEPT ![h] = new]
    BY <2>1
  <2> HIDE DEF new
  <2> QED
    BY <1>2, <2>1, <2>2, <2>3, <2>4
<1>6. CASE w.id = None /\ ~(w.locked /\ same # {})
  <2>1. pc' = [pc EXCEPT ![h] = "insert"] /\ work' = [work EXCEPT ![h] = w]
    BY <1>6, Zenon DEF Match, Goto
  <2> QED
    BY <1>1, <1>6, <2>1, UnclaimedServed
<1> QED
  BY <1>3, <1>4, <1>5, <1>6

LEMMA LookupServed == ASSUME ServedInv, RowsInv', NEW h \in Handlers, Lookup(h) PROVE ServedInv'
<1> USE Typed DEF ServedInv, storeVars, registryVars
<1> DEFINE w == work[h]
<1>1. pc[h] \in {"lookup", "look again"} /\ UNCHANGED <<rows, deleted, entries, made, slots>>
  BY DEF Lookup
<1>2. pc[h] \in RowAgain /\ Renews(h)
  BY <1>1 DEF Renews, RowAgain
<1>3. w.id \in Ids /\ Known(w.id)
  BY <1>2 DEF RowOk
<1>4. Lasting(h) => /\ rows[w.id] # None /\ (h \in SignIns => w.row.settings = rows[w.id].settings)
                    /\ Relink(h) => KeepsRead(h, w.row, rows[w.id])
                    /\ pc[h] = "look again" => entries[w.id] # None
  BY <1>2 DEF Current, RefreshOk, Brought, KeepsRead, KeepsStored
<1>5. CASE entries[w.id] # None
  <2> DEFINE new == [w EXCEPT !.entry = entries[w.id].entry]
  <2>1. pc' = [pc EXCEPT ![h] = "slot"] /\ work' = [work EXCEPT ![h] = new]
    BY <1>5, Zenon DEF Lookup, Goto, Update
  <2>2. entries[w.id] \in Entry
    BY <1>3, <1>5
  <2>3. entries[w.id].entry \in Nat
    BY <2>2 DEF Entry
  <2>4. new \in Work /\ new.row = w.row /\ new.id = w.id /\ new.entry = entries[w.id].entry
    BY <2>3 DEF Work
  <2> HIDE DEF new
  <2> QED
    BY <1>1, <1>2, <1>4, <1>5, <2>1, <2>4, AgainServed DEF RowAgain
<1>6. CASE entries[w.id] = None /\ (pc[h] = "look again" \/ rows[w.id] = None)
  <2>1. pc' = [pc EXCEPT ![h] = "fall back"] /\ work' = [work EXCEPT ![h] = w]
    BY <1>6, Zenon DEF Lookup, Goto
  <2>2. ~Lasting(h)
    BY <1>4, <1>6
  <2> QED
    BY <1>1, <1>2, <2>1, <2>2, AgainServed DEF RowAgain
<1>7. CASE entries[w.id] = None /\ ~(pc[h] = "look again" \/ rows[w.id] = None)
  <2> DEFINE listed == {[id |-> w.id, credential |-> rows[w.id].credential]}
             new == [w EXCEPT !.listed = listed]
  <2>1. pc' = [pc EXCEPT ![h] = "adopt"] /\ work' = [work EXCEPT ![h] = new]
    BY <1>7, Zenon DEF Lookup, Goto, Update
  <2>2. rows[w.id].credential \in Credential
    BY <1>3, <1>7 DEF Row
  <2>3. listed \in SUBSET Read
    BY <1>3, <2>2 DEF Read
  <2>4. new \in Work /\ new.row = w.row /\ new.id = w.id /\ new.listed = listed
    <3> HIDE DEF listed
    <3> QED
      BY <2>3 DEF Work
  <2>5. \A x \in listed : Listed(x.id, x.credential) /\ x.id = w.id
    BY <1>3 DEF Listed
  <2> HIDE DEF new, listed
  <2> QED
    BY <1>1, <1>2, <1>4, <2>1, <2>4, <2>5, AgainServed DEF RowAgain
<1> QED
  BY <1>5, <1>6, <1>7

LEMMA TakeSlotServed == ASSUME ServedInv, RowsInv', NEW h \in Handlers, TakeSlot(h) PROVE ServedInv'
<1> USE Typed DEF ServedInv, storeVars, registryVars
<1> DEFINE w == work[h]
<1>1. /\ pc[h] = "slot" /\ pc' = [pc EXCEPT ![h] = "read"] /\ work' = [work EXCEPT ![h] = w]
      /\ w.entry \notin slots /\ slots' = slots \cup {w.entry} /\ UNCHANGED <<rows, deleted, entries>>
  BY DEF TakeSlot, Goto
<1>2. pc'[h] = "read" /\ work'[h] = w /\ "read" \in Places
  BY <1>1 DEF Places, Owned
<1>3. Current(h)'
  <2>1. /\ Renews(h) /\ Renews(h)' /\ LookedUp(h) /\ LookedUp(h)' /\ (Lasting(h)' <=> Lasting(h)) /\ RefreshOk(h)'
    BY <1>1, <1>2 DEF Renews, RowAgain, LookedUp, Lasting, RefreshOk
  <2> QED
    BY <1>1, <1>2, <2>1 DEF Current
<1>4. ListOk(h)'
  BY <1>2 DEF ListOk
<1> QED
  BY <1>1, <1>2, <1>3, <1>4, QuietServed

\* What a merged row holds of what it is merged from.
LEMMA MergedKeeps ==
    ASSUME NEW h \in SignIns \cup Edits, NEW row
    PROVE  /\ Brought(h, Merged(h, row))
           /\ h \in Edits => Merged(h, row).settings = h
           /\ Relink(h) => KeepsStored(h, Merged(h, row), work[h].row)
           /\ ~Relink(h) => KeepsStored(h, Merged(h, row), row)
<1>1. Named[h] \subseteq Tokens
  BY ConnectionsAssumption
<1> QED
  BY <1>1 DEF Merged, Taken, Brought, KeepsStored, Relink

LEMMA ReadStoredServed == ASSUME ServedInv, RowsInv', NEW h \in Handlers, ReadStored(h) PROVE ServedInv'
<1> USE Typed DEF ServedInv, storeVars, registryVars
<1> DEFINE w == work[h]
<1>1. pc[h] = "read" /\ UNCHANGED <<rows, deleted, entries>>
  BY DEF ReadStored
<1>2. pc[h] \in RowAgain /\ Renews(h) /\ Holding(h)
  BY <1>1 DEF Renews, RowAgain, Holding
<1>3. w.id \in Ids /\ w.row \in Row /\ h \in SignIns \cup Edits
  BY <1>1, <1>2 DEF RowOk, LockOk, Critical, RowAgain
<1>4. Lasting(h) => /\ rows[w.id] # None /\ (h \in SignIns => w.row.settings = rows[w.id].settings)
                    /\ Relink(h) => KeepsRead(h, w.row, rows[w.id])
                    /\ entries[w.id] # None /\ entries[w.id].entry = w.entry
  BY <1>1, <1>2 DEF Current, RefreshOk, Brought, KeepsRead, KeepsStored, LookedUp
<1>5. CASE rows[w.id] = None
  <2>1. pc' = [pc EXCEPT ![h] = "fall back"] /\ work' = [work EXCEPT ![h] = w] /\ slots' = slots \ {w.entry}
    BY <1>5 DEF ReadStored, Goto, FreeSlot
  <2>2. ~Lasting(h)
    BY <1>4, <1>5
  <2> QED
    BY <1>1, <1>2, <2>1, <2>2, AgainServed DEF RowAgain
<1>6. CASE rows[w.id] # None
  <2> DEFINE row == Merged(h, rows[w.id])
             new == [w EXCEPT !.row = row]
  <2>1. pc' = [pc EXCEPT ![h] = "write"] /\ work' = [work EXCEPT ![h] = new] /\ slots' = slots
    BY <1>6, Zenon DEF ReadStored, Goto, Update
  <2>2. rows[w.id] \in Row
    BY <1>3, <1>6
  <2>3. /\ row \in Row /\ Brought(h, row)
        /\ h \in Edits => row.settings = h
        /\ h \notin Edits => row.settings = w.row.settings
        /\ Relink(h) => KeepsStored(h, row, w.row)
        /\ ~Relink(h) => KeepsStored(h, row, rows[w.id])
    BY <1>3, <2>2, MergedIs, MergedKeeps
  <2>6. Relink(h) /\ Lasting(h) => KeepsRead(h, row, rows[w.id])
    BY <1>4, <2>3 DEF KeepsRead, KeepsStored
  <2>7. ~Relink(h) => KeepsStored(h, row, rows[w.id])
    BY <2>3
  <2>4. new \in Work /\ new.row = row /\ new.id = w.id /\ new.entry = w.entry
    <3> HIDE DEF row
    <3> QED
      BY <2>3 DEF Work
  <2>5. h \in SignIns => h \notin Edits
    BY Disjoint
  <2> HIDE DEF new, row
  <2> QED
    BY <1>1, <1>2, <1>4, <2>1, <2>3, <2>4, <2>5, <2>6, <2>7, AgainServed DEF RowAgain
<1> QED
  BY <1>5, <1>6

LEMMA FallBackServed == ASSUME ServedInv, RowsInv', NEW h \in Handlers, FallBack(h) PROVE ServedInv'
<1> USE Typed DEF ServedInv, storeVars, registryVars
<1> DEFINE w == work[h]
<1>1. pc[h] = "fall back" /\ UNCHANGED <<rows, deleted, entries, slots>>
  BY DEF FallBack
<1>2. pc[h] \in RowAgain /\ Renews(h)
  BY <1>1 DEF Renews, RowAgain
<1>3. w.id \in Ids /\ w.row \in Row /\ ~Lasting(h)
  BY <1>1, <1>2 DEF RowOk, Current, RefreshOk, Brought, KeepsRead, KeepsStored
<1>4. CASE rows[w.id] = None
  <2>1. pc' = [pc EXCEPT ![h] = "unsaved"] /\ work' = [work EXCEPT ![h] = w]
    BY <1>4 DEF FallBack, End, Goto
  <2> QED
    BY <1>1, <2>1, UnclaimedServed
<1>5. CASE rows[w.id] # None
  <2> DEFINE row == Merged(h, rows[w.id])
             new == [w EXCEPT !.row = row]
  <2>1. pc' = [pc EXCEPT ![h] = "insert"] /\ work' = [work EXCEPT ![h] = new]
    BY <1>5, Zenon DEF FallBack, Goto, Update
  <2>2. rows[w.id] \in Row
    BY <1>3, <1>5
  <2>3. row \in Row
    BY <1>3, <2>2, MergedIs
  <2>4. new \in Work /\ new.id = w.id
    <3> HIDE DEF row
    <3> QED
      BY <2>3 DEF Work
  <2> HIDE DEF new, row
  <2> QED
    BY <1>1, <1>2, <1>3, <2>1, <2>4, AgainServed DEF RowAgain
<1> QED
  BY <1>4, <1>5

\* A request's seeding of a credential that may be added: the registry then holds what is
\* stored, in the entry it had.
LEMMA SeededServed ==
    ASSUME ServedInv, RowsInv', NEW h \in Handlers, NEW i \in Ids, NEW credential \in Credential,
           Listed(i, credential), Seeded(i, credential),
           \A g \in Handlers \ {h} : pc'[g] = pc[g] /\ work'[g] = work[g],
           UNCHANGED <<rows, deleted, slots>>, pc[h] \notin {"publish", "rotated"}, ~Holding(h)',
           entries'[i] # None => Current(h)' /\ ListOk(h)'
    PROVE  ServedInv'
<1> USE Typed DEF ServedInv
<1>1. entries'[i] # None /\ \A j \in Ids \ {i} : entries'[j] = entries[j]
  <2>1. CASE entries[i] = None
    <3>1. entries' = [entries EXCEPT ![i] = [entry |-> made + 1, credential |-> credential]]
      BY <2>1 DEF Seeded, Add
    <3>2. [entry |-> made + 1, credential |-> credential] \in Entry
      BY DEF Entry
    <3> QED
      BY <3>1, <3>2, Disjoint
  <2>2. CASE entries[i] # None /\ rows[i] = None
    BY <2>2 DEF Seeded
  <2>3. CASE entries[i] # None /\ rows[i] # None
    <3> DEFINE new == [entries[i] EXCEPT !.credential = rows[i].credential]
    <3>1. entries' = [entries EXCEPT ![i] = new]
      BY <2>3 DEF Seeded
    <3>2. entries[i] \in Entry /\ rows[i] \in Row
      BY <2>3
    <3>3. new \in Entry
      BY <3>2 DEF Entry, Row
    <3> HIDE DEF new
    <3> QED
      BY <3>1, <3>3, Disjoint
  <2> QED
    BY <2>1, <2>2, <2>3
<1>2. entries[i] # None => entries'[i].entry = entries[i].entry
  <2> SUFFICES ASSUME entries[i] # None PROVE entries'[i].entry = entries[i].entry
    OBVIOUS
  <2>1. entries[i] \in Entry
    OBVIOUS
  <2> QED
    BY <2>1 DEF Seeded, Entry
<1>3. i \notin Unlocked /\ rows[i] # None => entries'[i].credential = rows[i].credential
  <2> SUFFICES ASSUME i \notin Unlocked, rows[i] # None PROVE entries'[i].credential = rows[i].credential
    OBVIOUS
  <2>1. CASE entries[i] = None
    BY <2>1 DEF Seeded, Add, Listed
  <2>2. CASE entries[i] # None
    <3>1. entries[i] \in Entry
      BY <2>2
    <3> QED
      BY <2>2, <3>1 DEF Seeded, Entry
  <2> QED
    BY <2>1, <2>2
<1>4. Gone' /\ (\A j : Known(j) => Known(j)') /\ Entered'
  <2>1. Known(i)
    BY DEF Listed
  <2> QED
    BY <1>1, <2>1 DEF Gone, Known, Entered
<1>5. \A g \in Handlers \ {h} : Holding(g) => work[g].entry \in slots'
  BY DEF SlotOk
<1>6. ASSUME NEW g \in Handlers, Lasting(g), entries[work[g].id] # None
      PROVE  entries'[work[g].id] # None /\ entries'[work[g].id].entry = entries[work[g].id].entry
  <2>1. work[g].id \in Ids
    BY <1>6 DEF Lasting
  <2> QED
    BY <1>1, <1>2, <1>6, <2>1
<1>7. ASSUME NEW j \in Ids \ Unlocked
      PROVE Served(j)' \/ (rows'[j] = rows[j] /\ entries'[j] = entries[j] /\ ~(pc[h] \in {"publish", "rotated"} /\ work[h].id = j))
  BY <1>1, <1>3 DEF Served
<1> QED
  BY <1>1, <1>4, <1>5, <1>6, <1>7, ServedStep

\* Seeding takes nothing out of the registry.
LEMMA SeededKeeps ==
    ASSUME RowsInv, NEW h \in Handlers, NEW i \in Ids, NEW credential \in Credential, Seeded(i, credential)
    PROVE  \A j \in Ids : entries[j] # None => entries'[j] # None
<1> USE Typed
<1>1. CASE entries[i] = None
  BY <1>1 DEF Seeded, Add
<1>2. CASE entries[i] # None /\ rows[i] # None
  <2> DEFINE new == [entries[i] EXCEPT !.credential = rows[i].credential]
  <2>1. entries' = [entries EXCEPT ![i] = new]
    BY <1>2 DEF Seeded
  <2>2. entries[i] \in Entry /\ rows[i] \in Row
    BY <1>2
  <2>3. new \in Entry
    BY <2>2 DEF Entry, Row
  <2> HIDE DEF new
  <2> QED
    BY <2>1, <2>3, Disjoint
<1>3. CASE entries[i] # None /\ rows[i] = None
  BY <1>3 DEF Seeded
<1> QED
  BY <1>1, <1>2, <1>3

LEMMA AdoptServed == ASSUME ServedInv, RowsInv', NEW h \in Handlers, Adopt(h) PROVE ServedInv'
<1> USE Typed DEF ServedInv, storeVars, registryVars
<1> DEFINE w == work[h]
<1>1. /\ pc[h] = "adopt" /\ pc' = [pc EXCEPT ![h] = "look again"] /\ UNCHANGED <<rows, deleted, slots, work>>
  BY DEF Adopt, Goto
<1>2. PICK c \in w.listed : Seeded(c.id, c.credential)
  BY DEF Adopt
<1>3. c.id \in Ids /\ c.credential \in Credential
  BY DEF Work, Read
<1>4. Listed(c.id, c.credential) /\ c.id = w.id
  BY <1>1 DEF ListOk
<1>5. pc'[h] = "look again" /\ work'[h] = w /\ \A g \in Handlers \ {h} : pc'[g] = pc[g] /\ work'[g] = work[g]
  BY <1>1
<1>6. Renews(h) /\ ~Holding(h)'
  BY <1>1, <1>5 DEF Renews, RowAgain, Holding
<1>7. entries'[c.id] # None => Current(h)' /\ ListOk(h)'
  <2>1. Current(h)
    OBVIOUS
  <2> QED
    BY <1>1, <1>4, <1>5, <1>6, <2>1 DEF Current, RefreshOk, Brought, KeepsRead, KeepsStored, ListOk, LookedUp, Lasting
<1> QED
  BY <1>1, <1>2, <1>3, <1>4, <1>5, <1>6, <1>7, SeededServed

LEMMA SeedNextServed == ASSUME ServedInv, RowsInv', NEW h \in Handlers, SeedNext(h) PROVE ServedInv'
<1> USE Typed DEF ServedInv, storeVars, registryVars
<1> DEFINE w == work[h]
<1>1. PICK c \in w.listed : Seeded(c.id, c.credential) /\ Update(h, [w EXCEPT !.listed = @ \ {c}])
  BY DEF SeedNext
<1>2. pc[h] = "seed" /\ UNCHANGED <<rows, deleted, slots, pc>>
  BY DEF SeedNext
<1>3. c.id \in Ids /\ c.credential \in Credential
  BY DEF Work, Read
<1>4. Listed(c.id, c.credential)
  BY <1>2 DEF ListOk
<1>5. pc'[h] = "seed" /\ work'[h].listed = w.listed \ {c} /\ \A g \in Handlers \ {h} : pc'[g] = pc[g] /\ work'[g] = work[g]
  BY <1>1, <1>2 DEF Update, Work
<1>6. ~Holding(h)'
  BY <1>5 DEF Holding
<1>7. entries'[c.id] # None => Current(h)' /\ ListOk(h)'
  <2> SUFFICES ASSUME entries'[c.id] # None PROVE Current(h)' /\ ListOk(h)'
    OBVIOUS
  <2>1. Current(h)'
    BY <1>5 DEF Current, RefreshOk, Brought, KeepsRead, KeepsStored, Renews, RowAgain, LookedUp
  <2>2. ASSUME NEW x \in w.listed PROVE Listed(x.id, x.credential)'
    <3>1. Listed(x.id, x.credential) /\ x.id \in Ids
      BY <1>2 DEF ListOk, Work, Read
    <3>2. entries[x.id] # None => entries'[x.id] # None
      BY <1>1, <1>3, <3>1, SeededKeeps
    <3> QED
      BY <1>2, <3>1, <3>2 DEF Listed, Known
  <2> QED
    BY <1>5, <2>1, <2>2 DEF ListOk
<1> QED
  BY <1>1, <1>2, <1>3, <1>4, <1>5, <1>6, <1>7, SeededServed

LEMMA RegisterServed == ASSUME ServedInv, RowsInv', NEW h \in Handlers, Register(h) PROVE ServedInv'
<1> USE Typed DEF ServedInv, storeVars, registryVars
<1> DEFINE w == work[h]
<1>1. pc[h] = "register" /\ UNCHANGED <<rows, deleted, slots, work>>
  BY DEF Register
<1>2. w.id \in Ids /\ w.row \in Row /\ Listed(w.id, w.row.credential)
  BY <1>1 DEF RowOk, ListOk
<1>3. CASE Seeded(w.id, w.row.credential) /\ End(h, "saved")
  <2>1. w.row.credential \in Credential
    BY <1>2 DEF Row
  <2>2. pc'[h] = "saved" /\ work'[h] = w /\ \A g \in Handlers \ {h} : pc'[g] = pc[g] /\ work'[g] = work[g]
    BY <1>1, <1>3 DEF End, Goto
  <2>3. ~Holding(h)'
    BY <2>2 DEF Holding
  <2>4. entries'[w.id] # None => Current(h)' /\ ListOk(h)'
    BY <2>2 DEF Current, RefreshOk, Brought, KeepsRead, KeepsStored, ListOk, Renews, RowAgain, LookedUp
  <2> QED
    BY <1>1, <1>2, <1>3, <2>1, <2>2, <2>3, <2>4, SeededServed
<1>4. CASE UNCHANGED <<entries, made>> /\ End(h, "unsaved")
  <2>1. pc' = [pc EXCEPT ![h] = "unsaved"] /\ work' = [work EXCEPT ![h] = w]
    BY <1>1, <1>4 DEF End, Goto
  <2> QED
    BY <1>1, <1>4, <2>1, UnclaimedServed
<1> QED
  BY <1>3, <1>4 DEF Register

LEMMA PublishServed == ASSUME ServedInv, RowsInv', NEW h \in Handlers, Publish(h) PROVE ServedInv'
<1> USE Typed DEF ServedInv, storeVars, registryVars
<1> DEFINE w == work[h]
           i == w.id
<1>1. /\ pc[h] \in {"publish", "rotated"} /\ pc' = [pc EXCEPT ![h] = "saved"] /\ slots' = slots \ {w.entry}
      /\ UNCHANGED <<rows, deleted, work>>
  BY DEF Publish, FreeSlot, End, Goto
<1>2. i \in Ids /\ Known(i) /\ w.row \in Row
  BY <1>1 DEF RowOk
<1>3. pc'[h] = "saved" /\ work'[h] = w /\ \A g \in Handlers \ {h} : pc'[g] = pc[g] /\ work'[g] = work[g]
  BY <1>1
<1>4. /\ \A j \in Ids \ {i} : entries'[j] = entries[j]
      /\ entries[i] = None => entries'[i] = None
      /\ entries[i] # None => entries'[i] # None /\ entries'[i].entry = entries[i].entry
      /\ entries[i] # None /\ entries[i].entry = w.entry => entries'[i].credential = w.row.credential
  <2>1. CASE entries[i] # None /\ entries[i].entry = w.entry
    <3> DEFINE new == [entries[i] EXCEPT !.credential = w.row.credential]
    <3>1. entries' = [entries EXCEPT ![i] = new]
      BY <2>1 DEF Publish
    <3>2. entries[i] \in Entry /\ w.row.credential \in Credential
      BY <1>2, <2>1 DEF Row
    <3>3. new \in Entry /\ new.entry = entries[i].entry /\ new.credential = w.row.credential
      BY <3>2 DEF Entry
    <3> HIDE DEF new
    <3> QED
      BY <1>2, <2>1, <3>1, <3>3, Disjoint
  <2>2. CASE ~(entries[i] # None /\ entries[i].entry = w.entry)
    BY <2>2 DEF Publish
  <2> QED
    BY <2>1, <2>2
<1>5. Gone' /\ (\A j : Known(j) => Known(j)') /\ Entered'
  BY <1>1, <1>2, <1>4 DEF Gone, Known, Entered
<1>6. i \notin Unlocked /\ rows[i] # None => entries[i] # None /\ entries[i].entry = w.entry /\ w.row.credential = rows[i].credential
  BY <1>1, <1>2, Disjoint DEF Current, RefreshOk, Brought, KeepsRead, KeepsStored, Lasting, LookedUp
<1>7. Current(h)' /\ ListOk(h)' /\ ~Holding(h)'
  BY <1>1, <1>3, <1>4, <1>6 DEF Current, RefreshOk, Brought, KeepsRead, KeepsStored, ListOk, Renews, RowAgain, LookedUp, Holding, Lasting
<1>8. \A g \in Handlers \ {h} : Holding(g) => work[g].entry \in slots'
  BY <1>1 DEF SlotOk, Holding
<1>9. ASSUME NEW g \in Handlers, Lasting(g), entries[work[g].id] # None
      PROVE  entries'[work[g].id] # None /\ entries'[work[g].id].entry = entries[work[g].id].entry
  <2>1. work[g].id \in Ids
    BY <1>9 DEF Lasting
  <2> QED
    BY <1>4, <1>9, <2>1
<1>10. \A j \in Ids \ Unlocked : entries'[j] = None => entries[j] = None
  BY <1>4
<1>11. ASSUME NEW j \in Ids \ Unlocked
       PROVE Served(j)' \/ (rows'[j] = rows[j] /\ entries'[j] = entries[j] /\ ~(pc[h] \in {"publish", "rotated"} /\ work[h].id = j))
  BY <1>1, <1>4, <1>6 DEF Served
<1> QED
  BY <1>1, <1>3, <1>5, <1>7, <1>8, <1>9, <1>10, <1>11, ServedStep

\* The rows of lasting connections change under the lock: no other save of one is under way.
LEMMA AloneServed ==
    ASSUME RowsInv, NEW h \in Handlers, NEW g \in Handlers \ {h}, Lasting(h), pc[h] \in Critical \ {"register"},
           Lasting(g), Renews(g) \/ pc[g] = "publish"
    PROVE  FALSE
<1>1. pc[g] \in Critical \ {"register"}
  BY DEF Renews, RowAgain, Critical
<1> QED
  BY <1>1, LastingHolds

LEMMA WriteServed == ASSUME ServedInv, RowsInv', NEW h \in Handlers, Write(h) PROVE ServedInv'
<1> USE Typed DEF ServedInv, storeVars, registryVars
<1> DEFINE w == work[h]
           i == w.id
<1>1. pc[h] = "write" /\ UNCHANGED <<deleted, entries, made, work>>
  BY DEF Write
<1>2. Renews(h) /\ Holding(h) /\ pc[h] \in Critical \ {"register"}
  BY <1>1 DEF Renews, RowAgain, Holding, Critical
<1>3. i \in Ids /\ w.row \in Row /\ Known(i)
  BY <1>2 DEF RowOk
<1>4. CASE Put(i, w.row) /\ Goto(h, "publish") /\ UNCHANGED <<slots, lock>>
  <2>1. /\ rows' = [rows EXCEPT ![i] = w.row] /\ pc'[h] = "publish" /\ work'[h] = w
        /\ \A g \in Handlers \ {h} : pc'[g] = pc[g] /\ work'[g] = work[g]
    BY <1>1, <1>4 DEF Put, Goto
  <2>2. w.row # None /\ rows'[i] = w.row /\ \A j \in Ids \ {i} : rows'[j] = rows[j]
    BY <1>3, <2>1, Disjoint
  <2>3. Lasting(h) => rows[i] # None /\ entries[i] # None /\ entries[i].entry = w.entry
    BY <1>1, <1>2 DEF Current, RefreshOk, Brought, KeepsRead, KeepsStored, LookedUp
  <2>4. i \notin Unlocked => i \notin deleted /\ Lasting(h)
    BY <1>3, <2>3, Disjoint DEF Gone, Lasting
  <2>5. (\A j \in Ids : Known(j) => Known(j)') /\ Gone' /\ Entered'
    BY <1>1, <2>2, <2>4 DEF Known, Gone, Entered
  <2>6. Current(h)' /\ ListOk(h)'
    BY <1>1, <2>1, <2>2, <2>3 DEF Current, RefreshOk, Brought, KeepsRead, KeepsStored, ListOk, Renews, RowAgain, LookedUp, Lasting
  <2>7. \A g \in Handlers \ {h} : Holding(g) => work[g].entry \in slots' /\ work[g].entry # w.entry
    BY <1>2, <1>4 DEF SlotOk
  <2>8. w.entry \in slots'
    BY <1>2, <1>4 DEF SlotOk
  <2>9. ASSUME NEW g \in Handlers \ {h}, Lasting(g), Renews(g) \/ pc[g] = "publish"
        PROVE  rows'[work[g].id] = rows[work[g].id]
    <3>1. work[g].id # i
      BY <1>2, <2>9, AloneServed DEF Lasting
    <3> QED
      BY <2>2, <2>9, <3>1 DEF Lasting
  <2>10. ASSUME NEW j \in Ids \ Unlocked, entries[j] = None PROVE rows'[j] = rows[j]
    BY <2>2, <2>3, <2>4, <2>10
  <2>12. ASSUME NEW g \in Handlers \ {h}, pc[g] \in {"exchanging", "rotated"}, Lasting(g), rows'[work[g].id] # None
         PROVE  rows'[work[g].id] = rows[work[g].id]
    <3>1. work[g].id \in Ids /\ RefreshOk(g) /\ SlotOk(g) /\ Holding(g)
      BY <2>12 DEF Current, Lasting, Holding
    <3>2. work[g].id # i
      BY <1>2, <2>3, <2>7, <2>12, <3>1 DEF RefreshOk, Lasting
    <3> QED
      BY <2>2, <3>1, <3>2
  <2>11. ASSUME NEW j \in Ids \ Unlocked
         PROVE Served(j)' \/ (rows'[j] = rows[j] /\ ~(pc[h] \in {"publish", "rotated"} /\ work[h].id = j))
    BY <1>1, <2>1, <2>2 DEF Served
  <2> QED
    BY <1>1, <2>1, <2>5, <2>6, <2>7, <2>8, <2>9, <2>10, <2>11, <2>12, ServedStep
<1>5. CASE FreeSlot(h) /\ End(h, "unsaved") /\ UNCHANGED rows
  <2>1. pc' = [pc EXCEPT ![h] = "unsaved"] /\ work' = [work EXCEPT ![h] = w] /\ slots' = slots \ {w.entry}
    BY <1>1, <1>5 DEF FreeSlot, End, Goto
  <2> QED
    BY <1>1, <1>2, <1>5, <2>1, UnclaimedServed
<1> QED
  BY <1>4, <1>5 DEF Write

LEMMA InsertServed == ASSUME ServedInv, RowsInv', NEW h \in Handlers, Insert(h) PROVE ServedInv'
<1> USE Typed DEF ServedInv, storeVars, registryVars
<1> DEFINE w == work[h]
           row == IF w.id = None THEN [account |-> w.account, credential |-> Taken(h, NoToken), settings |-> None] ELSE w.row
<1>1. pc[h] = "insert" /\ UNCHANGED <<deleted, entries, made, slots>>
  BY DEF Insert
<1>2. ASSUME NEW i \in IF w.id = None THEN Fresh ELSE {w.id},
             Put(i, row), Update(h, [w EXCEPT !.id = i, !.row = row]), Goto(h, "register")
      PROVE  ServedInv'
  <2> DEFINE new == [w EXCEPT !.id = i, !.row = row]
  <2>1. i \in Ids /\ row \in Row
    <3>1. CASE w.id = None
      BY <1>1, <3>1, TakenIs DEF Fresh, RowOk, LockOk, Critical, Row, Writer
    <3>2. CASE w.id # None
      BY <1>1, <3>2 DEF RowOk, Renews
    <3> QED
      BY <3>1, <3>2
  <2>2. i \notin Unlocked => ~Known(i)
    <3>1. CASE w.id = None
      BY <3>1 DEF Fresh, Held, Known
    <3>2. CASE w.id # None
      BY <1>1, <3>2 DEF Current, Renews, Lasting
    <3> QED
      BY <3>1, <3>2
  <2> HIDE DEF row
  <2>3. new \in Work /\ new.id = i /\ new.row = row
    BY <2>1 DEF Work
  <2>4. rows' = [rows EXCEPT ![i] = row] /\ pc' = [pc EXCEPT ![h] = "register"] /\ work' = [work EXCEPT ![h] = new]
    BY <1>2 DEF Put, Goto, Update
  <2> HIDE DEF new
  <2>5. /\ row # None /\ rows'[i] = row /\ \A j \in Ids \ {i} : rows'[j] = rows[j]
        /\ pc'[h] = "register" /\ work'[h] = new /\ \A g \in Handlers \ {h} : pc'[g] = pc[g] /\ work'[g] = work[g]
    BY <2>1, <2>4, Disjoint
  <2>6. (\A j \in Ids : Known(j) => Known(j)') /\ Gone' /\ Entered'
    BY <1>1, <2>2, <2>5 DEF Known, Gone, Entered
  <2>7. Current(h)' /\ ListOk(h)' /\ ~Holding(h)'
    BY <2>3, <2>5 DEF Current, RefreshOk, Brought, KeepsRead, KeepsStored, ListOk, Renews, RowAgain, LookedUp, Holding, Listed, Known
  <2>8. \A g \in Handlers \ {h} : Holding(g) => work[g].entry \in slots'
    BY <1>1 DEF SlotOk
  <2>9. ASSUME NEW g \in Handlers \ {h}, Lasting(g), Renews(g) \/ pc[g] = "publish"
        PROVE  rows'[work[g].id] = rows[work[g].id]
    <3>1. work[g].id \in Ids /\ Known(work[g].id)
      BY <2>9 DEF RowOk
    <3>2. work[g].id # i
      BY <2>2, <2>9, <3>1 DEF Lasting
    <3> QED
      BY <2>5, <3>1, <3>2
  <2>10. ASSUME NEW j \in Ids \ Unlocked, Known(j) PROVE rows'[j] = rows[j]
    BY <2>2, <2>5, <2>10
  <2>12. ASSUME NEW g \in Handlers \ {h}, pc[g] \in {"exchanging", "rotated"}, Lasting(g)
         PROVE  rows'[work[g].id] = rows[work[g].id]
    <3>1. work[g].id \in Ids /\ Known(work[g].id)
      BY <2>12 DEF Current, RefreshOk, Lasting
    <3> QED
      BY <2>2, <2>5, <2>12, <3>1 DEF Lasting
  <2>11. ASSUME NEW j \in Ids \ Unlocked
         PROVE Served(j)' \/ (rows'[j] = rows[j] /\ ~(pc[h] \in {"publish", "rotated"} /\ work[h].id = j))
    <3>1. CASE j = i
      <4>1. entries[j] = None
        BY <2>2, <3>1 DEF Entered
      <4> QED
        BY <1>1, <4>1 DEF Served
    <3>2. CASE j # i
      BY <1>1, <2>5, <3>2
    <3> QED
      BY <3>1, <3>2
  <2> QED
    BY <1>1, <2>5, <2>6, <2>7, <2>8, <2>9, <2>10, <2>11, <2>12, ServedStep
<1>3. CASE End(h, "unsaved") /\ UNCHANGED <<rows, work>>
  <2>1. pc' = [pc EXCEPT ![h] = "unsaved"] /\ work' = [work EXCEPT ![h] = w]
    BY <1>1, <1>3 DEF End, Goto
  <2> QED
    BY <1>1, <1>3, <2>1, UnclaimedServed
<1> QED
  BY <1>2, <1>3, Zenon DEF Insert

LEMMA DeleteRowServed == ASSUME ServedInv, RowsInv', NEW h \in Handlers, DeleteRow(h) PROVE ServedInv'
<1> USE Typed DEF ServedInv, storeVars, registryVars
<1> DEFINE w == work[h]
           i == w.id
<1>1. pc[h] = "delete" /\ pc[h] \in Critical \ {"register"} /\ UNCHANGED <<entries, made, slots, work>>
  BY DEF DeleteRow, Critical
<1>2. CASE rows[i] = None
  <2>1. pc' = [pc EXCEPT ![h] = "unsaved"] /\ work' = [work EXCEPT ![h] = w] /\ UNCHANGED <<rows, deleted>>
    BY <1>1, <1>2 DEF DeleteRow, End, Goto
  <2> QED
    BY <1>1, <2>1, UnclaimedServed
<1>3. CASE rows[i] # None
  <2>1. /\ rows' = [rows EXCEPT ![i] = None] /\ deleted' = deleted \cup {i}
        /\ pc' = [pc EXCEPT ![h] = "forget"]
    BY <1>3 DEF DeleteRow, Put, End, Goto
  <2>2. i \in Ids
    BY <1>1, Disjoint DEF LockOk, Critical
  <2>3. /\ rows'[i] = None /\ \A j \in Ids \ {i} : rows'[j] = rows[j]
        /\ pc'[h] = "forget" /\ work'[h] = w /\ \A g \in Handlers \ {h} : pc'[g] = pc[g] /\ work'[g] = work[g]
    BY <1>1, <2>1, <2>2
  <2>4. (\A j \in Ids : Known(j) => Known(j)') /\ Gone' /\ Entered'
    BY <1>1, <2>1, <2>3 DEF Known, Gone, Entered
  <2>5. Current(h)' /\ ListOk(h)' /\ ~Holding(h)'
    BY <2>3 DEF Current, RefreshOk, Brought, KeepsRead, KeepsStored, ListOk, Renews, RowAgain, LookedUp, Holding
  <2>6. \A g \in Handlers \ {h} : Holding(g) => work[g].entry \in slots'
    BY <1>1 DEF SlotOk
  <2>7. ASSUME NEW g \in Handlers \ {h}, Lasting(g), Renews(g) \/ pc[g] = "publish"
        PROVE  rows'[work[g].id] = rows[work[g].id]
    <3>1. work[g].id # i
      BY <1>1, <2>2, <2>7, AloneServed DEF Lasting
    <3> QED
      BY <2>3, <2>7, <3>1 DEF Lasting
  <2>8. \A j \in Ids \ Unlocked : rows'[j] # None => rows'[j] = rows[j] /\ j # i
    BY <2>3
  <2>10. \A g \in Handlers \ {h} : Lasting(g) => work[g].id \in Ids \ Unlocked
    BY DEF Lasting
  <2>9. ASSUME NEW j \in Ids \ Unlocked
        PROVE Served(j)' \/ (rows'[j] = rows[j] /\ ~(pc[h] \in {"publish", "rotated"} /\ work[h].id = j))
    BY <1>1, <2>3 DEF Served
  <2> QED
    BY <1>1, <2>3, <2>4, <2>5, <2>6, <2>7, <2>8, <2>9, <2>10, ServedStep
<1> QED
  BY <1>2, <1>3

LEMMA ForgetServed == ASSUME ServedInv, RowsInv', NEW h \in Handlers, Forget(h) PROVE ServedInv'
<1> USE Typed DEF ServedInv, storeVars, registryVars
<1> DEFINE w == work[h]
           i == w.id
<1>1. /\ pc[h] = "forget" /\ pc' = [pc EXCEPT ![h] = "saved"] /\ entries' = [entries EXCEPT ![i] = None]
      /\ UNCHANGED <<rows, deleted, slots, work>>
  BY DEF Forget, End, Goto
<1>2. i \in deleted /\ i \in Ids /\ (i \notin Unlocked => rows[i] = None)
  BY <1>1 DEF RowOk, Gone
<1>3. /\ entries'[i] = None /\ \A j \in Ids \ {i} : entries'[j] = entries[j]
      /\ pc'[h] = "saved" /\ work'[h] = w /\ \A g \in Handlers \ {h} : pc'[g] = pc[g] /\ work'[g] = work[g]
  BY <1>1, <1>2
<1>4. (\A j \in Ids : Known(j) => Known(j)') /\ Gone' /\ Entered'
  BY <1>1, <1>3 DEF Known, Gone, Entered
<1>5. Current(h)' /\ ListOk(h)' /\ ~Holding(h)'
  BY <1>1, <1>2, <1>3 DEF Current, RefreshOk, Brought, KeepsRead, KeepsStored, ListOk, Renews, RowAgain, LookedUp, Holding, Lasting
<1>6. \A g \in Handlers \ {h} : Holding(g) => work[g].entry \in slots'
  BY <1>1 DEF SlotOk
<1>7. ASSUME NEW g \in Handlers \ {h}, Lasting(g), Renews(g) \/ pc[g] = "publish"
      PROVE  entries'[work[g].id] = entries[work[g].id]
  <2>1. work[g].id \in Ids /\ rows[work[g].id] # None
    BY <1>7 DEF Lasting, Current, RefreshOk, Brought, KeepsRead, KeepsStored
  <2> QED
    BY <1>2, <1>3, <1>7, <2>1 DEF Lasting
<1>8. \A j \in Ids \ Unlocked : rows'[j] # None => entries'[j] = entries[j] /\ j # i
  BY <1>1, <1>2, <1>3
<1>9. ASSUME NEW j \in Ids \ Unlocked
      PROVE Served(j)' \/ (entries'[j] = entries[j] /\ ~(pc[h] \in {"publish", "rotated"} /\ work[h].id = j))
  BY <1>1, <1>3 DEF Served
<1>10. \A g \in Handlers \ {h} : Lasting(g) => work[g].id \in Ids \ Unlocked
  BY DEF Lasting
<1> QED
  BY <1>1, <1>3, <1>4, <1>5, <1>6, <1>7, <1>8, <1>9, <1>10, ServedStep

LEMMA ListServed == ASSUME ServedInv, RowsInv', NEW h \in Handlers, List(h) PROVE ServedInv'
<1> USE Typed DEF ServedInv, storeVars, registryVars
<1> DEFINE listed == {[id |-> j, credential |-> rows[j].credential] : j \in Held}
           new == [work[h] EXCEPT !.listed = listed]
<1>1. /\ pc[h] = "idle" /\ pc' = [pc EXCEPT ![h] = "seed"] /\ work' = [work EXCEPT ![h] = new]
      /\ UNCHANGED <<rows, deleted, entries, slots>>
  BY DEF List, Goto, Update
<1>2. listed \in SUBSET Read /\ \A x \in listed : Listed(x.id, x.credential)
  <2>1. ASSUME NEW j \in Held PROVE j \in Ids /\ rows[j].credential \in Credential /\ Listed(j, rows[j].credential)
    BY DEF Held, Row, Listed, Known
  <2> QED
    BY <2>1 DEF Read
<1>3. new \in Work /\ new.listed = listed
  <2> HIDE DEF listed
  <2> QED
    BY <1>2 DEF Work
<1> HIDE DEF new, listed
<1>4. pc'[h] = "seed" /\ work'[h] = new /\ "seed" \in Places
  BY <1>1, <1>3 DEF Places, Owned
<1>5. Current(h)'
  BY <1>4 DEF Current, RefreshOk, Brought, KeepsRead, KeepsStored, Renews, RowAgain, LookedUp
<1>6. ListOk(h)'
  BY <1>1, <1>2, <1>3, <1>4 DEF ListOk, Listed, Known
<1> QED
  BY <1>1, <1>3, <1>4, <1>5, <1>6, QuietServed

\* What a refresh that was not superseded writes back of what it exchanged is what is
\* stored, and nobody else is writing or publishing the connection.
LEMMA RotatesStored ==
    ASSUME ServedInv, NEW h \in Handlers, pc[h] = "exchanging", ~Superseded(h), Lasting(h), rows[work[h].id] # None
    PROVE  /\ entries[work[h].id] # None /\ entries[work[h].id].entry = work[h].entry
           /\ \A g \in Handlers \ {h} : work[g].id = work[h].id => pc[g] \notin {"read", "write", "publish", "rotated"}
           /\ \A c \in work[h].listed : c.credential = rows[work[h].id].credential
<1> USE Typed DEF ServedInv
<1> DEFINE i == work[h].id
<1>1. i \in Ids \ Unlocked /\ Current(h) /\ SlotOk(h) /\ Holding(h) /\ Served(i)
  BY DEF Lasting, Holding
<1>2. entries[i] # None /\ entries[i].entry = work[h].entry /\ \A c \in work[h].listed : c.id = i
  BY <1>1 DEF Current, RefreshOk
<1>3. ASSUME NEW g \in Handlers \ {h}, work[g].id = i, pc[g] \in {"read", "write", "publish", "rotated"} PROVE FALSE
  <2>1. Current(g) /\ Lasting(g) /\ Holding(g)
    BY <1>1, <1>3, Disjoint DEF Lasting, Holding
  <2>2. LookedUp(g) \/ pc[g] = "rotated"
    BY <1>3 DEF LookedUp
  <2>3. entries[i].entry = work[g].entry
    BY <1>3, <2>1, <2>2 DEF Current, RefreshOk
  <2> QED
    BY <1>1, <1>2, <2>1, <2>3 DEF SlotOk
<1>4. entries[i].credential = rows[i].credential
  BY <1>1, <1>2, <1>3 DEF Served
<1>5. \A c \in work[h].listed : c.credential = entries[i].credential
  BY <1>2 DEF Superseded
<1> QED
  BY <1>2, <1>3, <1>4, <1>5

LEMMA StartRefreshServed == ASSUME ServedInv, RowsInv', NEW h \in Handlers, StartRefresh(h) PROVE ServedInv'
<1> USE Typed DEF ServedInv, storeVars, registryVars
<1>1. PICK i \in Ids :
        /\ entries[i] # None /\ entries[i].entry \notin slots /\ slots' = slots \cup {entries[i].entry}
        /\ Update(h, [work[h] EXCEPT !.id = i, !.entry = entries[i].entry,
                                      !.listed = {[id |-> i, credential |-> entries[i].credential]}])
  BY Zenon DEF StartRefresh
<1> DEFINE n == entries[i].entry
           ls == {[id |-> i, credential |-> entries[i].credential]}
           new == [work[h] EXCEPT !.id = i, !.entry = n, !.listed = ls]
<1>2. pc[h] = "idle" /\ pc' = [pc EXCEPT ![h] = "exchanging"] /\ UNCHANGED <<rows, deleted, entries>>
  BY DEF StartRefresh, Goto
<1>3. n \in Nat /\ ls \in SUBSET Read
  <2>1. entries[i] \in Entry
    BY <1>1
  <2> QED
    BY <2>1 DEF Entry, Read
<1>4. work' = [work EXCEPT ![h] = new]
  BY <1>1 DEF Update
<1>5. new \in Work /\ new.id = i /\ new.entry = n /\ new.listed = ls
  <2> HIDE DEF n, ls
  <2> QED
    BY <1>3 DEF Work
<1>6. Known(i) /\ \A c \in ls : c.id = i
  BY <1>1 DEF Entered
<1>7. n \notin slots /\ slots' = slots \cup {n}
  BY <1>1
<1>8. entries'[i] # None /\ entries'[i].entry = n
  BY <1>1, <1>2
<1> HIDE DEF new, n, ls
<1>9. pc'[h] = "exchanging" /\ work'[h] = new /\ "exchanging" \in Places
  BY <1>2, <1>4 DEF Places, Owned
<1>10. Current(h)' /\ ListOk(h)'
  BY <1>2, <1>5, <1>6, <1>8, <1>9 DEF Current, RefreshOk, ListOk, Renews, RowAgain, LookedUp, Known
<1> QED
  BY <1>2, <1>4, <1>5, <1>7, <1>9, <1>10, QuietServed

\* The refresh writes the row: the other requests at the connection have yet to read it,
\* or keep of it what a relink does.
LEMMA RotateServed == ASSUME ServedInv, RowsInv', NEW h \in Handlers, Rotate(h) PROVE ServedInv'
<1> USE Typed DEF ServedInv, storeVars, registryVars
<1> DEFINE w == work[h]
           i == w.id
<1>1. pc[h] = "exchanging" /\ i \in Ids /\ h \in Refreshes /\ UNCHANGED <<deleted, entries, made>> /\ Holding(h)
  BY DEF Rotate, RowOk, LockOk, Holding
<1>2. CASE FreeSlot(h) /\ End(h, "unsaved") /\ UNCHANGED <<rows, work>>
  <2>1. pc' = [pc EXCEPT ![h] = "unsaved"] /\ work' = [work EXCEPT ![h] = w] /\ slots' = slots \ {w.entry}
    BY <1>2 DEF FreeSlot, End, Goto
  <2> QED
    BY <1>1, <1>2, <2>1, UnclaimedServed
<1>3. ASSUME NEW c \in w.listed, NEW renewed \in {Tokens, {"access"}}, ~Superseded(h), rows[i] # None,
             Put(i, [account |-> rows[i].account, credential |-> Renewed(h, c.credential, renewed), settings |-> rows[i].settings]),
             Update(h, [w EXCEPT !.row = [account |-> rows[i].account, credential |-> Renewed(h, c.credential, renewed),
                                          settings |-> rows[i].settings]]),
             Goto(h, "rotated"), UNCHANGED <<slots, lock>>
      PROVE  ServedInv'
  <2> DEFINE row == [account |-> rows[i].account, credential |-> Renewed(h, c.credential, renewed), settings |-> rows[i].settings]
             new == [w EXCEPT !.row = row]
  <2>1. c.credential \in Credential /\ renewed \in SUBSET Tokens /\ rows[i] \in Row
    BY <1>1, <1>3 DEF Work, Read, Tokens
  <2>2. /\ row \in Row /\ row.settings = rows[i].settings
        /\ \A t \in Tokens : row.credential[t] = h \/ row.credential[t] = c.credential[t]
    <3>1. Renewed(h, c.credential, renewed) \in Credential
      BY <2>1, TakenIs
    <3>2. \A t \in Tokens : Renewed(h, c.credential, renewed)[t] \in {h, c.credential[t]}
      BY DEF Renewed
    <3> QED
      BY <2>1, <3>1, <3>2 DEF Row
  <2>3. rows' = [rows EXCEPT ![i] = row] /\ work' = [work EXCEPT ![h] = new] /\ pc' = [pc EXCEPT ![h] = "rotated"]
    BY <1>3, Zenon DEF Put, Update, Goto
  <2> HIDE DEF row
  <2>4. new \in Work /\ new.row = row /\ new.id = i /\ new.entry = w.entry
    BY <2>2 DEF Work
  <2> HIDE DEF new
  <2>5. /\ pc'[h] = "rotated" /\ work'[h] = new /\ \A g \in Handlers \ {h} : pc'[g] = pc[g] /\ work'[g] = work[g]
        /\ row # None /\ rows'[i] = row /\ \A j \in Ids \ {i} : rows'[j] = rows[j]
    BY <1>1, <2>2, <2>3, Disjoint
  <2>6. ASSUME i \notin Unlocked
        PROVE  /\ entries[i] # None /\ entries[i].entry = w.entry
               /\ \A g \in Handlers \ {h} : work[g].id = i => pc[g] \notin {"read", "write", "publish", "rotated"}
               /\ \A t \in Tokens : row.credential[t] = rows[i].credential[t] \/ row.credential[t] \in Refreshes
    <3>1. Lasting(h)
      BY <1>1, <2>6, Disjoint DEF Lasting
    <3>2. c.credential = rows[i].credential
      BY <1>1, <1>3, <3>1, RotatesStored
    <3> QED
      BY <1>1, <1>3, <2>2, <3>1, <3>2, RotatesStored
  <2>7. Known(i) /\ (\A j \in Ids : Known(j) => Known(j)') /\ Gone' /\ Entered'
    BY <1>1, <1>3, <2>5 DEF Known, Gone, Entered
  <2>8. Current(h)' /\ ListOk(h)' /\ Holding(h)'
    BY <1>1, <2>4, <2>5, <2>6, <2>7 DEF Current, RefreshOk, ListOk, Renews, RowAgain, LookedUp, Lasting, Holding
  <2>9. /\ \A g \in Handlers \ {h} : Holding(g) => work[g].entry \in slots' /\ work[g].entry # new.entry
        /\ new.entry \in slots'
    BY <1>1, <1>3, <2>4 DEF SlotOk
  <2>10. ASSUME NEW g \in Handlers \ {h}, Lasting(g), Renews(g) \/ pc[g] = "publish"
         PROVE  rows'[work[g].id] = rows[work[g].id] \/ (~Holding(g) /\ Renewal(work[g].id))
    <3>1. work[g].id \in Ids \ Unlocked
      BY <2>10 DEF Lasting
    <3>2. CASE work[g].id # i
      BY <2>5, <3>1, <3>2
    <3>3. CASE work[g].id = i
      <4>1. pc[g] \notin {"read", "write", "publish", "rotated"} /\ pc[g] # "exchanging"
        BY <2>6, <2>10, <3>1, <3>3 DEF Renews, RowAgain
      <4>2. ~Holding(g)
        BY <4>1 DEF Holding
      <4> QED
        BY <2>2, <2>5, <2>6, <3>1, <3>3, <4>2 DEF Renewal
    <3> QED
      BY <3>2, <3>3
  <2>11. ASSUME NEW g \in Handlers \ {h}, pc[g] \in {"exchanging", "rotated"}, Lasting(g), rows'[work[g].id] # None
         PROVE  rows[work[g].id] # None /\ (pc[g] = "rotated" => rows'[work[g].id] = rows[work[g].id])
    <3>1. work[g].id \in Ids \ Unlocked
      BY <2>11 DEF Lasting
    <3> QED
      BY <1>3, <2>5, <2>6, <2>11, <3>1
  <2>12. ASSUME NEW j \in Ids \ Unlocked, entries[j] = None PROVE rows'[j] = rows[j]
    BY <2>5, <2>6, <2>12
  <2>13. ASSUME NEW j \in Ids \ Unlocked PROVE Served(j)' \/ (rows'[j] = rows[j] /\ j # i)
    BY <2>4, <2>5 DEF Served
  <2> QED
    BY <1>1, <2>4, <2>5, <2>7, <2>8, <2>9, <2>10, <2>11, <2>12, <2>13, ServedStep
<1> QED
  BY <1>2, <1>3, Zenon DEF Rotate

\* A step of one request that saves nothing yet, or no longer, and of its attempt.
LEMMA FlowServed ==
    ASSUME ServedInv, RowsInv', NEW h \in Handlers, UNCHANGED <<storeVars, registryVars>>, pc[h] \notin {"publish", "rotated"},
           NEW to \in {"idle", "polling", "exchange", "done", "connected", "lock", "match", "delete"},
           pc' = [pc EXCEPT ![h] = to],
           work' = work \/ \E new \in Work : work' = [work EXCEPT ![h] = new]
    PROVE  ServedInv'
<1> USE Typed DEF ServedInv, storeVars, registryVars
<1>1. PICK new \in Work : work' = [work EXCEPT ![h] = new]
  <2>1. CASE work' = work
    <3>1. work' = [work EXCEPT ![h] = work[h]]
      BY <2>1
    <3> QED
      BY <3>1
  <2> QED
    BY <2>1
<1> QED
  BY <1>1, UnclaimedServed

\* A sign-in's save begins with locals of its own.
LEMMA StartSaveServed ==
    ASSUME ServedInv, RowsInv', NEW h \in Handlers, NEW account \in Accounts, NEW id \in Ids \cup {None}, NEW rule,
           StartSave(h, account, id, rule), UNCHANGED <<storeVars, registryVars>>, pc[h] \notin {"publish", "rotated"}
    PROVE  ServedInv'
<1>1. work' = [work EXCEPT ![h] = work'[h]] /\ work'[h] \in Work
  <2>1. work \in [Handlers -> Work] /\ work' \in [Handlers -> Work]
    BY DEF ServedInv, RowsInv, SaveTypes, ConnectionsTypeOK
  <2> QED
    BY <2>1 DEF StartSave, Update
<1>2. CASE rule
  BY <1>1, <1>2, FlowServed DEF StartSave, Goto
<1>3. CASE ~rule
  BY <1>1, <1>3, FlowServed DEF StartSave, Goto
<1> QED
  BY <1>2, <1>3

LEMMA ServedInit == Init => ServedInv
<1> SUFFICES ASSUME Init PROVE ServedInv
  OBVIOUS
<1>1. \A h \in Handlers : pc[h] = "idle"
  BY DEF Init, ConnectionsInit
<1>2. \A h \in Handlers : SlotOk(h) /\ Current(h) /\ ListOk(h)
  BY <1>1 DEF SlotOk, Holding, Current, RefreshOk, Brought, KeepsRead, KeepsStored, ListOk, Renews, RowAgain, LookedUp
<1>3. deleted = {} /\ \A i \in Ids : entries[i] = None
  BY DEF Init, ConnectionsInit
<1> QED
  BY <1>2, <1>3, RowsInit DEF ServedInv, Gone, Entered, Served

LEMMA PollServed == ASSUME ServedInv, RowsInv', NEW h \in Handlers, Poll(h) PROVE ServedInv'
<1> USE DEF flowVars, Goto
<1>1. CASE StillPending(h)
  BY <1>1, FlowServed DEF StillPending
<1>2. CASE SlowDown(h)
  BY <1>2, FlowServed DEF SlowDown
<1>3. CASE Rejected(h)
  BY <1>3, FlowServed DEF Rejected
<1>4. CASE Reserve(h)
  <2>1. pc[h] = "polling" /\ UNCHANGED <<storeVars, registryVars>>
    BY <1>4 DEF Reserve
  <2>2. CASE MayReserve(attempt[h])
    <3>1. StartSave(h, SignsIn[attempt[h]], Target[attempt[h]], TRUE)
      BY <1>4, <2>2 DEF Reserve
    <3>2. attempt[h] \in Attempts
      BY <2>1, Typed DEF LockOk, ServedInv
    <3>3. SignsIn[attempt[h]] \in Accounts /\ Target[attempt[h]] \in Ids \cup {None}
      BY <3>2, SignInAssumption
    <3> QED
      BY <2>1, <3>1, <3>3, StartSaveServed
  <2>3. CASE ~MayReserve(attempt[h])
    BY <1>4, <2>1, <2>3, FlowServed DEF Reserve
  <2> QED
    BY <2>2, <2>3
<1>5. CASE Settle(h)
  <2>1. \E to \in {"connected", "done"} : pc' = [pc EXCEPT ![h] = to]
    BY <1>5 DEF Settle
  <2> QED
    BY <1>5, <2>1, FlowServed DEF Settle
<1> QED
  BY <1>1, <1>2, <1>3, <1>4, <1>5 DEF Poll

LEMMA ServedNext == ServedInv /\ [Next]_vars => ServedInv'
<1> SUFFICES ASSUME ServedInv, [Next]_vars PROVE ServedInv'
  OBVIOUS
<1>0. RowsInv'
  BY RowsNext DEF ServedInv
<1>1. CASE UNCHANGED connectionVars
  <2>1. RowsInv' /\ UNCHANGED <<rows, deleted, entries, slots, pc, work>>
    BY <1>0, <1>1 DEF connectionVars, storeVars, registryVars
  <2>2. Gone' /\ Entered'
    BY <2>1 DEF ServedInv, Gone, Entered, Known
  <2>3. ASSUME NEW h \in Handlers PROVE SlotOk(h)' /\ Current(h)' /\ ListOk(h)'
    <3>1. SlotOk(h) /\ Current(h) /\ ListOk(h)
      BY DEF ServedInv
    <3>2. SlotOk(h)'
      BY <2>1, <3>1 DEF SlotOk, Holding
    <3>3. Current(h)'
      <4>1. RefreshOk(h)'
        BY <2>1, <3>1 DEF Current, RefreshOk, Known, Lasting
      <4>2. /\ work'[h] = work[h] /\ pc'[h] = pc[h] /\ rows' = rows /\ entries' = entries
            /\ (Renews(h)' <=> Renews(h)) /\ (LookedUp(h)' <=> LookedUp(h)) /\ (Lasting(h)' <=> Lasting(h))
        BY <2>1 DEF Renews, LookedUp, Lasting
      <4> QED
        BY <3>1, <4>1, <4>2 DEF Current
    <3>4. ListOk(h)'
      BY <2>1, <3>1 DEF ListOk, Listed, Known
    <3> QED
      BY <3>2, <3>3, <3>4
  <2>4. \A i \in Ids \ Unlocked : Served(i)'
    BY <2>1 DEF ServedInv, Served
  <2> QED
    BY <2>1, <2>2, <2>3, <2>4 DEF ServedInv
<1>2. CASE UNCHANGED vars
  BY <1>1, <1>2 DEF vars
<1>3. CASE Tick
  BY <1>1, <1>3 DEF Tick
<1>4. ASSUME NEW a \in Attempts, Begin(a) \/ Expire(a) \/ Cancel(a) PROVE ServedInv'
  BY <1>1, <1>4 DEF Begin, Expire, Cancel
<1>5. ASSUME NEW h \in Handlers, Claim(h) PROVE ServedInv'
  <2>1. /\ pc[h] = "idle" /\ UNCHANGED <<storeVars, registryVars, work>>
        /\ \E to \in {"done", "polling"} : pc' = [pc EXCEPT ![h] = to]
    BY <1>5 DEF Claim, Goto
  <2> QED
    BY <1>0, <2>1, FlowServed
<1>6. ASSUME NEW h \in Handlers, Poll(h) PROVE ServedInv'
  BY <1>0, <1>6, PollServed
<1>7. ASSUME NEW h \in Handlers, Consume(h) PROVE ServedInv'
  BY <1>0, <1>7, FlowServed DEF Consume, Goto
<1>8. ASSUME NEW h \in Handlers, Exchange(h) PROVE ServedInv'
  <2> DEFINE a == attempt[h]
  <2>1. pc[h] = "exchange" /\ UNCHANGED <<storeVars, registryVars>>
    BY <1>8 DEF Exchange
  <2>2. a \in Attempts
    BY <2>1, Typed DEF LockOk, ServedInv
  <2>3. SignsIn[a] \in Accounts /\ Target[a] \in Ids \cup {None}
    BY <2>2, SignInAssumption
  <2>4. CASE StartSave(h, SignsIn[a], Target[a], a \in Follows)
    BY <1>0, <2>1, <2>3, <2>4, StartSaveServed
  <2>5. CASE Goto(h, "done") /\ UNCHANGED work
    BY <1>0, <2>1, <2>5, FlowServed DEF Goto
  <2> QED
    BY <1>8, <2>4, <2>5 DEF Exchange
<1>9. ASSUME NEW h \in Handlers, Import(h) PROVE ServedInv'
  <2>1. PICK account \in Accounts : StartSave(h, account, None, TRUE)
    BY <1>9 DEF Import
  <2>2. pc[h] = "idle" /\ UNCHANGED <<storeVars, registryVars>>
    BY <1>9 DEF Import
  <2> QED
    BY <1>0, <2>1, <2>2, StartSaveServed
<1>10. ASSUME NEW h \in Handlers, Save(h) PROVE ServedInv'
  <2>1. ASSUME Lock(h) PROVE ServedInv'
    <3>1. pc[h] = "lock" /\ UNCHANGED <<storeVars, registryVars, work>> /\ \E to \in {"delete", "match"} : pc' = [pc EXCEPT ![h] = to]
      BY <2>1 DEF Lock, Goto
    <3> QED
      BY <1>0, <3>1, FlowServed
  <2> QED
    BY <1>0, <1>10, <2>1, MatchServed, LookupServed, AdoptServed, TakeSlotServed, ReadStoredServed, WriteServed, PublishServed,
       FallBackServed, InsertServed, RegisterServed DEF Save
<1>11. ASSUME NEW h \in Handlers, Request(h) PROVE ServedInv'
  <2>1. ASSUME StartEdit(h) PROVE ServedInv'
    <3>1. /\ pc[h] = "idle" /\ pc' = [pc EXCEPT ![h] = "lock"] /\ UNCHANGED <<storeVars, registryVars>>
          /\ work' = [work EXCEPT ![h] = work'[h]] /\ work'[h] \in Work
      <4>1. work \in [Handlers -> Work] /\ work' \in [Handlers -> Work]
        BY <1>0 DEF ServedInv, RowsInv, SaveTypes, ConnectionsTypeOK
      <4> QED
        BY <2>1, <4>1 DEF StartEdit, Goto, Update
    <3> QED
      BY <1>0, <3>1, FlowServed
  <2> QED
    BY <1>0, <1>11, <2>1, DeleteRowServed, ForgetServed, ListServed, SeedNextServed, StartRefreshServed, RotateServed DEF Request
<1> QED
  BY <1>2, <1>3, <1>4, <1>5, <1>6, <1>7, <1>8, <1>9, <1>10, <1>11 DEF Next

\* Once its saves are answered a stored connection is served as it is stored, whatever a
\* Load read before: Seed reads again what it holds, and publishing takes the entry that
\* the slot was taken for (credentials/registry.go Seed, Exclusive).
THEOREM SavesServed == Spec => []SavedIsServed
<1>1. ServedInv => SavedIsServed
  <2> SUFFICES ASSUME ServedInv, NEW i \in Ids, rows[i] # None, i \notin Unlocked,
                      ~\E h \in Handlers : work[h].id = i /\ pc[h] \in {"publish", "register", "rotated"}
               PROVE  /\ entries[i] # None => entries[i].credential = rows[i].credential
                      /\ \A h \in SignIns \cup Edits : pc[h] = "saved" /\ work[h].id = i => entries[i] # None
    BY DEF SavedIsServed
  <2>1. Served(i) /\ \A h \in Handlers : Current(h)
    BY DEF ServedInv
  <2>2. \A h \in SignIns \cup Edits : pc[h] = "saved" /\ work[h].id = i => entries[i] # None
    <3> SUFFICES ASSUME NEW h \in SignIns \cup Edits, pc[h] = "saved", work[h].id = i PROVE entries[i] # None
      OBVIOUS
    <3>1. h \in Handlers /\ i # None
      BY Disjoint
    <3> QED
      BY <2>1, <3>1 DEF Current, RefreshOk, Brought, KeepsRead, KeepsStored, Lasting
  <2> QED
    BY <2>1, <2>2 DEF Served
<1> QED
  BY <1>1, ServedInit, ServedNext, PTL DEF Spec

\* What a step of a save, or of a refresh, writes over a row that is there and stays.
LEMMA WritesOwn ==
    ASSUME ServedInv, [Next]_vars, NEW i \in Ids \ Unlocked, rows[i] # None, rows'[i] # None
    PROVE  /\ rows'[i].settings \in {rows[i].settings} \cup {h \in Edits : pc[h] # "saved"}
           /\ \A t \in Tokens :
                \/ rows'[i].credential[t] \in {rows[i].credential[t]} \cup Brings(t)
                \/ rows[i].credential[t] \in Refreshes /\ Relinks(i, t)
<1> DEFINE Own ==
        /\ rows'[i].settings \in {rows[i].settings} \cup {h \in Edits : pc[h] # "saved"}
        /\ \A t \in Tokens :
             \/ rows'[i].credential[t] \in {rows[i].credential[t]} \cup Brings(t)
             \/ rows[i].credential[t] \in Refreshes /\ Relinks(i, t)
<1>1. rows'[i] = rows[i] => Own
  OBVIOUS
<1> SUFFICES Own
  OBVIOUS
<1>2. ASSUME NEW h \in Handlers, Write(h) PROVE Own
  <2> USE Typed DEF ServedInv
  <2> DEFINE w == work[h]
  <2>1. pc[h] = "write" /\ Renews(h)
    BY <1>2 DEF Write, Renews, RowAgain
  <2>2. w.id \in Ids /\ w.row \in Row
    BY <2>1 DEF RowOk
  <2>3. CASE rows' = [rows EXCEPT ![w.id] = w.row] /\ i = w.id /\ pc' = [pc EXCEPT ![h] = "publish"]
    <3>1. rows'[i] = w.row /\ Lasting(h) /\ pc'[h] # "write"
      BY <2>2, <2>3, Disjoint DEF Lasting
    <3>2. /\ h \in SignIns => w.row.settings = rows[i].settings
          /\ h \in Edits => w.row.settings = h
          /\ Brought(h, w.row)
          /\ Relink(h) => KeepsRead(h, w.row, rows[i])
          /\ ~Relink(h) => KeepsStored(h, w.row, rows[i])
      BY <2>1, <2>3, <3>1 DEF Current
    <3>3. h \in SignIns \cup Edits
      BY <2>1 DEF LockOk, Critical, RowAgain
    <3>4. ASSUME NEW t \in Named[h] PROVE w.row.credential[t] \in Brings(t)
      BY <2>1, <3>2, <3>3 DEF Brought, Brings
    <3>5. ASSUME NEW t \in Tokens \ Named[h]
          PROVE  w.row.credential[t] = rows[i].credential[t] \/ (rows[i].credential[t] \in Refreshes /\ Relinks(i, t))
      <4>1. CASE Relink(h)
        BY <2>1, <2>3, <3>1, <3>2, <4>1 DEF KeepsRead, Relink, Relinks
      <4>2. CASE ~Relink(h)
        BY <3>2, <4>2 DEF KeepsStored
      <4> QED
        BY <4>1, <4>2
    <3> QED
      BY <2>1, <3>1, <3>2, <3>3, <3>4, <3>5
  <2>4. rows' = rows \/ (rows' = [rows EXCEPT ![w.id] = w.row] /\ pc' = [pc EXCEPT ![h] = "publish"])
    BY <1>2 DEF Write, Put, Goto
  <2>5. CASE rows' = rows
    BY <1>1, <2>5
  <2>6. CASE rows' = [rows EXCEPT ![w.id] = w.row] /\ pc' = [pc EXCEPT ![h] = "publish"] /\ i # w.id
    BY <1>1, <2>6
  <2> QED
    BY <2>3, <2>4, <2>5, <2>6
<1>3. ASSUME NEW h \in Handlers, Insert(h) PROVE rows'[i] = rows[i]
  <2> USE Typed DEF ServedInv
  <2>1. CASE UNCHANGED rows
    BY <2>1
  <2>2. ASSUME NEW j \in IF work[h].id = None THEN Fresh ELSE {work[h].id}, NEW row, Put(j, row)
        PROVE  rows'[i] = rows[i]
    <3>1. pc[h] = "insert"
      BY <1>3 DEF Insert
    <3>2. j # i
      <4>1. CASE work[h].id = None
        BY <2>2, <4>1 DEF Fresh, Held
      <4>2. CASE work[h].id # None
        <5>1. Current(h) /\ j = work[h].id
          BY <2>2, <4>2
        <5> QED
          BY <3>1, <4>2, <5>1 DEF Current, Renews, Lasting
      <4> QED
        BY <4>1, <4>2
    <3> QED
      BY <2>2, <3>2 DEF Put
  <2> QED
    BY <1>3, <2>1, <2>2, Zenon DEF Insert
<1>4. ASSUME NEW h \in Handlers, DeleteRow(h) PROVE rows'[i] = rows[i]
  <2>1. rows' = rows \/ rows' = [rows EXCEPT ![work[h].id] = None]
    BY <1>4 DEF DeleteRow, Put, storeVars
  <2> QED
    BY <2>1, Typed DEF ServedInv
<1>10. ASSUME NEW h \in Handlers, Rotate(h) PROVE Own
  <2> USE Typed DEF ServedInv
  <2> DEFINE w == work[h]
  <2>1. pc[h] = "exchanging" /\ w.id \in Ids /\ h \in Refreshes
    BY <1>10 DEF Rotate, RowOk, LockOk
  <2>2. CASE UNCHANGED rows
    BY <1>1, <2>2
  <2>3. ASSUME NEW c \in w.listed, NEW renewed \in {Tokens, {"access"}}, ~Superseded(h), rows[w.id] # None,
               Put(w.id, [account |-> rows[w.id].account, credential |-> Renewed(h, c.credential, renewed),
                          settings |-> rows[w.id].settings])
        PROVE  Own
    <3>1. CASE w.id # i
      BY <1>1, <2>3, <3>1 DEF Put
    <3>2. CASE w.id = i
      <4>1. rows'[i] = [account |-> rows[i].account, credential |-> Renewed(h, c.credential, renewed), settings |-> rows[i].settings]
        BY <2>3, <3>2 DEF Put
      <4>2. Lasting(h)
        BY <3>2, Disjoint DEF Lasting
      <4>3. c.credential = rows[i].credential
        BY <2>1, <2>3, <3>2, <4>2, RotatesStored
      <4>4. \A t \in Tokens : rows'[i].credential[t] \in {h, rows[i].credential[t]}
        BY <4>1, <4>3 DEF Renewed
      <4>5. \A t \in Tokens : h \in Brings(t)
        BY <2>1 DEF Brings
      <4> QED
        BY <4>1, <4>4, <4>5
    <3> QED
      BY <3>1, <3>2
  <2> QED
    BY <1>10, <2>2, <2>3, Zenon DEF Rotate
<1>5. ASSUME NEW h \in Handlers, Save(h) PROVE UNCHANGED rows \/ Write(h) \/ Insert(h)
  BY <1>5 DEF Save, Lock, Match, Lookup, Adopt, TakeSlot, ReadStored, Publish, FallBack, Register, storeVars
<1>6. ASSUME NEW h \in Handlers, Request(h) PROVE UNCHANGED rows \/ DeleteRow(h) \/ Rotate(h)
  BY <1>6 DEF Request, StartEdit, Forget, List, SeedNext, StartRefresh, storeVars
<1>7. ASSUME NEW h \in Handlers, Claim(h) \/ Poll(h) \/ Consume(h) \/ Exchange(h) \/ Import(h) PROVE UNCHANGED rows
  BY <1>7 DEF Claim, Poll, StillPending, SlowDown, Rejected, Reserve, Settle, Consume, Exchange, Import, storeVars
<1>8. ASSUME NEW a \in Attempts, Begin(a) \/ Expire(a) \/ Cancel(a) PROVE UNCHANGED rows
  BY <1>8 DEF Begin, Expire, Cancel, connectionVars, storeVars
<1>9. Tick \/ UNCHANGED vars => UNCHANGED rows
  BY DEF Tick, vars, connectionVars, storeVars
<1> HIDE DEF Own
<1> QED
  BY <1>1, <1>2, <1>3, <1>4, <1>5, <1>6, <1>7, <1>8, <1>9, <1>10 DEF Next

\* No save writes back what it had read before another's write, whatever refreshes rotate in
\* between: an edit keeps the stored credential, a sign-in the settings of a row nobody else
\* can have changed meanwhile, a refresh the token it exchanged if that is still stored.  A
\* relink alone does, and only over a token that a refresh brought after it read the row.
THEOREM SavesRevertNothing == Spec => NothingReverted
<1>1. ServedInv /\ [Next]_vars =>
        [\A i \in Ids \ Unlocked : rows[i] # None /\ rows'[i] # None =>
            /\ rows'[i].settings \in {rows[i].settings} \cup {h \in Edits : pc[h] # "saved"}
            /\ \A t \in Tokens :
                \/ rows'[i].credential[t] \in {rows[i].credential[t]} \cup Brings(t)
                \/ rows[i].credential[t] \in Refreshes /\ Relinks(i, t)]_connectionVars
  BY WritesOwn
<1> QED
  BY <1>1, ServedInit, ServedNext, PTL DEF Spec, NothingReverted

-----------------------------------------------------------------------------
(* The usage feed: its inductive invariant *)

\* A stream that has not subscribed, or has closed, is not a subscriber, and the
\* channel of one that has not subscribed is empty and open.
Outside == \A s \in Streams :
    /\ stream[s] \in {"new", "ended"} => s \notin subs
    /\ stream[s] = "new" => channel[s] = <<>> /\ closes[s] = 0

\* A channel holds what its buffer can.
Bounded == \A s \in Streams : Len(channel[s]) <= UsageBuffer

FeedInv == UsageTypeOK /\ Outside /\ Bounded /\ ClosedOnce /\ NoGap

LEMMA FeedInitHolds == UsageInit => FeedInv
BY UsageFeedAssumption DEF UsageInit, FeedInv, UsageTypeOK, StreamStates, Outside, Bounded, ClosedOnce, NoGap

-----------------------------------------------------------------------------
(* Every step preserves it *)

\* A channel that holds consecutive events up to n does so up to n + 1 when n + 1 is
\* sent on it.
LEMMA AppendFollows ==
    ASSUME NEW q \in Seq(Nat), NEW n \in Nat, NEW k \in Nat,
           \A i \in DOMAIN q : q[i] = k + i, k + Len(q) = n
    PROVE  \A i \in DOMAIN Append(q, n + 1) : Append(q, n + 1)[i] = k + i
<1>1. /\ DOMAIN q = 1 .. Len(q) /\ Len(q) \in Nat
      /\ DOMAIN Append(q, n + 1) = 1 .. Len(q) + 1
      /\ Append(q, n + 1)[Len(q) + 1] = n + 1
      /\ \A i \in 1 .. Len(q) : Append(q, n + 1)[i] = q[i]
  OBVIOUS
<1> QED
  BY <1>1

\* The steps of a stream that only move its handler, from a place and to a place
\* where it has subscribed and not closed.
LEMMA HandlerMoves ==
    ASSUME FeedInv, NEW s \in Streams, NEW from \in StreamStates, NEW to \in StreamStates,
           Handler(s, from, to), to # "new", from = "new" => to = "ended", to = "ended" => s \notin subs,
           UNCHANGED <<feedVars, publisher, last, sessions>>
    PROVE  FeedInv'
<1> USE DEF FeedInv, Handler, feedVars
<1>1. UsageTypeOK'
  BY DEF UsageTypeOK
<1>2. Outside'
  BY DEF UsageTypeOK, Outside
<1>3. Bounded' /\ ClosedOnce' /\ NoGap'
  BY DEF Bounded, ClosedOnce, NoGap
<1> QED
  BY <1>1, <1>2, <1>3

\* An event is appended to the channel of every subscriber that has room, and the
\* others are removed and their channels closed.
LEMMA DeliverPreserves ==
    ASSUME FeedInv, NEW r \in Requests, Deliver(r)
    PROVE  FeedInv'
<1> USE DEF FeedInv, Deliver, Fallen
<1>1. nextID' \in Nat /\ subs' \in SUBSET Streams /\ lagged' \in SUBSET Streams
  BY DEF UsageTypeOK
<1>2. active' \in Nat
  <2>1. IsFiniteSet(subs')
    BY <1>1, UsageFeedAssumption, FS_Subset
  <2> QED
    BY <2>1, FS_CardinalityType
<1>3. ASSUME NEW s \in Streams
      PROVE  /\ channel'[s] \in Seq(Nat) /\ closes'[s] \in Nat
             /\ s \in subs' => s \in subs /\ Len(channel[s]) < UsageBuffer /\ channel'[s] = Append(channel[s], nextID + 1)
             /\ s \notin subs => channel'[s] = channel[s]
             /\ s \in subs /\ s \notin subs' => channel'[s] = channel[s] /\ Len(channel[s]) = UsageBuffer
             /\ closes'[s] = IF s \in subs /\ s \notin subs' THEN closes[s] + 1 ELSE closes[s]
  <2>1. channel[s] \in Seq(Nat) /\ Len(channel[s]) \in Nat /\ closes[s] \in Nat /\ nextID \in Nat
    BY DEF UsageTypeOK
  <2>2. Len(channel[s]) <= UsageBuffer
    BY DEF Bounded
  <2> QED
    BY <2>1, <2>2, UsageFeedAssumption
<1>4. UsageTypeOK'
  BY <1>1, <1>2, <1>3 DEF UsageTypeOK
<1>5. Outside'
  <2>1. UNCHANGED stream
    OBVIOUS
  <2> QED
    BY <1>3, <2>1 DEF Outside
<1>6. Bounded'
  BY <1>3, UsageFeedAssumption DEF Bounded, UsageTypeOK
<1>7. ClosedOnce'
  BY <1>3 DEF ClosedOnce, UsageTypeOK
<1>8. NoGap'
  <2> SUFFICES ASSUME NEW s \in Streams
               PROVE  /\ \A i \in DOMAIN channel'[s] : channel'[s][i] = last'[s] + i
                      /\ s \in subs' => last'[s] + Len(channel'[s]) = nextID'
    BY DEF NoGap
  <2>1. /\ channel[s] \in Seq(Nat) /\ last'[s] = last[s] /\ last[s] \in Nat /\ nextID \in Nat
        /\ nextID' = nextID + 1
    BY DEF UsageTypeOK
  <2>2. /\ \A i \in DOMAIN channel[s] : channel[s][i] = last[s] + i
        /\ s \in subs => last[s] + Len(channel[s]) = nextID
    BY DEF NoGap
  <2>3. CASE s \in subs'
    <3>1. s \in subs /\ channel'[s] = Append(channel[s], nextID + 1)
      BY <1>3, <2>3
    <3> HIDE DEF Deliver
    <3>2. Len(channel'[s]) = Len(channel[s]) + 1
      BY <2>1, <3>1
    <3>4. Len(channel[s]) \in Nat /\ last[s] + Len(channel[s]) = nextID
      BY <2>1, <2>2, <3>1
    <3>3. \A i \in DOMAIN channel'[s] : channel'[s][i] = last'[s] + i
      <4>1. \A i \in DOMAIN Append(channel[s], nextID + 1) : Append(channel[s], nextID + 1)[i] = last[s] + i
        <5> HIDE DEF FeedInv
        <5> QED
          BY <2>1, <2>2, <3>4, AppendFollows
      <4> QED
        BY <2>1, <3>1, <4>1
    <3>5. last'[s] + Len(channel'[s]) = nextID'
      BY <2>1, <3>2, <3>4
    <3> QED
      BY <3>3, <3>5
  <2>4. CASE s \notin subs'
    <3>1. channel'[s] = channel[s]
      BY <1>3, <2>4
    <3> QED
      BY <2>1, <2>2, <2>4, <3>1
  <2> QED
    BY <2>3, <2>4
<1> QED
  BY <1>4, <1>5, <1>6, <1>7, <1>8

LEMMA SubscribePreserves ==
    ASSUME FeedInv, NEW s \in Streams, Subscribe(s)
    PROVE  FeedInv'
<1> USE DEF FeedInv, Subscribe, Handler
<1>1. subs' \in SUBSET Streams /\ active' \in Nat
  <2>1. subs' \in SUBSET Streams
    BY DEF UsageTypeOK
  <2> QED
    BY <2>1, UsageFeedAssumption, FS_Subset, FS_CardinalityType
<1>2. UsageTypeOK'
  BY <1>1 DEF UsageTypeOK, StreamStates
<1>3. Outside'
  BY DEF Outside, UsageTypeOK
<1>4. Bounded' /\ ClosedOnce'
  BY DEF Bounded, ClosedOnce, Outside, UsageTypeOK
<1>5. NoGap'
  <2>1. channel[s] = <<>> /\ last'[s] = nextID /\ nextID \in Nat /\ UNCHANGED <<channel, nextID>>
    BY DEF Outside, UsageTypeOK
  <2>2. \A t \in Streams \ {s} : last'[t] = last[t] /\ (t \in subs' <=> t \in subs)
    BY DEF UsageTypeOK
  <2> QED
    BY <2>1, <2>2 DEF NoGap
<1> QED
  BY <1>2, <1>3, <1>4, <1>5

\* The first event of a channel follows the last one taken.
LEMMA ReceivePreserves ==
    ASSUME FeedInv, NEW s \in Streams, Receive(s)
    PROVE  FeedInv'
<1> USE DEF FeedInv, Receive, Handler
<1>1. /\ channel[s] \in Seq(Nat) /\ channel[s] # <<>> /\ last[s] \in Nat
      /\ channel'[s] = Tail(channel[s]) /\ last'[s] = Head(channel[s])
      /\ stream' = [stream EXCEPT ![s] = "check"] /\ stream[s] = "select"
      /\ \A t \in Streams \ {s} : channel'[t] = channel[t] /\ last'[t] = last[t]
      /\ UNCHANGED <<nextID, subs, active, closes, lagged, publisher, sessions>>
  BY DEF UsageTypeOK
<1>2. /\ Tail(channel[s]) \in Seq(Nat) /\ Len(Tail(channel[s])) = Len(channel[s]) - 1
      /\ Head(channel[s]) = channel[s][1] /\ 1 \in DOMAIN channel[s] /\ Head(channel[s]) \in Nat
      /\ \A i \in DOMAIN Tail(channel[s]) : i + 1 \in DOMAIN channel[s] /\ Tail(channel[s])[i] = channel[s][i + 1]
  BY <1>1
<1>3. Head(channel[s]) = last[s] + 1
  BY <1>2 DEF NoGap
<1>4. UsageTypeOK'
  BY <1>1, <1>2 DEF UsageTypeOK, StreamStates
<1>5. Outside'
  BY <1>1 DEF Outside, UsageTypeOK
<1>6. Bounded'
  BY <1>1, <1>2, UsageFeedAssumption DEF Bounded
<1>7. ClosedOnce'
  BY <1>1 DEF ClosedOnce
<1>8. NoGap'
  <2> SUFFICES ASSUME NEW t \in Streams
               PROVE  /\ \A i \in DOMAIN channel'[t] : channel'[t][i] = last'[t] + i
                      /\ t \in subs' => last'[t] + Len(channel'[t]) = nextID'
    BY DEF NoGap
  <2>1. /\ \A i \in DOMAIN channel[t] : channel[t][i] = last[t] + i
        /\ t \in subs => last[t] + Len(channel[t]) = nextID
    BY DEF NoGap
  <2> HIDE DEF FeedInv, Receive
  <2>2. CASE t = s
    <3>1. \A i \in DOMAIN channel'[s] : channel'[s][i] = last[s] + (i + 1)
      BY <1>1, <1>2, <2>1, <2>2
    <3>2. \A i \in DOMAIN channel'[s] : i \in Nat
      BY <1>1, <1>2
    <3>3. ASSUME NEW i \in DOMAIN channel'[s] PROVE channel'[s][i] = last'[s] + i
      <4>1. last'[s] = last[s] + 1 /\ last[s] \in Nat
        BY <1>1, <1>3
      <4>2. i \in Nat /\ channel'[s][i] = last[s] + (i + 1)
        BY <3>1, <3>2
      <4>3. last[s] + (i + 1) = (last[s] + 1) + i
        BY <4>1, <4>2
      <4> QED
        BY <4>1, <4>2, <4>3
    <3>4. s \in subs' => last'[s] + Len(channel'[s]) = nextID'
      <4>1. Len(channel[s]) \in Nat
        BY <1>1
      <4>2. Len(channel'[s]) = Len(channel[s]) - 1 /\ last'[s] = last[s] + 1
        BY <1>1, <1>2, <1>3
      <4>3. s \in subs' => last[s] + Len(channel[s]) = nextID'
        BY <1>1, <2>1, <2>2
      <4> QED
        BY <1>1, <4>1, <4>2, <4>3
    <3> QED
      BY <2>2, <3>3, <3>4
  <2>3. CASE t # s
    BY <1>1, <2>1, <2>3
  <2> QED
    BY <2>2, <2>3
<1> QED
  BY <1>4, <1>5, <1>6, <1>7, <1>8

\* Close closes the channel of a stream that is still subscribed, whose channel
\* Publish has not closed.
LEMMA ClosePreserves ==
    ASSUME FeedInv, NEW s \in Streams, CloseSubscription(s)
    PROVE  FeedInv'
<1> USE DEF FeedInv, CloseSubscription, Handler, Subscribed
<1>1. subs' \in SUBSET Streams /\ active' \in Nat
  <2>1. subs' \in SUBSET Streams
    BY DEF UsageTypeOK
  <2>2. Cardinality(subs') \in Nat
    BY <2>1, UsageFeedAssumption, FS_Subset, FS_CardinalityType
  <2> QED
    BY <2>1, <2>2 DEF UsageTypeOK
<1>2. UsageTypeOK'
  <2>1. closes' \in [Streams -> Nat]
    <3>1. CASE s \in subs
      <4>1. closes' = [closes EXCEPT ![s] = closes[s] + 1] /\ closes[s] \in Nat
        BY <3>1 DEF UsageTypeOK
      <4> QED
        BY <4>1 DEF UsageTypeOK
    <3>2. CASE s \notin subs
      BY <3>2 DEF UsageTypeOK
    <3> QED
      BY <3>1, <3>2
  <2>2. stream' \in [Streams -> StreamStates]
    BY DEF UsageTypeOK, StreamStates
  <2> QED
    BY <1>1, <2>1, <2>2 DEF UsageTypeOK
<1>3. Outside'
  BY DEF Outside, UsageTypeOK
<1>4. Bounded'
  BY DEF Bounded
<1>5. ClosedOnce'
  BY DEF ClosedOnce, UsageTypeOK
<1>6. NoGap'
  BY DEF NoGap
<1> QED
  BY <1>2, <1>3, <1>4, <1>5, <1>6

LEMMA FeedStep == FeedInv /\ [UsageNext]_usageVars => FeedInv'
<1> SUFFICES ASSUME FeedInv, [UsageNext]_usageVars PROVE FeedInv'
  OBVIOUS
<1>1. CASE UNCHANGED usageVars
  BY <1>1 DEF FeedInv, usageVars, feedVars, UsageTypeOK, Outside, Bounded, ClosedOnce, NoGap
<1>2. ASSUME NEW r \in Requests, Load(r) PROVE FeedInv'
  BY <1>2 DEF Load, FeedInv, feedVars, UsageTypeOK, Outside, Bounded, ClosedOnce, NoGap
<1>3. ASSUME NEW r \in Requests, Deliver(r) PROVE FeedInv'
  BY <1>3, DeliverPreserves
<1>4. ASSUME NEW s \in Streams, Subscribe(s) PROVE FeedInv'
  BY <1>4, SubscribePreserves
<1>5. ASSUME NEW s \in Streams, TooMany(s) PROVE FeedInv'
  <2>1. s \notin subs
    BY <1>5 DEF TooMany, Handler, FeedInv, Outside
  <2> QED
    BY <1>5, <2>1, HandlerMoves DEF TooMany, StreamStates
<1>6. ASSUME NEW s \in Streams, Receive(s) PROVE FeedInv'
  BY <1>6, ReceivePreserves
<1>7. ASSUME NEW s \in Streams, CloseSubscription(s) PROVE FeedInv'
  BY <1>7, ClosePreserves
<1>8. ASSUME NEW s \in Streams, Written(s, "greeting") \/ Written(s, "write") PROVE FeedInv'
  BY <1>8, HandlerMoves DEF Written, StreamStates
<1>9. ASSUME NEW s \in Streams, SeeClosed(s) \/ Leave(s) PROVE FeedInv'
  BY <1>9, HandlerMoves DEF SeeClosed, Leave, StreamStates
<1>10. ASSUME NEW s \in Streams, Check(s) \/ Heartbeat(s) PROVE FeedInv'
  BY <1>10, HandlerMoves DEF Check, Heartbeat, StreamStates
<1>11. ASSUME NEW s \in Streams, Revoke(s) PROVE FeedInv'
  BY <1>11 DEF Revoke, FeedInv, feedVars, UsageTypeOK, Outside, Bounded, ClosedOnce, NoGap
<1> QED
  BY <1>1, <1>2, <1>3, <1>4, <1>5, <1>6, <1>7, <1>8, <1>9, <1>10, <1>11 DEF UsageNext, Stream

\* The channels stay as the invariant says, for any number of subscribers and streams
\* (usage.go).
THEOREM FeedInvariance == UsageSpec => []FeedInv
BY FeedInitHolds, FeedStep, PTL DEF UsageSpec

-----------------------------------------------------------------------------

\* The variables hold what the fields can (usage.go:14-47).
THEOREM UsageTypesHold == UsageSpec => []UsageTypeOK
<1>1. FeedInv => UsageTypeOK
  BY DEF FeedInv
<1> QED
  BY <1>1, FeedInvariance, PTL

\* Publish and Close never close a channel twice, and none is sent on once closed,
\* however they interleave (usage.go:79-91, 116-123).
THEOREM ChannelsCloseOnce == UsageSpec => []ClosedOnce
<1>1. FeedInv => ClosedOnce
  BY DEF FeedInv
<1> QED
  BY <1>1, FeedInvariance, PTL

\* No subscriber misses an event between two that it is given (usage.go:49-53).
THEOREM EventsWithoutGap == UsageSpec => []NoGap
<1>1. FeedInv => NoGap
  BY DEF FeedInv
<1> QED
  BY <1>1, FeedInvariance, PTL
=============================================================================
