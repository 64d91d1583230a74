---------------------- MODULE CredentialRegistryProofs ----------------------
(***************************************************************************)
(* Proofs about CredentialRegistry for any set of goroutines and any bound. *)
(***************************************************************************)
EXTENDS CredentialRegistry, TLAPS

USE RegistryAssumption DEF None, Credential

-----------------------------------------------------------------------------
(* The inductive invariant *)

\* The slot and the install lock are held exactly by the callers whose place
\* in the code says so.
Slots == \A p \in Callers : inflight = p <=> pc[p] \in SlotStates
Locks == \A p \in Callers : installLock = p <=> pc[p] \in LockStates

\* What a caller is about to exchange, merge onto, write or publish exists.
Payload ==
    \A p \in Callers :
        /\ pc[p] \in {"commit", "persist", "publish", "settle", "replace", "importing", "imported"}
              => fresh[p] \in Credential
        /\ pc[p] \in {"exchange", "commit", "persist", "change"} => stored[p] \in Credential
        /\ pc[p] = "replace" => generation < MaxGeneration

\* A caller between its write and its publication holds what the row holds.
Written == \A p \in Callers : pc[p] \in WrittenStates => durable = fresh[p]

IInv == TypeOK /\ Slots /\ Locks /\ Payload /\ Written /\ MemoryMatchesRow

-----------------------------------------------------------------------------
(* Every step preserves it *)

\* An operator's credential is a new one.
LEMMA SupplyType ==
    ASSUME TypeOK, NEW c \in Credential, Supply(c)
    PROVE  /\ issued' \in Credential /\ expired' \subseteq Credential
           /\ dead' \in [Callers -> SUBSET Credential]
<1>1. CASE UNCHANGED <<expired, dead>>
  BY <1>1 DEF TypeOK, Supply
<1>2. CASE expired' = expired \cup {c}
           /\ dead' = [q \in Callers |-> IF pc[q] = "idle" THEN {} ELSE dead[q] \cup {c}]
  <2>1. \A q \in Callers : dead[q] \cup {c} \in SUBSET Credential
    BY DEF TypeOK
  <2>2. dead' \in [Callers -> SUBSET Credential]
    BY <1>2, <2>1
  <2> QED
    BY <1>2, <2>2 DEF TypeOK, Supply
<1> QED
  BY <1>1, <1>2 DEF Supply

\* The credentials written and the generation stay in range.
LEMMA TypeStep ==
    TypeOK /\ Locks /\ Payload /\ [Next]_vars => TypeOK'
<1> SUFFICES ASSUME TypeOK, Locks, Payload, [Next]_vars PROVE TypeOK'
  OBVIOUS
<1> USE DEF TypeOK, States, SlotStates, RefreshStates, UpdateStates, LockStates,
            entryVars, localVars, callVars, pastVars, Goto, Lock, Unlock, ClearLocals, Locks, Payload
<1>1. ASSUME NEW p \in Callers, Begin(p) PROVE TypeOK'
  <2>1. CASE BeginSecret(p)
    BY <2>1 DEF BeginSecret
  <2>2. CASE BeginForceRefresh(p)
    BY <2>2 DEF BeginForceRefresh
  <2>3. CASE BeginUpdate(p)
    BY <2>3 DEF BeginUpdate
  <2>4. CASE BeginImport(p)
    BY <2>4 DEF BeginImport
  <2>5. CASE ListRow(p)
    BY <2>5 DEF ListRow
  <2> QED
    BY <1>1, <2>1, <2>2, <2>3, <2>4, <2>5 DEF Begin
<1>2. ASSUME NEW p \in Callers, SecretStep(p) PROVE TypeOK'
  <2>1. CASE ServeValid(p)
    BY <2>1 DEF ServeValid, Answer
  <2>2. CASE JoinCall(p)
    BY <2>2 DEF JoinCall
  <2>3. CASE LeadRefresh(p)
    BY <2>3 DEF LeadRefresh
  <2>4. CASE ExchangeAnswered(p)
    BY <2>4 DEF ExchangeAnswered, Usable
  <2>5. CASE ExchangeFailed(p)
    BY <2>5 DEF ExchangeFailed
  <2>6. CASE BeginCommit(p)
    BY <2>6 DEF BeginCommit
  <2>7. CASE DiscardSuperseded(p)
    BY <2>7 DEF DiscardSuperseded
  <2>8. CASE PersistRotation(p)
    <3>1. rotations' \in Nat
      BY <2>8 DEF PersistRotation
    <3>2. rotated' \subseteq Credential
      BY <2>8 DEF PersistRotation
    <3> QED
      BY <2>8, <3>1, <3>2 DEF PersistRotation
  <2>9. CASE PersistFailed(p)
    BY <2>9 DEF PersistFailed
  <2>10. CASE PublishRotation(p)
    BY <2>10 DEF PublishRotation
  <2>11. CASE Settle(p)
    BY <2>11 DEF Settle, Answer
  <2>12. CASE SettleFailed(p)
    BY <2>12 DEF SettleFailed, Fail
  <2>13. CASE SettleSuperseded(p)
    BY <2>13 DEF SettleSuperseded
  <2>14. CASE Unmark(p)
    BY <2>14 DEF Unmark, Withdraw
  <2> QED
    BY <1>2, <2>1, <2>2, <2>3, <2>4, <2>5, <2>6, <2>7, <2>8, <2>9, <2>10, <2>11, <2>12, <2>13, <2>14
       DEF SecretStep
<1>3. ASSUME NEW p \in Callers, UpdateStep(p) PROVE TypeOK'
  <2>1. CASE TakeSlot(p)
    BY <2>1 DEF TakeSlot, SlotFree
  <2>2. CASE BeginChange(p)
    BY <2>2 DEF BeginChange
  <2>3. CASE WriteChange(p)
    <3>1. PICK c \in Credential : /\ \/ c = stored[p] /\ UNCHANGED <<issued, expired, dead>>
                                     \/ Supply(c)
                                  /\ durable' = c
                                  /\ fresh' = [fresh EXCEPT ![p] = c]
      BY <2>3 DEF WriteChange
    <3>2. /\ issued' \in Credential /\ expired' \subseteq Credential
          /\ dead' \in [Callers -> SUBSET Credential]
      BY <3>1, SupplyType
    <3> QED
      BY <2>3, <3>1, <3>2 DEF WriteChange
  <2>4. CASE PublishChange(p)
    BY <2>4 DEF PublishChange, Waiters
  <2>5. CASE ChangeFailed(p)
    BY <2>5 DEF ChangeFailed, Waiters
  <2> QED
    BY <1>3, <2>1, <2>2, <2>3, <2>4, <2>5 DEF UpdateStep
<1>4. ASSUME NEW p \in Callers, ImportStep(p) PROVE TypeOK'
  <2>1. CASE ImportLocked(p)
    <3>1. PICK c \in Credential :
              /\ \/ c = current /\ UNCHANGED <<issued, expired, dead, generation>>
                 \/ generation < MaxGeneration /\ generation' = generation + 1 /\ Supply(c)
              /\ fresh' = [fresh EXCEPT ![p] = c]
      BY <2>1 DEF ImportLocked
    <3>2. /\ issued' \in Credential /\ expired' \subseteq Credential
          /\ dead' \in [Callers -> SUBSET Credential]
      BY <3>1, SupplyType
    <3>3. generation' \in 1 .. MaxGeneration
      BY <3>1
    <3>4. fresh' \in [Callers -> Credential \cup {None}]
      BY <3>1
    <3> QED
      BY <2>1, <3>2, <3>3, <3>4 DEF ImportLocked
  <2>2. CASE WriteImport(p)
    BY <2>2 DEF WriteImport
  <2>3. CASE ImportFailed(p)
    BY <2>3 DEF ImportFailed
  <2>4. CASE PublishImport(p)
    BY <2>4 DEF PublishImport
  <2> QED
    BY <1>4, <2>1, <2>2, <2>3, <2>4 DEF ImportStep
<1>5. ASSUME NEW p \in Callers, SeedHeld(p) PROVE TypeOK'
  BY <1>5 DEF SeedHeld, SeedRow
<1>6. ASSUME NEW p \in Callers, Abandon(p) PROVE TypeOK'
  BY <1>6 DEF Abandon, Fail
<1>7. ASSUME NEW p \in Callers, AbandonSlot(p) PROVE TypeOK'
  BY <1>7 DEF AbandonSlot, SlotFree
<1>8. ASSUME NEW c \in 1 .. issued, Expire(c) PROVE TypeOK'
  BY <1>8 DEF Expire
<1>9. CASE Restart
  BY <1>9 DEF Restart
<1>10. CASE UNCHANGED vars
  BY <1>10 DEF vars
<1> QED
  BY <1>1, <1>2, <1>3, <1>4, <1>5, <1>6, <1>7, <1>8, <1>9, <1>10 DEF Next, Running

\* The slot is taken and given up only by its holder.
LEMMA SlotsStep ==
    TypeOK /\ Slots /\ [Next]_vars => Slots'
<1> SUFFICES ASSUME TypeOK, Slots, [Next]_vars PROVE Slots'
  OBVIOUS
<1> USE DEF TypeOK, States, SlotStates, RefreshStates, UpdateStates, LockStates,
            entryVars, localVars, callVars, pastVars, Goto, Lock, Unlock, ClearLocals, Slots
<1>1. ASSUME NEW p \in Callers, Begin(p) PROVE Slots'
  BY <1>1 DEF Begin, BeginSecret, BeginForceRefresh, BeginUpdate, BeginImport, ListRow
<1>2. ASSUME NEW p \in Callers, SecretStep(p) PROVE Slots'
  <2>1. CASE ServeValid(p) \/ JoinCall(p) \/ LeadRefresh(p)
    BY <2>1 DEF ServeValid, JoinCall, LeadRefresh, Answer, SlotFree, Valid
  <2>2. CASE ExchangeAnswered(p) \/ ExchangeFailed(p)
    BY <2>2 DEF ExchangeAnswered, ExchangeFailed, Usable
  <2>3. CASE BeginCommit(p) \/ DiscardSuperseded(p)
    BY <2>3 DEF BeginCommit, DiscardSuperseded, Superseded
  <2>4. CASE PersistRotation(p) \/ PersistFailed(p)
    BY <2>4 DEF PersistRotation, PersistFailed
  <2>5. CASE PublishRotation(p)
    BY <2>5 DEF PublishRotation
  <2>6. CASE Settle(p)
    BY <2>6 DEF Settle, Answer, Waiters
  <2>7. CASE SettleFailed(p)
    BY <2>7 DEF SettleFailed, Fail, Waiters
  <2>8. CASE SettleSuperseded(p)
    BY <2>8 DEF SettleSuperseded, Waiters
  <2>9. CASE Unmark(p)
    BY <2>9 DEF Unmark, Withdraw
  <2> QED
    BY <1>2, <2>1, <2>2, <2>3, <2>4, <2>5, <2>6, <2>7, <2>8, <2>9 DEF SecretStep
<1>3. ASSUME NEW p \in Callers, UpdateStep(p) PROVE Slots'
  <2>1. CASE TakeSlot(p)
    BY <2>1 DEF TakeSlot, SlotFree
  <2>2. CASE BeginChange(p)
    BY <2>2 DEF BeginChange
  <2>3. CASE WriteChange(p)
    BY <2>3 DEF WriteChange, Supply
  <2>4. CASE PublishChange(p)
    BY <2>4 DEF PublishChange, Waiters
  <2>5. CASE ChangeFailed(p)
    BY <2>5 DEF ChangeFailed, Waiters
  <2> QED
    BY <1>3, <2>1, <2>2, <2>3, <2>4, <2>5 DEF UpdateStep
<1>4. ASSUME NEW p \in Callers, ImportStep(p) PROVE Slots'
  <2>1. CASE ImportLocked(p)
    BY <2>1 DEF ImportLocked, Supply
  <2>2. CASE WriteImport(p)
    BY <2>2 DEF WriteImport
  <2>3. CASE ImportFailed(p)
    BY <2>3 DEF ImportFailed
  <2>4. CASE PublishImport(p)
    BY <2>4 DEF PublishImport
  <2> QED
    BY <1>4, <2>1, <2>2, <2>3, <2>4 DEF ImportStep
<1>5. ASSUME NEW p \in Callers, SeedHeld(p) PROVE Slots'
  BY <1>5 DEF SeedHeld, SeedRow
<1>6. ASSUME NEW p \in Callers, Abandon(p) PROVE Slots'
  BY <1>6 DEF Abandon, Fail
<1>7. ASSUME NEW p \in Callers, AbandonSlot(p) PROVE Slots'
  BY <1>7 DEF AbandonSlot, SlotFree
<1>8. ASSUME NEW c \in 1 .. issued, Expire(c) PROVE Slots'
  BY <1>8 DEF Expire
<1>9. CASE Restart
  BY <1>9 DEF Restart
<1>10. CASE UNCHANGED vars
  BY <1>10 DEF vars
<1> QED
  BY <1>1, <1>2, <1>3, <1>4, <1>5, <1>6, <1>7, <1>8, <1>9, <1>10 DEF Next, Running

\* So is the install lock.
LEMMA LocksStep ==
    TypeOK /\ Locks /\ [Next]_vars => Locks'
<1> SUFFICES ASSUME TypeOK, Locks, [Next]_vars PROVE Locks'
  OBVIOUS
<1> USE DEF TypeOK, States, SlotStates, RefreshStates, UpdateStates, LockStates,
            entryVars, localVars, callVars, pastVars, Goto, Lock, Unlock, ClearLocals, Locks
<1>1. ASSUME NEW p \in Callers, Begin(p) PROVE Locks'
  BY <1>1 DEF Begin, BeginSecret, BeginForceRefresh, BeginUpdate, BeginImport, ListRow
<1>2. ASSUME NEW p \in Callers, SecretStep(p) PROVE Locks'
  <2>1. CASE ServeValid(p) \/ JoinCall(p) \/ LeadRefresh(p)
    BY <2>1 DEF ServeValid, JoinCall, LeadRefresh, Answer, SlotFree, Valid
  <2>2. CASE ExchangeAnswered(p) \/ ExchangeFailed(p)
    BY <2>2 DEF ExchangeAnswered, ExchangeFailed, Usable
  <2>3. CASE BeginCommit(p) \/ DiscardSuperseded(p)
    BY <2>3 DEF BeginCommit, DiscardSuperseded, Superseded
  <2>4. CASE PersistRotation(p) \/ PersistFailed(p)
    BY <2>4 DEF PersistRotation, PersistFailed
  <2>5. CASE PublishRotation(p)
    BY <2>5 DEF PublishRotation
  <2>6. CASE Settle(p)
    BY <2>6 DEF Settle, Answer, Waiters
  <2>7. CASE SettleFailed(p)
    BY <2>7 DEF SettleFailed, Fail, Waiters
  <2>8. CASE SettleSuperseded(p)
    BY <2>8 DEF SettleSuperseded, Waiters
  <2>9. CASE Unmark(p)
    BY <2>9 DEF Unmark, Withdraw
  <2> QED
    BY <1>2, <2>1, <2>2, <2>3, <2>4, <2>5, <2>6, <2>7, <2>8, <2>9 DEF SecretStep
<1>3. ASSUME NEW p \in Callers, UpdateStep(p) PROVE Locks'
  <2>1. CASE TakeSlot(p)
    BY <2>1 DEF TakeSlot, SlotFree
  <2>2. CASE BeginChange(p)
    BY <2>2 DEF BeginChange
  <2>3. CASE WriteChange(p)
    BY <2>3 DEF WriteChange, Supply
  <2>4. CASE PublishChange(p)
    BY <2>4 DEF PublishChange, Waiters
  <2>5. CASE ChangeFailed(p)
    BY <2>5 DEF ChangeFailed, Waiters
  <2> QED
    BY <1>3, <2>1, <2>2, <2>3, <2>4, <2>5 DEF UpdateStep
<1>4. ASSUME NEW p \in Callers, ImportStep(p) PROVE Locks'
  <2>1. CASE ImportLocked(p)
    BY <2>1 DEF ImportLocked, Supply
  <2>2. CASE WriteImport(p)
    BY <2>2 DEF WriteImport
  <2>3. CASE ImportFailed(p)
    BY <2>3 DEF ImportFailed
  <2>4. CASE PublishImport(p)
    BY <2>4 DEF PublishImport
  <2> QED
    BY <1>4, <2>1, <2>2, <2>3, <2>4 DEF ImportStep
<1>5. ASSUME NEW p \in Callers, SeedHeld(p) PROVE Locks'
  BY <1>5 DEF SeedHeld, SeedRow
<1>6. ASSUME NEW p \in Callers, Abandon(p) PROVE Locks'
  BY <1>6 DEF Abandon, Fail
<1>7. ASSUME NEW p \in Callers, AbandonSlot(p) PROVE Locks'
  BY <1>7 DEF AbandonSlot, SlotFree
<1>8. ASSUME NEW c \in 1 .. issued, Expire(c) PROVE Locks'
  BY <1>8 DEF Expire
<1>9. CASE Restart
  BY <1>9 DEF Restart
<1>10. CASE UNCHANGED vars
  BY <1>10 DEF vars
<1> QED
  BY <1>1, <1>2, <1>3, <1>4, <1>5, <1>6, <1>7, <1>8, <1>9, <1>10 DEF Next, Running

\* Only the lock holder moves the generation.
LEMMA PayloadStep ==
    TypeOK /\ Locks /\ Payload /\ [Next]_vars => Payload'
<1> SUFFICES ASSUME TypeOK, Locks, Payload, [Next]_vars PROVE Payload'
  OBVIOUS
<1> USE DEF TypeOK, States, SlotStates, RefreshStates, UpdateStates, LockStates,
            entryVars, localVars, callVars, pastVars, Goto, Lock, Unlock, ClearLocals, Locks, Payload
<1>1. ASSUME NEW p \in Callers, Begin(p) PROVE Payload'
  BY <1>1 DEF Begin, BeginSecret, BeginForceRefresh, BeginUpdate, BeginImport, ListRow
<1>2. ASSUME NEW p \in Callers, SecretStep(p) PROVE Payload'
  <2>1. CASE ServeValid(p) \/ JoinCall(p) \/ LeadRefresh(p)
    BY <2>1 DEF ServeValid, JoinCall, LeadRefresh, Answer, SlotFree, Valid
  <2>2. CASE ExchangeAnswered(p) \/ ExchangeFailed(p)
    BY <2>2 DEF ExchangeAnswered, ExchangeFailed, Usable
  <2>3. CASE BeginCommit(p) \/ DiscardSuperseded(p)
    BY <2>3 DEF BeginCommit, DiscardSuperseded, Superseded
  <2>4. CASE PersistRotation(p) \/ PersistFailed(p)
    BY <2>4 DEF PersistRotation, PersistFailed
  <2>5. CASE PublishRotation(p)
    BY <2>5 DEF PublishRotation
  <2>6. CASE Settle(p)
    BY <2>6 DEF Settle, Answer, Waiters
  <2>7. CASE SettleFailed(p)
    BY <2>7 DEF SettleFailed, Fail, Waiters
  <2>8. CASE SettleSuperseded(p)
    BY <2>8 DEF SettleSuperseded, Waiters
  <2>9. CASE Unmark(p)
    BY <2>9 DEF Unmark, Withdraw
  <2> QED
    BY <1>2, <2>1, <2>2, <2>3, <2>4, <2>5, <2>6, <2>7, <2>8, <2>9 DEF SecretStep
<1>3. ASSUME NEW p \in Callers, UpdateStep(p) PROVE Payload'
  <2>1. CASE TakeSlot(p)
    BY <2>1 DEF TakeSlot, SlotFree
  <2>2. CASE BeginChange(p)
    BY <2>2 DEF BeginChange
  <2>3. CASE WriteChange(p)
    BY <2>3 DEF WriteChange, Supply
  <2>4. CASE PublishChange(p)
    BY <2>4 DEF PublishChange, Waiters
  <2>5. CASE ChangeFailed(p)
    BY <2>5 DEF ChangeFailed, Waiters
  <2> QED
    BY <1>3, <2>1, <2>2, <2>3, <2>4, <2>5 DEF UpdateStep
<1>4. ASSUME NEW p \in Callers, ImportStep(p) PROVE Payload'
  <2>1. CASE ImportLocked(p)
    BY <2>1 DEF ImportLocked, Supply
  <2>2. CASE WriteImport(p)
    BY <2>2 DEF WriteImport
  <2>3. CASE ImportFailed(p)
    BY <2>3 DEF ImportFailed
  <2>4. CASE PublishImport(p)
    BY <2>4 DEF PublishImport
  <2> QED
    BY <1>4, <2>1, <2>2, <2>3, <2>4 DEF ImportStep
<1>5. ASSUME NEW p \in Callers, SeedHeld(p) PROVE Payload'
  BY <1>5 DEF SeedHeld, SeedRow
<1>6. ASSUME NEW p \in Callers, Abandon(p) PROVE Payload'
  BY <1>6 DEF Abandon, Fail
<1>7. ASSUME NEW p \in Callers, AbandonSlot(p) PROVE Payload'
  BY <1>7 DEF AbandonSlot, SlotFree
<1>8. ASSUME NEW c \in 1 .. issued, Expire(c) PROVE Payload'
  BY <1>8 DEF Expire
<1>9. CASE Restart
  BY <1>9 DEF Restart
<1>10. CASE UNCHANGED vars
  BY <1>10 DEF vars
<1> QED
  BY <1>1, <1>2, <1>3, <1>4, <1>5, <1>6, <1>7, <1>8, <1>9, <1>10 DEF Next, Running

\* Only the lock holder writes the row.
LEMMA WrittenStep ==
    TypeOK /\ Locks /\ Written /\ [Next]_vars => Written'
<1> SUFFICES ASSUME TypeOK, Locks, Written, [Next]_vars PROVE Written'
  OBVIOUS
<1> USE DEF TypeOK, States, SlotStates, RefreshStates, UpdateStates, LockStates,
            entryVars, localVars, callVars, pastVars, Goto, Lock, Unlock, ClearLocals, Locks, Written, WrittenStates
<1>1. ASSUME NEW p \in Callers, Begin(p) PROVE Written'
  BY <1>1 DEF Begin, BeginSecret, BeginForceRefresh, BeginUpdate, BeginImport, ListRow
<1>2. ASSUME NEW p \in Callers, SecretStep(p) PROVE Written'
  <2>1. CASE ServeValid(p) \/ JoinCall(p) \/ LeadRefresh(p)
    BY <2>1 DEF ServeValid, JoinCall, LeadRefresh, Answer, SlotFree, Valid
  <2>2. CASE ExchangeAnswered(p) \/ ExchangeFailed(p)
    BY <2>2 DEF ExchangeAnswered, ExchangeFailed, Usable
  <2>3. CASE BeginCommit(p) \/ DiscardSuperseded(p)
    BY <2>3 DEF BeginCommit, DiscardSuperseded, Superseded
  <2>4. CASE PersistRotation(p) \/ PersistFailed(p)
    BY <2>4 DEF PersistRotation, PersistFailed
  <2>5. CASE PublishRotation(p)
    BY <2>5 DEF PublishRotation
  <2>6. CASE Settle(p)
    BY <2>6 DEF Settle, Answer, Waiters
  <2>7. CASE SettleFailed(p)
    BY <2>7 DEF SettleFailed, Fail, Waiters
  <2>8. CASE SettleSuperseded(p)
    BY <2>8 DEF SettleSuperseded, Waiters
  <2>9. CASE Unmark(p)
    BY <2>9 DEF Unmark, Withdraw
  <2> QED
    BY <1>2, <2>1, <2>2, <2>3, <2>4, <2>5, <2>6, <2>7, <2>8, <2>9 DEF SecretStep
<1>3. ASSUME NEW p \in Callers, UpdateStep(p) PROVE Written'
  <2>1. CASE TakeSlot(p)
    BY <2>1 DEF TakeSlot, SlotFree
  <2>2. CASE BeginChange(p)
    BY <2>2 DEF BeginChange
  <2>3. CASE WriteChange(p)
    BY <2>3 DEF WriteChange, Supply
  <2>4. CASE PublishChange(p)
    BY <2>4 DEF PublishChange, Waiters
  <2>5. CASE ChangeFailed(p)
    BY <2>5 DEF ChangeFailed, Waiters
  <2> QED
    BY <1>3, <2>1, <2>2, <2>3, <2>4, <2>5 DEF UpdateStep
<1>4. ASSUME NEW p \in Callers, ImportStep(p) PROVE Written'
  <2>1. CASE ImportLocked(p)
    BY <2>1 DEF ImportLocked, Supply
  <2>2. CASE WriteImport(p)
    BY <2>2 DEF WriteImport
  <2>3. CASE ImportFailed(p)
    BY <2>3 DEF ImportFailed
  <2>4. CASE PublishImport(p)
    BY <2>4 DEF PublishImport
  <2> QED
    BY <1>4, <2>1, <2>2, <2>3, <2>4 DEF ImportStep
<1>5. ASSUME NEW p \in Callers, SeedHeld(p) PROVE Written'
  BY <1>5 DEF SeedHeld, SeedRow
<1>6. ASSUME NEW p \in Callers, Abandon(p) PROVE Written'
  BY <1>6 DEF Abandon, Fail
<1>7. ASSUME NEW p \in Callers, AbandonSlot(p) PROVE Written'
  BY <1>7 DEF AbandonSlot, SlotFree
<1>8. ASSUME NEW c \in 1 .. issued, Expire(c) PROVE Written'
  BY <1>8 DEF Expire
<1>9. CASE Restart
  BY <1>9 DEF Restart
<1>10. CASE UNCHANGED vars
  BY <1>10 DEF vars
<1> QED
  BY <1>1, <1>2, <1>3, <1>4, <1>5, <1>6, <1>7, <1>8, <1>9, <1>10 DEF Next, Running

\* Memory follows the row under the lock.
LEMMA MemoryStep ==
    TypeOK /\ Locks /\ Written /\ MemoryMatchesRow /\ [Next]_vars => MemoryMatchesRow'
<1> SUFFICES ASSUME TypeOK, Locks, Written, MemoryMatchesRow, [Next]_vars PROVE MemoryMatchesRow'
  OBVIOUS
<1> USE DEF TypeOK, States, SlotStates, RefreshStates, UpdateStates, LockStates,
            entryVars, localVars, callVars, pastVars, Goto, Lock, Unlock, ClearLocals, Locks, Written, WrittenStates, MemoryMatchesRow
<1>1. ASSUME NEW p \in Callers, Begin(p) PROVE MemoryMatchesRow'
  BY <1>1 DEF Begin, BeginSecret, BeginForceRefresh, BeginUpdate, BeginImport, ListRow
<1>2. ASSUME NEW p \in Callers, SecretStep(p) PROVE MemoryMatchesRow'
  <2>1. CASE ServeValid(p) \/ JoinCall(p) \/ LeadRefresh(p)
    BY <2>1 DEF ServeValid, JoinCall, LeadRefresh, Answer, SlotFree, Valid
  <2>2. CASE ExchangeAnswered(p) \/ ExchangeFailed(p)
    BY <2>2 DEF ExchangeAnswered, ExchangeFailed, Usable
  <2>3. CASE BeginCommit(p) \/ DiscardSuperseded(p)
    BY <2>3 DEF BeginCommit, DiscardSuperseded, Superseded
  <2>4. CASE PersistRotation(p) \/ PersistFailed(p)
    BY <2>4 DEF PersistRotation, PersistFailed
  <2>5. CASE PublishRotation(p)
    BY <2>5 DEF PublishRotation
  <2>6. CASE Settle(p)
    BY <2>6 DEF Settle, Answer, Waiters
  <2>7. CASE SettleFailed(p)
    BY <2>7 DEF SettleFailed, Fail, Waiters
  <2>8. CASE SettleSuperseded(p)
    BY <2>8 DEF SettleSuperseded, Waiters
  <2>9. CASE Unmark(p)
    BY <2>9 DEF Unmark, Withdraw
  <2> QED
    BY <1>2, <2>1, <2>2, <2>3, <2>4, <2>5, <2>6, <2>7, <2>8, <2>9 DEF SecretStep
<1>3. ASSUME NEW p \in Callers, UpdateStep(p) PROVE MemoryMatchesRow'
  <2>1. CASE TakeSlot(p)
    BY <2>1 DEF TakeSlot, SlotFree
  <2>2. CASE BeginChange(p)
    BY <2>2 DEF BeginChange
  <2>3. CASE WriteChange(p)
    BY <2>3 DEF WriteChange, Supply
  <2>4. CASE PublishChange(p)
    BY <2>4 DEF PublishChange, Waiters
  <2>5. CASE ChangeFailed(p)
    BY <2>5 DEF ChangeFailed, Waiters
  <2> QED
    BY <1>3, <2>1, <2>2, <2>3, <2>4, <2>5 DEF UpdateStep
<1>4. ASSUME NEW p \in Callers, ImportStep(p) PROVE MemoryMatchesRow'
  <2>1. CASE ImportLocked(p)
    BY <2>1 DEF ImportLocked, Supply
  <2>2. CASE WriteImport(p)
    BY <2>2 DEF WriteImport
  <2>3. CASE ImportFailed(p)
    BY <2>3 DEF ImportFailed
  <2>4. CASE PublishImport(p)
    BY <2>4 DEF PublishImport
  <2> QED
    BY <1>4, <2>1, <2>2, <2>3, <2>4 DEF ImportStep
<1>5. ASSUME NEW p \in Callers, SeedHeld(p) PROVE MemoryMatchesRow'
  BY <1>5 DEF SeedHeld, SeedRow
<1>6. ASSUME NEW p \in Callers, Abandon(p) PROVE MemoryMatchesRow'
  BY <1>6 DEF Abandon, Fail
<1>7. ASSUME NEW p \in Callers, AbandonSlot(p) PROVE MemoryMatchesRow'
  BY <1>7 DEF AbandonSlot, SlotFree
<1>8. ASSUME NEW c \in 1 .. issued, Expire(c) PROVE MemoryMatchesRow'
  BY <1>8 DEF Expire
<1>9. CASE Restart
  BY <1>9 DEF Restart
<1>10. CASE UNCHANGED vars
  BY <1>10 DEF vars
<1> QED
  BY <1>1, <1>2, <1>3, <1>4, <1>5, <1>6, <1>7, <1>8, <1>9, <1>10 DEF Next, Running

-----------------------------------------------------------------------------
(* What holds of every behaviour, imports included *)

\* Type correctness and the four facts above, for every set of goroutines and
\* every bound, imports and restarts included.
THEOREM Invariance == Spec => []IInv
<1>1. Init => IInv
  BY DEF Init, IInv, TypeOK, States, SlotStates, RefreshStates, UpdateStates, LockStates,
         Slots, Locks, Payload, Written, WrittenStates, MemoryMatchesRow
<1>2. IInv /\ [Next]_vars => IInv'
  BY TypeStep, SlotsStep, LocksStep, PayloadStep, WrittenStep, MemoryStep DEF IInv
<1> QED
  BY <1>1, <1>2, PTL DEF Spec

\* Every variable keeps its type.
THEOREM TypeCorrect == Spec => []TypeOK
<1>1. IInv => TypeOK
  BY DEF IInv
<1> QED
  BY <1>1, Invariance, PTL

\* One caller at most holds the refresh slot (Secret, exclusive).
THEOREM OneRefresh == Spec => []SingleFlight
<1>1. IInv => SingleFlight
  BY DEF IInv, Slots, SingleFlight
<1> QED
  BY <1>1, Invariance, PTL

\* The served and the durable credential never diverge (refresh, Update, Import).
THEOREM MemoryFollowsRow == Spec => []MemoryMatchesRow
<1>1. IInv => MemoryMatchesRow
  BY DEF IInv
<1> QED
  BY <1>1, Invariance, PTL

-----------------------------------------------------------------------------
(* What a call may be served, imports included *)

\* Only existing credentials are due; what no call may be served is due; and what
\* an exchange obtained, until its call is settled, is not.
Unexpired ==
    /\ expired \subseteq 1 .. issued
    /\ \A p \in Callers :
        /\ dead[p] \subseteq expired
        /\ pc[p] \in {"commit", "persist", "publish", "settle"}
              => fresh[p] \notin expired /\ fresh[p] <= issued

\* An operator's credential is none that an exchange obtained: it has a new number.
LEMMA SupplyUnexpired ==
    ASSUME IInv, Unexpired, NEW c \in Credential, Supply(c)
    PROVE  /\ issued' = issued + 1
           /\ expired' \subseteq 1 .. issued'
           /\ \A q \in Callers : dead'[q] \subseteq expired'
           /\ \A q \in Callers : pc[q] \in {"commit", "persist", "publish", "settle"}
                                    => fresh[q] \notin expired' /\ fresh[q] <= issued'
<1> USE DEF IInv, TypeOK, Payload, Unexpired
<1>1. issued' = issued + 1 /\ c = issued + 1 /\ issued \in Nat
  BY DEF Supply
<1>2. CASE UNCHANGED <<expired, dead>>
  BY <1>1, <1>2
<1>3. CASE expired' = expired \cup {c}
           /\ dead' = [q \in Callers |-> IF pc[q] = "idle" THEN {} ELSE dead[q] \cup {c}]
  <2>1. expired' \subseteq 1 .. issued'
    BY <1>1, <1>3
  <2>2. \A q \in Callers : dead'[q] \subseteq expired'
    BY <1>3
  <2>3. ASSUME NEW q \in Callers, pc[q] \in {"commit", "persist", "publish", "settle"}
        PROVE  fresh[q] \notin expired' /\ fresh[q] <= issued'
    BY <1>1, <1>3, <2>3
  <2> QED
    BY <1>1, <2>1, <2>2, <2>3
<1> QED
  BY <1>2, <1>3 DEF Supply

\* No step lets a credential that an exchange obtained fall due before its call is
\* settled, nor holds one against a call that is not due.
LEMMA UnexpiredStep ==
    ASSUME IInv, Unexpired, [Next]_vars
    PROVE  Unexpired'
<1> USE DEF IInv, TypeOK, States, SlotStates, RefreshStates, UpdateStates, LockStates,
            entryVars, localVars, callVars, pastVars, Goto, Lock, Unlock, ClearLocals,
            Payload, Unexpired
<1>1. ASSUME NEW p \in Callers, Begin(p) PROVE Unexpired'
  <2>1. CASE BeginSecret(p)
    BY <2>1 DEF BeginSecret
  <2>2. CASE BeginForceRefresh(p)
    BY <2>2 DEF BeginForceRefresh
  <2>3. CASE BeginUpdate(p)
    BY <2>3 DEF BeginUpdate
  <2>4. CASE BeginImport(p)
    BY <2>4 DEF BeginImport
  <2>5. CASE ListRow(p)
    BY <2>5 DEF ListRow
  <2> QED
    BY <1>1, <2>1, <2>2, <2>3, <2>4, <2>5
       DEF Begin
<1>2. ASSUME NEW p \in Callers, SecretStep(p) PROVE Unexpired'
  <2>1. CASE ServeValid(p)
    BY <2>1 DEF ServeValid, Answer, Valid
  <2>2. CASE JoinCall(p)
    BY <2>2 DEF JoinCall, SlotFree, Valid
  <2>3. CASE LeadRefresh(p)
    BY <2>3 DEF LeadRefresh, SlotFree, Valid
  <2>4. CASE ExchangeAnswered(p)
    BY <2>4 DEF ExchangeAnswered, Usable
  <2>5. CASE ExchangeFailed(p)
    BY <2>5 DEF ExchangeFailed
  <2>6. CASE BeginCommit(p)
    BY <2>6 DEF BeginCommit, Superseded
  <2>7. CASE DiscardSuperseded(p)
    BY <2>7 DEF DiscardSuperseded, Superseded
  <2>8. CASE PersistRotation(p)
    BY <2>8 DEF PersistRotation
  <2>9. CASE PersistFailed(p)
    BY <2>9 DEF PersistFailed
  <2>10. CASE PublishRotation(p)
    BY <2>10 DEF PublishRotation
  <2>11. CASE Settle(p)
    BY <2>11 DEF Settle, Answer, Waiters
  <2>12. CASE SettleFailed(p)
    BY <2>12 DEF SettleFailed, Fail, Waiters
  <2>13. CASE SettleSuperseded(p)
    BY <2>13 DEF SettleSuperseded, Waiters
  <2>14. CASE Unmark(p)
    BY <2>14 DEF Unmark, Withdraw
  <2> QED
    BY <1>2, <2>1, <2>2, <2>3, <2>4, <2>5, <2>6, <2>7, <2>8, <2>9, <2>10, <2>11, <2>12, <2>13, <2>14
       DEF SecretStep
<1>3. ASSUME NEW p \in Callers, UpdateStep(p) PROVE Unexpired'
  <2>1. CASE TakeSlot(p)
    BY <2>1 DEF TakeSlot, SlotFree
  <2>2. CASE BeginChange(p)
    BY <2>2 DEF BeginChange
  <2>3. CASE WriteChange(p)
    <3>1. PICK c \in Credential : /\ \/ c = stored[p] /\ UNCHANGED <<issued, expired, dead>>
                                     \/ Supply(c)
                                  /\ fresh' = [fresh EXCEPT ![p] = c]
      BY <2>3 DEF WriteChange
    <3>2. CASE Supply(c)
      BY <2>3, <3>1, <3>2, SupplyUnexpired DEF WriteChange
    <3>3. CASE UNCHANGED <<issued, expired, dead>>
      BY <2>3, <3>1, <3>3 DEF WriteChange
    <3> QED
      BY <3>1, <3>2, <3>3
  <2>4. CASE PublishChange(p)
    BY <2>4 DEF PublishChange, Waiters
  <2>5. CASE ChangeFailed(p)
    BY <2>5 DEF ChangeFailed, Waiters
  <2> QED
    BY <1>3, <2>1, <2>2, <2>3, <2>4, <2>5
       DEF UpdateStep
<1>4. ASSUME NEW p \in Callers, ImportStep(p) PROVE Unexpired'
  <2>1. CASE ImportLocked(p)
    <3>1. PICK c \in Credential :
              /\ (c = current /\ UNCHANGED <<issued, expired, dead>>) \/ Supply(c)
              /\ fresh' = [fresh EXCEPT ![p] = c]
      BY <2>1 DEF ImportLocked
    <3>2. CASE Supply(c)
      BY <2>1, <3>1, <3>2, SupplyUnexpired DEF ImportLocked
    <3>3. CASE UNCHANGED <<issued, expired, dead>>
      BY <2>1, <3>1, <3>3 DEF ImportLocked
    <3> QED
      BY <3>1, <3>2, <3>3
  <2>2. CASE WriteImport(p)
    BY <2>2 DEF WriteImport
  <2>3. CASE ImportFailed(p)
    BY <2>3 DEF ImportFailed
  <2>4. CASE PublishImport(p)
    BY <2>4 DEF PublishImport
  <2> QED
    BY <1>4, <2>1, <2>2, <2>3, <2>4 DEF ImportStep
<1>5. ASSUME NEW p \in Callers, SeedHeld(p) PROVE Unexpired'
  BY <1>5 DEF SeedHeld, SeedRow
<1>6. ASSUME NEW p \in Callers, Abandon(p) PROVE Unexpired'
  BY <1>6 DEF Abandon, Fail
<1>7. ASSUME NEW p \in Callers, AbandonSlot(p) PROVE Unexpired'
  BY <1>7 DEF AbandonSlot, SlotFree
<1>8. ASSUME NEW c \in 1 .. issued, Expire(c) PROVE Unexpired'
  BY <1>8 DEF Expire
<1>9. CASE Restart
  BY <1>9 DEF Restart
<1>10. CASE UNCHANGED vars
  BY <1>10 DEF vars
<1> QED
  BY <1>1, <1>2, <1>3, <1>4, <1>5, <1>6, <1>7, <1>8, <1>9, <1>10
     DEF Next, Running

\* What a call is given is not due by the entry's own check, or was obtained by
\* the exchange the call waited for.
LEMMA ServedUnexpired ==
    ASSUME IInv, Unexpired, [Next]_vars
    PROVE  \A q \in Callers : served[q] = None => served'[q] \notin dead[q]
<1> SUFFICES ASSUME NEW q \in Callers, served[q] = None
             PROVE  served'[q] \notin dead[q]
  OBVIOUS
<1>1. None \notin dead[q]
  BY DEF IInv, TypeOK
<1>2. ASSUME NEW p \in Callers, ServeValid(p) PROVE served'[q] \notin dead[q]
  BY <1>1, <1>2 DEF ServeValid, Answer, Valid, Unexpired
<1>3. ASSUME NEW p \in Callers, Settle(p) PROVE served'[q] \notin dead[q]
  BY <1>1, <1>3 DEF Settle, Answer, Unexpired
<1>4. CASE served'[q] \in {served[q], None}
  BY <1>1, <1>4
<1> USE DEF IInv, TypeOK, entryVars, localVars, callVars, pastVars
<1>5. ASSUME NEW p \in Callers, Begin(p) PROVE served'[q] \in {served[q], None}
  BY <1>5 DEF Begin, BeginSecret, BeginForceRefresh, BeginUpdate, BeginImport, ListRow
<1>6. ASSUME NEW p \in Callers, SecretStep(p), ~ServeValid(p), ~Settle(p)
      PROVE  served'[q] = served[q]
  BY <1>6 DEF SecretStep, JoinCall, LeadRefresh, ExchangeAnswered, ExchangeFailed, BeginCommit,
              DiscardSuperseded, PersistRotation, PersistFailed, PublishRotation,
              SettleFailed, Fail, SettleSuperseded, Unmark
<1>7. ASSUME NEW p \in Callers, UpdateStep(p) \/ ImportStep(p) PROVE served'[q] = served[q]
  BY <1>7 DEF UpdateStep, TakeSlot, BeginChange, WriteChange, PublishChange, ChangeFailed,
              ImportStep, ImportLocked, WriteImport, ImportFailed, PublishImport
<1>8. ASSUME NEW p \in Callers, SeedHeld(p) \/ Abandon(p) \/ AbandonSlot(p)
      PROVE  served'[q] = served[q]
  BY <1>8 DEF SeedHeld, Abandon, Fail, AbandonSlot
<1>9. ASSUME NEW c \in 1 .. issued, Expire(c) PROVE served'[q] = served[q]
  BY <1>9 DEF Expire
<1>10. CASE Restart
  BY <1>1, <1>10 DEF Restart
<1>11. CASE UNCHANGED vars
  BY <1>4, <1>11 DEF vars
<1> QED
  BY <1>2, <1>3, <1>4, <1>5, <1>6, <1>7, <1>8, <1>9, <1>10, <1>11 DEF Next, Running

\* No call returns a credential that was due when it began or that was installed
\* expired while it ran (Secret, ForceRefresh, #250), to its leader or to a waiter.
THEOREM NothingExpiredServed == Spec => NeverServedExpired
<1>1. Init => Unexpired
  BY DEF Init, Unexpired
<1>2. IInv /\ Unexpired /\ [Next]_vars => Unexpired'
  BY UnexpiredStep
<1>3. IInv /\ Unexpired /\ [Next]_vars
        => [\A p \in Callers : served[p] = None => served'[p] \notin dead[p]]_vars
  BY ServedUnexpired
<1>4. Spec => [](IInv /\ Unexpired)
  BY <1>1, <1>2, Invariance, PTL DEF Spec
<1>5. Spec => [][\A p \in Callers : served[p] = None => served'[p] \notin dead[p]]_vars
  BY <1>3, <1>4, PTL DEF Spec
<1> QED
  BY <1>5 DEF NeverServedExpired

-----------------------------------------------------------------------------
(* What holds while nothing calls Import *)

\* Credentials are stored in the order they were issued, and the slot holder's
\* exchange or change is over the row as it is.
Order ==
    /\ durable <= issued /\ current <= durable
    /\ \A r \in rotated : r < durable
    /\ \A p \in Callers :
        /\ pc[p] \notin {"import", "importing", "imported"}
        /\ pc[p] \in {"exchange", "commit", "persist", "change"} => stored[p] = durable
        /\ pc[p] \in {"commit", "persist"} => durable < fresh[p] /\ fresh[p] <= issued

\* Without imports the row changes only under the slot, and a load changes nothing.
LEMMA OrderStep ==
    ASSUME ~ImportCalled, IInv, Order, [Next]_vars
    PROVE  Order'
<1> USE DEF IInv, TypeOK, States, SlotStates, RefreshStates, UpdateStates, LockStates,
            entryVars, localVars, callVars, pastVars, Goto, Lock, Unlock, ClearLocals,
            Slots, Locks, Payload, Written, WrittenStates, MemoryMatchesRow, Order
<1>1. ASSUME NEW p \in Callers, Begin(p) PROVE Order'
  <2>1. CASE BeginSecret(p)
    BY <2>1 DEF BeginSecret
  <2>2. CASE BeginForceRefresh(p)
    BY <2>2 DEF BeginForceRefresh
  <2>3. CASE BeginUpdate(p)
    BY <2>3 DEF BeginUpdate
  <2>4. CASE BeginImport(p)
    BY <2>4 DEF BeginImport
  <2>5. CASE ListRow(p)
    BY <2>5 DEF ListRow
  <2> QED
    BY <1>1, <2>1, <2>2, <2>3, <2>4, <2>5
       DEF Begin
<1>2. ASSUME NEW p \in Callers, SecretStep(p) PROVE Order'
  <2>1. CASE ServeValid(p)
    BY <2>1 DEF ServeValid, Answer, Valid
  <2>2. CASE JoinCall(p)
    BY <2>2 DEF JoinCall, SlotFree, Valid
  <2>3. CASE LeadRefresh(p)
    BY <2>3 DEF LeadRefresh, SlotFree, Valid
  <2>4. CASE ExchangeAnswered(p)
    BY <2>4 DEF ExchangeAnswered, Usable
  <2>5. CASE ExchangeFailed(p)
    BY <2>5 DEF ExchangeFailed
  <2>6. CASE BeginCommit(p)
    BY <2>6 DEF BeginCommit, Superseded
  <2>7. CASE DiscardSuperseded(p)
    BY <2>7 DEF DiscardSuperseded, Superseded
  <2>8. CASE PersistRotation(p)
    BY <2>8 DEF PersistRotation
  <2>9. CASE PersistFailed(p)
    BY <2>9 DEF PersistFailed
  <2>10. CASE PublishRotation(p)
    BY <2>10 DEF PublishRotation
  <2>11. CASE Settle(p)
    BY <2>11 DEF Settle, Answer, Waiters
  <2>12. CASE SettleFailed(p)
    BY <2>12 DEF SettleFailed, Fail, Waiters
  <2>13. CASE SettleSuperseded(p)
    BY <2>13 DEF SettleSuperseded, Waiters
  <2>14. CASE Unmark(p)
    BY <2>14 DEF Unmark, Withdraw
  <2> QED
    BY <1>2, <2>1, <2>2, <2>3, <2>4, <2>5, <2>6, <2>7, <2>8, <2>9, <2>10, <2>11, <2>12, <2>13, <2>14
       DEF SecretStep
<1>3. ASSUME NEW p \in Callers, UpdateStep(p) PROVE Order'
  <2>1. CASE TakeSlot(p)
    BY <2>1 DEF TakeSlot, SlotFree
  <2>2. CASE BeginChange(p)
    BY <2>2 DEF BeginChange
  <2>3. CASE WriteChange(p)
    BY <2>3 DEF WriteChange, Supply
  <2>4. CASE PublishChange(p)
    BY <2>4 DEF PublishChange, Waiters
  <2>5. CASE ChangeFailed(p)
    BY <2>5 DEF ChangeFailed, Waiters
  <2> QED
    BY <1>3, <2>1, <2>2, <2>3, <2>4, <2>5
       DEF UpdateStep
<1>4. ASSUME NEW p \in Callers, ImportStep(p) PROVE Order'
  BY <1>4 DEF ImportStep, ImportLocked, WriteImport, ImportFailed, PublishImport
<1>5. ASSUME NEW p \in Callers, SeedHeld(p) PROVE Order'
  BY <1>5 DEF SeedHeld, SeedRow
<1>6. ASSUME NEW p \in Callers, Abandon(p) PROVE Order'
  BY <1>6 DEF Abandon, Fail
<1>7. ASSUME NEW p \in Callers, AbandonSlot(p) PROVE Order'
  BY <1>7 DEF AbandonSlot, SlotFree
<1>8. ASSUME NEW c \in 1 .. issued, Expire(c) PROVE Order'
  BY <1>8 DEF Expire
<1>9. CASE Restart
  BY <1>9 DEF Restart
<1>10. CASE UNCHANGED vars
  BY <1>10 DEF vars
<1> QED
  BY <1>1, <1>2, <1>3, <1>4, <1>5, <1>6, <1>7, <1>8, <1>9, <1>10
     DEF Next, Running

\* While nothing calls Import, both facts always hold.
LEMMA Ordered ==
    ASSUME ~ImportCalled
    PROVE  Spec => [](IInv /\ Order)
<1>1. Init => Order
  BY DEF Init, Order
<1>2. IInv /\ Order /\ [Next]_vars => Order'
  BY OrderStep
<1> QED
  BY <1>1, <1>2, Invariance, PTL DEF Spec

\* A refresh token a committed exchange used up is never used again (refresh).
THEOREM TokensUsedOnce ==
    ASSUME ~ImportCalled
    PROVE  Spec => []NoTokenReuse
<1>1. IInv /\ Order => NoTokenReuse
  BY DEF IInv, TypeOK, Locks, MemoryMatchesRow, Order, NoTokenReuse
<1> QED
  BY <1>1, Ordered, PTL

\* What a step may do to the credential: the row takes a newer one, or nothing;
\* what a rotation replaces is used up; memory takes what the row holds, or nothing.
RowChange ==
    /\ durable' >= durable
    /\ \/ rotated' = rotated /\ rotations' = rotations
       \/ /\ rotated' = rotated \cup {durable} /\ rotations' = rotations + 1
          /\ durable' > durable
    /\ current' = current \/ current' = durable

\* While nothing calls Import, every step is of that kind.
LEMMA RowChanges ==
    ASSUME ~ImportCalled, IInv, Order, [Next]_vars
    PROVE  RowChange
<1> USE DEF IInv, TypeOK, States, SlotStates, RefreshStates, UpdateStates, LockStates,
            entryVars, localVars, callVars, pastVars, Goto, Payload, Written, WrittenStates,
            Order, RowChange
<1>1. ASSUME NEW p \in Callers, Begin(p) PROVE RowChange
  BY <1>1 DEF Begin, BeginSecret, BeginForceRefresh, BeginUpdate, BeginImport, ListRow
<1>2. ASSUME NEW p \in Callers, SecretStep(p) PROVE RowChange
  <2>1. CASE PersistRotation(p)
    BY <2>1 DEF PersistRotation
  <2>2. CASE PublishRotation(p)
    BY <2>2 DEF PublishRotation
  <2> QED
    BY <1>2, <2>1, <2>2
       DEF SecretStep, ServeValid, JoinCall, LeadRefresh, ExchangeAnswered, ExchangeFailed, BeginCommit,
           DiscardSuperseded, PersistFailed, Settle, SettleFailed, SettleSuperseded, Unmark
<1>3. ASSUME NEW p \in Callers, UpdateStep(p) PROVE RowChange
  BY <1>3 DEF UpdateStep, TakeSlot, BeginChange, WriteChange, PublishChange, ChangeFailed, Supply
<1>4. ASSUME NEW p \in Callers, ImportStep(p) PROVE RowChange
  BY <1>4 DEF ImportStep, ImportLocked, WriteImport, ImportFailed, PublishImport
<1>5. ASSUME NEW p \in Callers, SeedHeld(p) \/ Abandon(p) \/ AbandonSlot(p) PROVE RowChange
  BY <1>5 DEF SeedHeld, SeedRow, Abandon, AbandonSlot
<1>6. ASSUME NEW c \in 1 .. issued, Expire(c) PROVE RowChange
  BY <1>6 DEF Expire
<1>7. CASE Restart
  BY <1>7 DEF Restart
<1>8. CASE UNCHANGED vars
  BY <1>8 DEF vars
<1> QED
  BY <1>1, <1>2, <1>3, <1>4, <1>5, <1>6, <1>7, <1>8
     DEF Next, Running

\* Neither the row nor memory goes back to an older credential (Seed, refresh).
THEOREM NewestCredentialWins ==
    ASSUME ~ImportCalled
    PROVE  Spec => NewestWins
<1>1. IInv /\ Order /\ [Next]_vars => [durable' >= durable /\ current' >= current]_vars
  BY RowChanges DEF RowChange, IInv, TypeOK, Order
<1> QED
  BY <1>1, Ordered, PTL DEF Spec, NewestWins

\* The registry implements the credential register: every commit is an Install
\* of a credential not used up or a Rotate of the one it was exchanged for.
THEOREM RegistryImplementsCell ==
    ASSUME ~ImportCalled
    PROVE  Spec => ImplementsCell
<1>1. Init => Cell!CellInit
  BY DEF Init, Cell!CellInit
<1>2. IInv /\ Order /\ IInv' /\ Order' /\ [Next]_vars => [Cell!CellNext]_(Cell!cellVars)
  <2> SUFFICES ASSUME IInv, Order, IInv', Order', [Next]_vars
               PROVE  Cell!CellNext \/ UNCHANGED <<durable, rotated, rotations>>
    BY DEF Cell!cellVars
  <2>1. RowChange
    BY RowChanges
  <2>2. durable' \in Credential /\ durable' \notin rotated
    BY <2>1 DEF IInv, TypeOK, Order, RowChange
  <2>3. CASE rotated' = rotated /\ rotations' = rotations
    BY <2>2, <2>3 DEF Cell!CellNext, Cell!Install
  <2>4. CASE /\ rotated' = rotated \cup {durable} /\ rotations' = rotations + 1
             /\ durable' > durable
    BY <2>2, <2>4 DEF Cell!CellNext, Cell!Rotate, IInv, TypeOK
  <2> QED
    BY <2>1, <2>3, <2>4 DEF RowChange
<1> QED
  BY <1>1, <1>2, Ordered, PTL DEF Spec, ImplementsCell, Cell!CellSpec

=============================================================================
