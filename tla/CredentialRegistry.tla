------------------------- MODULE CredentialRegistry -------------------------
(***************************************************************************)
(* internal/credentials/registry.go: the memory-first credential state of  *)
(* one connection, shared by every goroutine that needs its credential.    *)
(*                                                                         *)
(* The entry has two locks.  `mu' guards the fields and is held only for   *)
(* short sections, so each such section is one action here.  `installMu'   *)
(* is held across a durable write, so it is the variable installLock and   *)
(* the sections under it are several actions.  The refresh slot            *)
(* (entry.inflight) is held across the provider's token exchange.          *)
(*                                                                         *)
(* A credential (access token, refresh token, expiry) is a number; the     *)
(* ones issued or supplied so far are 1 .. issued.  Connections are        *)
(* independent of each other, so one is modelled: a stored, rotating       *)
(* connection the registry holds.  Callers are the goroutines.             *)
(***************************************************************************)
EXTENDS Naturals

CONSTANTS Callers,         \* goroutines using the registry
          ImportCalled,    \* whether some goroutine calls Import (none in src does)
          MaxCredentials,  \* bound: credentials issued or supplied in a run
          MaxGeneration    \* bound: installs that move the generation

ASSUME RegistryAssumption ==
    /\ MaxCredentials \in Nat \ {0}
    /\ MaxGeneration \in Nat \ {0}
    /\ ImportCalled \in BOOLEAN
    /\ 0 \notin Callers

None == 0
Credential == 1 .. MaxCredentials

VARIABLES
    durable,      \* the sealed credential in the connection's row
    current,      \* entry.current
    generation,   \* entry.generation
    rejected,     \* entry.rejected: a refused access token, or None
    inflight,     \* entry.inflight: the caller whose call holds the slot, or None
    installLock,  \* entry.installMu: its holder, or None
    pc,           \* where each caller stands
    stored,       \* the credential a caller read before its lock or exchange
    gen,          \* the generation a refresh captured before its exchange
    fresh,        \* the credential a caller is about to store and publish
    refused,      \* ForceRefresh's rejectedAccessToken, or None in other calls
    served,       \* the credential a caller's last call returned, or None
    issued,       \* history: how many credentials exist
    expired,      \* history: credentials within the refresh lead of expiry
    rotated,      \* history: credentials a committed refresh used up
    rotations,    \* history: how many refreshes were committed
    dead          \* history: credentials a call has no excuse to be served

entryVars == <<current, generation, rejected>>
localVars == <<stored, gen, fresh>>
callVars  == <<refused, served, dead>>
pastVars  == <<issued, expired, rotated, rotations>>
vars == <<durable, entryVars, inflight, installLock, pc, localVars, callVars, pastVars>>

-----------------------------------------------------------------------------
(* States of a caller *)

\* refresh holds the slot from Secret's check until its call is settled.
RefreshStates == {"exchange", "commit", "persist", "publish",
                  "settle", "failed", "superseded"}
\* exclusive (Update, ReviseSecret) holds the slot from "hold" on.
UpdateStates == {"hold", "change", "replace"}
SlotStates == RefreshStates \cup UpdateStates
LockStates == {"persist", "publish", "change", "replace", "importing", "imported"}
\* The row is written and memory is not yet: only the lock holder is here.
WrittenStates == {"publish", "replace", "imported"}

States == {"idle", "check", "waiting", "unmark", "slot", "import", "seed"}
          \cup SlotStates \cup LockStates

\* Broken variant of Waiters: closing a call wakes nobody.
NobodyWoken == {}

Waiters == {q \in Callers : pc[q] = "waiting"}

\* validLocked: the current access token is neither due nor refused.
Valid(c) == c \notin expired /\ rejected # c

\* Broken variants of the definitions below; no action uses them.
SlotIgnored == TRUE
ListedRow(p) == stored[p]

\* The refresh slot is free.
SlotFree == inflight = None

\* superseded: an install moved the generation after p's exchange started.
Superseded(p) == generation # gen[p]

\* refresh refuses an answer without an access token or cookie.
Usable(c) == c # None

\* Seed installs the row as read again under the install lock.
SeedRow(p) == durable

\* A failed ForceRefresh withdraws its own marker only.
Withdraw(p) == IF rejected = refused[p] THEN None ELSE rejected

Init ==
    /\ durable = 1 /\ current = 1 /\ generation = 1
    /\ rejected = None /\ inflight = None /\ installLock = None
    /\ pc = [q \in Callers |-> "idle"]
    /\ stored = [q \in Callers |-> None]
    /\ gen = [q \in Callers |-> 0]
    /\ fresh = [q \in Callers |-> None]
    /\ refused = [q \in Callers |-> None]
    /\ served = [q \in Callers |-> None]
    /\ issued = 1 /\ expired = {} /\ rotated = {} /\ rotations = 0
    /\ dead = [q \in Callers |-> {}]

Goto(p, to) == pc' = [pc EXCEPT ![p] = to]
Lock(p) == installLock = None /\ installLock' = p
Unlock == installLock' = None

\* The locals of p's refresh, update, import or seed end with it.
ClearLocals(p) ==
    /\ stored' = [stored EXCEPT ![p] = None]
    /\ gen' = [gen EXCEPT ![p] = 0]
    /\ fresh' = [fresh EXCEPT ![p] = None]

\* The callers in Q return credential c.
Answer(Q, c) ==
    /\ pc' = [q \in Callers |-> IF q \in Q THEN "idle" ELSE pc[q]]
    /\ served' = [q \in Callers |-> IF q \in Q THEN c ELSE served[q]]
    /\ refused' = [q \in Callers |-> IF q \in Q THEN None ELSE refused[q]]
    /\ dead' = [q \in Callers |-> IF q \in Q THEN {} ELSE dead[q]]

\* Secret fails for the callers in Q; ForceRefresh still withdraws its marker.
Fail(Q) ==
    /\ pc' = [q \in Callers |-> IF q \notin Q THEN pc[q]
                                ELSE IF refused[q] = None THEN "idle" ELSE "unmark"]
    /\ dead' = [q \in Callers |-> IF q \in Q THEN {} ELSE dead[q]]
    /\ UNCHANGED <<served, refused>>

\* An operator supplies a credential nobody has seen, possibly one already due:
\* a call under way may not be served that one unchecked.
Supply(c) ==
    /\ c = issued + 1 /\ c \in Credential
    /\ issued' = c
    /\ \/ UNCHANGED <<expired, dead>>
       \/ /\ expired' = expired \cup {c}
          /\ dead' = [q \in Callers |-> IF pc[q] = "idle" THEN {} ELSE dead[q] \cup {c}]

-----------------------------------------------------------------------------
(* Secret and ForceRefresh *)

\* Secret, or ForceRefresh by a caller its provider refused the token it was
\* served: if that is still the current token it is marked.
BeginSecret(p) ==
    /\ pc[p] = "idle"
    /\ Goto(p, "check")
    /\ served' = [served EXCEPT ![p] = None]
    /\ dead' = [dead EXCEPT ![p] = expired]
    /\ UNCHANGED <<durable, entryVars, inflight, installLock, localVars, refused, pastVars>>

BeginForceRefresh(p) ==
    /\ pc[p] = "idle" /\ served[p] # None
    /\ Goto(p, "check")
    /\ refused' = [refused EXCEPT ![p] = served[p]]
    /\ rejected' = IF current = served[p] THEN served[p] ELSE rejected
    /\ served' = [served EXCEPT ![p] = None]
    /\ dead' = [dead EXCEPT ![p] = expired]
    /\ UNCHANGED <<durable, current, generation, inflight, installLock, localVars, pastVars>>

\* The loop of Secret: serve a valid credential, ...
ServeValid(p) ==
    /\ pc[p] = "check" /\ Valid(current)
    /\ Answer({p}, current)
    /\ UNCHANGED <<durable, entryVars, inflight, installLock, localVars, pastVars>>

\* ... or wait for the call that holds the slot, ...
JoinCall(p) ==
    /\ pc[p] = "check" /\ ~Valid(current) /\ ~SlotFree
    /\ Goto(p, "waiting")
    /\ UNCHANGED <<durable, entryVars, inflight, installLock, localVars, callVars, pastVars>>

\* ... or take the slot and start the exchange with what is held now.
LeadRefresh(p) ==
    /\ pc[p] = "check" /\ ~Valid(current) /\ SlotFree
    /\ inflight' = p
    /\ stored' = [stored EXCEPT ![p] = current]
    /\ gen' = [gen EXCEPT ![p] = generation]
    /\ Goto(p, "exchange")
    /\ UNCHANGED <<durable, entryVars, installLock, fresh, callVars, pastVars>>

\* The provider issues a new credential for the stored one.
ExchangeAnswered(p) ==
    /\ pc[p] = "exchange" /\ issued < MaxCredentials
    /\ issued' = issued + 1
    /\ \E c \in {None, issued + 1} : /\ Usable(c)
                                   /\ fresh' = [fresh EXCEPT ![p] = c]
    /\ Goto(p, "commit")
    /\ UNCHANGED <<durable, entryVars, inflight, installLock, stored, gen, callVars, expired, rotated, rotations>>

\* It refuses, times out, answers nothing usable, or the caller went away.
ExchangeFailed(p) ==
    /\ pc[p] = "exchange"
    /\ Goto(p, "failed")
    /\ UNCHANGED <<durable, entryVars, inflight, installLock, localVars, callVars, pastVars>>

\* refresh under installMu: go on to the durable write only if no install moved
\* the generation since the exchange started.
BeginCommit(p) ==
    /\ pc[p] = "commit" /\ ~Superseded(p)
    /\ Lock(p)
    /\ Goto(p, "persist")
    /\ UNCHANGED <<durable, entryVars, inflight, localVars, callVars, pastVars>>

DiscardSuperseded(p) ==
    /\ pc[p] = "commit" /\ Superseded(p)
    /\ installLock = None
    /\ Goto(p, "superseded")
    /\ UNCHANGED <<durable, entryVars, inflight, installLock, localVars, callVars, pastVars>>

\* Store.RotateSecret commits ...
PersistRotation(p) ==
    /\ pc[p] = "persist"
    /\ durable' = fresh[p]
    /\ rotated' = rotated \cup {stored[p]} /\ rotations' = rotations + 1
    /\ Goto(p, "publish")
    /\ UNCHANGED <<entryVars, inflight, installLock, localVars, callVars, issued, expired>>

\* ... or fails: nothing is published.
PersistFailed(p) ==
    /\ pc[p] = "persist"
    /\ Unlock
    /\ Goto(p, "failed")
    /\ UNCHANGED <<durable, entryVars, inflight, localVars, callVars, pastVars>>

PublishRotation(p) ==
    /\ pc[p] = "publish"
    /\ current' = fresh[p]
    /\ rejected' = None
    /\ Unlock
    /\ Goto(p, "settle")
    /\ UNCHANGED <<durable, generation, inflight, localVars, callVars, pastVars>>

\* Broken variant of SettleSuperseded: the installed credential served unchecked.
SettleUnchecked(p) ==
    /\ pc[p] = "superseded"
    /\ inflight' = None
    /\ Answer({p} \cup Waiters, current)
    /\ ClearLocals(p)
    /\ UNCHANGED <<durable, entryVars, installLock, pastVars>>

\* Secret gives up the slot and closes the call: its waiters read the call's
\* result, or check the credential again when it carries none.
Settle(p) ==
    /\ pc[p] = "settle"
    /\ inflight' = None
    /\ Answer({p} \cup Waiters, fresh[p])
    /\ ClearLocals(p)
    /\ UNCHANGED <<durable, entryVars, installLock, pastVars>>

SettleFailed(p) ==
    /\ pc[p] = "failed"
    /\ inflight' = None
    /\ Fail({p} \cup Waiters)
    /\ ClearLocals(p)
    /\ UNCHANGED <<durable, entryVars, installLock, pastVars>>

SettleSuperseded(p) ==
    /\ pc[p] = "superseded"
    /\ inflight' = None
    /\ pc' = [q \in Callers |-> IF q \in {p} \cup Waiters THEN "check" ELSE pc[q]]
    /\ ClearLocals(p)
    /\ UNCHANGED <<durable, entryVars, installLock, callVars, pastVars>>

\* ForceRefresh after a failed Secret.
Unmark(p) ==
    /\ pc[p] = "unmark"
    /\ rejected' = Withdraw(p)
    /\ refused' = [refused EXCEPT ![p] = None]
    /\ Goto(p, "idle")
    /\ UNCHANGED <<durable, current, generation, inflight, installLock, localVars, served, dead, pastVars>>

\* A waiter's own context ends.
Abandon(p) ==
    /\ pc[p] = "waiting"
    /\ Fail({p})
    /\ UNCHANGED <<durable, entryVars, inflight, installLock, localVars, pastVars>>

-----------------------------------------------------------------------------
(* Update and ReviseSecret (exclusive) *)

BeginUpdate(p) ==
    /\ pc[p] = "idle"
    /\ Goto(p, "slot")
    /\ served' = [served EXCEPT ![p] = None]
    /\ UNCHANGED <<durable, entryVars, inflight, installLock, localVars, refused, dead, pastVars>>

\* Wait out a call in flight, then hold the slot so that none starts.
TakeSlot(p) ==
    /\ pc[p] = "slot" /\ SlotFree
    /\ inflight' = p
    /\ Goto(p, "hold")
    /\ UNCHANGED <<durable, entryVars, installLock, localVars, callVars, pastVars>>

AbandonSlot(p) ==
    /\ pc[p] = "slot" /\ ~SlotFree
    /\ Goto(p, "idle")
    /\ UNCHANGED <<durable, entryVars, inflight, installLock, localVars, callVars, pastVars>>

\* Under the install lock the row is read again ...
BeginChange(p) ==
    /\ pc[p] = "hold"
    /\ Lock(p)
    /\ stored' = [stored EXCEPT ![p] = durable]
    /\ Goto(p, "change")
    /\ UNCHANGED <<durable, entryVars, inflight, gen, fresh, callVars, pastVars>>

\* ... and what change makes of it is written: the same credential with other
\* metadata, or a new one.
WriteChange(p) ==
    /\ pc[p] = "change" /\ generation < MaxGeneration
    /\ \E c \in Credential :
        /\ \/ c = stored[p] /\ UNCHANGED <<issued, expired, dead>>
           \/ Supply(c)
        /\ durable' = c
        /\ fresh' = [fresh EXCEPT ![p] = c]
    /\ Goto(p, "replace")
    /\ UNCHANGED <<entryVars, inflight, installLock, stored, gen, refused, served, rotated, rotations>>

\* Published with the slot released in one section; waiters check again.
PublishChange(p) ==
    /\ pc[p] = "replace"
    /\ current' = fresh[p]
    /\ rejected' = None
    /\ generation' = generation + 1
    /\ inflight' = None
    /\ Unlock
    /\ pc' = [q \in Callers |-> IF q = p THEN "idle"
                                ELSE IF q \in Waiters THEN "check" ELSE pc[q]]
    /\ ClearLocals(p)
    /\ UNCHANGED <<durable, callVars, pastVars>>

\* The read, change or write failed: the slot is released, nothing changed.
ChangeFailed(p) ==
    /\ pc[p] = "change"
    /\ inflight' = None
    /\ Unlock
    /\ pc' = [q \in Callers |-> IF q = p THEN "idle"
                                ELSE IF q \in Waiters THEN "check" ELSE pc[q]]
    /\ ClearLocals(p)
    /\ UNCHANGED <<durable, entryVars, callVars, pastVars>>

-----------------------------------------------------------------------------
(* Import *)

BeginImport(p) ==
    /\ ImportCalled
    /\ pc[p] = "idle"
    /\ Goto(p, "import")
    /\ served' = [served EXCEPT ![p] = None]
    /\ UNCHANGED <<durable, entryVars, inflight, installLock, localVars, refused, dead, pastVars>>

\* Broken variant of WriteImport: the lock is dropped before the publication.
WriteImportUnlocked(p) ==
    /\ pc[p] = "importing"
    /\ durable' = fresh[p]
    /\ Unlock
    /\ Goto(p, "imported")
    /\ UNCHANGED <<entryVars, inflight, localVars, callVars, pastVars>>

\* Importing a different credential moves the generation before the write.
ImportLocked(p) ==
    /\ pc[p] = "import"
    /\ Lock(p)
    /\ \E c \in Credential :
        /\ \/ c = current /\ UNCHANGED <<issued, expired, dead, generation>>
           \/ /\ generation < MaxGeneration
              /\ generation' = generation + 1
              /\ Supply(c)
        /\ fresh' = [fresh EXCEPT ![p] = c]
    /\ Goto(p, "importing")
    /\ UNCHANGED <<durable, current, rejected, inflight, stored, gen, refused, served, rotated, rotations>>

WriteImport(p) ==
    /\ pc[p] = "importing"
    /\ durable' = fresh[p]
    /\ Goto(p, "imported")
    /\ UNCHANGED <<entryVars, inflight, installLock, localVars, callVars, pastVars>>

ImportFailed(p) ==
    /\ pc[p] = "importing"
    /\ Unlock
    /\ Goto(p, "idle")
    /\ ClearLocals(p)
    /\ UNCHANGED <<durable, entryVars, inflight, callVars, pastVars>>

PublishImport(p) ==
    /\ pc[p] = "imported"
    /\ current' = fresh[p]
    /\ rejected' = None
    /\ Unlock
    /\ Goto(p, "idle")
    /\ ClearLocals(p)
    /\ UNCHANGED <<durable, generation, inflight, callVars, pastVars>>

-----------------------------------------------------------------------------
(* Load and Seed *)

\* ListConnections reads the row without any lock.
ListRow(p) ==
    /\ pc[p] = "idle"
    /\ stored' = [stored EXCEPT ![p] = durable]
    /\ served' = [served EXCEPT ![p] = None]
    /\ Goto(p, "seed")
    /\ UNCHANGED <<durable, entryVars, inflight, installLock, gen, fresh, refused, dead, pastVars>>

\* Seed reads it again under the install lock and installs a changed credential.
SeedHeld(p) ==
    /\ pc[p] = "seed" /\ installLock = None
    /\ IF current = SeedRow(p)
       THEN UNCHANGED entryVars
       ELSE /\ generation < MaxGeneration
            /\ current' = SeedRow(p)
            /\ rejected' = None
            /\ generation' = generation + 1
    /\ Goto(p, "idle")
    /\ ClearLocals(p)
    /\ UNCHANGED <<durable, inflight, installLock, callVars, pastVars>>

-----------------------------------------------------------------------------
(* Time and restarts *)

\* A token outlives the commit of the refresh that obtained it (at most 30 s).
Expire(c) ==
    /\ c \notin expired
    /\ \A p \in Callers : pc[p] \in RefreshStates => fresh[p] # c
    /\ expired' = expired \cup {c}
    /\ UNCHANGED <<durable, entryVars, inflight, installLock, pc, localVars, callVars, issued, rotated, rotations>>

\* The process dies; startup loads the row into a new registry before serving.
Restart ==
    /\ current' = durable /\ generation' = 1 /\ rejected' = None
    /\ inflight' = None /\ installLock' = None
    /\ pc' = [q \in Callers |-> "idle"]
    /\ stored' = [q \in Callers |-> None]
    /\ gen' = [q \in Callers |-> 0]
    /\ fresh' = [q \in Callers |-> None]
    /\ refused' = [q \in Callers |-> None]
    /\ served' = [q \in Callers |-> None]
    /\ dead' = [q \in Callers |-> {}]
    /\ UNCHANGED <<durable, pastVars>>

-----------------------------------------------------------------------------

SecretStep(p) ==
    \/ ServeValid(p) \/ JoinCall(p) \/ LeadRefresh(p)
    \/ ExchangeAnswered(p) \/ ExchangeFailed(p)
    \/ BeginCommit(p) \/ DiscardSuperseded(p)
    \/ PersistRotation(p) \/ PersistFailed(p) \/ PublishRotation(p)
    \/ Settle(p) \/ SettleFailed(p) \/ SettleSuperseded(p) \/ Unmark(p)

UpdateStep(p) ==
    \/ TakeSlot(p) \/ BeginChange(p)
    \/ WriteChange(p) \/ PublishChange(p) \/ ChangeFailed(p)

ImportStep(p) ==
    ImportLocked(p) \/ WriteImport(p) \/ ImportFailed(p) \/ PublishImport(p)

Begin(p) ==
    \/ BeginSecret(p) \/ BeginForceRefresh(p)
    \/ BeginUpdate(p) \/ BeginImport(p) \/ ListRow(p)

\* A step of a running process.
Running ==
    \/ \E p \in Callers :
        \/ Begin(p) \/ SecretStep(p) \/ UpdateStep(p) \/ ImportStep(p) \/ SeedHeld(p)
        \/ Abandon(p) \/ AbandonSlot(p)
    \/ \E c \in 1 .. issued : Expire(c)

Next == Running \/ Restart

Spec == Init /\ [][Next]_vars

\* A goroutine inside a call goes on (exchanges and database writes have
\* deadlines); sync.Mutex hands the install lock to a starving goroutine.
Fairness ==
    \A p \in Callers : /\ WF_vars(SecretStep(p) \/ UpdateStep(p) \/ ImportStep(p) \/ SeedHeld(p))
                       /\ SF_vars(BeginCommit(p) \/ DiscardSuperseded(p) \/ BeginChange(p))

\* A restart ends every call, so liveness is asked of a process that stays up.
FairSpec == Init /\ [][Running]_vars /\ Fairness

-----------------------------------------------------------------------------
(* Properties *)

\* The variables hold what the Go fields can: whatever refreshes, updates and
\* imports do, neither the row nor memory is ever left without a credential
\* (refresh's check of the payload).
TypeOK ==
    /\ durable \in Credential /\ current \in Credential
    /\ generation \in 1 .. MaxGeneration
    /\ rejected \in Credential \cup {None}
    /\ inflight \in Callers \cup {None} /\ installLock \in Callers \cup {None}
    /\ pc \in [Callers -> States]
    /\ stored \in [Callers -> Credential \cup {None}]
    /\ gen \in [Callers -> 0 .. MaxGeneration]
    /\ fresh \in [Callers -> Credential \cup {None}]
    /\ refused \in [Callers -> Credential \cup {None}]
    /\ served \in [Callers -> Credential \cup {None}]
    /\ issued \in Credential /\ expired \subseteq Credential /\ rotated \subseteq Credential
    /\ rotations \in Nat
    /\ dead \in [Callers -> SUBSET Credential]

\* "Callers wait for one refresh rather than stampeding" (SPEC 19): one caller
\* at most is between taking the slot and giving it up, so no refresh token is
\* sent in two exchanges at a time or while an update merges onto it.
SingleFlight ==
    \A p, q \in Callers : pc[p] \in SlotStates /\ pc[q] \in SlotStates => p = q

\* The served and the durable credential never diverge (refresh, Import): they
\* are equal unless an install is between its committed write and publishing
\* that very credential under the install lock.
MemoryMatchesRow ==
    \/ current = durable
    \/ /\ installLock # None
       /\ pc[installLock] \in WrittenStates
       /\ durable = fresh[installLock]

\* A credential used up by a committed refresh is never stored, held, or sent
\* to the provider again, whatever loads, updates and restarts run beside it
\* ("the spent refresh token is never used again", SPEC 19).
NoTokenReuse ==
    /\ durable \notin rotated
    /\ installLock = None => current \notin rotated
    /\ \A p \in Callers : pc[p] = "exchange" => stored[p] \notin rotated

\* Neither memory nor the row ever goes back to an older credential, restarts
\* included: no stale list, exchange or update wins over a newer credential.
NewestWins == [][durable' >= durable /\ current' >= current]_vars

\* Secret never returns a credential already due when the call began, nor one
\* installed expired while it ran (#250), to the refresher or to any waiter.
NeverServedExpired ==
    [][\A p \in Callers : served[p] = None => served'[p] \notin dead[p]]_vars

\* The registry implements the credential register.
Cell == INSTANCE CredentialCell WITH value <- durable, retired <- rotated
ImplementsCell == Cell!CellSpec

\* Every call of Secret and ForceRefresh returns, whatever failing exchanges and
\* superseded refreshes it meets, unless updates never stop: a waiter of an
\* update checks again and may then find the next update in the slot.
UpdatesEnd == <>[](\A q \in Callers : pc[q] \notin UpdateStates \cup {"slot"})
CallsReturn ==
    UpdatesEnd => \A p \in Callers : pc[p] \in {"check", "waiting"} ~> pc[p] = "idle"
=============================================================================
