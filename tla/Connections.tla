----------------------------- MODULE Connections -----------------------------
(***************************************************************************)
(* internal/control/api: the requests that save, edit and delete provider  *)
(* connections (oauth.go saveOnboardedResult and publishMergedConnection,  *)
(* providers.go handlePutConnection and handleDeleteConnection), over the  *)
(* rows of credentials/store.go and the memory of credentials/registry.go, *)
(* beside the Load that seeds that memory and the refreshes that rotate    *)
(* what it holds.                                                          *)
(*                                                                         *)
(* Each read, write and lock section is a step of its own.  A token of a   *)
(* credential, and the rest of a row (name, order, state, proxy), is known *)
(* by the request that wrote it.  A module that composes this one starts   *)
(* its sign-ins and takes their results; the others start here.            *)
(***************************************************************************)
EXTENDS Naturals, FiniteSets

CONSTANTS Handlers,
          SignIns, Edits, Deletes, Loads, Refreshes, \* what each of them serves
          Named,     \* the tokens a sign-in or an edit carries
          Ids,       \* bound: connection ids, the first ones stored at the start
          Accounts,
          Stored,    \* the account of each connection stored at the start
          Unlocked,  \* connections renewed by a sign-in that does not take connectionMu
          Unique,    \* accounts the store keeps to one row of their node
          None

Tokens == {"access", "refresh"}

ASSUME ConnectionsAssumption ==
    /\ SignIns \cup Edits \cup Deletes \cup Loads \cup Refreshes = Handlers
    /\ SignIns \cap (Edits \cup Deletes \cup Loads) = {} /\ Refreshes \cap (SignIns \cup Edits \cup Deletes \cup Loads) = {}
    /\ Ids \subseteq Nat \ {0} /\ DOMAIN Stored \subseteq Ids /\ Stored \in [DOMAIN Stored -> Accounts]
    /\ Unlocked \subseteq Ids /\ None \notin Handlers /\ None \notin Accounts /\ None \notin Ids
    /\ Named \in [SignIns \cup Edits -> SUBSET Tokens]

Writer == Handlers \cup {None}
Credential == [Tokens -> Writer]
Row == [account : Accounts, credential : Credential, settings : Writer]
Entry == [entry : Nat, credential : Credential]
Read == [id : Ids, credential : Credential]

\* None is neither a row nor an entry.
ASSUME NoneAssumption == None \notin Row /\ None \notin Entry

VARIABLES
    rows,     \* provider_connections: a Row for each id, or None
    entries,  \* Registry.entries: a credential for each id, and the entry that holds it; or None
    made,     \* entries made so far
    slots,    \* the entries whose refresh slot a refresh or an exclusive section holds
    lock,     \* connectionMu
    pc,       \* where each request stands
    work,     \* its locals
    deleted   \* history: ids whose row was deleted

storeVars == <<rows, deleted>>
registryVars == <<entries, made, slots>>
connectionVars == <<storeVars, registryVars, lock, pc, work>>

Work == [
    account : Accounts \cup {None},  \* the account that signed in
    locked  : BOOLEAN,               \* whether the save holds connectionMu
    id      : Ids \cup {None},       \* the connection to renew, edit or delete
    row     : Row \cup {None},       \* the row as read, then as it is to be written
    entry   : Nat,                   \* the registry's entry being updated
    listed  : SUBSET Read]           \* connections still to seed, or being refreshed

NewWork == [account |-> None, locked |-> FALSE, id |-> None, row |-> None, entry |-> 0, listed |-> {}]

NoToken == [t \in Tokens |-> None]

ConnectionsInit ==
    /\ rows = [i \in Ids |-> IF i \in DOMAIN Stored
                             THEN [account |-> Stored[i], credential |-> NoToken, settings |-> None] ELSE None]
    /\ entries = [i \in Ids |-> None] /\ made = 0 /\ slots = {}
    /\ lock = None /\ deleted = {}
    /\ pc = [h \in Handlers |-> "idle"] /\ work = [h \in Handlers |-> NewWork]

Goto(h, to) == pc' = [pc EXCEPT ![h] = to]
Update(h, new) == work' = [work EXCEPT ![h] = new]

\* The request returns; what it locked is unlocked.
End(h, result) ==
    /\ Goto(h, result)
    /\ lock' = IF lock = h THEN None ELSE lock

-----------------------------------------------------------------------------
(* The store *)

Held == {i \in Ids : rows[i] # None}
IdsOf(account) == {i \in Held : rows[i].account = account}

\* The unique index on a node's identities.
Accepts(i, account) == account \in Unique => IdsOf(account) \subseteq {i}

\* PutConnection: an upsert, which does not ask whether the row was there.
Put(i, row) == rows' = [rows EXCEPT ![i] = row]

-----------------------------------------------------------------------------
(* The registry *)

\* Somebody is in a section under the install lock of the entry.
Installing(e) == \E h \in Handlers : work[h].entry = e /\ pc[h] \in {"read", "write", "publish", "rotated"}

Add(i, credential) ==
    /\ made' = made + 1
    /\ entries' = [entries EXCEPT ![i] = [entry |-> made + 1, credential |-> credential]]

\* Broken variant of Seeded: what was read before is installed over a newer credential.
SeededAsRead(i, credential) ==
    IF entries[i] = None THEN Add(i, credential)
    ELSE ~Installing(entries[i].entry) /\ entries' = [entries EXCEPT ![i].credential = credential] /\ UNCHANGED made

\* Registry.Seed: an id it does not hold is added as given; one it holds is read
\* again, under the entry's install lock, and a row gone since changes nothing.
Seeded(i, credential) ==
    IF entries[i] = None THEN Add(i, credential)
    ELSE /\ ~Installing(entries[i].entry)
         /\ entries' = IF rows[i] = None THEN entries ELSE [entries EXCEPT ![i].credential = rows[i].credential]
         /\ UNCHANGED made

-----------------------------------------------------------------------------
(* Saving a connection *)

Lock(h) ==
    /\ pc[h] = "lock" /\ lock = None
    /\ lock' = h
    /\ Goto(h, IF h \in Deletes THEN "delete" ELSE "match")
    /\ UNCHANGED <<storeVars, registryVars, work>>

\* A save that follows the duplicate rule renews the first row of its account;
\* a Reauthenticate renews its own row, for its own account; others are added.
Match(h) ==
    LET w == work[h]
        same == IdsOf(w.account)
    IN
    /\ pc[h] = "match"
    /\ IF w.id # None
       THEN IF rows[w.id] # None /\ (h \in Edits \/ rows[w.id].account = w.account)
            THEN Update(h, [w EXCEPT !.row = rows[w.id]]) /\ Goto(h, "lookup") /\ UNCHANGED lock
            ELSE End(h, "unsaved") /\ UNCHANGED work
       ELSE /\ UNCHANGED lock
            /\ IF w.locked /\ same # {}
               THEN \E first \in same :
                    /\ \A i \in same : first <= i
                    /\ Update(h, [w EXCEPT !.id = first, !.row = rows[first]]) /\ Goto(h, "lookup")
               ELSE Goto(h, "insert") /\ UNCHANGED work
    /\ UNCHANGED <<storeVars, registryVars>>

\* Registry.exclusive: a connection it does not hold is read and seeded first.
Lookup(h) ==
    LET w == work[h] IN
    /\ pc[h] \in {"lookup", "look again"}
    /\ IF entries[w.id] # None
       THEN Update(h, [w EXCEPT !.entry = entries[w.id].entry]) /\ Goto(h, "slot")
       ELSE IF pc[h] = "look again" \/ rows[w.id] = None
       THEN Goto(h, "fall back") /\ UNCHANGED work
       ELSE /\ Update(h, [w EXCEPT !.listed = {[id |-> w.id, credential |-> rows[w.id].credential]}])
            /\ Goto(h, "adopt")
    /\ UNCHANGED <<storeVars, registryVars, lock>>

Adopt(h) ==
    /\ pc[h] = "adopt"
    /\ \E c \in work[h].listed : Seeded(c.id, c.credential)
    /\ Goto(h, "look again")
    /\ UNCHANGED <<storeVars, slots, lock, work>>

\* A refresh in flight is waited out; none starts while the slot is held.
TakeSlot(h) ==
    /\ pc[h] = "slot" /\ work[h].entry \notin slots
    /\ slots' = slots \cup {work[h].entry}
    /\ Goto(h, "read")
    /\ UNCHANGED <<storeVars, entries, made, lock, work>>

FreeSlot(h) == slots' = slots \ {work[h].entry}

\* What a request carries replaces the tokens it names.
Taken(h, old) == [t \in Tokens |-> IF t \in Named[h] THEN h ELSE old[t]]

\* Broken variant of Merged: every edit merges onto the credential it read first.
MergedAsRead(h, row) ==
    IF h \in Edits THEN [account |-> row.account, credential |-> Taken(h, work[h].row.credential), settings |-> h]
    ELSE [account |-> work[h].row.account, credential |-> Taken(h, row.credential), settings |-> work[h].row.settings]

\* A relink fills the tokens it does not name from the row it read when it took
\* connectionMu (relinkedSecret), and is then taken whole; another edit keeps the
\* credential stored now.  A sign-in keeps the settings of the row it matched.
Merged(h, row) ==
    LET old == IF h \in Edits /\ Named[h] # {} THEN work[h].row.credential ELSE row.credential IN
    IF h \in Edits THEN [account |-> row.account, credential |-> Taken(h, old), settings |-> h]
    ELSE [account |-> work[h].row.account, credential |-> Taken(h, old), settings |-> work[h].row.settings]

ReadStored(h) ==
    LET i == work[h].id IN
    /\ pc[h] = "read"
    /\ IF rows[i] = None
       THEN FreeSlot(h) /\ Goto(h, "fall back") /\ UNCHANGED work
       ELSE Update(h, [work[h] EXCEPT !.row = Merged(h, rows[i])]) /\ Goto(h, "write") /\ UNCHANGED slots
    /\ UNCHANGED <<storeVars, entries, made, lock>>

Write(h) ==
    LET w == work[h] IN
    /\ pc[h] = "write"
    /\ \/ Accepts(w.id, w.row.account) /\ Put(w.id, w.row) /\ Goto(h, "publish") /\ UNCHANGED <<slots, lock>>
       \/ FreeSlot(h) /\ End(h, "unsaved") /\ UNCHANGED rows
    /\ UNCHANGED <<deleted, entries, made, work>>

\* The entry that was looked up takes the credential, in the registry or no
\* longer in it.  The pool bindings are then republished, or are not: the row is
\* saved either way.
Publish(h) ==
    LET w == work[h] IN
    /\ pc[h] \in {"publish", "rotated"}
    /\ entries' = IF entries[w.id] # None /\ entries[w.id].entry = w.entry
                  THEN [entries EXCEPT ![w.id].credential = w.row.credential] ELSE entries
    /\ FreeSlot(h) /\ End(h, "saved")
    /\ UNCHANGED <<storeVars, made, work>>

\* updateConnection without the registry: the row is read and put directly.
FallBack(h) ==
    LET i == work[h].id IN
    /\ pc[h] = "fall back"
    /\ IF rows[i] = None THEN End(h, "unsaved") /\ UNCHANGED work
       ELSE Update(h, [work[h] EXCEPT !.row = Merged(h, rows[i])]) /\ Goto(h, "insert") /\ UNCHANGED lock
    /\ UNCHANGED <<storeVars, registryVars>>

\* A new connection takes an id never used before.
Fresh == Ids \ (Held \cup deleted)

Insert(h) ==
    LET w == work[h] IN
    /\ pc[h] = "insert"
    /\ \/ \E i \in IF w.id = None THEN Fresh ELSE {w.id} :
            LET row == IF w.id = None THEN [account |-> w.account, credential |-> Taken(h, NoToken), settings |-> None] ELSE w.row IN
            /\ \A j \in Fresh : w.id = None => i <= j
            /\ Accepts(i, row.account) /\ Put(i, row)
            /\ Update(h, [w EXCEPT !.id = i, !.row = row]) /\ Goto(h, "register")
            /\ UNCHANGED lock
       \/ End(h, "unsaved") /\ UNCHANGED <<rows, work>>
    /\ UNCHANGED <<deleted, registryVars>>

\* Seeding what a Load has seeded meanwhile reads the store, which may fail: the
\* row is written but the save is reported as one that persisted nothing.
Register(h) ==
    LET w == work[h] IN
    /\ pc[h] = "register"
    /\ \/ Seeded(w.id, w.row.credential) /\ End(h, "saved")
       \/ entries[w.id] # None /\ UNCHANGED <<entries, made>> /\ End(h, "unsaved")
    /\ UNCHANGED <<storeVars, slots, work>>

-----------------------------------------------------------------------------
(* The other requests *)

\* A PATCH, a proxy change, a move: each names a connection.
StartEdit(h) ==
    /\ h \in Edits \cup Deletes /\ pc[h] = "idle"
    /\ \E i \in Held : Update(h, [work[h] EXCEPT !.id = i, !.locked = TRUE])
    /\ Goto(h, "lock")
    /\ UNCHANGED <<storeVars, registryVars, lock>>

DeleteRow(h) ==
    LET i == work[h].id IN
    /\ pc[h] = "delete"
    /\ IF rows[i] = None THEN End(h, "unsaved") /\ UNCHANGED storeVars
       ELSE /\ Put(i, None) /\ deleted' = deleted \cup {i}
            /\ End(h, "forget")
    /\ UNCHANGED <<registryVars, work>>

\* Registry.Forget, after the lock is gone.
Forget(h) ==
    /\ pc[h] = "forget"
    /\ entries' = [entries EXCEPT ![work[h].id] = None]
    /\ End(h, "saved")
    /\ UNCHANGED <<storeVars, made, slots, work>>

\* Registry.Load: the rows are listed, then seeded one by one.
List(h) ==
    /\ h \in Loads /\ pc[h] = "idle"
    /\ Update(h, [work[h] EXCEPT !.listed = {[id |-> i, credential |-> rows[i].credential] : i \in Held}])
    /\ Goto(h, "seed")
    /\ UNCHANGED <<storeVars, registryVars, lock>>

SeedNext(h) ==
    /\ pc[h] = "seed"
    /\ \E c \in work[h].listed :
        /\ Seeded(c.id, c.credential)
        /\ Update(h, [work[h] EXCEPT !.listed = @ \ {c}])
    /\ UNCHANGED <<storeVars, slots, lock, pc>>

\* A caller that needs a newer credential takes the slot of an entry the registry
\* holds, and exchanges what is in memory.
StartRefresh(h) ==
    /\ h \in Refreshes /\ pc[h] = "idle"
    /\ \E i \in Ids :
        LET held == entries[i] IN
        /\ held # None /\ held.entry \notin slots
        /\ slots' = slots \cup {held.entry}
        /\ Update(h, [work[h] EXCEPT !.id = i, !.entry = held.entry,
                                      !.listed = {[id |-> i, credential |-> held.credential]}])
    /\ Goto(h, "exchanging")
    /\ UNCHANGED <<storeVars, entries, made, lock>>

\* The entry holds another credential than the one exchanged.
Superseded(h) == \E c \in work[h].listed :
    entries[c.id] # None /\ entries[c.id].entry = work[h].entry /\ entries[c.id].credential # c.credential

Renewed(h, old, renewed) == [t \in Tokens |-> IF t \in renewed THEN h ELSE old[t]]

\* RotateSecret writes what the exchange returned, with the refresh token that was
\* exchanged when it returned none.  A refresh that was superseded, that failed, or
\* whose row is gone writes nothing.
Rotate(h) ==
    LET i == work[h].id IN
    /\ pc[h] = "exchanging"
    /\ \/ /\ ~Superseded(h) /\ rows[i] # None
          /\ \E c \in work[h].listed, renewed \in {Tokens, {"access"}} :
                LET row == [account |-> rows[i].account, credential |-> Renewed(h, c.credential, renewed),
                            settings |-> rows[i].settings]
                IN Put(i, row) /\ Update(h, [work[h] EXCEPT !.row = row])
          /\ Goto(h, "rotated") /\ UNCHANGED <<slots, lock>>
       \/ FreeSlot(h) /\ End(h, "unsaved") /\ UNCHANGED <<rows, work>>
    /\ UNCHANGED <<deleted, entries, made>>

-----------------------------------------------------------------------------
(* Properties *)

ConnectionsTypeOK ==
    /\ rows \in [Ids -> Row \cup {None}]
    /\ entries \in [Ids -> Entry \cup {None}] /\ made \in Nat /\ slots \subseteq Nat
    /\ lock \in Handlers \cup {None} /\ deleted \subseteq Ids
    /\ work \in [Handlers -> Work]

\* Who may bring a token: a request under way that carries it, or a refresh.
Brings(t) ==
    {h \in SignIns \cup Edits : t \in Named[h] /\ pc[h] # "saved"} \cup {h \in Refreshes : pc[h] # "saved"}

\* A relink writes a token it does not name.
Relinks(i, t) == \E h \in Edits :
    Named[h] # {} /\ t \notin Named[h] /\ work[h].id = i /\ pc[h] = "write" /\ pc'[h] # "write"

\* A save, or a refresh, changes a token or the settings only to what its own request
\* brought: none writes back what it read before another's write.  Only a relink does,
\* and only over what a refresh brought (EditsMergeStored).
NothingReverted ==
    [][\A i \in Ids \ Unlocked : rows[i] # None /\ rows'[i] # None =>
        /\ rows'[i].settings \in {rows[i].settings} \cup {h \in Edits : pc[h] # "saved"}
        /\ \A t \in Tokens :
            \/ rows'[i].credential[t] \in {rows[i].credential[t]} \cup Brings(t)
            \/ rows[i].credential[t] \in Refreshes /\ Relinks(i, t)]_connectionVars

\* "An edit merges onto the credential as stored when it is written, never an earlier
\* read a refresh may since have rotated" (oauth.go:1686): the tokens it does not name
\* stay as they are stored.  A relink breaks it.
EditsMergeStored ==
    [][\A h \in Edits, i \in Ids \ Unlocked : pc[h] = "write" /\ pc'[h] = "publish" /\ work[h].id = i =>
        \A t \in Tokens \ Named[h] : rows'[i].credential[t] = rows[i].credential[t]]_connectionVars

\* Once a save is answered, what the registry serves is what is stored, whatever
\* a Load listed before; until then the request is between its two writes.
SavedIsServed == \A i \in Ids : rows[i] # None /\ i \notin Unlocked =>
    \/ \E h \in Handlers : work[h].id = i /\ pc[h] \in {"publish", "register", "rotated"}
    \/ /\ entries[i] # None => entries[i].credential = rows[i].credential
       /\ \A h \in SignIns \cup Edits : pc[h] = "saved" /\ work[h].id = i => entries[i] # None
=============================================================================
