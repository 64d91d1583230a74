------------------------------- MODULE Restore -------------------------------
(***************************************************************************)
(* internal/app/app.go: the serving loop, the queue of restore requests    *)
(* and the activation of a candidate (QueueRestore, serveOnce,             *)
(* activateRestore, replaceDatabase, restoreRollback), with the directory  *)
(* that holds the database file, its write-ahead log and the copies made   *)
(* of it (backup.go, store/sqlite/store.go).                               *)
(*                                                                         *)
(* Every file operation may fail, and the process may die between any two. *)
(* A power loss undoes directory changes that were not synced, and takes   *)
(* the last commits of a log that no checkpoint has moved: the store opens *)
(* its file with synchronous(NORMAL), and so a commit is acknowledged      *)
(* before it is on disk.  Handlers that outlive the drain deadline go on   *)
(* with the store they were given.                                         *)
(***************************************************************************)
EXTENDS Naturals, FiniteSets, Sequences, Functions

CONSTANTS Restores,  \* restore requests, each with its candidate
          Changes,   \* control requests that commit one change each
          Original,  \* the database of the first start
          None,
          MaxStarts  \* bound: starts of the process

Databases == Restores \cup {Original}
Content == [from : Databases, changes : SUBSET Changes]

\* A write-ahead log: the file it belongs to, its commits in their order, and how
\* many of them are on disk.
Log == {l \in [file : Nat, commits : Seq(Changes), synced : Nat] : l.synced <= Len(l.commits)}

ASSUME RestoreAssumption ==
    /\ Original \notin Restores /\ None \notin Databases /\ MaxStarts \in Nat
    /\ None \notin Content /\ None \notin Log

VARIABLES
    main,       \* the database file: what it holds on disk, and which file it is (its inode)
    wal,        \* its log, or None
    copy,       \* .pre-restore-*: the content kept, or None
    unsynced,   \* the directories a power loss may leave instead of this one
    stores,     \* open handles: [id, file]
    store,      \* App.store: the id of the one in use
    opened,     \* ids given so far
    pc,         \* where the serving loop stands
    ready, quiescent, serving,
    queue,      \* restoreCh: None, or the request whose candidate waits
    candidate,  \* the request whose candidate is being activated
    request,    \* where each restore request stands
    writer,     \* where each control request stands
    handle,     \* the store each control request was given
    cut,        \* handlers whose connection the drain deadline closed
    lost,       \* history: commits that a power loss took from a log
    told,       \* history: the database in which each acknowledged change was made
    replaced,   \* history: what the database held whenever a file was renamed over it, since the copy was made
    starts

fileVars == <<main, wal, copy, unsynced, replaced, lost>>
storeVars == <<stores, store, opened>>
flagVars == <<ready, quiescent, serving, queue, candidate>>
handlerVars == <<request, writer, handle, cut, told>>
vars == <<fileVars, storeVars, flagVars, handlerVars, pc, starts>>

Fresh(from) == [from |-> from, changes |-> {}]

\* A handle whose files were unlinked writes to none of the directory.
Gone == 0

Init ==
    /\ main = [content |-> Fresh(Original), file |-> 1] /\ wal = None /\ copy = None
    /\ unsynced = {} /\ replaced = {} /\ lost = {}
    /\ stores = {} /\ store = 0 /\ opened = 0
    /\ pc = "top" /\ ready = FALSE /\ quiescent = FALSE /\ serving = FALSE
    /\ queue = None /\ candidate = None
    /\ request = [r \in Restores |-> "idle"]
    /\ writer = [c \in Changes |-> "idle"] /\ handle = [c \in Changes |-> 0]
    /\ cut = {} /\ told = [c \in Changes |-> None]
    /\ starts = 1

Goto(to) == pc' = to

-----------------------------------------------------------------------------
(* The database file *)

Directory == [main |-> main, wal |-> wal]

\* What sqlite.Open finds in a directory: the file, with the log of the same file
\* beside it; the pages of another file's log would be mixed in.
FoundIn(d) ==
    IF d.wal = None THEN d.main.content
    ELSE IF d.wal.file = d.main.file THEN [d.main.content EXCEPT !.changes = @ \cup Range(d.wal.commits)]
    ELSE None

Found == FoundIn(Directory)

\* A log as a power loss leaves it: with the first n commits, on disk from then on.
Truncated(log, n) == [file |-> log.file, commits |-> SubSeq(log.commits, 1, n), synced |-> n]

\* The changes that are on disk.
Sure == main.content.changes \cup (IF wal = None THEN {} ELSE Range(Truncated(wal, wal.synced).commits))

\* App.initialize opens the file, migrates it and compiles its configuration.
Opens ==
    /\ opened' = opened + 1 /\ store' = opened + 1
    /\ stores' = stores \cup {[id |-> opened + 1, file |-> main.file]}
    /\ ready' = TRUE

\* Broken variant of Checkpoint: the log is not moved before it is removed.
NoCheckpoint(s) == UNCHANGED <<main, wal>>

\* A checkpoint syncs the log and moves it into the file.
LogMoved == main' = [main EXCEPT !.content = Found] /\ wal' = None

\* Some handle of the store reaches the file.
Reaches(s) == \E h \in stores : h.id = s /\ h.file = main.file

\* Store.Close: a checkpoint, then the handle closes.
Checkpoint(s) == IF wal # None /\ Reaches(s) THEN LogMoved ELSE UNCHANGED <<main, wal>>

Forget(s) == stores' = {h \in stores : h.id # s}

-----------------------------------------------------------------------------
(* Handlers *)

Admitted == pc = "serve" /\ serving /\ ~quiescent

Arrive(c) ==
    /\ writer[c] = "idle" /\ Admitted
    /\ writer' = [writer EXCEPT ![c] = "running"] /\ handle' = [handle EXCEPT ![c] = store]
    /\ UNCHANGED <<fileVars, storeVars, flagVars, request, cut, told, pc, starts>>

\* The change commits through the handler's own store; its client hears of it
\* unless its connection was closed.
Commit(c) ==
    /\ writer[c] = "running"
    /\ \E h \in stores : h.id = handle[c]
    /\ wal' = IF ~Reaches(handle[c]) THEN wal
              ELSE IF wal = None THEN [file |-> main.file, commits |-> <<c>>, synced |-> 0]
              ELSE [wal EXCEPT !.commits = Append(@, c)]
    /\ writer' = [writer EXCEPT ![c] = "done"]
    /\ told' = IF c \in cut THEN told ELSE [told EXCEPT ![c] = main.content.from]
    /\ UNCHANGED <<main, copy, unsynced, replaced, lost, storeVars, flagVars, request, handle, cut, pc, starts>>

\* A commit of whatever writer of the store that fills the log has it checkpointed.
AutoCheckpoint ==
    /\ wal # None /\ \E h \in stores : h.file = main.file
    /\ LogMoved
    /\ UNCHANGED <<copy, unsynced, replaced, lost, storeVars, flagVars, handlerVars, pc, starts>>

\* Its store was closed, or the change was refused.
Fail(c) ==
    /\ writer[c] = "running"
    /\ writer' = [writer EXCEPT ![c] = "done"]
    /\ UNCHANGED <<fileVars, storeVars, flagVars, request, handle, cut, told, pc, starts>>

\* QueueRestore looks whether the server is serving ...
Upload(r) ==
    /\ request[r] = "idle" /\ Admitted
    /\ request' = [request EXCEPT ![r] = "staging"]
    /\ UNCHANGED <<fileVars, storeVars, flagVars, writer, handle, cut, told, pc, starts>>

\* ... then stages and validates the candidate (backup.StageRestore), or refuses.
Stage(r) ==
    /\ request[r] = "staging"
    /\ \E to \in {"staged", "rejected"} : request' = [request EXCEPT ![r] = to]
    /\ UNCHANGED <<fileVars, storeVars, flagVars, writer, handle, cut, told, pc, starts>>

\* Broken variant of MayClaim: two restores may be under way.
AlwaysClaims == TRUE

MayClaim == ~quiescent

Claim(r) ==
    /\ request[r] = "staged"
    /\ IF MayClaim
       THEN /\ quiescent' = TRUE /\ ready' = FALSE
            /\ request' = [request EXCEPT ![r] = "claimed"]
       ELSE /\ request' = [request EXCEPT ![r] = "rejected"]
            /\ UNCHANGED <<quiescent, ready>>
    /\ UNCHANGED <<fileVars, storeVars, serving, queue, candidate, writer, handle, cut, told, pc, starts>>

Send(r) ==
    /\ request[r] = "claimed"
    /\ IF queue = None
       THEN /\ queue' = r /\ request' = [request EXCEPT ![r] = "accepted"]
            /\ UNCHANGED <<ready, quiescent>>
       ELSE /\ ready' = TRUE /\ quiescent' = FALSE
            /\ request' = [request EXCEPT ![r] = "rejected"]
            /\ UNCHANGED queue
    /\ UNCHANGED <<fileVars, storeVars, serving, candidate, writer, handle, cut, told, pc, starts>>

-----------------------------------------------------------------------------
(* The serving loop *)

\* The process ends, and with it every handler and handle.
Ends ==
    /\ Goto("stopped")
    /\ stores' = {} /\ store' = 0 /\ UNCHANGED opened
    /\ ready' = FALSE /\ quiescent' = FALSE /\ serving' = FALSE /\ queue' = None /\ candidate' = None
    /\ request' = [r \in Restores |-> IF request[r] = "idle" THEN "idle" ELSE "gone"]
    /\ writer' = [c \in Changes |-> IF writer[c] = "running" THEN "gone" ELSE writer[c]]
    /\ UNCHANGED <<handle, cut, told, starts>>

\* A process that ends in order closes its store, whose checkpoint may fail.
Leaves ==
    /\ Ends
    /\ LogMoved \/ UNCHANGED <<main, wal>>
    /\ UNCHANGED <<copy, unsynced, replaced, lost>>

\* Serve initializes unless the last activation left the program ready: a
\* restore claimed meanwhile makes it initialize again.
Initialize ==
    /\ pc = "top" /\ ~ready
    /\ \/ Opens /\ UNCHANGED <<fileVars, quiescent, serving, queue, candidate, handlerVars, pc, starts>>
       \/ Leaves

ServeOnce ==
    /\ pc = "top" /\ ready
    /\ serving' = TRUE /\ Goto("serve")
    /\ UNCHANGED <<fileVars, storeVars, ready, quiescent, queue, candidate, handlerVars, starts>>

Terminate == pc = "serve" /\ Leaves

TakeCandidate ==
    /\ pc = "serve" /\ queue # None
    /\ candidate' = queue /\ queue' = None /\ ready' = FALSE
    /\ Goto("drain")
    /\ UNCHANGED <<fileVars, storeVars, quiescent, serving, handlerVars, starts>>

\* The server shuts down: its handlers have returned, or the deadline has
\* passed and their connections are closed under them.
Drain ==
    /\ pc = "drain"
    /\ cut' = cut \cup {c \in Changes : writer[c] = "running"}
    /\ serving' = FALSE /\ Goto("preserve")
    /\ UNCHANGED <<fileVars, storeVars, ready, quiescent, queue, candidate, request, writer, handle, told, starts>>

\* Broken variant of Preserve: the file is copied without its log.
PreserveFileOnly ==
    /\ pc = "preserve"
    /\ copy' = main.content /\ replaced' = {} /\ Goto("close")
    /\ UNCHANGED <<main, wal, unsynced, lost, storeVars, flagVars, handlerVars, starts>>

\* sqlite.BackupTo, and the directory synced.
Preserve ==
    /\ pc = "preserve"
    /\ \/ copy' = Found /\ replaced' = {} /\ Goto("close")
       \/ Goto("resume") /\ UNCHANGED <<copy, replaced>>
    /\ UNCHANGED <<main, wal, unsynced, lost, storeVars, flagVars, handlerVars, starts>>

CloseLive ==
    /\ pc = "close"
    /\ Forget(store)
    /\ \/ Checkpoint(store) /\ Goto("unlink")
       \/ UNCHANGED <<main, wal>> /\ Goto("resume")
    /\ UNCHANGED <<copy, unsynced, replaced, lost, store, opened, flagVars, handlerVars, starts>>

\* The sidecars are removed; whoever still holds them writes to nothing.
Unlinked == wal' = None /\ stores' = {[h EXCEPT !.file = Gone] : h \in stores}

Unlink ==
    /\ pc \in {"unlink", "unlink back"}
    /\ \/ /\ Unlinked /\ unsynced' = unsynced \cup {Directory}
          /\ Goto(IF pc = "unlink" THEN "rename" ELSE "rename back")
       \/ /\ pc = "unlink" /\ Goto("copy back")
          /\ UNCHANGED <<wal, stores, unsynced>>
    /\ UNCHANGED <<main, copy, replaced, lost, store, opened, flagVars, handlerVars, starts>>

\* A renamed file takes the database's name, beside whatever log is there.
Renamed(content) ==
    /\ main' = [content |-> content, file |-> main.file + 1]
    /\ unsynced' = unsynced \cup {Directory} /\ replaced' = replaced \cup {Found}

Rename ==
    /\ pc = "rename"
    /\ \/ Renamed(Fresh(candidate)) /\ Goto("sync")
       \/ Goto("copy back") /\ UNCHANGED <<main, unsynced, replaced>>
    /\ UNCHANGED <<wal, copy, lost, storeVars, flagVars, handlerVars, starts>>

\* syncDir; the candidate's directory is then discarded.
Sync ==
    /\ pc = "sync"
    /\ \/ unsynced' = {} /\ candidate' = None /\ Goto("reinit")
       \/ Goto("copy back") /\ UNCHANGED <<unsynced, candidate>>
    /\ UNCHANGED <<main, wal, copy, replaced, lost, storeVars, ready, quiescent, serving, queue, handlerVars, starts>>

\* The candidate's own initialization, or the resumed database's, may fail.
Reinit ==
    /\ pc = "reinit"
    /\ \/ Opens /\ Goto("done")
       \/ Goto("copy back") /\ UNCHANGED <<storeVars, ready>>
    /\ UNCHANGED <<fileVars, quiescent, serving, queue, candidate, handlerVars, starts>>

\* restoreRollback copies the preserved file, synced, before it touches the
\* live one; when any of its steps fails the process stops.
CopyBack ==
    /\ pc = "copy back" /\ Goto("unlink back")
    /\ UNCHANGED <<fileVars, storeVars, flagVars, handlerVars, starts>>

RenameBack ==
    /\ pc = "rename back"
    /\ Renamed(copy) /\ Goto("sync back")
    /\ UNCHANGED <<wal, copy, lost, storeVars, flagVars, handlerVars, starts>>

SyncBack ==
    /\ pc = "sync back"
    /\ unsynced' = {}
    /\ Goto(IF candidate = None THEN "reopen" ELSE "resume")
    /\ UNCHANGED <<main, wal, copy, replaced, lost, storeVars, flagVars, handlerVars, starts>>

\* The rollback failed, or the database brought back does not open.
GiveUp ==
    /\ pc \in {"copy back", "unlink back", "rename back", "sync back", "reopen"}
    /\ Ends /\ UNCHANGED fileVars

Reopen ==
    /\ pc = "reopen"
    /\ Opens /\ Goto("resume")
    /\ UNCHANGED <<fileVars, quiescent, serving, queue, candidate, handlerVars, starts>>

\* A failed activation that left a database: the store is closed if it is
\* still open, and the program initialized from the file.
Resume ==
    /\ pc = "resume"
    /\ Forget(store) /\ Checkpoint(store) /\ candidate' = None
    /\ Goto("reinitialize")
    /\ UNCHANGED <<copy, unsynced, replaced, lost, store, opened, ready, quiescent, serving, queue, handlerVars, starts>>

Reinitialize ==
    /\ pc = "reinitialize"
    /\ \/ Opens /\ Goto("done") /\ UNCHANGED <<fileVars, quiescent, serving, queue, candidate, handlerVars, starts>>
       \/ Leaves

\* Broken variant of Done: requests stay refused.
DoneRefusing ==
    /\ pc = "done"
    /\ Goto("top")
    /\ UNCHANGED <<fileVars, storeVars, flagVars, handlerVars, starts>>

Done ==
    /\ pc = "done"
    /\ quiescent' = FALSE /\ Goto("top")
    /\ UNCHANGED <<fileVars, storeVars, ready, serving, queue, candidate, handlerVars, starts>>

\* The process dies: its files stay as they are.
Crash == pc # "stopped" /\ Ends /\ UNCHANGED fileVars

\* Power is lost: the directory is as it was before some change that was not synced,
\* and its log ends at one of the commits that no checkpoint and no earlier loss settled.
LosePower ==
    /\ Ends
    /\ \E d \in unsynced \cup {Directory} :
        /\ main' = d.main
        /\ IF d.wal = None THEN wal' = None
           ELSE \E n \in d.wal.synced .. Len(d.wal.commits) : wal' = Truncated(d.wal, n)
        /\ lost' = lost \cup (FoundIn(d).changes \ Found'.changes)
    /\ unsynced' = {} /\ UNCHANGED <<copy, replaced>>

\* By the next start the directory is on disk as it is.
Start ==
    /\ pc = "stopped" /\ starts < MaxStarts
    /\ starts' = starts + 1 /\ unsynced' = {} /\ Goto("top")
    /\ UNCHANGED <<main, wal, copy, replaced, lost, storeVars, flagVars, handlerVars>>

Activation ==
    \/ Drain \/ Preserve \/ CloseLive \/ Unlink \/ Rename \/ Sync \/ Reinit \/ CopyBack \/ RenameBack
    \/ SyncBack \/ GiveUp \/ Reopen \/ Resume \/ Reinitialize \/ Done

Loop == Initialize \/ ServeOnce \/ TakeCandidate \/ Activation

Next ==
    \/ \E c \in Changes : Arrive(c) \/ Commit(c) \/ Fail(c)
    \/ \E r \in Restores : Upload(r) \/ Stage(r) \/ Claim(r) \/ Send(r)
    \/ Loop \/ AutoCheckpoint \/ Terminate \/ Crash \/ LosePower \/ Start

Spec == Init /\ [][Next]_vars

\* The loop goes on (its waits have deadlines), and so does a handler between
\* its claim and its send.
FairSpec == Spec /\ WF_vars(Loop) /\ \A r \in Restores : WF_vars(Send(r))

-----------------------------------------------------------------------------
(* Properties *)

\* The variables hold what the files and the fields can.  One restore is under
\* way at a time, so none is ever refused as the queue being busy.
TypeOK ==
    /\ main \in [content : Content, file : Nat]
    /\ wal \in Log \cup {None}
    /\ copy \in Content \cup {None} /\ replaced \subseteq Content /\ lost \subseteq Changes
    /\ stores \subseteq [id : Nat, file : Nat] /\ store \in Nat /\ opened \in Nat
    /\ ready \in BOOLEAN /\ quiescent \in BOOLEAN /\ serving \in BOOLEAN
    /\ queue \in Restores \cup {None} /\ candidate \in Restores \cup {None}
    /\ request \in [Restores -> {"idle", "staging", "staged", "claimed", "accepted", "rejected", "gone"}]
    /\ writer \in [Changes -> {"idle", "running", "done", "gone"}] /\ handle \in [Changes -> Nat]
    /\ cut \subseteq Changes /\ told \in [Changes -> Databases \cup {None}]

\* While files are swapped nothing is admitted, the program is not ready and the
\* store in use is closed (activateRestore, quiescenceGate).
SwapIsQuiet ==
    pc \in {"unlink", "rename", "sync", "copy back", "unlink back", "rename back", "sync back"} =>
        quiescent /\ ~ready /\ ~serving /\ queue = None /\ \A h \in stores : h.id # store

\* A change whose client was told of it is in the database it was made in, even
\* when a restore of another failed and its copy was brought back.  Only a power
\* loss takes any, and only from the end of a log no checkpoint has moved.
ToldChangesKept ==
    \A c \in Changes : Found # None /\ told[c] = Found.from => c \in Found.changes \cup lost

\* The directory always holds one whole database: see DatabaseCell.
Cell == INSTANCE DatabaseCell WITH content <- Found, sure <- Sure, kept <- copy
ImplementsDatabase == Cell!CellSpec

\* A restore that was accepted ends, whatever fails: requests are admitted
\* again, or the process has stopped.
RestoreEnds == quiescent ~> ~quiescent
=============================================================================
