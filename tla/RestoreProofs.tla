----------------------------- MODULE RestoreProofs -----------------------------
(***************************************************************************)
(* Proofs about Restore, for any restores and any control requests: that   *)
(* files are swapped behind closed doors, and that no change whose client  *)
(* was told of it is lost.                                                 *)
(***************************************************************************)
EXTENDS Restore, TLAPS

-----------------------------------------------------------------------------
(* The inductive invariant *)

Directories == [main : [content : Content, file : Nat], wal : Log \cup {None}]

\* Places of the serving loop: a candidate is being put in place, one is under way at
\* all, the program is not ready, the store in use is closed, the copy is the one made
\* for this candidate, files are swapped, and the directory is on disk as it is.
Placing == {"drain", "preserve", "close", "unlink", "rename", "sync"}
Under == Placing \cup {"reinit", "copy back", "unlink back", "rename back", "sync back", "reopen", "resume",
                       "reinitialize", "done"}
Unready == Placing \cup {"stopped", "reinit", "copy back", "unlink back", "rename back", "sync back", "reopen"}
Closed == Unready \ {"drain", "preserve", "close"}
Preserved == {"close", "unlink", "rename", "sync", "reinit", "copy back", "unlink back", "rename back", "sync back"}
Swapping == Preserved \ {"close"}
Synced == {"top", "serve", "drain", "preserve", "close", "unlink", "reinit", "reopen", "resume", "reinitialize", "done"}
Places == Under \cup {"top", "serve", "stopped"}

Matches(d) == d.wal = None \/ d.wal.file = d.main.file

FileTypes ==
    /\ main \in [content : Content, file : Nat] /\ wal \in Log \cup {None}
    /\ copy \in Content \cup {None} /\ replaced \subseteq Content
    /\ unsynced \subseteq Directories /\ lost \subseteq Changes

StoreTypes == stores \subseteq [id : Nat, file : Nat] /\ store \in Nat /\ opened \in Nat

LoopTypes ==
    /\ ready \in BOOLEAN /\ quiescent \in BOOLEAN /\ serving \in BOOLEAN /\ pc \in Places
    /\ queue \in Restores \cup {None} /\ candidate \in Restores \cup {None}

HandlerTypes ==
    /\ request \in [Restores -> {"idle", "staging", "staged", "claimed", "accepted", "rejected", "gone"}]
    /\ writer \in [Changes -> {"idle", "running", "done", "gone"}] /\ handle \in [Changes -> Nat]
    /\ cut \subseteq Changes /\ told \in [Changes -> Databases \cup {None}]

\* A log lies only beside the file it belongs to, and there is none while files are
\* swapped, nor in a directory left for another that is not on disk yet.
Logs ==
    /\ main.file # Gone /\ Matches(Directory) /\ \A d \in unsynced : d.wal = None /\ d.main.file # Gone
    /\ pc \in {"rename", "rename back"} => \A h \in stores : h.file = Gone
    /\ pc \in Swapping => wal = None

Held ==
    /\ pc \in Preserved => copy # None
    /\ pc \in Placing => candidate # None

\* One request at a time holds the gate, then the queue, then the loop.
Gate ==
    /\ \A r \in Restores : request[r] = "claimed" => quiescent /\ queue = None /\ pc \notin Under
    /\ \A q, r \in Restores : request[q] = "claimed" /\ request[r] = "claimed" => q = r
    /\ queue # None => quiescent /\ pc \notin Under /\ request[queue] = "accepted"
    /\ pc \in Under => quiescent

Doors ==
    /\ pc \in Unready => ~ready
    /\ pc \in Under \ {"drain"} => ~serving
    /\ pc \in Closed => \A h \in stores : h.id # store

Ids ==
    /\ store <= opened /\ \A h \in stores : h.id <= opened
    /\ \A g, h \in stores : g.id = h.id => g = h

\* The store in use is open on the database file while the program serves and until it
\* is closed, and handlers whose connection is open run on it.
Handles ==
    /\ pc \in {"serve", "drain", "preserve", "close", "done"} \/ (pc = "top" /\ ready) => [id |-> store, file |-> main.file] \in stores
    /\ \A c \in Changes : writer[c] = "running" /\ c \notin cut => pc \in {"serve", "drain"} /\ handle[c] = store

\* A handler whose connection was closed reaches the database only until the store it
\* was given is closed.
Late == \A c \in Changes : writer[c] = "running" =>
    /\ handle[c] <= opened
    /\ \A h \in stores : h.id = handle[c] /\ h.file = main.file =>
          pc \in {"serve", "drain", "preserve", "close", "resume"} /\ h.id = store

\* A database that may be in the directory: no candidate of a request to come.
Placed(x) == x = Original \/ (x \in Restores /\ request[x] \in {"accepted", "gone"} /\ x # queue)

Origins ==
    /\ Placed(main.content.from) /\ \A d \in unsynced : Placed(d.main.content.from)
    /\ copy # None => Placed(copy.from)
    /\ candidate # None => Placed(candidate)

\* Nobody was told of a change in a database that is yet to be put in place.
Untold ==
    /\ pc \in {"top", "serve", "reinit", "reinitialize", "done", "stopped"} => candidate = None
    /\ pc = "drain" => candidate # main.content.from
    /\ \A c \in Changes : told[c] # None => Placed(told[c]) /\ told[c] # candidate

\* A database that holds every change told of, but for those a power loss took.
Whole(content) == \A c \in Changes : told[c] = content.from => c \in content.changes \cup lost

Kept ==
    /\ Whole(Found) /\ \A d \in unsynced : Whole(FoundIn(d))
    /\ pc \in Preserved => Whole(copy)
    /\ pc \in Synced => unsynced = {}

\* A candidate replaces the database the copy was made of, and a power loss brings
\* back nothing that was not replaced since.
Undo ==
    /\ pc \in {"close", "unlink", "rename"} => copy.from = Found.from /\ copy.changes \subseteq Found.changes
    /\ \A d \in unsynced : FoundIn(d) \in replaced \cup {Found}

IInv ==
    /\ FileTypes /\ StoreTypes /\ LoopTypes /\ HandlerTypes /\ Logs /\ Held /\ Gate /\ Doors /\ Ids
    /\ Handles /\ Late /\ Origins /\ Untold /\ Kept /\ Undo

-----------------------------------------------------------------------------
(* What the steps of several actions do *)

\* The directory as a power loss may keep it.
LEMMA DirectoryTyped == FileTypes => Directory \in Directories
BY DEF FileTypes, Directory, Directories

\* The commits of a log, and of a log cut off.
Commits(log) == IF log = None THEN {} ELSE Range(log.commits)

LEMMA CutOff ==
    ASSUME NEW log \in Log, NEW n \in log.synced .. Len(log.commits)
    PROVE  /\ Truncated(log, n) \in Log /\ Truncated(log, n).file = log.file /\ Truncated(log, n).synced = n
           /\ Range(Truncated(log, n).commits) \subseteq Range(log.commits)
           /\ Range(Truncated(log, log.synced).commits) \subseteq Range(Truncated(log, n).commits)
           /\ Range(Truncated(Truncated(log, n), n).commits) = Range(Truncated(log, n).commits)
<1> DEFINE s == log.commits
           t == SubSeq(s, 1, n)
           u == SubSeq(s, 1, log.synced)
<1>1. s \in Seq(Changes) /\ log.synced \in Nat /\ n \in Nat /\ log.synced <= n /\ n <= Len(s) /\ log.file \in Nat
  BY DEF Log
<1>2. Truncated(log, n) = [file |-> log.file, commits |-> t, synced |-> n]
  BY DEF Truncated
<1>3. Truncated(log, log.synced).commits = u
  BY DEF Log, Truncated
<1>4. t \in Seq(Changes) /\ Len(t) = n /\ \A i \in 1 .. n : t[i] = s[i]
  BY <1>1
<1>5. u \in Seq(Changes) /\ Len(u) = log.synced /\ \A i \in 1 .. log.synced : u[i] = s[i]
  BY <1>1
<1>6. Truncated(Truncated(log, n), n).commits = SubSeq(t, 1, n)
  BY <1>2 DEF Truncated
<1>7. SubSeq(t, 1, n) \in Seq(Changes) /\ Len(SubSeq(t, 1, n)) = n /\ \A i \in 1 .. n : SubSeq(t, 1, n)[i] = t[i]
  BY <1>1, <1>4
<1> HIDE DEF s, t, u
<1>8. DOMAIN s = 1 .. Len(s) /\ DOMAIN t = 1 .. n /\ DOMAIN u = 1 .. log.synced /\ DOMAIN SubSeq(t, 1, n) = 1 .. n
  BY <1>1, <1>4, <1>5, <1>7
<1>9. Range(t) \subseteq Range(s) /\ Range(u) \subseteq Range(t)
  BY <1>1, <1>4, <1>5, <1>8 DEF Range
<1>10. Range(SubSeq(t, 1, n)) = Range(t)
  BY <1>7, <1>8 DEF Range
<1>11. [file |-> log.file, commits |-> t, synced |-> n] \in Log
  BY <1>1, <1>4 DEF Log
<1>12. Truncated(log, n).file = log.file /\ Truncated(log, n).commits = t /\ Truncated(log, n).synced = n
  BY <1>2
<1> QED
  BY <1>2, <1>3, <1>6, <1>9, <1>10, <1>11, <1>12 DEF s

\* The database found: the file's, with what its log adds.
LEMMA FoundTyped ==
    ASSUME NEW d \in Directories, Matches(d)
    PROVE  /\ FoundIn(d) = [from |-> d.main.content.from, changes |-> d.main.content.changes \cup Commits(d.wal)]
           /\ FoundIn(d) \in Content /\ Commits(d.wal) \subseteq Changes
<1>1. d.main.content \in Content /\ d.wal \in Log \cup {None} /\ (d.wal = None \/ d.wal.file = d.main.file)
  BY DEF Directories, Matches
<1>2. Commits(d.wal) \subseteq Changes
  <2>1. d.wal # None => d.wal.commits \in Seq(Changes)
    BY <1>1 DEF Log
  <2> QED
    BY <2>1 DEF Commits, Range
<1>3. CASE d.wal = None
  BY <1>1, <1>2, <1>3 DEF FoundIn, Commits, Content
<1>4. CASE d.wal # None
  <2>1. FoundIn(d) = [d.main.content EXCEPT !.changes = @ \cup Commits(d.wal)]
    BY <1>1, <1>4 DEF FoundIn, Commits
  <2> QED
    BY <1>1, <1>2, <2>1 DEF Content
<1> QED
  BY <1>3, <1>4

\* What is found, and what of it is on disk, depends on the two files alone.
LEMMA FoundUnchanged == UNCHANGED <<main, wal>> => Found' = Found /\ Sure' = Sure
BY DEF Found, FoundIn, Directory, Sure

LEMMA FoundWhole ==
    ASSUME FileTypes, Logs
    PROVE  /\ Found \in Content /\ Found = FoundIn(Directory) /\ Found.from = main.content.from
           /\ Found.changes = main.content.changes \cup Commits(wal)
           /\ main.content.changes \subseteq Found.changes
<1>1. Directory \in Directories /\ Matches(Directory) /\ Directory.main = main /\ Directory.wal = wal
  BY DirectoryTyped DEF Logs, Directory
<1> QED
  BY <1>1, FoundTyped DEF Found

\* Moving the log changes nothing of what is found.
LEMMA Moved ==
    ASSUME FileTypes, Logs, LogMoved
    PROVE  /\ main' \in [content : Content, file : Nat] /\ wal' = None
           /\ main'.file = main.file /\ main'.content = Found /\ main'.content.from = main.content.from
           /\ Found' = Found /\ Sure' = Found.changes
<1>1. main' = [content |-> Found, file |-> main.file] /\ wal' = None
  BY DEF LogMoved, FileTypes
<1>2. Directory' = [main |-> main', wal |-> None]
  BY <1>1 DEF Directory
<1>3. Found' = Found
  <2>1. Found' = FoundIn(Directory')
    BY DEF Found, FoundIn
  <2>2. FoundIn([main |-> main', wal |-> None]) = main'.content
    BY DEF FoundIn
  <2> QED
    BY <1>1, <1>2, <2>1, <2>2
<1>4. Sure' = Found.changes
  BY <1>1 DEF Sure
<1> QED
  BY <1>1, <1>3, <1>4, FoundWhole DEF FileTypes

\* Nor does the checkpoint.
LEMMA Checkpointed ==
    ASSUME FileTypes, Logs, NEW s, Checkpoint(s) \/ LogMoved \/ UNCHANGED <<main, wal>>
    PROVE  /\ main' \in [content : Content, file : Nat] /\ wal' \in {wal, None}
           /\ main'.file = main.file /\ main'.content.from = main.content.from
           /\ Found' = Found /\ Sure' \in {Sure, Found.changes}
           /\ UNCHANGED <<main, wal>> \/ wal' = None
<1>1. CASE UNCHANGED <<main, wal>>
  BY <1>1, FoundUnchanged DEF FileTypes
<1>2. CASE LogMoved
  BY <1>2, Moved
<1> QED
  BY <1>1, <1>2 DEF Checkpoint

\* Nor does an exit in order, whether or not its checkpoint succeeds.
LEMMA Left ==
    ASSUME FileTypes, Logs, Leaves \/ AutoCheckpoint
    PROVE  /\ main' \in [content : Content, file : Nat] /\ wal' \in {wal, None}
           /\ main'.file = main.file /\ main'.content.from = main.content.from
           /\ Found' = Found /\ Sure' \in {Sure, Found.changes}
           /\ UNCHANGED <<copy, unsynced, replaced, lost, told>>
<1>1. /\ LogMoved \/ UNCHANGED <<main, wal>>
      /\ UNCHANGED <<copy, unsynced, replaced, lost, told>>
  BY DEF Leaves, Ends, AutoCheckpoint, storeVars, handlerVars
<1> QED
  BY <1>1, Checkpointed

\* A database is opened on the file, with an id no handle had.
LEMMA Opened ==
    ASSUME FileTypes, StoreTypes, Ids, Opens
    PROVE  /\ StoreTypes' /\ Ids' /\ ready' /\ store' = opened + 1
           /\ [id |-> store', file |-> main.file] \in stores'
<1>1. main.file \in Nat /\ opened \in Nat /\ opened' = opened + 1 /\ store' = opened + 1 /\ ready'
  BY DEF Opens, FileTypes, StoreTypes
<1> DEFINE new == [id |-> opened + 1, file |-> main.file]
<1>2. new \in [id : Nat, file : Nat] /\ new.id = opened + 1 /\ stores' = stores \cup {new}
  BY <1>1 DEF Opens
<1> HIDE DEF new
<1>3. \A h \in stores : h.id \in Nat /\ h.id <= opened
  BY DEF StoreTypes, Ids
<1>4. StoreTypes'
  BY <1>1, <1>2 DEF StoreTypes
<1>5. Ids'
  <2>1. \A h \in stores' : h.id <= opened'
    BY <1>1, <1>2, <1>3
  <2>2. \A g, h \in stores' : g.id = h.id => g = h
    <3>1. \A h \in stores : h.id # new.id
      BY <1>1, <1>2, <1>3
    <3> QED
      BY <1>2, <3>1 DEF Ids
  <2> QED
    BY <1>1, <2>1, <2>2 DEF Ids
<1> QED
  BY <1>1, <1>2, <1>4, <1>5 DEF new

\* Unlinked handles keep their ids and write to no file of the directory.
LEMMA UnlinkedHandles ==
    ASSUME StoreTypes, Ids, Unlinked, UNCHANGED <<store, opened>>
    PROVE  /\ StoreTypes' /\ Ids' /\ wal' = None
           /\ \A h \in stores' : h.file = Gone /\ \E g \in stores : g.id = h.id
<1>1. \A g \in stores : g.id \in Nat /\ [g EXCEPT !.file = Gone] = [id |-> g.id, file |-> Gone]
  BY DEF StoreTypes
<1>2. stores' = {[id |-> g.id, file |-> Gone] : g \in stores} /\ wal' = None
  BY <1>1 DEF Unlinked
<1>3. Gone \in Nat
  BY DEF Gone
<1>4. StoreTypes'
  BY <1>1, <1>2, <1>3 DEF StoreTypes
<1>5. Ids'
  BY <1>1, <1>2 DEF Ids
<1> QED
  BY <1>2, <1>4, <1>5

\* What a commit does to the log.
LEMMA Committed ==
    ASSUME FileTypes, Logs, NEW c \in Changes, Commit(c)
    PROVE  /\ main' = main
           /\ \/ UNCHANGED wal
              \/ /\ wal' \in Log /\ wal' # None /\ wal'.file = main.file
                 /\ Commits(wal') = Commits(wal) \cup {c}
                 /\ Sure' = Sure
                 /\ \E h \in stores : h.id = handle[c] /\ h.file = main.file
<1>1. main.file \in Nat /\ wal \in Log \cup {None} /\ (wal = None \/ wal.file = main.file) /\ main' = main
  BY DEF FileTypes, Logs, Matches, Directory, Commit
<1>2. CASE ~Reaches(handle[c])
  BY <1>1, <1>2 DEF Commit
<1>3. CASE Reaches(handle[c]) /\ wal = None
  <2>1. wal' = [file |-> main.file, commits |-> <<c>>, synced |-> 0]
    BY <1>3 DEF Commit
  <2>2. wal' \in Log /\ wal' # None
    <3>1. <<c>> \in Seq(Changes) /\ 0 <= Len(<<c>>)
      OBVIOUS
    <3>2. wal' \in Log
      BY <1>1, <2>1, <3>1 DEF Log
    <3> QED
      BY <3>2, RestoreAssumption
  <2>3. Range(<<c>>) = {c}
    BY DEF Range
  <2>4. Truncated(wal', wal'.synced).commits = SubSeq(<<c>>, 1, 0)
    BY <2>1 DEF Truncated
  <2>5. Range(SubSeq(<<c>>, 1, 0)) = {}
    BY DEF Range
  <2>6. Sure' = Sure
    BY <1>1, <1>3, <2>2, <2>4, <2>5 DEF Sure
  <2> QED
    BY <1>1, <1>3, <2>1, <2>2, <2>3, <2>6 DEF Commits, Reaches
<1>4. CASE Reaches(handle[c]) /\ wal # None
  <2> DEFINE s == wal.commits
             t == Append(s, c)
  <2>1. wal' = [wal EXCEPT !.commits = t]
    BY <1>4 DEF Commit
  <2>2. s \in Seq(Changes) /\ wal.synced \in Nat /\ wal.synced <= Len(s) /\ wal.file = main.file
    BY <1>1, <1>4 DEF Log
  <2>3. wal' = [file |-> main.file, commits |-> t, synced |-> wal.synced]
    BY <1>1, <1>4, <2>1 DEF Log
  <2>4. t \in Seq(Changes) /\ Len(t) = Len(s) + 1 /\ (\A i \in 1 .. Len(s) : t[i] = s[i]) /\ t[Len(s) + 1] = c
    BY <2>2
  <2>5. wal' \in Log /\ wal' # None
    <3>1. wal.synced <= Len(t)
      BY <2>2, <2>4
    <3>2. wal' \in Log
      BY <1>1, <2>2, <2>3, <2>4, <3>1 DEF Log
    <3> QED
      BY <3>2, RestoreAssumption
  <2>6. Truncated(wal', wal'.synced).commits = SubSeq(t, 1, wal.synced) /\ Truncated(wal, wal.synced).commits = SubSeq(s, 1, wal.synced)
    BY <1>1, <1>4, <2>3 DEF Truncated, Log
  <2> HIDE DEF s, t
  <2>7. Range(t) = Range(s) \cup {c}
    <3>1. DOMAIN s = 1 .. Len(s) /\ DOMAIN t = 1 .. (Len(s) + 1) /\ Len(s) \in Nat
      BY <2>2, <2>4
    <3>2. \A i \in 1 .. (Len(s) + 1) : i \in 1 .. Len(s) \/ i = Len(s) + 1
      BY <3>1
    <3>3. (\A i \in 1 .. Len(s) : i \in 1 .. (Len(s) + 1)) /\ Len(s) + 1 \in 1 .. (Len(s) + 1)
      BY <3>1
    <3> QED
      BY <2>4, <3>1, <3>2, <3>3 DEF Range
  <2>8. SubSeq(t, 1, wal.synced) = SubSeq(s, 1, wal.synced)
    BY <2>2, <2>4
  <2>9. Sure' = Sure
    BY <1>1, <1>4, <2>5, <2>6, <2>8 DEF Sure
  <2>10. wal'.file = main.file /\ wal'.commits = t
    BY <2>3
  <2>11. Commits(wal') = Commits(wal) \cup {c}
    BY <1>4, <2>5, <2>7, <2>10 DEF Commits, s
  <2>12. \E h \in stores : h.id = handle[c] /\ h.file = main.file
    BY <1>4 DEF Reaches
  <2> QED
    BY <1>1, <2>5, <2>9, <2>10, <2>11, <2>12
<1> QED
  BY <1>2, <1>3, <1>4

\* A rename gives the database's name to a file of its own.
LEMMA RenamedFile ==
    ASSUME FileTypes, NEW x \in Content, Renamed(x)
    PROVE  /\ main' \in [content : Content, file : Nat] /\ main'.content = x
           /\ main'.file = main.file + 1 /\ main.file \in Nat
           /\ unsynced' = unsynced \cup {Directory} /\ replaced' = replaced \cup {Found}
BY DEF FileTypes, Renamed

\* A power loss leaves one of the directories that were not synced, or the present with
\* its log cut off; what it takes from the log, lost remembers.
LEMMA PowerLost ==
    ASSUME FileTypes, Logs, LosePower
    PROVE  \E d \in unsynced \cup {Directory} :
             /\ d \in Directories /\ Matches(d) /\ Directory' \in Directories /\ Matches(Directory')
             /\ main' = d.main /\ main'.file # Gone
             /\ Found' \in Content /\ Found'.from = FoundIn(d).from /\ FoundIn(d).from = d.main.content.from
             /\ Found'.changes \subseteq FoundIn(d).changes /\ FoundIn(d).changes \subseteq Found'.changes \cup lost'
             /\ d \in unsynced => Found' = FoundIn(d)
             /\ d = Directory => Sure \subseteq Found'.changes
             /\ Sure' = Found'.changes
             /\ unsynced' = {} /\ lost \subseteq lost' /\ lost' \subseteq Changes
<1>1. PICK d \in unsynced \cup {Directory} :
        /\ main' = d.main
        /\ IF d.wal = None THEN wal' = None
           ELSE \E n \in d.wal.synced .. Len(d.wal.commits) : wal' = Truncated(d.wal, n)
        /\ lost' = lost \cup (FoundIn(d).changes \ Found'.changes)
  BY DEF LosePower
<1>2. d \in Directories /\ Matches(d) /\ d.main.file # Gone /\ (d \in unsynced => d.wal = None)
  <2>1. CASE d \in unsynced
    BY <2>1 DEF FileTypes, Logs, Matches
  <2>2. CASE d = Directory
    <3>1. Directory \in Directories /\ Matches(Directory) /\ Directory.main = main /\ Directory.wal = wal /\ main.file # Gone
      BY DirectoryTyped DEF Logs, Directory
    <3>2. Directory \in unsynced => Directory.wal = None
      BY DEF Logs
    <3> QED
      BY <2>2, <3>1, <3>2
  <2> QED
    BY <2>1, <2>2
<1>3. /\ wal' \in Log \cup {None} /\ (wal' = None \/ wal'.file = d.main.file)
      /\ Commits(wal') \subseteq Commits(d.wal)
      /\ d.wal = None => wal' = None
      /\ wal' # None => Range(Truncated(wal', wal'.synced).commits) = Commits(wal')
      /\ d.wal # None => wal' # None /\ Range(Truncated(d.wal, d.wal.synced).commits) \subseteq Commits(wal')
  <2>1. CASE d.wal = None
    BY <1>1, <2>1 DEF Commits
  <2>2. CASE d.wal # None
    <3>1. d.wal \in Log /\ d.wal.file = d.main.file
      BY <1>2, <2>2 DEF Directories, Matches
    <3>2. PICK n \in d.wal.synced .. Len(d.wal.commits) : wal' = Truncated(d.wal, n)
      BY <1>1, <2>2
    <3>3. /\ wal' \in Log /\ wal'.file = d.wal.file /\ wal'.synced = n
          /\ Range(wal'.commits) \subseteq Range(d.wal.commits)
          /\ Range(Truncated(d.wal, d.wal.synced).commits) \subseteq Range(wal'.commits)
          /\ Range(Truncated(wal', n).commits) = Range(wal'.commits)
      BY <3>1, <3>2, CutOff
    <3>4. wal' # None
      BY <3>3, RestoreAssumption
    <3> QED
      BY <2>2, <3>1, <3>3, <3>4 DEF Commits
  <2> QED
    BY <2>1, <2>2
<1>4. Directory' = [main |-> d.main, wal |-> wal']
  BY <1>1 DEF Directory
<1> DEFINE e == [main |-> d.main, wal |-> wal']
<1>5. e \in Directories /\ Matches(e) /\ e.wal = wal' /\ e.main = d.main
  BY <1>2, <1>3 DEF Directories, Matches
<1>6. Found' = FoundIn(e)
  <2>1. Found' = FoundIn(Directory')
    BY DEF Found, FoundIn
  <2> QED
    BY <1>4, <2>1
<1> HIDE DEF e
<1>7. /\ FoundIn(e) \in Content /\ FoundIn(e).from = d.main.content.from
      /\ FoundIn(e).changes = d.main.content.changes \cup Commits(wal')
  BY <1>5, FoundTyped
<1>8. /\ FoundIn(d) \in Content /\ FoundIn(d).from = d.main.content.from
      /\ FoundIn(d).changes = d.main.content.changes \cup Commits(d.wal)
  BY <1>2, FoundTyped
<1>9. d \in unsynced => Found' = FoundIn(d)
  <2>1. CASE d.wal = None
    <3>1. e.wal = d.wal /\ e.main = d.main
      BY <1>3, <1>5, <2>1
    <3> QED
      BY <1>6, <2>1, <3>1 DEF FoundIn
  <2> QED
    BY <1>2, <2>1
<1>10. Sure' = Found'.changes
  <2>1. Sure' = d.main.content.changes \cup (IF wal' = None THEN {} ELSE Range(Truncated(wal', wal'.synced).commits))
    BY <1>1 DEF Sure, Truncated
  <2>2. CASE wal' = None
    BY <1>6, <1>7, <2>1, <2>2 DEF Commits
  <2>3. CASE wal' # None
    BY <1>3, <1>6, <1>7, <2>1, <2>3
  <2> QED
    BY <2>2, <2>3
<1>11. d = Directory => Sure \subseteq Found'.changes
  <2> HAVE d = Directory
  <2>1. d.main = main /\ d.wal = wal
    BY DEF Directory
  <2> QED
    BY <1>3, <1>6, <1>7, <2>1 DEF Sure
<1>12. unsynced' = {}
  BY DEF LosePower
<1>13. lost' \subseteq Changes
  BY <1>1, <1>8 DEF FileTypes, Content
<1>14. Directory' \in Directories /\ Matches(Directory')
  BY <1>4, <1>5 DEF e
<1>15. /\ Found' \in Content /\ Found'.from = FoundIn(d).from /\ Found'.changes \subseteq FoundIn(d).changes
       /\ FoundIn(d).changes \subseteq Found'.changes \cup lost' /\ lost \subseteq lost'
  BY <1>1, <1>3, <1>6, <1>7, <1>8
<1> QED
  BY <1>1, <1>2, <1>8, <1>9, <1>10, <1>11, <1>12, <1>13, <1>14, <1>15

\* What the logs need of a step.
LEMMA LogsKept ==
    ASSUME Logs, unsynced' \subseteq unsynced \/ (wal = None /\ unsynced' \subseteq unsynced \cup {Directory}),
           main'.file # Gone,
           wal' = None \/ wal'.file = main'.file,
           pc' \in {"rename", "rename back"} => \A h \in stores' : h.file = Gone,
           pc' \in Swapping => wal' = None
    PROVE  Logs'
<1>1. Directory.wal = wal /\ Directory.main.file # Gone
  BY DEF Logs, Directory
<1>2. \A d \in unsynced' : d.wal = None /\ d.main.file # Gone
  BY <1>1 DEF Logs
<1>3. Matches(Directory)'
  BY DEF Matches, Directory
<1> QED
  BY <1>2, <1>3 DEF Logs, Matches

\* What the origins need of a step that brings nothing new into the directory.
LEMMA OriginsKept ==
    ASSUME Origins, NEW x, Placed(x), UNCHANGED <<request, queue>>,
           main'.content.from \in {main.content.from, x},
           \A d \in unsynced' : d \in unsynced \/ d = Directory,
           copy' = None \/ copy' = copy \/ copy'.from = main.content.from,
           candidate' \in {candidate, None}
    PROVE  Origins'
<1>1. \A y : Placed(y)' <=> Placed(y)
  BY DEF Placed
<1>2. Placed(Directory.main.content.from)
  BY DEF Origins, Directory
<1> QED
  BY <1>1, <1>2 DEF Origins

\* What the keeping needs of a step that finds what was found, but for what lost remembers.
LEMMA KeptKept ==
    ASSUME Kept, Found'.from = Found.from, Found.changes \subseteq Found'.changes \cup lost', lost \subseteq lost',
           UNCHANGED <<told, copy>>, unsynced' \subseteq unsynced,
           pc' \in Preserved => pc \in Preserved,
           pc' \in Synced => pc \in Synced \/ unsynced' = {}
    PROVE  Kept'
<1>1. \A d : FoundIn(d)' = FoundIn(d)
  BY DEF FoundIn
<1>2. \A x : Whole(x) => Whole(x)'
  BY DEF Whole
<1>3. Whole(Found)'
  BY DEF Kept, Whole
<1>4. \A d \in unsynced' : Whole(FoundIn(d))'
  BY <1>1, <1>2 DEF Kept
<1>5. pc' \in Preserved => Whole(copy)'
  BY <1>2 DEF Kept
<1> QED
  BY <1>3, <1>4, <1>5 DEF Kept

\* What the undoing needs of a step that replaces nothing.
LEMMA UndoKept ==
    ASSUME Undo, Found' = Found, unsynced' \subseteq unsynced, UNCHANGED <<copy, replaced>>,
           pc' \in {"close", "unlink", "rename"} => pc \in {"close", "unlink", "rename"}
    PROVE  Undo'
<1>1. \A d : FoundIn(d)' = FoundIn(d)
  BY DEF FoundIn
<1> QED
  BY <1>1 DEF Undo

\* A commit adds to what is found.
LEMMA CommitFinds ==
    ASSUME FileTypes, Logs, NEW c \in Changes, Commit(c), wal' # wal
    PROVE  Found' = [Found EXCEPT !.changes = @ \cup {c}] /\ Sure' = Sure
<1>1. /\ main' = main /\ wal' \in Log /\ wal'.file = main.file /\ Commits(wal') = Commits(wal) \cup {c} /\ Sure' = Sure
  BY Committed
<1> DEFINE e == [main |-> main, wal |-> wal']
<1>2. e \in Directories /\ Matches(e) /\ e.main = main /\ e.wal = wal'
  BY <1>1 DEF FileTypes, Directories, Matches
<1>3. Found' = FoundIn(e)
  <2>1. Found' = FoundIn(Directory') /\ Directory' = e
    BY <1>1 DEF Found, FoundIn, Directory
  <2> QED
    BY <2>1
<1> HIDE DEF e
<1>4. Found' = [from |-> main.content.from, changes |-> main.content.changes \cup Commits(wal) \cup {c}]
  BY <1>1, <1>2, <1>3, FoundTyped
<1>5. Directory \in Directories /\ Matches(Directory) /\ Directory.main = main /\ Directory.wal = wal
  BY DirectoryTyped DEF Logs, Directory
<1>6. Found = [from |-> main.content.from, changes |-> main.content.changes \cup Commits(wal)]
  BY <1>5, FoundTyped DEF Found
<1> QED
  BY <1>1, <1>4, <1>6

\* The store in use has one handle.
LEMMA InUse ==
    ASSUME Ids, NEW f, [id |-> store, file |-> f] \in stores
    PROVE  \A h \in stores : h.id = store => h.file = f
<1> DEFINE g == [id |-> store, file |-> f]
<1>1. g \in stores /\ g.id = store /\ g.file = f
  OBVIOUS
<1> HIDE DEF g
<1> QED
  BY <1>1 DEF Ids

\* The files hold databases and logs.
LEMMA FileTypesNext == IInv /\ [Next]_vars => FileTypes'
<1> SUFFICES ASSUME IInv, [Next]_vars PROVE FileTypes'
  OBVIOUS
<1> USE RestoreAssumption DEF IInv, FileTypes, fileVars, storeVars, flagVars, handlerVars, Goto
<1>1. CASE UNCHANGED vars
  BY <1>1 DEF vars
<1>2. CASE ServeOnce \/ TakeCandidate \/ Drain \/ Sync \/ Reinit \/ CopyBack \/
            SyncBack \/ GiveUp \/ Reopen \/ Done \/ Start
  BY <1>2 DEF Opens, Ends, ServeOnce, TakeCandidate, Drain, Sync, Reinit, CopyBack,
     SyncBack, GiveUp, Reopen, Done, Start
<1>3. ASSUME NEW c \in Changes, Arrive(c) PROVE FileTypes'
  BY <1>3 DEF Arrive, Admitted
<1>4. ASSUME NEW c \in Changes, Commit(c) PROVE FileTypes'
  BY <1>4, Committed DEF Commit
<1>5. ASSUME NEW c \in Changes, Fail(c) PROVE FileTypes'
  BY <1>5 DEF Fail
<1>6. ASSUME NEW r \in Restores, Upload(r) PROVE FileTypes'
  BY <1>6 DEF Upload, Admitted
<1>7. ASSUME NEW r \in Restores, Stage(r) PROVE FileTypes'
  BY <1>7 DEF Stage
<1>8. ASSUME NEW r \in Restores, Claim(r) PROVE FileTypes'
  BY <1>8 DEF Claim, MayClaim
<1>9. ASSUME NEW r \in Restores, Send(r) PROVE FileTypes'
  BY <1>9 DEF Send
<1>10. CASE Preserve
  BY <1>10, FoundWhole DEF Preserve
<1>11. CASE CloseLive
  BY <1>11, Checkpointed DEF CloseLive
<1>12. CASE Unlink
  BY <1>12, DirectoryTyped DEF Unlink, Unlinked
<1>13. CASE Rename
  <2>1. Fresh(candidate) \in Content
    BY <1>13 DEF Rename, Held, Placing, LoopTypes, Fresh, Content, Databases
  <2>2. Found \in Content
    BY FoundWhole
  <2>3. CASE Renamed(Fresh(candidate))
    <3>1. main' \in [content : Content, file : Nat] /\ unsynced' \subseteq Directories /\ replaced' \subseteq Content
      BY <2>1, <2>2, <2>3, DirectoryTyped, RenamedFile
    <3> QED
      BY <1>13, <3>1 DEF Rename
  <2>4. CASE UNCHANGED <<main, unsynced, replaced>>
    BY <1>13, <2>4 DEF Rename
  <2> QED
    BY <1>13, <2>3, <2>4 DEF Rename
<1>14. CASE RenameBack
  <2>1. copy \in Content
    BY <1>14 DEF RenameBack, Held, Preserved
  <2> QED
    BY <1>14, <2>1, DirectoryTyped, RenamedFile, FoundWhole DEF RenameBack
<1>15. CASE Resume
  BY <1>15, Checkpointed DEF Resume
<1>16. CASE LosePower
  <2> HIDE DEF FileTypes
  <2>1. Directory' \in Directories /\ unsynced' = {} /\ lost' \subseteq Changes
    BY <1>16, PowerLost
  <2>2. main' \in [content : Content, file : Nat] /\ wal' \in Log \cup {None}
    BY <2>1 DEF Directory, Directories
  <2> QED
    BY <1>16, <2>1, <2>2 DEF LosePower, FileTypes
<1>17. CASE Initialize \/ Reinitialize \/ Terminate \/ Crash \/ AutoCheckpoint
  <2>1. Leaves \/ AutoCheckpoint \/ UNCHANGED fileVars
    BY <1>17 DEF Initialize, Reinitialize, Terminate, Crash
  <2>2. CASE Leaves \/ AutoCheckpoint
    BY <2>2, Left
  <2> QED
    BY <2>1, <2>2
<1> HIDE DEF IInv, FileTypes
<1> QED
  BY <1>1, <1>2, <1>3, <1>4, <1>5, <1>6, <1>7, <1>8, <1>9, <1>10, <1>11, <1>12, <1>13, <1>14, <1>15, <1>16, <1>17 DEF Next, Loop, Activation

\* Handles have an id and a file.
LEMMA StoreTypesNext == IInv /\ [Next]_vars => StoreTypes'
<1> SUFFICES ASSUME IInv, [Next]_vars PROVE StoreTypes'
  OBVIOUS
<1> USE RestoreAssumption DEF IInv, StoreTypes, fileVars, storeVars, flagVars, handlerVars, Goto
<1>1. CASE UNCHANGED vars
  BY <1>1 DEF vars
<1>2. CASE ServeOnce
  BY <1>2 DEF ServeOnce
<1>3. CASE TakeCandidate
  BY <1>3 DEF TakeCandidate
<1>4. CASE Drain
  BY <1>4 DEF Drain
<1>5. CASE Preserve
  BY <1>5 DEF Preserve, Found
<1>6. CASE CloseLive
  BY <1>6 DEF CloseLive, Forget, Checkpoint, Found
<1>7. CASE Rename
  BY <1>7 DEF Rename, Renamed, Directory, Found, Fresh
<1>8. CASE Sync
  BY <1>8 DEF Sync
<1>9. CASE CopyBack
  BY <1>9 DEF CopyBack
<1>10. CASE RenameBack
  BY <1>10 DEF RenameBack, Renamed, Directory
<1>11. CASE SyncBack
  BY <1>11 DEF SyncBack
<1>12. CASE GiveUp
  BY <1>12 DEF GiveUp, Ends
<1>13. CASE Resume
  BY <1>13 DEF Resume, Forget, Checkpoint, Found
<1>14. CASE Done
  BY <1>14 DEF Done
<1>15. CASE Terminate
  BY <1>15 DEF Terminate, Leaves, Ends
<1>16. CASE Crash \/ LosePower \/ AutoCheckpoint
  BY <1>16 DEF Crash, LosePower, AutoCheckpoint, Ends
<1>17. CASE Start
  BY <1>17 DEF Start
<1>18. ASSUME NEW c \in Changes, Arrive(c) PROVE StoreTypes'
  BY <1>18 DEF Arrive, Admitted
<1>19. ASSUME NEW c \in Changes, Commit(c) PROVE StoreTypes'
  BY <1>19 DEF Commit
<1>20. ASSUME NEW c \in Changes, Fail(c) PROVE StoreTypes'
  BY <1>20 DEF Fail
<1>21. ASSUME NEW r \in Restores, Upload(r) PROVE StoreTypes'
  BY <1>21 DEF Upload, Admitted
<1>22. ASSUME NEW r \in Restores, Stage(r) PROVE StoreTypes'
  BY <1>22 DEF Stage
<1>23. ASSUME NEW r \in Restores, Claim(r) PROVE StoreTypes'
  BY <1>23 DEF Claim, MayClaim
<1>24. ASSUME NEW r \in Restores, Send(r) PROVE StoreTypes'
  BY <1>24 DEF Send
<1>25. CASE Initialize
  BY <1>25, Opened DEF Initialize, Leaves, Ends
<1>26. CASE Unlink
  BY <1>26, UnlinkedHandles DEF Unlink
<1>27. CASE Reinit
  BY <1>27, Opened DEF Reinit
<1>28. CASE Reopen
  BY <1>28, Opened DEF Reopen
<1>29. CASE Reinitialize
  BY <1>29, Opened DEF Reinitialize, Leaves, Ends
<1> HIDE DEF IInv, StoreTypes
<1> QED
  BY <1>1, <1>2, <1>3, <1>4, <1>5, <1>6, <1>7, <1>8, <1>9, <1>10, <1>11, <1>12, <1>13, <1>14, <1>15, <1>16, <1>17, <1>18, <1>19, <1>20, <1>21, <1>22, <1>23, <1>24, <1>25, <1>26, <1>27, <1>28, <1>29 DEF Next, Loop, Activation

\* The loop stands at one of its places.
LEMMA LoopTypesNext == IInv /\ [Next]_vars => LoopTypes'
<1> SUFFICES ASSUME IInv, [Next]_vars PROVE LoopTypes'
  OBVIOUS
<1> USE RestoreAssumption DEF IInv, LoopTypes, Places, Placing, Under, fileVars, storeVars, flagVars, handlerVars, Goto
<1>1. CASE UNCHANGED vars
  BY <1>1 DEF vars
<1>2. CASE Initialize \/ ServeOnce \/ TakeCandidate \/ Drain \/ Preserve \/ CloseLive \/ Unlink \/
            Rename \/ Sync
  BY <1>2 DEF Initialize, Opens, Leaves, Ends, ServeOnce, TakeCandidate, Drain, Preserve, CloseLive, Unlink,
     Rename, Sync
<1>10. CASE Reinit \/ CopyBack \/ RenameBack \/ SyncBack \/ GiveUp \/ Reopen \/ Resume \/ Reinitialize
  BY <1>10 DEF Reinit, Opens, CopyBack, RenameBack, SyncBack, GiveUp, Reopen, Resume, Reinitialize, Leaves, Ends
<1>11. CASE Done \/ Terminate \/ Crash \/ LosePower \/ AutoCheckpoint \/ Start
  BY <1>11 DEF Done, Terminate, Leaves, Ends, Crash, LosePower, AutoCheckpoint, Start
<1>3. ASSUME NEW c \in Changes, Arrive(c) PROVE LoopTypes'
  BY <1>3 DEF Arrive, Admitted
<1>4. ASSUME NEW c \in Changes, Commit(c) PROVE LoopTypes'
  BY <1>4 DEF Commit
<1>5. ASSUME NEW c \in Changes, Fail(c) PROVE LoopTypes'
  BY <1>5 DEF Fail
<1>6. ASSUME NEW r \in Restores, Upload(r) PROVE LoopTypes'
  BY <1>6 DEF Upload, Admitted
<1>7. ASSUME NEW r \in Restores, Stage(r) PROVE LoopTypes'
  BY <1>7 DEF Stage
<1>8. ASSUME NEW r \in Restores, Claim(r) PROVE LoopTypes'
  BY <1>8 DEF Claim, MayClaim
<1>9. ASSUME NEW r \in Restores, Send(r) PROVE LoopTypes'
  BY <1>9 DEF Send
<1> HIDE DEF IInv, LoopTypes, Places, Placing, Under
<1> QED
  BY <1>1, <1>2, <1>3, <1>4, <1>5, <1>6, <1>7, <1>8, <1>9, <1>10, <1>11 DEF Next, Loop, Activation

\* The handlers stand at theirs.
LEMMA HandlerTypesNext == IInv /\ [Next]_vars => HandlerTypes'
<1> SUFFICES ASSUME IInv, [Next]_vars PROVE HandlerTypes'
  OBVIOUS
<1> USE RestoreAssumption DEF IInv, HandlerTypes, fileVars, storeVars, flagVars, handlerVars, Goto
<1>1. CASE UNCHANGED vars
  BY <1>1 DEF vars
<1>2. CASE Initialize \/ ServeOnce \/ TakeCandidate \/ Drain \/ Preserve \/ CloseLive \/ Unlink \/
            Rename \/ Sync
  BY <1>2 DEF Initialize, Opens, Leaves, Ends, ServeOnce, TakeCandidate, Drain, Preserve, CloseLive, Unlink,
     Rename, Sync
<1>10. CASE Reinit \/ CopyBack \/ RenameBack \/ SyncBack \/ GiveUp \/ Reopen \/ Resume \/ Reinitialize
  BY <1>10 DEF Reinit, Opens, CopyBack, RenameBack, SyncBack, GiveUp, Reopen, Resume, Reinitialize, Leaves, Ends
<1>11. CASE Done \/ Terminate \/ Crash \/ LosePower \/ AutoCheckpoint \/ Start
  BY <1>11 DEF Done, Terminate, Leaves, Ends, Crash, LosePower, AutoCheckpoint, Start
<1>3. ASSUME NEW c \in Changes, Arrive(c) PROVE HandlerTypes'
  <2>1. store \in Nat
    BY DEF StoreTypes
  <2> QED
    BY <1>3, <2>1 DEF Arrive
<1>4. ASSUME NEW c \in Changes, Commit(c) PROVE HandlerTypes'
  <2>1. main.content.from \in Databases
    BY DEF FileTypes, Content
  <2> QED
    BY <1>4, <2>1 DEF Commit
<1>5. ASSUME NEW c \in Changes, Fail(c) PROVE HandlerTypes'
  BY <1>5 DEF Fail
<1>6. ASSUME NEW r \in Restores, Upload(r) PROVE HandlerTypes'
  BY <1>6 DEF Upload, Admitted
<1>7. ASSUME NEW r \in Restores, Stage(r) PROVE HandlerTypes'
  BY <1>7 DEF Stage
<1>8. ASSUME NEW r \in Restores, Claim(r) PROVE HandlerTypes'
  BY <1>8 DEF Claim, MayClaim
<1>9. ASSUME NEW r \in Restores, Send(r) PROVE HandlerTypes'
  BY <1>9 DEF Send
<1> HIDE DEF IInv, HandlerTypes
<1> QED
  BY <1>1, <1>2, <1>3, <1>4, <1>5, <1>6, <1>7, <1>8, <1>9, <1>10, <1>11 DEF Next, Loop, Activation

\* No log comes to lie beside another file.
LEMMA LogsNext == IInv /\ [Next]_vars => Logs'
<1> SUFFICES ASSUME IInv, [Next]_vars PROVE Logs'
  OBVIOUS
<1> USE RestoreAssumption DEF IInv, Logs, Matches, Directory, Gone, Swapping, Preserved, fileVars, storeVars, flagVars, handlerVars, Goto
<1>1. CASE UNCHANGED vars
  BY <1>1 DEF vars
<1>2. CASE ServeOnce \/ TakeCandidate \/ Drain \/ Preserve \/ Sync \/ Reinit \/
            CopyBack \/ SyncBack \/ GiveUp \/ Reopen \/ Done \/ Start
  BY <1>2 DEF Opens, Ends, ServeOnce, TakeCandidate, Drain, Preserve, Found, Sync, Reinit,
     CopyBack, SyncBack, GiveUp, Reopen, Done, Start
<1>3. ASSUME NEW c \in Changes, Arrive(c) PROVE Logs'
  BY <1>3 DEF Arrive, Admitted
<1>4. ASSUME NEW c \in Changes, Commit(c) PROVE Logs'
  <2> HIDE DEF Logs, Matches, Directory
  <2>1. UNCHANGED <<main, unsynced, stores, pc>> /\ writer[c] = "running"
    BY <1>4 DEF Commit
  <2>2. wal' = wal \/ (wal'.file = main.file /\ \E h \in stores : h.id = handle[c] /\ h.file = main.file)
    BY <1>4, Committed
  <2>3. pc \in Swapping => wal' = wal
    BY <2>1, <2>2 DEF Late
  <2> QED
    BY <2>1, <2>2, <2>3, LogsKept DEF Logs, Matches, Directory
<1>5. ASSUME NEW c \in Changes, Fail(c) PROVE Logs'
  BY <1>5 DEF Fail
<1>6. ASSUME NEW r \in Restores, Upload(r) PROVE Logs'
  BY <1>6 DEF Upload, Admitted
<1>7. ASSUME NEW r \in Restores, Stage(r) PROVE Logs'
  BY <1>7 DEF Stage
<1>8. ASSUME NEW r \in Restores, Claim(r) PROVE Logs'
  BY <1>8 DEF Claim, MayClaim
<1>9. ASSUME NEW r \in Restores, Send(r) PROVE Logs'
  BY <1>9 DEF Send
<1>10. CASE CloseLive
  <2> HIDE DEF Logs, Matches, Directory
  <2>1. main'.file = main.file /\ wal' \in {wal, None} /\ UNCHANGED unsynced /\ pc = "close" /\ pc' \in {"unlink", "resume"}
    BY <1>10, Checkpointed DEF CloseLive
  <2>2. pc' = "unlink" => wal' = None
    <3>1. [id |-> store, file |-> main.file] \in stores
      BY <2>1 DEF Handles
    <3> QED
      BY <1>10, <3>1 DEF CloseLive, Checkpoint, Reaches, LogMoved
  <2> QED
    BY <2>1, <2>2, LogsKept DEF Logs, Matches, Directory
<1>11. CASE Unlink
  <2> HIDE DEF Logs, Matches, Directory
  <2>1. CASE Unlinked /\ unsynced' = unsynced \cup {Directory}
    <3>1. wal' = None /\ \A h \in stores' : h.file = Gone
      BY <1>11, <2>1, UnlinkedHandles DEF Unlink
    <3>2. main' = main /\ main.file # 0 /\ wal = None
      BY <1>11 DEF Unlink, Logs
    <3> QED
      BY <2>1, <3>1, <3>2, LogsKept
  <2>2. CASE UNCHANGED <<wal, stores, unsynced>> /\ pc' = "copy back"
    <3>1. main' = main /\ pc \in {"unlink", "unlink back"}
      BY <1>11 DEF Unlink
    <3>2. wal = None /\ main.file # Gone
      BY <3>1 DEF Logs
    <3> QED
      BY <2>2, <3>1, <3>2, LogsKept DEF Gone
  <2> QED
    BY <1>11, <2>1, <2>2 DEF Unlink
<1>12. CASE Rename
  <2> HIDE DEF Logs, Matches, Directory
  <2>1. wal = None /\ wal' = wal /\ pc' \notin {"rename", "rename back"} /\ main.file # 0
    BY <1>12 DEF Rename, Logs
  <2>2. main'.file # 0 /\ unsynced' \subseteq unsynced \cup {Directory}
    <3>1. CASE Renamed(Fresh(candidate))
      <4>1. Fresh(candidate) \in Content
        BY <1>12 DEF Rename, Held, Placing, LoopTypes, Fresh, Content, Databases
      <4>2. main.file \in Nat /\ main'.file = main.file + 1 /\ unsynced' = unsynced \cup {Directory}
        BY <3>1, <4>1, RenamedFile
      <4> QED
        BY <4>2
    <3>2. CASE UNCHANGED <<main, unsynced, replaced>>
      BY <2>1, <3>2
    <3> QED
      BY <1>12, <3>1, <3>2 DEF Rename
  <2> QED
    BY <2>1, <2>2, LogsKept
<1>13. CASE RenameBack
  <2> HIDE DEF Logs, Matches, Directory
  <2>1. wal = None /\ wal' = wal /\ pc' \notin {"rename", "rename back"}
    BY <1>13 DEF RenameBack, Logs
  <2>2. main'.file # 0 /\ unsynced' \subseteq unsynced \cup {Directory}
    <3>1. copy \in Content
      BY <1>13 DEF RenameBack, Held, Preserved, FileTypes
    <3>2. main.file \in Nat /\ main'.file = main.file + 1 /\ unsynced' = unsynced \cup {Directory}
      BY <1>13, <3>1, RenamedFile DEF RenameBack
    <3> QED
      BY <3>2
  <2> QED
    BY <2>1, <2>2, LogsKept
<1>14. CASE Resume
  <2> HIDE DEF Logs, Matches, Directory
  <2>1. main'.file = main.file /\ wal' \in {wal, None} /\ UNCHANGED unsynced /\ pc' = "reinitialize"
    BY <1>14, Checkpointed DEF Resume
  <2> QED
    BY <2>1, LogsKept DEF Logs, Matches, Directory
<1>15. CASE LosePower
  <2> HIDE DEF Logs, Matches, Directory, Gone
  <2>1. Matches(Directory') /\ main'.file # Gone /\ unsynced' = {}
    BY <1>15, PowerLost
  <2>2. wal' = None \/ wal'.file = main'.file
    BY <2>1 DEF Matches, Directory
  <2>3. pc' = "stopped"
    BY <1>15 DEF LosePower, Ends
  <2> QED
    BY <2>1, <2>2, <2>3, LogsKept
<1>16. CASE Initialize \/ Reinitialize \/ Terminate \/ Crash \/ AutoCheckpoint
  <2> HIDE DEF Logs, Matches, Directory
  <2>1. CASE Leaves \/ AutoCheckpoint
    <3>1. main'.file = main.file /\ wal' \in {wal, None} /\ UNCHANGED unsynced
      BY <2>1, Left
    <3>2. UNCHANGED <<pc, stores>> \/ pc' = "stopped"
      BY <2>1 DEF Leaves, Ends, AutoCheckpoint
    <3>3. /\ pc' \in {"rename", "rename back"} => \A h \in stores' : h.file = Gone
          /\ pc' \in Swapping => wal' = None
      BY <3>1, <3>2 DEF Logs
    <3> QED
      BY <3>1, <3>3, LogsKept DEF Logs, Matches, Directory
  <2>2. CASE UNCHANGED fileVars
    <3>1. pc' = pc \/ pc' = "stopped" \/ pc' = "done"
      BY <1>16 DEF Initialize, Reinitialize, Terminate, Crash, AutoCheckpoint, Leaves, Ends
    <3>2. pc' = pc => stores' = stores \/ pc = "top" \/ pc = "stopped"
      BY <1>16 DEF Initialize, Reinitialize, Terminate, Crash, AutoCheckpoint, Leaves, Ends
    <3> QED
      BY <2>2, <3>1, <3>2, LogsKept DEF Logs, Matches, Directory
  <2>3. Leaves \/ AutoCheckpoint \/ UNCHANGED fileVars
    BY <1>16 DEF Initialize, Reinitialize, Terminate, Crash
  <2> QED
    BY <2>1, <2>2, <2>3
<1> HIDE DEF IInv, Logs, Matches, Directory, Gone, Swapping, Preserved
<1> QED
  BY <1>1, <1>2, <1>3, <1>4, <1>5, <1>6, <1>7, <1>8, <1>9, <1>10, <1>11, <1>12, <1>13, <1>14, <1>15, <1>16 DEF Next, Loop, Activation

\* The copy and the candidate are there when they are needed.
LEMMA HeldNext == IInv /\ [Next]_vars => Held'
<1> SUFFICES ASSUME IInv, [Next]_vars PROVE Held'
  OBVIOUS
<1> USE RestoreAssumption DEF IInv, Held, Preserved, Placing, fileVars, storeVars, flagVars, handlerVars, Goto
<1>1. CASE UNCHANGED vars
  BY <1>1 DEF vars
<1>2. CASE Initialize \/ ServeOnce \/ TakeCandidate \/ Drain \/ CloseLive \/ Unlink \/ Rename \/
            Sync \/ Reinit \/ CopyBack \/ RenameBack \/ SyncBack \/ GiveUp \/ Reopen \/ Resume \/
            Reinitialize \/ Done \/ Terminate \/ Crash \/ LosePower \/ AutoCheckpoint \/ Start
  BY <1>2 DEF Initialize, Opens, Leaves, Ends, ServeOnce, TakeCandidate, Drain, CloseLive, Forget, Checkpoint,
     Found, Unlink, Unlinked, Directory, Gone, Rename, Renamed, Fresh, Sync, Reinit, CopyBack,
     RenameBack, SyncBack, GiveUp, Reopen, Resume, Reinitialize, Done, Terminate,
     Crash, LosePower, AutoCheckpoint, LogMoved, Reaches, Start
<1>3. ASSUME NEW c \in Changes, Arrive(c) PROVE Held'
  BY <1>3 DEF Arrive, Admitted
<1>4. ASSUME NEW c \in Changes, Commit(c) PROVE Held'
  BY <1>4 DEF Commit
<1>5. ASSUME NEW c \in Changes, Fail(c) PROVE Held'
  BY <1>5 DEF Fail
<1>6. ASSUME NEW r \in Restores, Upload(r) PROVE Held'
  BY <1>6 DEF Upload, Admitted
<1>7. ASSUME NEW r \in Restores, Stage(r) PROVE Held'
  BY <1>7 DEF Stage
<1>8. ASSUME NEW r \in Restores, Claim(r) PROVE Held'
  BY <1>8 DEF Claim, MayClaim
<1>9. ASSUME NEW r \in Restores, Send(r) PROVE Held'
  BY <1>9 DEF Send
<1>10. CASE Preserve
  BY <1>10, FoundWhole DEF Preserve
<1> HIDE DEF IInv, Held, Preserved, Placing
<1> QED
  BY <1>1, <1>2, <1>3, <1>4, <1>5, <1>6, <1>7, <1>8, <1>9, <1>10 DEF Next, Loop, Activation

\* The gate passes from a request to the queue to the loop, and back.
LEMMA GateNext == IInv /\ [Next]_vars => Gate'
<1> SUFFICES ASSUME IInv, [Next]_vars PROVE Gate'
  OBVIOUS
<1> USE RestoreAssumption DEF IInv, Gate, LoopTypes, HandlerTypes, Places, Placing, Under, fileVars, storeVars, flagVars, handlerVars, Goto
<1>1. CASE UNCHANGED vars
  BY <1>1 DEF vars
<1>2. CASE ServeOnce \/ TakeCandidate \/ Drain \/ Preserve \/ CloseLive \/ Unlink \/ Rename \/ Sync
  BY <1>2 DEF ServeOnce, TakeCandidate, Drain, Preserve, CloseLive, Unlink, Rename, Sync
<1>11. CASE Reinit \/ CopyBack \/ RenameBack \/ SyncBack \/ Reopen \/ Resume \/ Done \/ AutoCheckpoint \/ Start
  BY <1>11 DEF Reinit, Opens, CopyBack, RenameBack, SyncBack, Reopen, Resume, Done, AutoCheckpoint, Start
<1>12. CASE Ends
  <2>1. pc' = "stopped" /\ queue' = None /\ quiescent' = FALSE /\ \A r \in Restores : request'[r] \in {"idle", "gone"}
    BY <1>12 DEF Ends
  <2> QED
    BY <2>1
<1>13. CASE Reinitialize
  <2>1. CASE pc' = "done" /\ UNCHANGED <<quiescent, queue, request>>
    BY <1>13, <2>1 DEF Reinitialize
  <2> QED
    BY <1>12, <1>13, <2>1 DEF Reinitialize, Leaves
<1>3. ASSUME NEW c \in Changes, Arrive(c) PROVE Gate'
  BY <1>3 DEF Arrive, Admitted
<1>4. ASSUME NEW c \in Changes, Commit(c) PROVE Gate'
  BY <1>4 DEF Commit
<1>5. ASSUME NEW c \in Changes, Fail(c) PROVE Gate'
  BY <1>5 DEF Fail
<1>6. ASSUME NEW r \in Restores, Upload(r) PROVE Gate'
  BY <1>6 DEF Upload, Admitted
<1>7. ASSUME NEW r \in Restores, Stage(r) PROVE Gate'
  <2>1. PICK to \in {"staged", "rejected"} : request' = [request EXCEPT ![r] = to]
    BY <1>7 DEF Stage
  <2>2. request[r] = "staging" /\ UNCHANGED <<quiescent, queue, pc>>
    BY <1>7 DEF Stage
  <2>3. \A q \in Restores : request'[q] = IF q = r THEN to ELSE request[q]
    BY <2>1
  <2> HIDE DEF Under
  <2> QED
    BY <2>2, <2>3
<1>8. ASSUME NEW r \in Restores, Claim(r) PROVE Gate'
  <2>1. request[r] = "staged" /\ UNCHANGED <<queue, pc>>
    BY <1>8 DEF Claim
  <2>2. CASE ~quiescent
    <3>1. quiescent' = TRUE /\ request' = [request EXCEPT ![r] = "claimed"]
      BY <1>8, <2>2 DEF Claim, MayClaim
    <3>2. queue = None /\ pc \notin Under /\ \A q \in Restores : request[q] # "claimed"
      BY <2>2
    <3>3. \A q \in Restores : request'[q] = "claimed" => q = r
      BY <3>1, <3>2
    <3> HIDE DEF Under
    <3> QED
      BY <2>1, <3>1, <3>2, <3>3
  <2>3. CASE quiescent
    <3>1. quiescent' = quiescent /\ request' = [request EXCEPT ![r] = "rejected"]
      BY <1>8, <2>3 DEF Claim, MayClaim
    <3>2. \A q \in Restores : q # r => request'[q] = request[q]
      BY <3>1
    <3>3. request'[r] = "rejected"
      BY <3>1
    <3>4. queue # None => queue # r /\ request'[queue] = "accepted"
      BY <2>1, <3>2, <3>3
    <3> HIDE DEF Under
    <3> QED
      BY <2>1, <3>1, <3>2, <3>3, <3>4
  <2> QED
    BY <2>2, <2>3
<1>9. ASSUME NEW r \in Restores, Send(r) PROVE Gate'
  <2>1. queue = None /\ quiescent /\ pc \notin Under /\ request' = [request EXCEPT ![r] = "accepted"]
        /\ queue' = r /\ UNCHANGED <<quiescent, pc>>
    BY <1>9 DEF Send
  <2>2. \A q \in Restores : request'[q] # "claimed"
    BY <1>9, <2>1 DEF Send
  <2> HIDE DEF Under
  <2> QED
    BY <2>1, <2>2
<1>10. CASE Initialize
  <2>1. CASE UNCHANGED <<quiescent, serving, queue, candidate, handlerVars, pc, starts>>
    BY <2>1
  <2>2. CASE Ends
    BY <2>2 DEF Ends
  <2> QED
    BY <1>10, <2>1, <2>2 DEF Initialize, Leaves
<1> HIDE DEF IInv, Gate, LoopTypes, HandlerTypes, Places, Placing, Under
<1> QED
  BY <1>1, <1>2, <1>3, <1>4, <1>5, <1>6, <1>7, <1>8, <1>9, <1>10, <1>11, <1>12, <1>13 DEF Next, Loop, Activation, GiveUp, Terminate, Crash, LosePower, Leaves

\* The doors are closed before the files are touched.
LEMMA DoorsNext == IInv /\ [Next]_vars => Doors'
<1> SUFFICES ASSUME IInv, [Next]_vars PROVE Doors'
  OBVIOUS
<1> USE RestoreAssumption DEF IInv, Doors, Gate, Under, Placing, Unready, Closed, fileVars, storeVars, flagVars, handlerVars, Goto
<1>1. CASE UNCHANGED vars
  BY <1>1 DEF vars
<1>2. CASE Initialize
  BY <1>2 DEF Initialize, Opens, Leaves, Ends
<1>3. CASE ServeOnce
  BY <1>3 DEF ServeOnce
<1>4. CASE TakeCandidate
  BY <1>4 DEF TakeCandidate
<1>5. CASE Drain
  BY <1>5 DEF Drain
<1>6. CASE Preserve
  BY <1>6 DEF Preserve, Found
<1>7. CASE CloseLive
  BY <1>7 DEF CloseLive, Forget, Checkpoint, Found
<1>8. CASE Rename
  BY <1>8 DEF Rename, Renamed, Directory, Found, Fresh
<1>9. CASE Sync
  BY <1>9 DEF Sync
<1>10. CASE CopyBack
  BY <1>10 DEF CopyBack
<1>11. CASE RenameBack
  BY <1>11 DEF RenameBack, Renamed, Directory
<1>12. CASE SyncBack
  BY <1>12 DEF SyncBack
<1>13. CASE GiveUp
  BY <1>13 DEF GiveUp, Ends
<1>14. CASE Reopen
  BY <1>14 DEF Reopen, Opens
<1>15. CASE Resume
  BY <1>15 DEF Resume, Forget, Checkpoint, Found
<1>16. CASE Done
  BY <1>16 DEF Done
<1>17. CASE Terminate
  BY <1>17 DEF Terminate, Leaves, Ends
<1>18. CASE Crash \/ LosePower
  <2>1. pc' = "stopped" /\ ready' = FALSE /\ serving' = FALSE /\ stores' = {}
    BY <1>18 DEF Crash, LosePower, Ends
  <2> QED
    BY <2>1
<1>19. CASE Start
  BY <1>19 DEF Start
<1>20. ASSUME NEW c \in Changes, Arrive(c) PROVE Doors'
  BY <1>20 DEF Arrive, Admitted
<1>21. ASSUME NEW c \in Changes, Commit(c) PROVE Doors'
  BY <1>21 DEF Commit
<1>22. ASSUME NEW c \in Changes, Fail(c) PROVE Doors'
  BY <1>22 DEF Fail
<1>23. ASSUME NEW r \in Restores, Upload(r) PROVE Doors'
  BY <1>23 DEF Upload, Admitted
<1>24. ASSUME NEW r \in Restores, Stage(r) PROVE Doors'
  BY <1>24 DEF Stage
<1>25. ASSUME NEW r \in Restores, Claim(r) PROVE Doors'
  BY <1>25 DEF Claim, MayClaim
<1>26. ASSUME NEW r \in Restores, Send(r) PROVE Doors'
  BY <1>26 DEF Send
<1>27. CASE Unlink
  <2>1. \A h \in stores' : \E g \in stores : g.id = h.id
    BY <1>27, UnlinkedHandles DEF Unlink
  <2>2. pc \in {"unlink", "unlink back"} /\ pc' \in {"rename", "rename back", "copy back"} /\ UNCHANGED <<ready, serving, store>>
    BY <1>27 DEF Unlink
  <2> QED
    BY <2>1, <2>2
<1>28. CASE Reinit
  <2>1. CASE Opens /\ pc' = "done"
    BY <1>28, <2>1 DEF Reinit
  <2>2. CASE UNCHANGED <<stores, store, ready>> /\ pc' = "copy back"
    BY <1>28, <2>2 DEF Reinit
  <2> QED
    BY <1>28, <2>1, <2>2 DEF Reinit
<1>29. CASE Reinitialize
  <2>1. CASE pc' = "done" /\ UNCHANGED serving
    BY <1>29, <2>1 DEF Reinitialize
  <2>2. CASE Ends
    BY <2>2 DEF Ends
  <2> QED
    BY <1>29, <2>1, <2>2 DEF Reinitialize, Leaves
<1>30. CASE AutoCheckpoint
  BY <1>30 DEF AutoCheckpoint
<1> HIDE DEF IInv, Doors, Gate, Under, Placing, Unready, Closed
<1> QED
  BY <1>1, <1>2, <1>3, <1>4, <1>5, <1>6, <1>7, <1>8, <1>9, <1>10, <1>11, <1>12, <1>13, <1>14, <1>15, <1>16, <1>17, <1>18, <1>19, <1>20, <1>21, <1>22, <1>23, <1>24, <1>25, <1>26, <1>27, <1>28, <1>29, <1>30 DEF Next, Loop, Activation

\* No two handles share an id.
LEMMA IdsNext == IInv /\ [Next]_vars => Ids'
<1> SUFFICES ASSUME IInv, [Next]_vars PROVE Ids'
  OBVIOUS
<1> USE RestoreAssumption DEF IInv, Ids, StoreTypes, fileVars, storeVars, flagVars, handlerVars, Goto
<1>1. CASE UNCHANGED vars
  BY <1>1 DEF vars
<1>2. CASE ServeOnce \/ TakeCandidate \/ Drain \/ Preserve \/ CloseLive \/ Rename
  BY <1>2 DEF ServeOnce, TakeCandidate, Drain, Preserve, Found, CloseLive, Forget, Checkpoint, Rename,
     Renamed, Directory, Fresh
<1>3. CASE Sync \/ CopyBack \/ RenameBack \/ SyncBack \/ Resume \/ Done
  BY <1>3 DEF Sync, CopyBack, RenameBack, Renamed, Directory, SyncBack, Resume, Forget, Checkpoint,
     Found, Done
<1>4. CASE Terminate \/ Crash \/ LosePower \/ AutoCheckpoint \/ Start
  BY <1>4 DEF Terminate, Leaves, Ends, Crash, LosePower, AutoCheckpoint, Start
<1>5. ASSUME NEW c \in Changes, Arrive(c) PROVE Ids'
  BY <1>5 DEF Arrive, Admitted
<1>6. ASSUME NEW c \in Changes, Commit(c) PROVE Ids'
  BY <1>6 DEF Commit
<1>7. ASSUME NEW c \in Changes, Fail(c) PROVE Ids'
  BY <1>7 DEF Fail
<1>8. ASSUME NEW r \in Restores, Upload(r) PROVE Ids'
  BY <1>8 DEF Upload, Admitted
<1>9. ASSUME NEW r \in Restores, Stage(r) PROVE Ids'
  BY <1>9 DEF Stage
<1>10. ASSUME NEW r \in Restores, Claim(r) PROVE Ids'
  BY <1>10 DEF Claim, MayClaim
<1>11. ASSUME NEW r \in Restores, Send(r) PROVE Ids'
  BY <1>11 DEF Send
<1>12. CASE Initialize
  <2>1. CASE Opens
    BY <2>1, Opened
  <2>2. CASE Ends
    BY <2>2 DEF Ends
  <2> QED
    BY <1>12, <2>1, <2>2 DEF Initialize, Leaves
<1>13. CASE Unlink
  <2>1. CASE Unlinked
    BY <1>13, <2>1, UnlinkedHandles DEF Unlink
  <2>2. CASE UNCHANGED stores
    BY <1>13, <2>2 DEF Unlink
  <2> QED
    BY <1>13, <2>1, <2>2 DEF Unlink
<1>14. CASE Reinit
  <2>1. CASE Opens
    BY <2>1, Opened
  <2>2. CASE UNCHANGED storeVars
    BY <2>2
  <2> QED
    BY <1>14, <2>1, <2>2 DEF Reinit
<1>15. CASE GiveUp
  <2>1. stores' = {} /\ store' = 0 /\ opened' = opened
    BY <1>15 DEF GiveUp, Ends
  <2> QED
    BY <2>1
<1>16. CASE Reopen
  BY <1>16, Opened DEF Reopen
<1>17. CASE Reinitialize
  <2>1. CASE Opens
    BY <2>1, Opened
  <2>2. CASE Ends
    BY <2>2 DEF Ends
  <2> QED
    BY <1>17, <2>1, <2>2 DEF Reinitialize, Leaves
<1> HIDE DEF IInv, Ids, StoreTypes
<1> QED
  BY <1>1, <1>2, <1>3, <1>4, <1>5, <1>6, <1>7, <1>8, <1>9, <1>10, <1>11, <1>12, <1>13, <1>14, <1>15, <1>16, <1>17 DEF Next, Loop, Activation

\* Handlers whose connection is open run on the store in use.
LEMMA HandlesNext == IInv /\ [Next]_vars => Handles'
<1> SUFFICES ASSUME IInv, [Next]_vars PROVE Handles'
  OBVIOUS
<1> USE RestoreAssumption DEF IInv, Handles, Gate, Doors, Unready, Under, Placing, LoopTypes, HandlerTypes, Ids, fileVars, storeVars, flagVars, handlerVars, Goto
<1>1. CASE UNCHANGED vars
  BY <1>1 DEF vars
<1>2. CASE Initialize \/ ServeOnce \/ TakeCandidate \/ Drain \/ Preserve \/ CloseLive \/ Unlink \/
            Rename \/ Sync \/ Reinit \/ CopyBack \/ RenameBack \/ SyncBack \/ GiveUp \/ Reopen \/
            Resume \/ Reinitialize \/ Done \/ Terminate \/ Crash \/ LosePower
  BY <1>2 DEF Initialize, Opens, Leaves, Ends, ServeOnce, TakeCandidate, Drain, Preserve, Found, CloseLive,
     Forget, Checkpoint, Unlink, Unlinked, Directory, Gone, Rename, Renamed, Fresh, Sync, Reinit,
     CopyBack, RenameBack, SyncBack, GiveUp, Reopen, Resume, Reinitialize, Done, Terminate, Crash,
     LosePower
<1>3. ASSUME NEW c \in Changes, Arrive(c) PROVE Handles'
  BY <1>3 DEF Arrive, Admitted
<1>4. ASSUME NEW c \in Changes, Commit(c) PROVE Handles'
  BY <1>4 DEF Commit
<1>5. ASSUME NEW c \in Changes, Fail(c) PROVE Handles'
  BY <1>5 DEF Fail
<1>6. ASSUME NEW r \in Restores, Upload(r) PROVE Handles'
  BY <1>6 DEF Upload, Admitted
<1>7. ASSUME NEW r \in Restores, Stage(r) PROVE Handles'
  BY <1>7 DEF Stage
<1>8. ASSUME NEW r \in Restores, Claim(r) PROVE Handles'
  BY <1>8 DEF Claim, MayClaim
<1>9. ASSUME NEW r \in Restores, Send(r) PROVE Handles'
  BY <1>9 DEF Send
<1>10. CASE Start
  <2>1. pc = "stopped" /\ pc' = "top" /\ UNCHANGED <<ready, writer, cut, handle, store, stores, main>>
    BY <1>10 DEF Start
  <2>2. ~ready
    BY <2>1
  <2> QED
    BY <2>1, <2>2
<1>11. CASE AutoCheckpoint
  <2>1. main'.file = main.file
    BY <1>11, Left
  <2> QED
    BY <1>11, <2>1 DEF AutoCheckpoint
<1> HIDE DEF IInv, Handles, Gate, Doors, Unready, Under, Placing, LoopTypes, HandlerTypes, Ids
<1> QED
  BY <1>1, <1>2, <1>3, <1>4, <1>5, <1>6, <1>7, <1>8, <1>9, <1>10, <1>11 DEF Next, Loop, Activation

\* Nor does a handler that lost its connection reach the file once the store is closed.
LEMMA LateNext == IInv /\ [Next]_vars => Late'
<1> SUFFICES ASSUME IInv, [Next]_vars PROVE Late'
  OBVIOUS
<1> USE RestoreAssumption DEF IInv, Late, StoreTypes, HandlerTypes, LoopTypes, Ids, fileVars, storeVars, flagVars, handlerVars, Goto
<1>1. CASE UNCHANGED vars
  BY <1>1 DEF vars
<1>2. CASE Initialize
  BY <1>2 DEF Initialize, Opens, Leaves, Ends
<1>3. CASE ServeOnce
  BY <1>3 DEF ServeOnce
<1>4. CASE TakeCandidate
  BY <1>4 DEF TakeCandidate
<1>5. CASE Drain
  BY <1>5 DEF Drain
<1>6. CASE Preserve
  BY <1>6 DEF Preserve, Found
<1>7. CASE Sync
  BY <1>7 DEF Sync
<1>8. CASE CopyBack
  BY <1>8 DEF CopyBack
<1>9. CASE SyncBack
  BY <1>9 DEF SyncBack
<1>10. CASE GiveUp
  BY <1>10 DEF GiveUp, Ends
<1>11. CASE Reopen
  BY <1>11 DEF Reopen, Opens
<1>12. CASE Reinitialize
  BY <1>12 DEF Reinitialize, Opens, Leaves, Ends
<1>13. CASE Done
  BY <1>13 DEF Done
<1>14. CASE Terminate
  BY <1>14 DEF Terminate, Leaves, Ends
<1>15. CASE Crash \/ LosePower
  BY <1>15 DEF Crash, LosePower, Ends
<1>16. CASE Start
  BY <1>16 DEF Start
<1>17. ASSUME NEW c \in Changes, Arrive(c) PROVE Late'
  BY <1>17 DEF Arrive, Admitted
<1>18. ASSUME NEW c \in Changes, Commit(c) PROVE Late'
  BY <1>18 DEF Commit
<1>19. ASSUME NEW c \in Changes, Fail(c) PROVE Late'
  BY <1>19 DEF Fail
<1>20. ASSUME NEW r \in Restores, Upload(r) PROVE Late'
  BY <1>20 DEF Upload, Admitted
<1>21. ASSUME NEW r \in Restores, Stage(r) PROVE Late'
  BY <1>21 DEF Stage
<1>22. ASSUME NEW r \in Restores, Claim(r) PROVE Late'
  BY <1>22 DEF Claim, MayClaim
<1>23. ASSUME NEW r \in Restores, Send(r) PROVE Late'
  BY <1>23 DEF Send
<1>24. CASE CloseLive
  <2>1. main'.file = main.file
    BY <1>24, Checkpointed DEF CloseLive
  <2>2. stores' = {h \in stores : h.id # store} /\ UNCHANGED <<writer, handle, opened, store>> /\ pc = "close"
    BY <1>24 DEF CloseLive, Forget
  <2> QED
    BY <2>1, <2>2
<1>25. CASE Unlink
  <2>1. UNCHANGED <<writer, handle, opened, store, main>> /\ main.file # Gone
        /\ pc \in {"unlink", "unlink back"} /\ pc' \in {"rename", "rename back", "copy back"}
    BY <1>25 DEF Unlink, Logs
  <2>2. CASE Unlinked
    <3>1. \A h \in stores' : h.file = Gone
      BY <1>25, <2>2, UnlinkedHandles DEF Unlink
    <3> QED
      BY <2>1, <3>1
  <2>3. CASE UNCHANGED stores
    BY <2>1, <2>3
  <2> QED
    BY <1>25, <2>2, <2>3 DEF Unlink
<1>26. CASE Rename
  <2>1. UNCHANGED <<writer, handle, opened, store, stores>> /\ pc = "rename" /\ \A h \in stores : h.file = Gone
    BY <1>26 DEF Rename, Logs
  <2>2. main'.file # Gone
    <3>1. CASE Renamed(Fresh(candidate))
      <4>1. Fresh(candidate) \in Content
        BY <1>26 DEF Rename, Held, Placing, Fresh, Content, Databases
      <4>2. main'.file = main.file + 1 /\ main.file \in Nat
        BY <3>1, <4>1, RenamedFile
      <4> QED
        BY <4>2 DEF Gone
    <3>2. CASE UNCHANGED main
      BY <3>2 DEF Logs
    <3> QED
      BY <1>26, <3>1, <3>2 DEF Rename
  <2> QED
    BY <2>1, <2>2
<1>27. CASE Reinit
  <2>1. CASE Opens
    <3>1. stores' = stores \cup {[id |-> opened + 1, file |-> main.file]} /\ opened' = opened + 1 /\ UNCHANGED main
          /\ pc = "reinit" /\ opened \in Nat
      BY <1>27, <2>1 DEF Reinit, Opens
    <3>2. \A c \in Changes : writer[c] = "running" => handle[c] \in Nat /\ handle[c] <= opened
      OBVIOUS
    <3>3. UNCHANGED <<writer, handle>>
      BY <1>27 DEF Reinit
    <3>4. \A c \in Changes, h \in stores' : writer[c] = "running" /\ h.id = handle[c] => h \in stores
      BY <3>1, <3>2
    <3>5. \A c \in Changes, h \in stores : writer[c] = "running" /\ h.id = handle[c] => h.file # main.file
      BY <3>1
    <3> QED
      BY <3>1, <3>2, <3>3, <3>4, <3>5
  <2>2. CASE UNCHANGED stores /\ pc' = "copy back"
    BY <1>27, <2>2 DEF Reinit
  <2> QED
    BY <1>27, <2>1, <2>2 DEF Reinit
<1>28. CASE RenameBack
  <2>1. UNCHANGED <<writer, handle, opened, store, stores>> /\ pc = "rename back" /\ \A h \in stores : h.file = Gone
    BY <1>28 DEF RenameBack, Logs
  <2>2. main'.file # Gone
    <3>1. copy \in Content
      BY <1>28 DEF RenameBack, Held, Preserved, FileTypes
    <3>2. main'.file = main.file + 1 /\ main.file \in Nat
      BY <1>28, <3>1, RenamedFile DEF RenameBack
    <3> QED
      BY <3>2 DEF Gone
  <2> QED
    BY <2>1, <2>2
<1>29. CASE Resume
  <2>1. main'.file = main.file
    BY <1>29, Checkpointed DEF Resume
  <2>2. stores' = {h \in stores : h.id # store} /\ UNCHANGED <<writer, handle, opened, store>> /\ pc = "resume"
    BY <1>29 DEF Resume, Forget
  <2> QED
    BY <2>1, <2>2
<1>30. CASE AutoCheckpoint
  <2>1. main'.file = main.file
    BY <1>30, Left
  <2> QED
    BY <1>30, <2>1 DEF AutoCheckpoint
<1> HIDE DEF IInv, Late, StoreTypes, HandlerTypes, LoopTypes, Ids
<1> QED
  BY <1>1, <1>2, <1>3, <1>4, <1>5, <1>6, <1>7, <1>8, <1>9, <1>10, <1>11, <1>12, <1>13, <1>14, <1>15, <1>16, <1>17, <1>18, <1>19, <1>20, <1>21, <1>22, <1>23, <1>24, <1>25, <1>26, <1>27, <1>28, <1>29, <1>30 DEF Next, Loop, Activation

\* No candidate is in the directory before it is put there.
LEMMA OriginsNext == IInv /\ [Next]_vars => Origins'
<1> SUFFICES ASSUME IInv, [Next]_vars PROVE Origins'
  OBVIOUS
<1> USE RestoreAssumption DEF IInv, Origins, Held, Gate, LoopTypes, HandlerTypes, Placed, Places, Placing, Under, Directory, Databases, Preserved, fileVars, storeVars, flagVars, handlerVars, Goto
<1>1. CASE UNCHANGED vars
  BY <1>1 DEF vars
<1>2. ASSUME Leaves PROVE Origins'
  <2>1. main'.content.from = main.content.from /\ UNCHANGED <<unsynced, copy>>
    BY <1>2, Left
  <2>2. queue' = None /\ candidate' = None /\ \A r \in Restores : request[r] \in {"accepted", "gone"} => request'[r] = "gone"
    BY <1>2 DEF Leaves, Ends
  <2>3. \A y : Placed(y) => Placed(y)'
    BY <2>2
  <2> HIDE DEF Placed, Directory
  <2> QED
    BY <2>1, <2>2, <2>3
<1>3. CASE ServeOnce
  BY <1>3 DEF ServeOnce
<1>4. CASE TakeCandidate
  BY <1>4 DEF TakeCandidate
<1>5. CASE Drain
  BY <1>5 DEF Drain
<1>6. CASE Sync
  BY <1>6 DEF Sync
<1>7. CASE Reinit
  BY <1>7 DEF Reinit, Opens
<1>8. CASE CopyBack
  BY <1>8 DEF CopyBack
<1>9. CASE SyncBack
  BY <1>9 DEF SyncBack
<1>10. CASE GiveUp
  BY <1>10 DEF GiveUp, Ends
<1>11. CASE Reopen
  BY <1>11 DEF Reopen, Opens
<1>12. CASE Done
  BY <1>12 DEF Done
<1>13. CASE Terminate
  BY <1>2, <1>13 DEF Terminate
<1>14. CASE Start
  BY <1>14 DEF Start
<1>15. ASSUME NEW c \in Changes, Arrive(c) PROVE Origins'
  BY <1>15 DEF Arrive, Admitted
<1>16. ASSUME NEW c \in Changes, Commit(c) PROVE Origins'
  BY <1>16 DEF Commit
<1>17. ASSUME NEW c \in Changes, Fail(c) PROVE Origins'
  BY <1>17 DEF Fail
<1>18. ASSUME NEW r \in Restores, Upload(r) PROVE Origins'
  BY <1>18 DEF Upload, Admitted
<1>19. ASSUME NEW r \in Restores, Stage(r) PROVE Origins'
  BY <1>19 DEF Stage
<1>20. ASSUME NEW r \in Restores, Claim(r) PROVE Origins'
  BY <1>20 DEF Claim, MayClaim
<1>21. ASSUME NEW r \in Restores, Send(r) PROVE Origins'
  BY <1>21 DEF Send
<1>22. CASE Preserve
  <2> HIDE DEF Origins, Placed, Directory
  <2>1. UNCHANGED <<request, queue, main, unsynced, candidate>> /\ (copy' = Found \/ copy' = copy)
    BY <1>22 DEF Preserve
  <2>2. Placed(main.content.from)
    BY DEF Origins
  <2> QED
    BY <2>1, <2>2, FoundWhole, OriginsKept
<1>23. CASE CloseLive
  <2> HIDE DEF Origins, Placed, Directory
  <2>1. UNCHANGED <<request, queue, copy, unsynced, candidate>> /\ main'.content.from = main.content.from
    BY <1>23, Checkpointed DEF CloseLive
  <2>2. Placed(main.content.from)
    BY DEF Origins
  <2> QED
    BY <2>1, <2>2, OriginsKept
<1>24. CASE Unlink
  <2> HIDE DEF Origins, Placed, Directory
  <2>1. /\ UNCHANGED <<request, queue, copy, main, candidate>>
        /\ unsynced' = unsynced \cup {Directory} \/ unsynced' = unsynced
    BY <1>24 DEF Unlink
  <2>2. Placed(main.content.from)
    BY DEF Origins
  <2> QED
    BY <2>1, <2>2, OriginsKept
<1>25. CASE Rename
  <2> HIDE DEF Origins, Placed, Directory
  <2>1. UNCHANGED <<request, queue, copy, candidate>> /\ candidate # None /\ Placed(candidate) /\ Placed(main.content.from)
    BY <1>25 DEF Rename, Held, Placing, Origins
  <2>2. CASE Renamed(Fresh(candidate))
    <3>1. Fresh(candidate) \in Content /\ Fresh(candidate).from = candidate
      BY <1>25, <2>1 DEF Fresh, Content, Databases, LoopTypes
    <3>2. main'.content.from = candidate /\ unsynced' = unsynced \cup {Directory}
      BY <2>2, <3>1, RenamedFile
    <3> QED
      BY <2>1, <3>2, OriginsKept
  <2>3. CASE UNCHANGED <<main, unsynced, replaced>>
    BY <2>1, <2>3, OriginsKept
  <2> QED
    BY <1>25, <2>2, <2>3 DEF Rename
<1>26. CASE RenameBack
  <2> HIDE DEF Origins, Placed, Directory
  <2>1. UNCHANGED <<request, queue, copy, candidate>> /\ copy # None /\ copy \in Content /\ Placed(copy.from)
    BY <1>26 DEF RenameBack, Held, Preserved, FileTypes, Origins
  <2>2. main'.content.from = copy.from /\ unsynced' = unsynced \cup {Directory}
    BY <1>26, <2>1, RenamedFile DEF RenameBack
  <2> QED
    BY <2>1, <2>2, OriginsKept
<1>27. CASE Resume
  <2> HIDE DEF Origins, Placed, Directory
  <2>1. UNCHANGED <<request, queue, copy, unsynced>> /\ candidate' = None /\ main'.content.from = main.content.from
    BY <1>27, Checkpointed DEF Resume
  <2>2. Placed(main.content.from)
    BY DEF Origins
  <2> QED
    BY <2>1, <2>2, OriginsKept
<1>28. CASE Initialize \/ Reinitialize
  <2>1. CASE Leaves
    BY <1>2, <2>1
  <2>2. CASE UNCHANGED <<main, copy, unsynced, queue, candidate, request>>
    BY <2>2
  <2> QED
    BY <1>28, <2>1, <2>2 DEF Initialize, Reinitialize
<1>29. CASE LosePower
  <2> HIDE DEF Placed, Directory
  <2>1. PICK d \in unsynced \cup {Directory} : main' = d.main
    BY <1>29, PowerLost
  <2>2. Placed(d.main.content.from)
    <3>1. Placed(Directory.main.content.from)
      BY DEF Directory
    <3> QED
      BY <2>1, <3>1
  <2>3. unsynced' = {} /\ queue' = None /\ candidate' = None /\ copy' = copy
        /\ \A r \in Restores : request[r] \in {"accepted", "gone"} => request'[r] = "gone"
    BY <1>29 DEF LosePower, Ends
  <2>4. \A y : Placed(y) => Placed(y)'
    BY <2>3 DEF Placed
  <2> QED
    BY <2>1, <2>2, <2>3, <2>4
<1>30. CASE AutoCheckpoint
  <2> HIDE DEF Origins, Placed, Directory
  <2>1. main'.content.from = main.content.from /\ UNCHANGED <<unsynced, copy, request, queue, candidate>>
    BY <1>30, Left DEF AutoCheckpoint
  <2>2. Placed(main.content.from)
    BY DEF Origins
  <2> QED
    BY <2>1, <2>2, OriginsKept
<1>31. CASE Crash
  <2>1. queue' = None /\ candidate' = None /\ UNCHANGED <<main, unsynced, copy>>
        /\ \A r \in Restores : request[r] \in {"accepted", "gone"} => request'[r] = "gone"
    BY <1>31 DEF Crash, Ends
  <2>2. \A y : Placed(y) => Placed(y)'
    BY <2>1
  <2> HIDE DEF Placed, Directory
  <2> QED
    BY <2>1, <2>2
<1> HIDE DEF IInv, Origins, Held, Gate, LoopTypes, HandlerTypes, Placed, Places, Placing, Under, Directory, Databases, Preserved
<1> QED
  BY <1>1, <1>3, <1>4, <1>5, <1>6, <1>7, <1>8, <1>9, <1>10, <1>11, <1>12, <1>13, <1>14, <1>15, <1>16, <1>17, <1>18, <1>19, <1>20, <1>21, <1>22, <1>23, <1>24, <1>25, <1>26, <1>27, <1>28, <1>29, <1>30, <1>31 DEF Next, Loop, Activation

\* Nor is anybody told of a change in it.
LEMMA UntoldNext == IInv /\ [Next]_vars => Untold'
<1> SUFFICES ASSUME IInv, [Next]_vars PROVE Untold'
  OBVIOUS
<1> USE RestoreAssumption DEF IInv, Untold, Handles, Held, Origins, Gate, LoopTypes, HandlerTypes, Placed, Places, Placing, Under, Databases, fileVars, storeVars, flagVars, handlerVars, Goto
<1>1. CASE UNCHANGED vars
  BY <1>1 DEF vars
<1>2. CASE Initialize
  BY <1>2 DEF Initialize, Opens, Leaves, Ends
<1>3. CASE TakeCandidate
  BY <1>3 DEF TakeCandidate
<1>4. CASE Drain
  BY <1>4 DEF Drain
<1>5. CASE Preserve
  BY <1>5 DEF Preserve, Found
<1>6. CASE CloseLive
  BY <1>6 DEF CloseLive, Forget, Checkpoint, Found
<1>7. CASE Unlink
  BY <1>7 DEF Unlink, Unlinked, Directory, Gone
<1>8. CASE Rename
  BY <1>8 DEF Rename, Renamed, Directory, Found, Fresh
<1>9. CASE Sync
  BY <1>9 DEF Sync
<1>10. CASE Reinit
  BY <1>10 DEF Reinit, Opens
<1>11. CASE CopyBack
  BY <1>11 DEF CopyBack
<1>12. CASE RenameBack
  BY <1>12 DEF RenameBack, Renamed, Directory
<1>13. CASE SyncBack
  BY <1>13 DEF SyncBack
<1>14. CASE GiveUp
  BY <1>14 DEF GiveUp, Ends
<1>15. CASE Reopen
  BY <1>15 DEF Reopen, Opens
<1>16. CASE Resume
  BY <1>16 DEF Resume, Forget, Checkpoint, Found
<1>17. CASE Done
  BY <1>17 DEF Done
<1>18. CASE Terminate
  BY <1>18 DEF Terminate, Leaves, Ends
<1>19. CASE Crash \/ LosePower
  <2>1. pc' = "stopped" /\ candidate' = None /\ queue' = None /\ told' = told /\ None \notin Databases
        /\ \A r \in Restores : request[r] \in {"accepted", "gone"} => request'[r] = "gone"
    BY <1>19 DEF Crash, LosePower, Ends
  <2>2. \A x : Placed(x) => Placed(x)'
    BY <2>1
  <2> HIDE DEF Placed
  <2> QED
    BY <2>1, <2>2
<1>20. CASE Start
  BY <1>20 DEF Start
<1>21. ASSUME NEW c \in Changes, Arrive(c) PROVE Untold'
  BY <1>21 DEF Arrive, Admitted
<1>22. ASSUME NEW c \in Changes, Commit(c) PROVE Untold'
  BY <1>22 DEF Commit
<1>23. ASSUME NEW c \in Changes, Fail(c) PROVE Untold'
  BY <1>23 DEF Fail
<1>24. ASSUME NEW r \in Restores, Upload(r) PROVE Untold'
  BY <1>24 DEF Upload, Admitted
<1>25. ASSUME NEW r \in Restores, Stage(r) PROVE Untold'
  BY <1>25 DEF Stage
<1>26. ASSUME NEW r \in Restores, Claim(r) PROVE Untold'
  BY <1>26 DEF Claim, MayClaim
<1>27. ASSUME NEW r \in Restores, Send(r) PROVE Untold'
  BY <1>27 DEF Send
<1>28. CASE ServeOnce
  <2>1. pc = "top" /\ UNCHANGED <<request, queue, candidate, told>>
    BY <1>28 DEF ServeOnce
  <2> QED
    BY <1>28, <2>1 DEF ServeOnce
<1>29. CASE Reinitialize
  <2>1. pc' \in {"done", "stopped"} /\ UNCHANGED told
    BY <1>29 DEF Reinitialize, Leaves, Ends
  <2>2. candidate = None /\ candidate' = None /\ None \notin Databases
    BY <1>29 DEF Reinitialize, Leaves, Ends
  <2>3. \A x : Placed(x) => Placed(x)'
    <3>1. CASE Opens
      BY <1>29, <3>1 DEF Reinitialize, Leaves, Ends, Opens
    <3>2. CASE Ends
      BY <3>2 DEF Ends
    <3> QED
      BY <1>29, <3>1, <3>2 DEF Reinitialize, Leaves
  <2> HIDE DEF Placed
  <2> QED
    BY <2>1, <2>2, <2>3
<1>30. CASE AutoCheckpoint
  <2>1. main'.content.from = main.content.from
    BY <1>30, Left
  <2> HIDE DEF Placed
  <2>2. \A x : Placed(x)' <=> Placed(x)
    BY <1>30 DEF AutoCheckpoint, Placed
  <2> QED
    BY <1>30, <2>1, <2>2 DEF AutoCheckpoint
<1> HIDE DEF IInv, Untold, Handles, Held, Origins, Gate, LoopTypes, HandlerTypes, Placed, Places, Placing, Under, Databases
<1> QED
  BY <1>1, <1>2, <1>3, <1>4, <1>5, <1>6, <1>7, <1>8, <1>9, <1>10, <1>11, <1>12, <1>13, <1>14, <1>15, <1>16, <1>17, <1>18, <1>19, <1>20, <1>21, <1>22, <1>23, <1>24, <1>25, <1>26, <1>27, <1>28, <1>29, <1>30 DEF Next, Loop, Activation

\* Nothing that was told of is lost.
LEMMA KeptNext == IInv /\ [Next]_vars => Kept'
<1> SUFFICES ASSUME IInv, [Next]_vars PROVE Kept'
  OBVIOUS
<1> USE RestoreAssumption DEF IInv, fileVars, storeVars, flagVars, handlerVars, Goto
<1>1. ASSUME UNCHANGED <<main, wal, lost, told, copy, unsynced>>, pc' \in Preserved => pc \in Preserved,
             pc' \in Synced => pc \in Synced \/ unsynced = {}
      PROVE  Kept'
  BY <1>1, KeptKept, FoundUnchanged
<1>2. UNCHANGED vars \/ ServeOnce \/ TakeCandidate \/ Drain \/ Reinit \/ CopyBack \/ GiveUp \/ Reopen \/ Done \/ Crash => Kept'
  <2>1. UNCHANGED vars => UNCHANGED <<main, wal, lost, told, copy, unsynced, pc>>
    BY DEF vars
  <2>2. ServeOnce \/ TakeCandidate \/ Drain \/ Reinit \/ CopyBack \/ GiveUp \/ Reopen \/ Done \/ Crash =>
          /\ UNCHANGED <<main, wal, lost, told, copy, unsynced>>
          /\ pc' \in Preserved => pc \in Preserved
          /\ pc' \in Synced => pc \in Synced
    BY DEF ServeOnce, TakeCandidate, Drain, Reinit, CopyBack, GiveUp, Reopen, Done, Crash, Opens, Ends, Preserved, Synced
  <2> QED
    BY <1>1, <2>1, <2>2
<1>3. ASSUME NEW c \in Changes, Arrive(c) \/ Fail(c) PROVE Kept'
  BY <1>1, <1>3 DEF Arrive, Fail
<1>4. ASSUME NEW r \in Restores, Upload(r) \/ Stage(r) \/ Claim(r) \/ Send(r) PROVE Kept'
  BY <1>1, <1>4 DEF Upload, Stage, Claim, Send
<1>5. ASSUME NEW c \in Changes, Commit(c) PROVE Kept'
  <2>1. UNCHANGED <<main, copy, unsynced, pc, lost>>
    BY <1>5 DEF Commit
  <2>2. /\ Found'.from = Found.from /\ Found.changes \subseteq Found'.changes
        /\ wal' # wal => c \in Found'.changes
    BY <1>5, <2>1, CommitFinds, FoundUnchanged, FoundWhole DEF Content
  <2>3. CASE c \in cut
    <3>1. told' = told
      BY <1>5, <2>3 DEF Commit
    <3> QED
      BY <2>1, <2>2, <3>1, KeptKept
  <2>4. CASE c \notin cut
    <3>1. pc \in {"serve", "drain"} /\ handle[c] = store /\ told' = [told EXCEPT ![c] = main.content.from]
      BY <1>5, <2>4 DEF Commit, Handles
    <3>2. [id |-> store, file |-> main.file] \in stores
      BY <3>1 DEF Handles
    <3>3. Reaches(handle[c])
      BY <3>1, <3>2 DEF Reaches
    <3>4. wal' # wal
      <4>1. CASE wal = None
        <5>1. wal' = [file |-> main.file, commits |-> <<c>>, synced |-> 0]
          BY <1>5, <3>3, <4>1 DEF Commit
        <5>2. wal' \in Log
          BY <5>1 DEF Log, FileTypes
        <5> QED
          BY <4>1, <5>2
      <4>2. CASE wal # None
        <5>1. wal \in Log /\ wal' = [wal EXCEPT !.commits = Append(@, c)]
          BY <1>5, <3>3, <4>2 DEF Commit, FileTypes
        <5>2. wal'.commits = Append(wal.commits, c) /\ wal.commits \in Seq(Changes)
          BY <5>1 DEF Log
        <5>3. Len(wal'.commits) = Len(wal.commits) + 1 /\ Len(wal.commits) \in Nat
          BY <5>2
        <5> QED
          BY <5>3
      <4> QED
        BY <4>1, <4>2
    <3>5. Whole(Found)'
      BY <2>1, <2>2, <3>1, <3>4, FoundWhole DEF Whole, Kept, HandlerTypes
    <3>6. unsynced' = {} /\ pc' \notin Preserved
      BY <2>1, <3>1 DEF Kept, Synced, Preserved
    <3> QED
      BY <3>5, <3>6 DEF Kept
  <2> QED
    BY <2>3, <2>4
<1>6. CASE Preserve
  <2>1. UNCHANGED <<main, wal, unsynced, told, lost>> /\ pc = "preserve"
    BY <1>6 DEF Preserve
  <2>2. Found' = Found /\ unsynced' = {}
    BY <2>1, FoundUnchanged DEF Kept, Synced
  <2>3. Whole(Found)'
    BY <2>1, <2>2 DEF Kept, Whole
  <2>4. pc' \in Preserved => copy' = Found'
    BY <1>6, <2>2 DEF Preserve, Preserved
  <2>5. pc' \in Preserved => Whole(copy)'
    BY <2>3, <2>4 DEF Whole
  <2> QED
    BY <2>2, <2>3, <2>5 DEF Kept
<1>7. CASE CloseLive \/ Resume
  <2>1. UNCHANGED <<copy, unsynced, told, lost>> /\ (Checkpoint(store) \/ UNCHANGED <<main, wal>>)
        /\ (pc' \in Preserved => pc \in Preserved) /\ pc \in Synced
    BY <1>7 DEF CloseLive, Resume, Preserved, Synced
  <2>2. Found' = Found
    BY <2>1, Checkpointed
  <2> QED
    BY <2>1, <2>2, KeptKept
<1>8. CASE Unlink
  <2>1. /\ UNCHANGED <<copy, told, main, lost>> /\ wal = None /\ wal' = None
        /\ pc \in {"unlink", "unlink back"} /\ pc' \in {"rename", "rename back", "copy back"}
        /\ unsynced' = unsynced \cup {Directory} \/ unsynced' = unsynced
    BY <1>8 DEF Unlink, Unlinked, Logs, Swapping, Preserved
  <2>2. Found' = Found /\ FoundIn(Directory) = Found
    BY <2>1, FoundUnchanged, FoundWhole
  <2>3. Whole(Found) /\ Whole(copy) /\ \A d \in unsynced' : Whole(FoundIn(d))
    BY <2>1, <2>2 DEF Kept, Preserved
  <2>4. \A x : Whole(x)' <=> \A c \in Changes : told[c] = x'.from => c \in x'.changes \cup lost
    BY <2>1 DEF Whole
  <2>5. \A d : FoundIn(d)' = FoundIn(d)
    BY DEF FoundIn
  <2> QED
    BY <2>1, <2>2, <2>3, <2>5 DEF Kept, Whole, Synced, Preserved
<1>9. CASE Rename
  <2>1. UNCHANGED <<copy, told, candidate, wal, lost>> /\ wal = None /\ pc = "rename" /\ candidate # None
    BY <1>9 DEF Rename, Logs, Swapping, Preserved, Held, Placing
  <2>2. /\ Whole(Found) /\ Whole(copy) /\ FoundIn(Directory) = Found
        /\ \A d \in unsynced : Whole(FoundIn(d))
    BY <2>1, FoundWhole DEF Kept, Preserved
  <2>3. CASE Renamed(Fresh(candidate)) /\ pc' = "sync"
    <3>1. Fresh(candidate) \in Content /\ Fresh(candidate).from = candidate
      BY <2>1 DEF Fresh, Content, Databases, LoopTypes
    <3>2. main'.content = Fresh(candidate) /\ unsynced' = unsynced \cup {Directory}
      BY <2>3, <3>1, RenamedFile
    <3>3. Found' = Fresh(candidate)
      BY <2>1, <3>2 DEF Found, FoundIn, Directory
    <3>4. Whole(Fresh(candidate))
      BY <2>1, <3>1 DEF Whole, Untold
    <3>5. \A d \in unsynced' : Whole(FoundIn(d))
      BY <2>2, <3>2
    <3>6. \A d : FoundIn(d)' = FoundIn(d)
      BY DEF FoundIn
    <3> QED
      BY <2>1, <2>2, <2>3, <3>3, <3>4, <3>5, <3>6 DEF Kept, Whole, Synced, Preserved
  <2>4. CASE pc' = "copy back" /\ UNCHANGED <<main, unsynced>>
    BY <1>1, <2>1, <2>4 DEF Synced, Preserved
  <2> QED
    BY <1>9, <2>3, <2>4 DEF Rename
<1>10. CASE RenameBack
  <2>1. UNCHANGED <<copy, told, wal, lost>> /\ wal = None /\ pc = "rename back" /\ pc' = "sync back" /\ copy # None
    BY <1>10 DEF RenameBack, Logs, Swapping, Held, Preserved
  <2>2. /\ Whole(Found) /\ Whole(copy) /\ FoundIn(Directory) = Found
        /\ \A d \in unsynced : Whole(FoundIn(d))
    BY <2>1, FoundWhole DEF Kept, Preserved
  <2>3. main'.content = copy /\ unsynced' = unsynced \cup {Directory}
    BY <1>10, <2>1, RenamedFile DEF RenameBack, FileTypes
  <2>4. Found' = copy
    BY <2>1, <2>3 DEF Found, FoundIn, Directory
  <2>5. \A d \in unsynced' : Whole(FoundIn(d))
    BY <2>2, <2>3
  <2>6. \A d : FoundIn(d)' = FoundIn(d)
    BY DEF FoundIn
  <2> QED
    BY <2>1, <2>2, <2>4, <2>5, <2>6 DEF Kept, Whole, Synced, Preserved
<1>11. CASE Sync \/ SyncBack
  <2>1. UNCHANGED <<main, wal, copy, told, lost>> /\ unsynced' \subseteq unsynced /\ (pc' \in Preserved => pc \in Preserved)
        /\ (pc' \in Synced => unsynced' = {})
    BY <1>11 DEF Sync, SyncBack, Preserved, Synced
  <2> QED
    BY <2>1, FoundUnchanged, KeptKept
<1>12. CASE Start
  <2>1. UNCHANGED <<main, wal, copy, told, lost>> /\ unsynced' = {} /\ pc' \notin Preserved
    BY <1>12 DEF Start, Preserved
  <2> QED
    BY <2>1, FoundUnchanged, KeptKept
<1>13. CASE Initialize \/ Reinitialize \/ Terminate \/ AutoCheckpoint
  <2>1. CASE Leaves \/ AutoCheckpoint
    <3>1. pc' = pc \/ pc' = "stopped"
      BY <2>1 DEF Leaves, Ends, AutoCheckpoint
    <3> QED
      BY <2>1, <3>1, Left, KeptKept DEF Preserved, Synced
  <2>2. CASE UNCHANGED <<fileVars, told>>
    <3>1. (pc' = pc \/ pc' \notin Preserved) /\ (pc' \in Synced => pc \in Synced)
      BY <1>13 DEF Initialize, Reinitialize, Terminate, AutoCheckpoint, Leaves, Ends, Preserved, Synced
    <3> QED
      BY <1>1, <2>2, <3>1
  <2>3. Leaves \/ AutoCheckpoint \/ UNCHANGED <<fileVars, told>>
    BY <1>13 DEF Initialize, Reinitialize, Terminate
  <2> QED
    BY <2>1, <2>2, <2>3
<1>14. CASE LosePower
  <2>1. PICK d \in unsynced \cup {Directory} :
          /\ Found'.from = FoundIn(d).from /\ FoundIn(d).changes \subseteq Found'.changes \cup lost'
          /\ unsynced' = {} /\ lost \subseteq lost'
    BY <1>14, PowerLost
  <2>2. Whole(FoundIn(d))
    BY <2>1, FoundWhole DEF Kept
  <2>3. pc' = "stopped" /\ UNCHANGED told
    BY <1>14 DEF LosePower, Ends
  <2>4. Whole(Found)'
    BY <2>1, <2>2, <2>3 DEF Whole
  <2> QED
    BY <2>1, <2>3, <2>4 DEF Kept, Preserved
<1> HIDE DEF IInv
<1> QED
  BY <1>2, <1>3, <1>4, <1>5, <1>6, <1>7, <1>8, <1>9, <1>10, <1>11, <1>12, <1>13, <1>14 DEF Next, Loop, Activation

\* A power loss brings back only what was replaced.
LEMMA UndoNext == IInv /\ [Next]_vars => Undo'
<1> SUFFICES ASSUME IInv, [Next]_vars PROVE Undo'
  OBVIOUS
<1> USE RestoreAssumption DEF IInv, fileVars, storeVars, flagVars, handlerVars, Goto
<1> DEFINE Early == {"close", "unlink", "rename"}
<1>1. ASSUME UNCHANGED <<main, wal, copy, replaced>>, unsynced' \subseteq unsynced, pc' \in Early => pc \in Early
      PROVE  Undo'
  BY <1>1, UndoKept, FoundUnchanged
<1>2. ASSUME Found' = Found, UNCHANGED <<copy, replaced, unsynced>>, pc' \in Early => pc \in Early
      PROVE  Undo'
  BY <1>2, UndoKept
<1> HIDE DEF Early
<1>3. UNCHANGED vars \/ ServeOnce \/ TakeCandidate \/ Drain \/ Sync \/ Reinit \/ CopyBack \/ SyncBack \/ GiveUp
        \/ Reopen \/ Done \/ Crash \/ Start => Undo'
  <2>1. UNCHANGED vars => UNCHANGED <<main, wal, copy, replaced, unsynced, pc>>
    BY DEF vars
  <2>2. ServeOnce \/ TakeCandidate \/ Drain \/ Sync \/ Reinit \/ CopyBack \/ SyncBack \/ GiveUp \/ Reopen \/ Done
          \/ Crash \/ Start =>
          /\ UNCHANGED <<main, wal, copy, replaced>> /\ unsynced' \subseteq unsynced
          /\ pc' \notin Early
    BY DEF ServeOnce, TakeCandidate, Drain, Sync, Reinit, CopyBack, SyncBack, GiveUp, Reopen, Done, Crash, Start,
       Opens, Ends, Early
  <2> QED
    BY <1>1, <2>1, <2>2
<1>4. ASSUME NEW c \in Changes, Arrive(c) \/ Fail(c) PROVE Undo'
  BY <1>1, <1>4 DEF Arrive, Fail
<1>5. ASSUME NEW r \in Restores, Upload(r) \/ Stage(r) \/ Claim(r) \/ Send(r) PROVE Undo'
  BY <1>1, <1>5 DEF Upload, Stage, Claim, Send
<1>6. ASSUME NEW c \in Changes, Commit(c) PROVE Undo'
  <2>1. UNCHANGED <<main, copy, unsynced, replaced, pc>> /\ writer[c] = "running"
    BY <1>6 DEF Commit
  <2>2. CASE UNCHANGED wal
    BY <1>1, <2>1, <2>2
  <2>3. CASE wal' # wal
    <3>1. PICK h \in stores : h.id = handle[c] /\ h.file = main.file
      BY <1>6, <2>3, Committed
    <3>2. pc \in {"serve", "drain", "preserve", "close", "resume"}
      BY <2>1, <3>1 DEF Late
    <3>3. unsynced = {}
      BY <3>2 DEF Kept, Synced
    <3>4. Found'.from = Found.from /\ Found.changes \subseteq Found'.changes
      BY <1>6, <2>3, CommitFinds, FoundWhole DEF Content
    <3> QED
      BY <2>1, <3>2, <3>3, <3>4 DEF Undo
  <2> QED
    BY <2>2, <2>3
<1>7. CASE Preserve
  <2>1. UNCHANGED <<main, wal, unsynced>> /\ pc = "preserve"
    BY <1>7 DEF Preserve
  <2>2. Found' = Found /\ unsynced' = {}
    BY <2>1, FoundUnchanged DEF Kept, Synced
  <2>3. CASE copy' = Found /\ pc' = "close"
    BY <2>2, <2>3 DEF Undo
  <2>4. CASE pc' = "resume"
    BY <2>2, <2>4 DEF Undo
  <2> QED
    BY <1>7, <2>3, <2>4 DEF Preserve
<1>8. CASE CloseLive \/ Resume
  <2>1. UNCHANGED <<copy, unsynced, replaced>> /\ (Checkpoint(store) \/ UNCHANGED <<main, wal>>)
        /\ (pc' \in Early => pc \in Early)
    BY <1>8 DEF CloseLive, Resume, Early
  <2> QED
    BY <1>2, <2>1, Checkpointed
<1>9. CASE Unlink
  <2>1. wal = None /\ pc \in {"unlink", "unlink back"}
    BY <1>9 DEF Unlink, Logs, Swapping, Preserved
  <2>2. UNCHANGED <<main, wal, copy, replaced>>
    BY <1>9, <2>1 DEF Unlink, Unlinked
  <2>3. Found' = Found /\ FoundIn(Directory) = Found
    BY <2>2, FoundUnchanged, FoundWhole
  <2>4. pc' \in {"close", "unlink", "rename"} => pc = "unlink"
    BY <1>9, <2>1 DEF Unlink
  <2>5. unsynced' \subseteq unsynced \cup {Directory}
    BY <1>9 DEF Unlink
  <2>6. \A d \in unsynced' : FoundIn(d) \in replaced' \cup {Found'}
    BY <2>2, <2>3, <2>5 DEF Undo
  <2>7. pc' \in {"close", "unlink", "rename"} => copy'.from = Found'.from /\ copy'.changes \subseteq Found'.changes
    BY <2>2, <2>3, <2>4 DEF Undo
  <2>8. \A d : FoundIn(d)' = FoundIn(d)
    BY DEF FoundIn
  <2> QED
    BY <2>6, <2>7, <2>8 DEF Undo
<1>10. CASE Rename
  <2>1. CASE Renamed(Fresh(candidate)) /\ pc' = "sync"
    <3>1. unsynced' = unsynced \cup {Directory} /\ replaced' = replaced \cup {Found}
      BY <2>1 DEF Renamed
    <3>2. FoundIn(Directory) = Found
      BY FoundWhole
    <3>3. \A d \in unsynced' : FoundIn(d)' \in replaced'
      BY <3>1, <3>2 DEF Undo, FoundIn
    <3> QED
      BY <2>1, <3>3 DEF Undo
  <2>2. CASE UNCHANGED <<main, unsynced, replaced>> /\ pc' = "copy back"
    BY <1>1, <1>10, <2>2 DEF Rename, Early
  <2> QED
    BY <1>10, <2>1, <2>2 DEF Rename
<1>11. CASE RenameBack
  <2>1. unsynced' = unsynced \cup {Directory} /\ replaced' = replaced \cup {Found} /\ pc' = "sync back"
    BY <1>11 DEF RenameBack, Renamed
  <2>2. FoundIn(Directory) = Found
    BY FoundWhole
  <2>3. \A d \in unsynced' : FoundIn(d)' \in replaced'
    BY <2>1, <2>2 DEF Undo, FoundIn
  <2> QED
    BY <2>1, <2>3 DEF Undo
<1>12. CASE Initialize \/ Reinitialize \/ Terminate \/ AutoCheckpoint
  <2>1. CASE Leaves \/ AutoCheckpoint
    <3>1. pc' = pc \/ pc' = "stopped"
      BY <2>1 DEF Leaves, Ends, AutoCheckpoint
    <3> QED
      BY <1>2, <2>1, <3>1, Left DEF Early
  <2>2. CASE UNCHANGED fileVars
    <3>1. pc' = pc \/ pc' \notin Early
      BY <1>12 DEF Initialize, Reinitialize, Terminate, AutoCheckpoint, Leaves, Ends, Early
    <3> QED
      BY <1>1, <2>2, <3>1
  <2>3. Leaves \/ AutoCheckpoint \/ UNCHANGED fileVars
    BY <1>12 DEF Initialize, Reinitialize, Terminate
  <2> QED
    BY <2>1, <2>2, <2>3
<1>13. CASE LosePower
  <2>1. unsynced' = {} /\ pc' = "stopped"
    BY <1>13 DEF LosePower, Ends
  <2> QED
    BY <2>1 DEF Undo
<1> HIDE DEF IInv
<1> QED
  BY <1>3, <1>4, <1>5, <1>6, <1>7, <1>8, <1>9, <1>10, <1>11, <1>12, <1>13 DEF Next, Loop, Activation

-----------------------------------------------------------------------------
(* Theorems *)

\* The first start finds an empty database and nothing open.
LEMMA InitInv == Init => IInv
<1> SUFFICES ASSUME Init PROVE IInv
  OBVIOUS
<1>1. Original \in Databases /\ Fresh(Original) \in Content /\ Fresh(Original).from = Original
  BY DEF Databases, Content, Fresh
<1>2. main = [content |-> Fresh(Original), file |-> 1] /\ wal = None /\ unsynced = {}
  BY DEF Init
<1>3. FileTypes /\ StoreTypes /\ LoopTypes /\ HandlerTypes
  BY <1>1 DEF Init, FileTypes, StoreTypes, LoopTypes, HandlerTypes, Places
<1>4. Logs /\ Held /\ Gate /\ Doors /\ Ids /\ Late
  BY <1>2 DEF Init, Logs, Held, Gate, Doors, Ids, Late, Matches, Directory, Gone, Under, Placing, Unready,
     Closed, Preserved, Swapping
<1>5. Handles /\ Origins /\ Untold
  BY <1>1, <1>2 DEF Init, Handles, Origins, Untold, Placed
<1>6. Kept
  BY <1>1, <1>2, RestoreAssumption DEF Init, Kept, Whole, Found, FoundIn, Directory, Preserved, Fresh
<1>7. Undo
  BY <1>2 DEF Init, Undo
<1> QED
  BY <1>3, <1>4, <1>5, <1>6, <1>7 DEF IInv

\* The files, the handles and the loop stay as the invariant says, for any restores
\* and any control requests.
THEOREM Invariance == Spec => []IInv
<1>1. Init => IInv
  BY InitInv
<1>2. IInv /\ [Next]_vars => IInv'
  BY FileTypesNext, StoreTypesNext, LoopTypesNext, HandlerTypesNext, LogsNext, HeldNext, GateNext, DoorsNext,
     IdsNext, HandlesNext, LateNext, OriginsNext, UntoldNext, KeptNext, UndoNext DEF IInv
<1> QED
  BY <1>1, <1>2, PTL DEF Spec

\* The variables hold what the files and the fields can (main, wal, App's fields).
THEOREM TypesHold == Spec => []TypeOK
<1>1. IInv => TypeOK
  BY DEF IInv, TypeOK, FileTypes, StoreTypes, LoopTypes, HandlerTypes, Log
<1> QED
  BY <1>1, Invariance, PTL

\* Files are swapped behind closed doors (activateRestore, quiescenceGate): nothing is
\* admitted, the program is not ready and the store in use is closed.
THEOREM SwapIsQuietHolds == Spec => []SwapIsQuiet
<1>1. IInv => SwapIsQuiet
  BY DEF IInv, SwapIsQuiet, Gate, Doors, Under, Placing, Unready, Closed
<1> QED
  BY <1>1, Invariance, PTL

\* No change whose client was told of it is missing from the database it was made in,
\* whatever the activations, the rollbacks and the deaths of the process
\* (replaceDatabase, restoreRollback, sqlite.BackupTo), but for those that a power loss
\* took from a log before a checkpoint (synchronous(NORMAL), makeDSN).
THEOREM ToldChangesKeptHolds == Spec => []ToldChangesKept
<1>1. IInv => ToldChangesKept
  BY DEF IInv, Kept, ToldChangesKept, Whole
<1> QED
  BY <1>1, Invariance, PTL

\* Every step of the program is one of the abstract database's, or leaves it alone.
LEMMA CellNextHolds == IInv /\ IInv' /\ [Next]_vars => [Cell!CellNext]_Cell!cellVars
<1> SUFFICES ASSUME IInv, IInv', [Next]_vars
             PROVE  Cell!CellNext \/ UNCHANGED <<Found, Sure, copy, replaced>>
  BY DEF Cell!cellVars
<1> USE DEF fileVars, storeVars, flagVars, handlerVars, Goto
<1>0. FileTypes /\ Logs /\ LoopTypes
  BY DEF IInv
<1>1. CASE UNCHANGED <<main, wal, copy, replaced>>
  BY <1>1, FoundUnchanged
<1>2. ASSUME Found' = Found, Sure' \in {Sure, Found.changes}, UNCHANGED <<copy, replaced>>
      PROVE  Cell!CellNext \/ UNCHANGED <<Found, Sure, copy, replaced>>
  <2>1. CASE Sure' = Sure
    BY <1>2, <2>1
  <2>2. CASE Sure' = Found.changes
    <3>1. Cell!Settle
      BY <1>2, <2>2 DEF Cell!Settle
    <3> QED
      BY <3>1 DEF Cell!CellNext
  <2> QED
    BY <1>2, <2>1, <2>2
<1>3. ASSUME NEW c \in Changes, Commit(c)
      PROVE  Cell!CellNext \/ UNCHANGED <<Found, Sure, copy, replaced>>
  <2>1. CASE wal' = wal
    BY <1>3, <2>1, <1>1 DEF Commit
  <2>2. CASE wal' # wal
    <3>1. Found' = [Found EXCEPT !.changes = @ \cup {c}] /\ Sure' = Sure
      BY <1>0, <1>3, <2>2, CommitFinds
    <3> QED
      BY <1>3, <3>1 DEF Commit, Cell!CellNext, Cell!Change
  <2> QED
    BY <2>1, <2>2
<1>4. CASE Preserve
  <2>1. Found' = Found /\ Sure' = Sure
    BY <1>4, FoundUnchanged DEF Preserve
  <2> QED
    BY <1>4, <2>1 DEF Preserve, Cell!CellNext, Cell!Keep
<1>5. CASE CloseLive \/ Resume
  <2>1. UNCHANGED <<copy, replaced>> /\ (Checkpoint(store) \/ UNCHANGED <<main, wal>>)
    BY <1>5 DEF CloseLive, Resume
  <2> QED
    BY <1>0, <1>2, <2>1, Checkpointed
<1>6. CASE Unlink
  <2>1. UNCHANGED <<main, wal>>
    BY <1>0, <1>6 DEF Unlink, Unlinked, Logs, Swapping, Preserved
  <2> QED
    BY <1>1, <1>6, <2>1 DEF Unlink
<1>7. ASSUME wal = None PROVE Sure = Found.changes /\ Found = main.content
  BY <1>7 DEF Sure, Found, FoundIn, Directory
<1>8. ASSUME wal' = None PROVE Sure' = Found'.changes /\ Found' = main'.content
  BY <1>8 DEF Sure, Found, FoundIn, Directory
<1>9. CASE Rename
  <2>1. CASE Renamed(Fresh(candidate))
    <3>1. candidate \in Databases /\ wal = None /\ wal' = None /\ copy' = copy /\ copy # None
      BY <1>9 DEF Rename, IInv, Held, Placing, Preserved, Logs, Swapping, LoopTypes, Databases
    <3>2. main'.content = [from |-> candidate, changes |-> {}] /\ replaced' = replaced \cup {Found}
      BY <2>1 DEF Renamed, Fresh
    <3>3. copy.from = Found.from /\ copy.changes \subseteq Found.changes
      BY <1>9 DEF Rename, IInv, Undo
    <3>4. Cell!Become([from |-> candidate, changes |-> {}])
      BY <1>7, <1>8, <3>1, <3>2 DEF Cell!Become
    <3> QED
      BY <3>1, <3>3, <3>4 DEF Cell!CellNext, Cell!Replace
  <2>2. CASE UNCHANGED <<main, unsynced, replaced>>
    BY <1>1, <1>9, <2>2 DEF Rename
  <2> QED
    BY <1>9, <2>1, <2>2 DEF Rename
<1>10. CASE RenameBack
  <2>1. wal = None /\ wal' = None /\ copy' = copy /\ copy # None
    BY <1>10 DEF RenameBack, IInv, Held, Preserved, Logs, Swapping
  <2>2. main'.content = copy /\ replaced' = replaced \cup {Found}
    BY <1>10 DEF RenameBack, Renamed
  <2>3. Cell!Become(copy)
    BY <1>7, <1>8, <2>1, <2>2 DEF Cell!Become
  <2> QED
    BY <2>1, <2>3 DEF Cell!CellNext, Cell!BringBack
<1>11. CASE LosePower
  <2>1. PICK d \in unsynced \cup {Directory} :
          /\ Found' \in Content /\ Found'.from = FoundIn(d).from /\ Found'.changes \subseteq FoundIn(d).changes
          /\ d \in unsynced => Found' = FoundIn(d)
          /\ d = Directory => Sure \subseteq Found'.changes
          /\ Sure' = Found'.changes
    BY <1>0, <1>11, PowerLost
  <2>2. Found \in Content /\ Found = FoundIn(Directory) /\ Sure \subseteq Found.changes
    <3>1. Sure \subseteq Found.changes
      <4>1. CASE wal = None
        BY <1>7, <4>1
      <4>2. CASE wal # None
        <5>1. wal \in Log /\ wal.synced \in wal.synced .. Len(wal.commits)
          BY <1>0, <4>2 DEF FileTypes, Log
        <5>2. Range(Truncated(wal, wal.synced).commits) \subseteq Commits(wal)
          BY <4>2, <5>1, CutOff DEF Commits
        <5> QED
          BY <1>0, <4>2, <5>2, FoundWhole DEF Sure
      <4> QED
        BY <4>1, <4>2
    <3> QED
      BY <1>0, <3>1, FoundWhole
  <2>3. Found' \in replaced \cup Cell!Surviving
    <3>1. CASE Found' \in replaced
      BY <3>1
    <3>2. CASE Found'.from = Found.from /\ Sure \subseteq Found'.changes /\ Found'.changes \subseteq Found.changes
      <4>1. Found' = [from |-> Found.from, changes |-> Found'.changes]
        BY <2>1, <3>2 DEF Content
      <4> QED
        BY <3>2, <4>1 DEF Cell!Surviving
    <3>3. CASE d \in unsynced
      BY <2>1, <2>2, <3>1, <3>2, <3>3 DEF IInv, Undo
    <3>4. CASE d = Directory
      BY <2>1, <2>2, <3>2, <3>4
    <3> QED
      BY <2>1, <3>3, <3>4
  <2> QED
    BY <1>11, <2>1, <2>3 DEF LosePower, Cell!CellNext, Cell!LosePower
<1>12. CASE Initialize \/ Reinitialize \/ Terminate \/ AutoCheckpoint
  <2>1. CASE Leaves \/ AutoCheckpoint
    BY <1>0, <1>2, <2>1, Left
  <2>2. CASE UNCHANGED fileVars
    BY <1>1, <2>2
  <2> QED
    BY <1>12, <2>1, <2>2 DEF Initialize, Reinitialize, Terminate
<1>13. UNCHANGED vars => UNCHANGED <<main, wal, copy, replaced>>
  BY DEF vars
<1>14. \A c \in Changes : Arrive(c) \/ Fail(c) => UNCHANGED <<main, wal, copy, replaced>>
  BY DEF Arrive, Fail
<1>15. \A r \in Restores : Upload(r) \/ Stage(r) \/ Claim(r) \/ Send(r) => UNCHANGED <<main, wal, copy, replaced>>
  BY DEF Upload, Stage, Claim, Send
<1>16. ServeOnce \/ TakeCandidate \/ Drain \/ Sync \/ Reinit \/ CopyBack \/ SyncBack \/ GiveUp
        \/ Reopen \/ Done \/ Crash \/ Start => UNCHANGED <<main, wal, copy, replaced>>
  BY DEF ServeOnce, TakeCandidate, Drain, Sync, Reinit, CopyBack, SyncBack, GiveUp, Reopen, Done, Crash, Start
<1> QED
  BY <1>1, <1>3, <1>4, <1>5, <1>6, <1>9, <1>10, <1>11, <1>12, <1>13, <1>14, <1>15, <1>16 DEF Next, Loop, Activation

\* The directory always holds one whole database, which changes only as DatabaseCell
\* says: the activation is atomic, its rollback loses nothing, and a power loss takes
\* no change that is on disk (replaceDatabase, restoreRollback, makeDSN).
THEOREM DatabaseImplemented == Spec => ImplementsDatabase
<1>1. Init => Cell!CellInit
  <2> SUFFICES ASSUME Init PROVE Cell!CellInit
    OBVIOUS
  <2>1. Found = [from |-> Original, changes |-> {}] /\ Sure = {} /\ Original \in Databases
    BY DEF Init, Found, FoundIn, Directory, Sure, Fresh, Databases
  <2> QED
    BY <2>1 DEF Init, Cell!CellInit
<1>2. IInv /\ IInv' /\ [Next]_vars => [Cell!CellNext]_Cell!cellVars
  BY CellNextHolds
<1> QED
  BY <1>1, <1>2, Invariance, PTL DEF Spec, ImplementsDatabase, Cell!CellSpec
=============================================================================
