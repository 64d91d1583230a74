---------------------------- MODULE DatabaseCell ----------------------------
(***************************************************************************)
(* What a restore promises of the database file (docs/SPEC.md section 25): *)
(* whoever opens it finds one whole database, which changes only by the    *)
(* changes committed to it, by a candidate that takes its place at one     *)
(* moment, after a copy of it was kept, and when that fails by the copy    *)
(* being brought back.  Both take the place of a database that is on disk  *)
(* as it is.  A loss of power may take changes the disk was not yet sure   *)
(* of (synchronous(NORMAL), internal/store/sqlite/store.go), or bring back *)
(* what was replaced since the copy was made, and nothing else.            *)
(***************************************************************************)
CONSTANTS Databases, Changes, None

\* A database: where it comes from and the changes committed to it since.
Content == [from : Databases, changes : SUBSET Changes]

VARIABLES
    content,
    sure,     \* its changes that are on disk
    kept,     \* the copy kept of it, or None
    replaced  \* what was replaced since the copy was made

cellVars == <<content, sure, kept, replaced>>

CellInit ==
    /\ \E d \in Databases : content = [from |-> d, changes |-> {}]
    /\ sure = {} /\ kept = None /\ replaced = {}

\* Committed, and not yet on disk.
Change(c) ==
    /\ content' = [content EXCEPT !.changes = @ \cup {c}]
    /\ UNCHANGED <<sure, kept, replaced>>

Settle == sure' = content.changes /\ UNCHANGED <<content, kept, replaced>>

Keep == kept' = content /\ replaced' = {} /\ UNCHANGED <<content, sure>>

\* Another database takes the place of one that is on disk, and is on disk itself.
Become(d) ==
    /\ sure = content.changes
    /\ content' = d /\ sure' = d.changes
    /\ replaced' = replaced \cup {content} /\ UNCHANGED kept

Replace(d) ==
    /\ kept # None /\ kept.from = content.from /\ kept.changes \subseteq content.changes
    /\ Become([from |-> d, changes |-> {}])

BringBack == kept # None /\ Become(kept)

\* What the disk was not sure of may be gone.
Surviving == [from : {content.from}, changes : {s \in SUBSET content.changes : sure \subseteq s}]

LosePower ==
    /\ \E d \in replaced \cup Surviving : content' = d /\ sure' = d.changes
    /\ UNCHANGED <<kept, replaced>>

CellNext ==
    \/ \E c \in Changes : Change(c)
    \/ Settle \/ Keep
    \/ \E d \in Databases : Replace(d)
    \/ BringBack \/ LosePower

CellSpec == CellInit /\ [][CellNext]_cellVars
=============================================================================
