--------------------------- MODULE CredentialCell ---------------------------
(***************************************************************************)
(* What the credential registry promises about one connection's stored     *)
(* credential (SPEC 19): it is a register with two operations.  An install *)
(* replaces the credential by one an operator supplied; a rotation replaces *)
(* it by the credential a provider issued in exchange for it, which uses up *)
(* the replaced one for good.  Nothing else ever changes the register, and *)
(* a used-up credential never returns to it.                               *)
(***************************************************************************)

EXTENDS Naturals

CONSTANT Credential

VARIABLES value,      \* the credential in the register
          retired,    \* credentials a committed rotation used up
          rotations   \* how many rotations were committed

cellVars == <<value, retired, rotations>>

CellInit == value \in Credential /\ retired = {} /\ rotations = 0

\* An operator's credential replaces the stored one.
Install(c) ==
    /\ c \notin retired
    /\ value' = c
    /\ UNCHANGED <<retired, rotations>>

\* The provider's answer replaces the very credential it was given for: two
\* rotations never use up the same one.
Rotate(c) ==
    /\ c \notin retired \cup {value}
    /\ value' = c
    /\ retired' = retired \cup {value}
    /\ rotations' = rotations + 1

CellNext == \E c \in Credential : Install(c) \/ Rotate(c)

CellSpec == CellInit /\ [][CellNext]_cellVars
=============================================================================
