------------------------------ MODULE MCSignIn ------------------------------
(* Instances of SignIn for TLC. *)
EXTENDS SignIn, TLC

CONSTANTS d1, d2, b, p1, p2, p3, c, im, e, k, d, l, r, A, B, s, t

\* Two connections at the start: one of a provider whose sign-ins follow the
\* duplicate rule (A), one of a provider whose browser sign-in does not (B).
MCStored == (1 :> A) @@ (2 :> B)
MCSignsIn == (d1 :> A) @@ (d2 :> A) @@ (b :> B)
MCTarget == (d1 :> None) @@ (d2 :> None) @@ (b :> 2)
\* The import carries no refresh token; the relink names the access token.
MCNamed == [h \in SignIns |-> IF h = im THEN {"access"} ELSE Tokens] @@ (e :> {}) @@ (k :> {"access"})
MCSession == (d1 :> s) @@ (d2 :> t) @@ (b :> s)
MCAsked == (d1 :> 1) @@ (d2 :> 3) @@ (b :> 0)
=============================================================================
