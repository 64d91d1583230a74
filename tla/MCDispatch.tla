----------------------------- MODULE MCDispatch -----------------------------
(* Instances of Dispatch for TLC. *)
EXTENDS Dispatch, TLC

CONSTANTS r1, r2, r3, r4, a1, a2, k, m1, m2, m3, m4

\* A Combo of two models and one that has no account, a request for a model with two accounts, and two for
\* one with a single account.
MCRoute == (r1 :> <<m1>>) @@ (r2 :> <<m4, m1, m2>>) @@ (r3 :> <<m3>>) @@ (r4 :> <<m3>>)
MCNative == (m1 :> <<a1>>) @@ (m2 :> <<>>) @@ (m3 :> <<a1>>) @@ (m4 :> <<>>)
MCTranslated == (m1 :> <<a2>>) @@ (m2 :> <<k>>) @@ (m3 :> <<>>) @@ (m4 :> <<>>)
MCSurfaces == (a1 :> 1) @@ (a2 :> 1) @@ (k :> 2)
=============================================================================
