------------------------------- MODULE MCFusion -------------------------------
(* Instances of Fusion for TLC. *)
EXTENDS Fusion, TLC

CONSTANTS c, m, n, F, G, V, W, O

\* F has a Fusion in its panel and for its judge; V has a walk for both, which
\* tries a Fusion of one model first.
MCMembers == (F :> <<G, m>>) @@ (G :> <<m, n>>) @@ (V :> <<W, m>>) @@ (W :> <<O, n>>) @@ (O :> <<m>>)
MCJudge == (F :> G) @@ (G :> m) @@ (V :> W) @@ (O :> m)
MCAsks == (c :> {F, V})
=============================================================================
