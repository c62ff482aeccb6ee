-------------------------- MODULE MCBehaviourCore --------------------------
(* Small sets of behaviours and cowns for TLC. *)
EXTENDS BehaviourCoreInv, TLC

CONSTANTS b1, b2, b3, a, c, d

\* Address order: a before c before d.
MCRank == (a :> 3) @@ (c :> 2) @@ (d :> 1)

\* The example of the doc comment: two behaviours that share the first and
\* the last cown, and one more that can slip in on the last.
Overlap == (b1 :> {a, c, d}) @@ (b2 :> {a, d}) @@ (b3 :> {d})

============================================================================
