----------------------------- MODULE MCSharedRC -----------------------------
(* Five places for references: two releases of the last strong reference   *)
(* and a promotion can be under way at once, with a weak reference left.   *)
EXTENDS SharedRC, TLC

CONSTANTS r1, r2, r3, r4, r5

=============================================================================
