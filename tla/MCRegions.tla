----------------------------- MODULE MCRegions -----------------------------
EXTENDS Regions
CONSTANTS k1, k2, s1, s2, R, S

MCKinds == {[m \in Metas |-> "trace"], [m \in Metas |-> "arena"],
            [m \in Metas |-> IF m = R THEN "trace" ELSE "arena"]}
=============================================================================
