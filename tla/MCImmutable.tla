---------------------------- MODULE MCImmutable ----------------------------
EXTENDS Immutable
CONSTANTS o1, o2, o3, Main, Sub, t1, t2

(* All heaps of three objects with at most two fields each: o1 is the      *)
(* entry point, o2 is in its region on either ring, and o3 is in the       *)
(* region too, or an immutable or a cown outside, or a nested region of    *)
(* its own with one reference to it.                                       *)
FieldLists == {<<>>} \cup {<<x>> : x \in Objects} \cup (Objects \X Objects)
References(f, x, S) == Cardinality({<<o, i>> \in S \X (1..2) : i \in DOMAIN f[o] /\ f[o][i] = x})
Shape(f, home, outside, primary, second) ==
  [outside |-> outside, field |-> f, region |-> [x \in Objects |-> IF x = o3 THEN home ELSE Main],
   entry |-> [g \in Regions |-> IF g = Main THEN o1 ELSE o3],
   primary |-> [g \in Regions |-> IF g = Main THEN primary ELSE <<o3>>],
   second |-> [g \in Regions |-> IF g = Main THEN second ELSE <<>>]]
OneRegion ==
  {Shape(f, Main, "RC", r[1], r[2]) : f \in [Objects -> FieldLists],
     r \in {<<<<o1>>, <<o2, o3>>>>, <<<<o3, o2, o1>>, <<>>>>}}
WithOutside ==
  {Shape(f, Null, k, <<o1>>, <<o2>>) : f \in 
     {g \in [Objects -> FieldLists] : g[o3] = <<>> /\ References(g, o3, {o1, o2}) > 0},
     k \in {"RC", "SHARED"}}
WithNested ==
  {Shape(f, Sub, "RC", <<o2, o1>>, <<>>) : f \in
     {g \in [Objects -> FieldLists] : References(g, o3, {o1, o2}) = 1
                                      /\ \A i \in DOMAIN g[o3] : g[o3][i] = o3}}
MCGraphs == OneRegion \cup WithOutside \cup WithNested
=============================================================================
