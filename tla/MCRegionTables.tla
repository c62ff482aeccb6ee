--------------------------- MODULE MCRegionTables ---------------------------
EXTENDS RegionTables, TLC
CONSTANTS i1, i2, i3, i4, i5, x1, x2, x3, x4, x5, R, S

(* i3 takes the slot of i2 when it comes behind i1, and x2 or x5 that of x3 *)
(* or x4 behind x1; x1, x2 and x5 are too many for the probe bits.          *)
MCHash == (i1 :> 0) @@ (i2 :> 1) @@ (i3 :> 8) @@ (i4 :> 1) @@ (i5 :> 5)
       @@ (x1 :> 0) @@ (x2 :> 8) @@ (x3 :> 9) @@ (x4 :> 1) @@ (x5 :> 16)
MCChild == [k \in Imms |-> IF k = i4 THEN i5 ELSE Null]

(* Immutables that collide, or of which one refers to another; or objects, *)
(* as the two tables do not meet.                                          *)
NoHome == [o \in Objs |-> Null]
HomeOf(r, s) == [o \in Objs |-> IF o \in {x3, x5} THEN s ELSE r]
MCStarts == {[imms |-> I, home |-> NoHome] : I \in {{i1, i2, i3}, {i2, i4, i5}}}
       \cup {[imms |-> {}, home |-> h] : h \in {HomeOf(R, S), HomeOf(S, R)}}

RegionsAlike == Permutations(Regions)
=============================================================================
