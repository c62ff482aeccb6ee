---------------------------- MODULE ArenaRegion ----------------------------
(***************************************************************************)
(* Arena regions (region/region_arena.h): objects that fit are placed one  *)
(* after the other in the last arena of a list, larger ones go on a ring   *)
(* of their own, with the entry point last if it is there.  The region is  *)
(* never collected, only released as a whole.  An arena is modelled by the *)
(* sequence of its objects, its size by how many fit.                      *)
(***************************************************************************)
EXTENDS Region

CONSTANT ArenaSize

IsArena(m) == kind[m] = "arena"

(* alloc_internal *)
Placed(m, o) ==
  LET a == arenas[m]  n == Len(a) IN
  IF o \in Large THEN a
  ELSE IF n = 0 \/ Len(a[n]) = ArenaSize THEN Append(a, <<o>>)
  ELSE [a EXCEPT ![n] = Append(@, o)]
PlacedHdr(h, m, o) ==
  IF o \in Large THEN [h EXCEPT ![o] = Unmarked(h[m].ptr), ![m].ptr = o]
  ELSE [h EXCEPT ![o] = Unmarked(Null)]
PlacedLast(m, o) == IF o \in Large /\ last[m] = Null THEN o ELSE last[m]

CreateArena(m, o) ==
  /\ Mutable /\ IsArena(m) /\ mem[m] = "unused" /\ mem[o] = "unused"
  /\ hdr' = [PlacedHdr([hdr EXCEPT ![m] = Unmarked(m)], m, o) EXCEPT ![o] = Iso(m)]
  /\ arenas' = [arenas EXCEPT ![m] = Placed(m, o)]
  /\ last' = [last EXCEPT ![m] = PlacedLast(m, o)]
  /\ mem' = [mem EXCEPT ![m] = "live", ![o] = "live"]
  /\ owned' = owned \cup {m}
  /\ UNCHANGED <<kind, field, roots, nnr, lnr, job>>
AllocArena(m, o) ==
  /\ Open(m) /\ IsArena(m) /\ mem[o] = "unused"
  /\ hdr' = PlacedHdr(hdr, m, o)
  /\ arenas' = [arenas EXCEPT ![m] = Placed(m, o)]
  /\ last' = [last EXCEPT ![m] = PlacedLast(m, o)]
  /\ mem' = [mem EXCEPT ![o] = "live"]
  /\ UNCHANGED <<kind, field, roots, owned, nnr, lnr, job>>

(* merge, merge_internal; an entry point inside an arena loses its mark last. *)
EntryLeft(h, o) == IF o \notin Large THEN [h EXCEPT ![o] = Unmarked(Null)] ELSE h
MergeArena(m, s) ==
  /\ MayMerge(m, s) /\ IsArena(m)
  /\ LET hd == hdr[s].ptr
         h == IF hd # s THEN [hdr EXCEPT ![last[s]] = Unmarked(hdr[m].ptr), ![m].ptr = hd]
              ELSE hdr
     IN /\ hdr' = EntryLeft(h, EntryOf(s))
        /\ last' = [last EXCEPT ![m] = IF hd # s /\ @ = Null THEN last[s] ELSE @]
  /\ arenas' = [arenas EXCEPT ![m] = @ \o arenas[s], ![s] = <<>>]
  /\ mem' = [mem EXCEPT ![s] = "freed"]
  /\ owned' = owned \ {s}
  /\ UNCHANGED <<kind, field, roots, nnr, lnr, job>>

(* swap_root_internal: only a large entry point must be last in the ring. *)
MovesLast(m, n) == n \in Large /\ n # last[m]
SwapArena(m, n) ==
  /\ MaySwap(m, n) /\ IsArena(m)
  /\ LET o == EntryOf(m)
         h1 == IF o \notin Large THEN [hdr EXCEPT ![o] = Unmarked(Null)]
               ELSE IF n \notin Large THEN [hdr EXCEPT ![o] = Unmarked(m)] ELSE hdr
         h2 == IF MovesLast(m, n)
               THEN [h1 EXCEPT ![last[m]] = Unmarked(h1[m].ptr), ![m].ptr = h1[n].ptr] ELSE h1
     IN hdr' = [h2 EXCEPT ![n] = Iso(m)]
  /\ last' = IF MovesLast(m, n) THEN [last EXCEPT ![m] = n] ELSE last
  /\ UNCHANGED <<kind, mem, field, roots, owned, nnr, lnr, arenas, job>>

(* release_internal: finalise every non-trivial object, then free it all.  *)
NonTrivial(m) == Contents(m) \ Trivial
RECURSIVE FinalisedInto(_, _, _)
FinalisedInto(S, e, collect) ==
  IF S = {} THEN collect
  ELSE LET o == CHOOSE x \in S : TRUE
       IN FinalisedInto(S \ {o}, e, Subregions(o, e) \o collect)
FinaliseArena ==
  /\ job.stage = "finalise"
  /\ job' = [job EXCEPT !.stage = "free",
                        !.collect = FinalisedInto(NonTrivial(job.m), job.entry, @)]
  /\ mem' = [x \in All |-> IF x \in NonTrivial(job.m) THEN "finalised" ELSE mem[x]]
  /\ UNCHANGED <<hdr, field, owned>> /\ Same
InRing(m) == LET r[n \in 0..Cardinality(Objs)] ==
                   IF n = 0 THEN {hdr[m].ptr}
                   ELSE r[n-1] \cup {hdr[x].ptr : x \in r[n-1] \ {m}}
             IN r[Cardinality(Objs)]
FreeArena ==
  /\ job.stage = "free"
  /\ LET m == job.m  a == {arenas[m][i][j] : <<i, j>> \in
                             {<<i, j>> \in (1..Len(arenas[m])) \X (1..ArenaSize) :
                                j \in DOMAIN arenas[m][i]}}
     IN mem' = [x \in All |-> IF x \in InRing(m) \cup a \cup {m} THEN "freed" ELSE mem[x]]
  /\ AfterRegion
  /\ UNCHANGED <<hdr, field, owned>> /\ Same
=============================================================================
