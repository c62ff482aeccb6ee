---------------------------- MODULE TraceRegion ----------------------------
(***************************************************************************)
(* Trace regions (region/region_trace.h): two rings of objects through     *)
(* their headers, the primary one with the entry point last, the secondary *)
(* one for the objects that are trivial when the entry point is not, or    *)
(* the other way round; and mark and sweep over them.                      *)
(***************************************************************************)
EXTENDS Region

IsTrace(m) == kind[m] = "trace"

(* append(hd, tl): one ring or the other, behind the metadata object. *)
ToPrimary(h, m, hd) == IsTrivial(hd) = IsTrivial(h[m].ptr)
AppendHdr(h, m, hd, tl, n) ==
  IF ToPrimary(h, m, hd) THEN [h EXCEPT ![tl] = Unmarked(h[m].ptr), ![m].ptr = hd]
  ELSE [h EXCEPT ![tl] = Unmarked(n)]
AppendNext(h, m, hd, n) == IF ToPrimary(h, m, hd) THEN n ELSE hd
AppendLast(h, m, hd, tl, l) == IF ~ToPrimary(h, m, hd) /\ l = m THEN tl ELSE l

CreateTrace(m, o) ==
  /\ Mutable /\ IsTrace(m) /\ mem[m] = "unused" /\ mem[o] = "unused"
  /\ hdr' = [hdr EXCEPT ![m] = Unmarked(o), ![o] = Iso(m)]
  /\ mem' = [mem EXCEPT ![m] = "live", ![o] = "live"]
  /\ owned' = owned \cup {m}
  /\ UNCHANGED <<field, job>> /\ Same

AllocTrace(m, o) ==
  /\ Open(m) /\ IsTrace(m) /\ mem[o] = "unused"
  /\ hdr' = AppendHdr(hdr, m, o, o, nnr[m])
  /\ nnr' = [nnr EXCEPT ![m] = AppendNext(hdr, m, o, @)]
  /\ lnr' = [lnr EXCEPT ![m] = AppendLast(hdr, m, o, o, @)]
  /\ mem' = [mem EXCEPT ![o] = "live"]
  /\ UNCHANGED <<kind, field, roots, owned, arenas, last, job>>

(* merge: first the primary ring of the other region, whose entry point is *)
(* its tail, then the secondary one.                                       *)
SecondaryTail(s) == lnr[s]
MergeTrace(m, s) ==
  /\ MayMerge(m, s) /\ IsTrace(m)
  /\ LET o == EntryOf(s)  hd == hdr[s].ptr
         h1 == AppendHdr(hdr, m, hd, o, nnr[m])
         n1 == AppendNext(hdr, m, hd, nnr[m])
         l1 == AppendLast(hdr, m, hd, o, lnr[m])
         empty == nnr[s] = s
     IN /\ hdr' = IF empty THEN h1 ELSE AppendHdr(h1, m, nnr[s], SecondaryTail(s), n1)
        /\ nnr' = [nnr EXCEPT ![m] = IF empty THEN n1 ELSE AppendNext(h1, m, nnr[s], n1)]
        /\ lnr' = [lnr EXCEPT ![m] = IF empty THEN l1
                                     ELSE AppendLast(h1, m, nnr[s], lnr[s], l1)]
  /\ mem' = [mem EXCEPT ![s] = "freed"]
  /\ owned' = owned \ {s}
  /\ UNCHANGED <<kind, field, roots, arenas, last, job>>

(* swap_root: swap the rings when the new root belongs to the secondary    *)
(* one, then turn the ring so that the new root comes last.                *)
SwapTrace(m, n) ==
  /\ MaySwap(m, n) /\ IsTrace(m)
  /\ LET o == EntryOf(m)
         swap == IsTrivial(o) # IsTrivial(n)
         h1 == IF swap THEN [hdr EXCEPT ![m].ptr = nnr[m], ![o] = Unmarked(m)] ELSE hdr
         tail == IF swap THEN lnr[m] ELSE o
         h2 == IF tail # n
               THEN [h1 EXCEPT ![tail] = Unmarked(h1[m].ptr), ![m].ptr = h1[n].ptr] ELSE h1
     IN /\ hdr' = [h2 EXCEPT ![n] = Iso(m)]
        /\ nnr' = IF swap THEN [nnr EXCEPT ![m] = hdr[m].ptr] ELSE nnr
        /\ lnr' = IF swap THEN [lnr EXCEPT ![m] = o] ELSE lnr
  /\ UNCHANGED <<kind, mem, field, roots, owned, arenas, last, job>>

-----------------------------------------------------------------------------
(* gc: mark what the entry point and the additional roots reach ... *)
RECURSIVE MarkFrom(_, _)
MarkFrom(S, h) ==
  LET T == {o \in S : o # Null /\ h[o].class = "UNMARKED"}
  IN IF T = {} THEN h
     ELSE MarkFrom({field[o] : o \in T},
                   [x \in All |-> IF x \in T THEN [h[x] EXCEPT !.class = "MARKED"] ELSE h[x]])
RootObjects(m) == {roots[m][i] : i \in DOMAIN roots[m]}
FirstMarked(m) == {field[EntryOf(m)]} \cup RootObjects(m)
Gc(m) ==
  /\ Open(m) /\ IsTrace(m)
  /\ hdr' = MarkFrom(FirstMarked(m), hdr)
  /\ job' = [stage |-> "sweep", m |-> m, entry |-> EntryOf(m), all |-> FALSE,
             collect |-> <<>>, of |-> m]
  /\ UNCHANGED <<mem, field, owned>> /\ Same

(* ... and sweep: the non-trivial ring first. *)
RingHead(m, triv, e) == IF IsTrivial(e) = triv THEN hdr[m].ptr ELSE nnr[m]
Sweeping(j, triv) ==
  [stage |-> "ring", m |-> j.m, entry |-> j.entry, all |-> j.all, collect |-> j.collect,
   of |-> j.of, trivial |-> triv, primary |-> IsTrivial(j.entry) = triv,
   prev |-> j.m, p |-> RingHead(j.m, triv, j.entry), dead |-> <<>>]
FirstRingSlip == TRUE       \* a mutant: the trivial ring first
FirstRing == FALSE
StartSweep ==
  /\ job.stage = "sweep"
  /\ job' = Sweeping(job, FirstRing)
  /\ UNCHANGED <<hdr, mem, field, owned>> /\ Same

AtObject(class) == job.stage = "ring" /\ job.p # job.m /\ hdr[job.p].class = class

(* sweep_object: a trivial object is freed at once, another is finalised   *)
(* and kept, linked through its header, until the ring has been swept.     *)
SweptHdr(o) == IF job.trivial THEN hdr
               ELSE [hdr EXCEPT ![o] = Unmarked(IF job.dead = <<>> THEN Null ELSE Head(job.dead))]
SweptMem(o) == [mem EXCEPT ![o] = IF job.trivial THEN "freed" ELSE "finalised"]
SweptJob(o, p) ==
  [job EXCEPT !.p = p,
              !.dead = IF job.trivial THEN @ ELSE <<o>> \o @,
              !.collect = IF job.trivial THEN @ ELSE Subregions(o, job.entry) \o @]

SweepIso ==
  /\ AtObject("ISO")
  /\ IF job.all
     THEN hdr' = SweptHdr(job.p) /\ mem' = SweptMem(job.p) /\ job' = SweptJob(job.p, job.m)
     ELSE job' = [job EXCEPT !.p = job.m] /\ UNCHANGED <<hdr, mem>>
  /\ UNCHANGED <<field, owned>> /\ Same
SweepMarked ==
  /\ AtObject("MARKED")
  /\ hdr' = [hdr EXCEPT ![job.p].class = "UNMARKED"]
  /\ job' = [job EXCEPT !.prev = job.p, !.p = hdr[job.p].ptr]
  /\ UNCHANGED <<mem, field, owned>> /\ Same
(* The previous object or the region's own pointer skips a swept one. *)
Unlinks(o) == [SweptHdr(o) EXCEPT ![job.prev].ptr = hdr[o].ptr]
LastAfterSlip(m, o) == lnr[m]       \* a mutant: the last object is not kept up to date
LastAfter(m, o) == IF ~job.primary /\ lnr[m] = o THEN job.prev ELSE lnr[m]
SweepUnmarked ==
  /\ AtObject("UNMARKED")
  /\ LET o == job.p  m == job.m  first == ~job.primary /\ job.prev = m IN
       /\ hdr' = IF first THEN SweptHdr(o) ELSE Unlinks(o)
       /\ nnr' = IF first THEN [nnr EXCEPT ![m] = hdr[o].ptr] ELSE nnr
       /\ lnr' = [lnr EXCEPT ![m] = LastAfter(m, o)]
       /\ mem' = SweptMem(o)
       /\ job' = SweptJob(o, hdr[o].ptr)
  /\ UNCHANGED <<kind, field, roots, owned, arenas, last>>

(* The end of a ring: destroy what was finalised, and go on with the other *)
(* ring, the deallocation of a released region or the next subregion.      *)
EndRing ==
  /\ job.stage = "ring" /\ job.p = job.m
  /\ LET freed == {job.dead[i] : i \in DOMAIN job.dead}
                    \cup (IF job.trivial # FirstRing /\ job.all THEN {job.m} ELSE {})
     IN mem' = [x \in All |-> IF x \in freed THEN "freed" ELSE mem[x]]
  /\ IF job.trivial = FirstRing THEN job' = Sweeping(job, ~FirstRing) ELSE AfterRegion
  /\ UNCHANGED <<hdr, field, owned>> /\ Same
=============================================================================
