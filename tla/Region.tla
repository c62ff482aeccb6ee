------------------------------- MODULE Region -------------------------------
(***************************************************************************)
(* The state of regions that trace and arena regions share: the object     *)
(* headers, the metadata objects, and what the program does with a region  *)
(* it has (region/region.h, region_base.h, region_api.h).                  *)
(*                                                                         *)
(* A header is its class and its pointer: the next object of a ring, or    *)
(* the metadata object for the entry point.  An object has one field.  A   *)
(* trivial object has neither finaliser nor subregions.                    *)
(***************************************************************************)
EXTENDS Integers, Sequences, FiniteSets

CONSTANTS Objs, Metas, Null,
          Trivial,      \* the objects without finaliser, destructor, subregion
          Large,        \* the objects that do not fit in an arena
          Kinds,        \* the kinds the regions may have: "trace", "arena"
          MaxRoots      \* bound on the additional roots of a region

VARIABLES kind,         \* the kind of a region
          hdr,          \* the headers of objects and metadata objects
          mem,          \* "unused", "live", "finalised" or "freed"
          field, roots, owned,
          nnr, lnr,     \* next_not_root, last_not_root of trace regions
          arenas, last, \* the arenas and last_large of arena regions
          job           \* a collection or a release under way
vars == <<kind, hdr, mem, field, roots, owned, nnr, lnr, arenas, last, job>>

All == Objs \cup Metas
Unmarked(next) == [class |-> "UNMARKED", ptr |-> next]
Iso(m) == [class |-> "ISO", ptr |-> m]
NoJob == [stage |-> "none"]

Init ==
  /\ kind \in Kinds
  /\ hdr = [x \in All |-> Unmarked(Null)]
  /\ mem = [x \in All |-> "unused"]
  /\ field = [o \in Objs |-> Null]
  /\ roots = [m \in Metas |-> <<>>]
  /\ owned = {}
  /\ nnr = [m \in Metas |-> m] /\ lnr = [m \in Metas |-> m]
  /\ arenas = [m \in Metas |-> <<>>] /\ last = [m \in Metas |-> Null]
  /\ job = NoJob

IsTrivial(o) == o \in Trivial
IsIso(o) == o # Null /\ hdr[o].class = "ISO"

(* The live objects found from x on along a ring of m. *)
Walk(m, x) ==
  LET w[n \in 0..Cardinality(Objs)] ==
        IF n = 0 THEN <<x, {}>>
        ELSE LET y == w[n-1][1] IN
             IF y \in Metas \cup {Null} \/ mem[y] = "freed" THEN w[n-1]
             ELSE <<hdr[y].ptr, w[n-1][2] \cup {y}>>
  IN {o \in w[Cardinality(Objs)][2] : mem[o] = "live"}
InArenas(m) == {o \in Objs : mem[o] = "live" /\ \E i \in DOMAIN arenas[m] :
                                \E j \in DOMAIN arenas[m][i] : arenas[m][i][j] = o}
Contents(m) == IF mem[m] # "live" THEN {}
               ELSE Walk(m, hdr[m].ptr) \cup
                    (IF kind[m] = "trace" THEN Walk(m, nnr[m]) ELSE InArenas(m))
EntryOf(m) == LET e == {o \in Objs : mem[o] = "live" /\ hdr[o] = Iso(m)}
              IN IF mem[m] # "live" \/ e = {} THEN Null ELSE CHOOSE o \in e : TRUE

Mutable == job = NoJob
Open(m) == Mutable /\ m \in owned
Same == UNCHANGED <<kind, roots, nnr, lnr, arenas, last>>

(* Two regions are merged when they are of one kind and the one that goes  *)
(* has no additional roots; the entry point moves to another object.       *)
MayMerge(m, s) == Open(m) /\ Open(s) /\ m # s /\ kind[m] = kind[s] /\ roots[s] = <<>>
MaySwap(m, n) == Open(m) /\ n \in Contents(m) /\ n # EntryOf(m)

-----------------------------------------------------------------------------
(* The program. *)

(* An object refers to another of its region. *)
SetField(m, o, x) ==
  /\ Open(m) /\ {o, x} \subseteq Contents(m)
  /\ field[o] = Null \/ field[o] \in Contents(m)
  /\ field' = [field EXCEPT ![o] = x]
  /\ UNCHANGED <<hdr, mem, owned, job>> /\ Same
ClearField(m, o) ==
  /\ Open(m) /\ o \in Contents(m) /\ field[o] \in Contents(m)
  /\ field' = [field EXCEPT ![o] = Null]
  /\ UNCHANGED <<hdr, mem, owned, job>> /\ Same

(* A region becomes a subregion of another, and is taken back. *)
StoreRegion(m, o, s) ==
  /\ Open(m) /\ Open(s) /\ s # m /\ o \in Contents(m) /\ ~IsTrivial(o) /\ field[o] = Null
  /\ field' = [field EXCEPT ![o] = EntryOf(s)]
  /\ owned' = owned \ {s}
  /\ UNCHANGED <<hdr, mem, job>> /\ Same
TakeRegion(m, o) ==
  /\ Open(m) /\ o \in Contents(m) /\ IsIso(field[o]) /\ hdr[field[o]].ptr # m
  /\ field' = [field EXCEPT ![o] = Null]
  /\ owned' = owned \cup {hdr[field[o]].ptr}
  /\ UNCHANGED <<hdr, mem, job>> /\ Same

(* push_additional_root and pop_additional_root, in stack order. *)
PushRoot(m, o) ==
  /\ Open(m) /\ kind[m] = "trace" /\ o \in Contents(m) /\ Len(roots[m]) < MaxRoots
  /\ roots' = [roots EXCEPT ![m] = <<o>> \o @]
  /\ UNCHANGED <<kind, hdr, mem, field, owned, nnr, lnr, arenas, last, job>>
PopRoot(m) ==
  /\ Open(m) /\ roots[m] # <<>>
  /\ roots' = [roots EXCEPT ![m] = Tail(@)]
  /\ UNCHANGED <<kind, hdr, mem, field, owned, nnr, lnr, arenas, last, job>>

(* add_sub_region: what a finaliser adds to the subregions to collect. *)
SubregionsSlip(o, e) == <<>>       \* a mutant: nested regions are forgotten
Subregions(o, e) == IF field[o] # e /\ IsIso(field[o]) THEN <<field[o]>> ELSE <<>>

(* Region::release, and gc for unreachable subregions: the next region on  *)
(* the worklist, or the end of the job.                                    *)
ReleaseJob(o, collect, of) ==
  [stage |-> IF kind[hdr[o].ptr] = "trace" THEN "sweep" ELSE "finalise",
   m |-> hdr[o].ptr, entry |-> o, all |-> TRUE, collect |-> collect, of |-> of]
Release(m) ==
  /\ Open(m) /\ roots[m] = <<>>
  /\ owned' = owned \ {m}
  /\ job' = ReleaseJob(EntryOf(m), <<>>, Null)
  /\ UNCHANGED <<hdr, mem, field>> /\ Same
AfterRegion ==
  job' = IF job.collect = <<>> THEN NoJob
         ELSE ReleaseJob(Head(job.collect), Tail(job.collect), job.of)
=============================================================================
