------------------------------ MODULE RcRegion ------------------------------
(***************************************************************************)
(* Reference-counted regions (region/region_rc.h): every object counts the *)
(* references to it, an object is freed when its count drops to zero, and  *)
(* cycles are found from the objects whose count dropped to something else *)
(* (the Lins stack) by a local mark and scan in three colours.             *)
(*                                                                         *)
(* The program has references of its own, which it moves into the fields   *)
(* of objects and out again, and drops.  The entry point is an object      *)
(* whose count includes one for the region.  A field may hold the entry    *)
(* point of a subregion, which is released with the object.                *)
(***************************************************************************)
EXTENDS Integers, Sequences, FiniteSets

CONSTANTS Objs, Entry,    \* the objects and the entry point, which is one
          Subs, Null,     \* subregions
          Finalising,     \* the objects with a finaliser
          MaxRefs,        \* bound on the program's own references
          EntryRefs,      \* whether fields may refer to the entry point
          StaleEntries,   \* whether objects on the Lins stack may be freed
          IsoInCycles     \* whether a release may find a subregion in a cycle

ASSUME EntryAssumption ==
  Entry \in Objs /\ {EntryRefs, StaleEntries, IsoInCycles} \subseteq BOOLEAN

VARIABLES open, count,    \* the region is open; entry_point_count
          heap,           \* mem, rc and colour of the objects, releases of
                          \* the subregions, freed memory that was used, and
                          \* the assert(0) of release_cycles
          field,          \* the two fields of an object
          lins,           \* lins_stack
          refs, held      \* the program's references and subregions
vars == <<open, count, heap, field, lins, refs, held>>

Last(s) == s[Len(s)]
Front(s) == SubSeq(s, 1, Len(s) - 1)
Elems(s) == {s[i] : i \in DOMAIN s}

Init ==
  /\ open = FALSE /\ count = 1
  /\ heap = [mem |-> [o \in Objs |-> IF o = Entry THEN "live" ELSE "unused"],
             rc |-> [o \in Objs |-> 0], colour |-> [o \in Objs |-> "GREEN"],
             released |-> [q \in Subs |-> 0], misused |-> FALSE, asserted |-> FALSE]
  /\ field = [o \in Objs |-> <<Null, Null>>]
  /\ lins = <<>> /\ refs = [o \in Objs |-> 0] /\ held = Subs

Live(o) == heap.mem[o] = "live"
Fields(o) == SelectSeq(field[o], LAMBDA x : x # Null)
SubsOf(o) == SelectSeq(field[o], LAMBDA x : x \in Subs)
Finalised(o) == IF o \in Finalising THEN SubsOf(o) ELSE <<>>

(* Destructors, deallocation and the release of subregions. *)
Freed(h, dead, subs) ==
  [h EXCEPT !.mem = [o \in Objs |-> IF o \in Elems(dead) THEN "freed" ELSE @[o]],
            !.misused = @ \/ \E i \in DOMAIN dead : \/ h.mem[dead[i]] = "freed"
                                                    \/ \E j \in DOMAIN dead : j # i /\ dead[i] = dead[j],
            !.released = [q \in Subs |-> @[q] + Cardinality({i \in DOMAIN subs : subs[i] = q})]]
Dec(h, o) == [h EXCEPT !.rc[o] = @ - 1]

(* What an object refers to loses a reference, and goes too when that was  *)
(* the last: the dead objects and the subregions to release.               *)
RECURSIVE Cascade(_, _)
Cascade(dfs, g) ==
  IF dfs = <<>> THEN g
  ELSE LET p == Last(dfs)  rest == Front(dfs) IN
       IF p \in Subs THEN Cascade(rest, [g EXCEPT !.isos = Append(@, p)])
       ELSE IF g.h.rc[p] = 1
       THEN Cascade(rest \o Fields(p), [g EXCEPT !.h = Dec(@, p), !.dead = Append(@, p),
                                                  !.subs = @ \o Finalised(p)])
       ELSE Cascade(rest, [g EXCEPT !.h = Dec(@, p)])
Dying(o, h, subs) == Cascade(Fields(o), [h |-> h, dead |-> <<o>>, subs |-> subs, isos |-> <<>>])

(* dealloc_object finalises what the object refers to, not the object. *)
DeallocObject(o, h) == LET g == Dying(o, h, <<>>) IN Freed(g.h, g.dead, g.subs \o g.isos)

-----------------------------------------------------------------------------
(* gc_cycles: a subgraph is marked red and loses its inner references ... *)
RECURSIVE Red(_, _, _)
Red(dfs, h, jump) ==
  IF dfs = <<>> THEN <<h, jump>>
  ELSE LET f == Last(dfs)  rest == Front(dfs) IN
       IF f \in Subs THEN Red(rest, h, jump)
       ELSE IF h.colour[f] = "RED" THEN Red(rest, Dec(h, f), jump)
       ELSE Red(rest \o Fields(f), [Dec(h, f) EXCEPT !.colour[f] = "RED"],
                IF h.rc[f] > 1 THEN Append(jump, f) ELSE jump)
Candidate(o) == o # Entry
MarkRed(o, h, jump) ==
  IF Candidate(o) THEN Red(Fields(o), [h EXCEPT !.colour[o] = "RED"], jump) ELSE <<h, jump>>

(* ... which it gets back where something outside refers to it ... *)
RECURSIVE Green(_, _)
Green(dfs, h) ==
  IF dfs = <<>> THEN h
  ELSE LET f == Last(dfs)  rest == Front(dfs)
           h1 == [h EXCEPT !.rc[f] = @ + 1] IN
       IF f \in Subs THEN Green(rest, h)
       ELSE IF Candidate(f) /\ h.colour[f] # "GREEN"
       THEN Green(rest \o Fields(f), [h1 EXCEPT !.colour[f] = "GREEN"])
       ELSE Green(rest, h1)
RestoreGreenSlip(o, h) == [h EXCEPT !.colour[o] = "GREEN"]    \* a mutant: the fields are not traced
RestoreGreen(o, h) == Green(Fields(o), [h EXCEPT !.colour[o] = "GREEN"])
JumpsSlip(jump, h) == h    \* a mutant: the jump stack is ignored
RECURSIVE Jumps(_, _)
Jumps(jump, h) ==
  IF jump = <<>> THEN h
  ELSE LET p == Last(jump) IN
       Jumps(Front(jump), IF h.colour[p] = "RED" /\ h.rc[p] > 0 THEN RestoreGreen(p, h) ELSE h)

(* ... and what is still red goes. *)
RECURSIVE Reds(_, _, _, _)
Reds(dfs, h, dead, subs) ==
  IF dfs = <<>> THEN Freed(h, dead, subs)
  ELSE LET f == Last(dfs)  rest == Front(dfs) IN
       IF f \in Subs THEN Reds(rest, h, dead, Append(subs, f))
       ELSE IF f \notin Elems(dead) /\ h.colour[f] = "RED"
       THEN Reds(rest \o Fields(f), h, Append(dead, f), subs \o Finalised(f))
       ELSE Reds(rest, h, dead, subs)
DeallocRedsSlip(o, h) ==    \* a mutant: only the candidate is freed
  IF h.colour[o] = "RED" THEN Freed(h, <<o>>, <<>>) ELSE h
DeallocReds(o, h) == IF h.colour[o] = "RED" THEN Reds(Fields(o), h, <<>>, <<>>) ELSE h

Scan(o, h, jump) ==
  IF Candidate(o) /\ h.rc[o] > 0 THEN <<RestoreGreen(o, h), jump>>
  ELSE <<DeallocReds(o, Jumps(jump, h)), <<>> >>
RECURSIVE Cycles(_, _, _)
Cycles(stack, h, jump) ==
  IF stack = <<>> THEN h
  ELSE LET p == Last(stack)  m == MarkRed(p, h, jump)  s == Scan(p, m[1], m[2]) IN
       IF h.mem[p] # "live" THEN Cycles(Front(stack), [h EXCEPT !.misused = TRUE], jump)
       ELSE IF h.colour[p] # "BLACK" THEN Cycles(Front(stack), h, jump)
       ELSE Cycles(Front(stack), s[1], s[2])

(* release_internal: the objects that the entry point alone keeps, then    *)
(* what the Lins stack leads to, whether it is among them or not.          *)
(* release_cycles has no case for the entry point of a subregion: it fails *)
(* assert(0), and a build without asserts leaves the subregion alone, which *)
(* then leaks unless a finaliser collected it.                             *)
RECURSIVE Remaining(_, _)
Remaining(dfs, g) ==
  IF dfs = <<>> THEN g
  ELSE LET p == Last(dfs)  rest == Front(dfs) IN
       IF p \in Subs THEN Remaining(rest, [g EXCEPT !.asserted = TRUE])
       ELSE IF p \in {Entry} \cup g.marked THEN Remaining(rest, g)
       ELSE Remaining(rest \o Fields(p), [g EXCEPT !.dead = Append(@, p), !.marked = @ \cup {p},
                                                    !.subs = @ \o Finalised(p)])
ReleaseRegion(h) ==
  LET g == Dying(Entry, h, Finalised(Entry))
      r == Remaining(lins, [dead |-> g.dead, subs |-> g.subs, marked |-> {}, asserted |-> FALSE])
  IN [Freed(g.h, r.dead, r.subs) EXCEPT !.asserted = r.asserted]

-----------------------------------------------------------------------------
(* The program.  It reaches objects through its references and through the *)
(* fields of what it reaches.                                              *)
RECURSIVE Closure(_)
Closure(S) ==
  LET T == S \cup ({field[o][i] : o \in S, i \in 1..2} \cap Objs)
  IN IF T = S THEN S ELSE Closure(T)
Reachable == Closure({Entry} \cup {o \in Objs : refs[o] > 0})
RECURSIVE SumRefs(_)
SumRefs(S) == IF S = {} THEN 0 ELSE LET o == CHOOSE x \in S : TRUE IN refs[o] + SumRefs(S \ {o})
Room == SumRefs(Objs) < MaxRefs

(* What StaleEntries excludes: the program frees nothing that is on the    *)
(* Lins stack, and collects before it releases the region.                 *)
Allowed == \/ StaleEntries
           \/ ~heap'.misused /\ \A o \in Elems(lins') : heap'.mem[o] = "live"

Open ==
  /\ ~open /\ Live(Entry)
  /\ open' = TRUE /\ heap' = [heap EXCEPT !.rc[Entry] = count]
  /\ UNCHANGED <<count, field, lins, refs, held>>
Close ==
  /\ open
  /\ open' = FALSE /\ count' = heap.rc[Entry]
  /\ UNCHANGED <<heap, field, lins, refs, held>>

AllocRc(o) ==
  /\ open /\ Room /\ heap.mem[o] = "unused"
  /\ heap' = [heap EXCEPT !.mem[o] = "live", !.rc[o] = 1]
  /\ refs' = [refs EXCEPT ![o] = 1]
  /\ UNCHANGED <<open, count, field, lins, held>>
Incref(o) ==
  /\ open /\ Room /\ o \in Reachable /\ (o = Entry => EntryRefs)
  /\ heap' = [heap EXCEPT !.rc[o] = @ + 1]
  /\ refs' = [refs EXCEPT ![o] = @ + 1]
  /\ UNCHANGED <<open, count, field, lins, held>>

(* A reference, or a subregion, is moved into a field and out again.  The  *)
(* program loses an object only by dropping a reference to it: what it     *)
(* moves stays within its reach.                                           *)
Store(o, i, x) ==
  /\ open /\ o \in Reachable /\ field[o][i] = Null
  /\ IF x \in Objs THEN /\ refs[x] > 0 /\ refs' = [refs EXCEPT ![x] = @ - 1]
                         /\ UNCHANGED held
                    ELSE x \in held /\ held' = held \ {x} /\ UNCHANGED refs
  /\ field' = [field EXCEPT ![o][i] = x]
  /\ x \in Objs => x \in Reachable'
  /\ UNCHANGED <<open, count, heap, lins>>
Take(o, i) ==
  /\ open /\ o \in Reachable /\ field[o][i] # Null
  /\ LET x == field[o][i] IN
       IF x \in Objs THEN /\ Room /\ refs' = [refs EXCEPT ![x] = @ + 1] /\ UNCHANGED held
       ELSE held' = held \cup {x} /\ UNCHANGED refs
  /\ field' = [field EXCEPT ![o][i] = Null]
  /\ UNCHANGED <<open, count, heap, lins>>

(* decref: the object goes, or may be part of a cycle now. *)
Decref(o) ==
  /\ open /\ refs[o] > 0
  /\ refs' = [refs EXCEPT ![o] = @ - 1]
  /\ LET h == Dec(heap, o) IN
       IF h.rc[o] = 0 THEN heap' = DeallocObject(o, h) /\ UNCHANGED lins
       ELSE IF h.colour[o] = "BLACK" THEN heap' = h /\ UNCHANGED lins
       ELSE heap' = [h EXCEPT !.colour[o] = "BLACK"] /\ lins' = Append(lins, o)
  /\ Allowed
  /\ UNCHANGED <<open, count, field, held>>

GcCycles ==
  /\ open
  /\ heap' = Cycles(lins, heap, <<>>) /\ lins' = <<>>
  /\ Allowed
  /\ UNCHANGED <<open, count, field, refs, held>>

Release ==
  /\ ~open /\ Live(Entry) /\ count = 1 /\ \A o \in Objs : refs[o] = 0
  /\ heap' = ReleaseRegion(heap) /\ lins' = <<>>
  /\ Allowed /\ (IsoInCycles \/ ~heap'.asserted)
  /\ UNCHANGED <<open, count, field, refs, held>>

Next ==
  \/ Open \/ Close \/ GcCycles \/ Release
  \/ \E o \in Objs : \/ AllocRc(o) \/ Incref(o) \/ Decref(o)
                     \/ \E i \in 1..2 : Take(o, i) \/ \E x \in Objs \cup Subs : Store(o, i, x)

Spec == Init /\ [][Next]_vars

-----------------------------------------------------------------------------
(* Nothing the program can reach is freed, and no subregion it can reach   *)
(* is released, whatever the collector decrements on its way (gc_cycles,   *)
(* dealloc_object).                                                        *)
ReachableAlive ==
  Live(Entry) => \A o \in Reachable : Live(o) /\ \A q \in Elems(SubsOf(o)) : heap.released[q] = 0

(* Between operations the count of an object is the number of references   *)
(* to it: what mark_red takes, restore_green gives back.                   *)
FieldRefs(o) == Cardinality({<<p, i>> \in Objs \X (1..2) : Live(p) /\ field[p][i] = o})
CountsExact ==
  open => \A o \in Objs : Live(o) =>
            heap.rc[o] = refs[o] + FieldRefs(o) + (IF o = Entry THEN 1 ELSE 0)

(* A collection frees a candidate that nothing but what it leads to refers *)
(* to, and all it leads to; a decref or a collection releases the          *)
(* subregions of what it frees; a release leaves only cycles, and what     *)
(* they refer to.                                                          *)
Holders(x) == {o \in Objs : Live(o) /\ x \in Elems(field[o])}
SubsGo == \A q \in Subs \ held : Holders(q) # {} \/ heap.released[q] > 0
Garbage(C) == C \cap Reachable = {} /\ \A o \in C : Holders(o) \subseteq C
CandidatesGo ==
  [][/\ GcCycles => /\ SubsGo'
                    /\ \A p \in Elems(lins) : LET C == Closure({p})
                                              IN Garbage(C) => \A o \in C : ~Live(o)'
     /\ (\E o \in Objs : Decref(o)) => SubsGo'
     /\ Release => \A o \in Objs : Live(o)' => Holders(o)' # {}]_vars

(* "Release and deallocate all objects within the region represented by    *)
(* the Iso Object" (release_internal): it leaks the cycles the entry point *)
(* reaches, whose members it never makes candidates.                       *)
ReleasesAll == [][Release => \A o \in Objs : ~Live(o)']_vars

(* "Removes cyclic garbage from the region" (gc_cycles): an object whose   *)
(* count dealloc_object drops to more than zero is no candidate.           *)
GarbageGoes == [][GcCycles => \A o \in Objs : Live(o)' => o \in Reachable]_vars

(* A subregion is released once: dealloc_reds traces the object it starts  *)
(* from twice.                                                             *)
SubsReleasedOnce == \A q \in Subs : heap.released[q] <= 1

(* No freed object is used or freed again through the Lins stack: "we need *)
(* to ensure decrefing removes from the lins q".                           *)
NoFreedEntries == ~heap.misused

(* "default: assert(0)": release_cycles meets no subregion.  It does, when *)
(* a candidate that the entry point does not reach leads to one.           *)
NoIsoMet == ~heap.asserted
=============================================================================
