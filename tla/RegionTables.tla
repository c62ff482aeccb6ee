---------------------------- MODULE RegionTables ----------------------------
(***************************************************************************)
(* The two tables of a region's metadata object, both ObjectMaps: the      *)
(* remembered set (region/rememberedset.h), which holds a reference count  *)
(* on the immutables and cowns the region may refer to, and the external   *)
(* reference table (region/externalreference.h), which finds the external  *)
(* reference of an object of the region.                                   *)
(*                                                                         *)
(* An immutable is modelled by its count and the one immutable its graph   *)
(* refers to.  The region's own objects are modelled by the set of         *)
(* immutables they refer to, and by which of them have an external         *)
(* reference; the tracing that finds them is that of module Region.        *)
(***************************************************************************)
EXTENDS ObjectMap

CONSTANTS Regions,
          Imms, Child,    \* immutables, and what each one refers to (or Null)
          Objs,           \* objects with external references
          Starts,         \* which of them there are at first, and the objects' regions
          MaxCount        \* bound on the program's NoTransfer insertions

VARIABLES rem, ext,       \* the tables of every region
          open,           \* the regions that exist
          refs,           \* the immutables the region's live objects refer to
          rc,             \* the counts of the immutables
          held,           \* the program's own counts
          gc,             \* the region being collected, and what is left to mark
          home,           \* the region of an object, Null once it is collected
          ert             \* ExternalRef::ert, or "none" before it is created
vars == <<rem, ext, open, refs, rc, held, gc, home, ert>>

NoGc == [region |-> Null, todo |-> {}]
Referrers(k) == Cardinality({x \in Imms : Child[x] = k})

Init ==
  /\ rem = [r \in Regions |-> EmptyMap] /\ ext = [r \in Regions |-> EmptyMap]
  /\ open = Regions
  /\ refs = [r \in Regions |-> {}]
  /\ \E start \in Starts :
       /\ held = [k \in Imms |-> IF k \in start.imms /\ Referrers(k) = 0 THEN 1 ELSE 0]
       /\ rc = [k \in Imms |-> held[k] + (IF k \in start.imms THEN Referrers(k) ELSE 0)]
       /\ home = start.home
  /\ gc = NoGc
  /\ ert = [o \in Objs |-> "none"]

Mutator(r) == r \in open /\ gc = NoGc

(* Immutable::release; the last count takes the one on the child with it. *)
RECURSIVE Released(_, _)
Released(c, k) == IF c[k] = 1 /\ Child[k] # Null
                  THEN Released([c EXCEPT ![k] = 0], Child[k])
                  ELSE [c EXCEPT ![k] = @ - 1]
RECURSIVE ReleasedAll(_, _, _)
ReleasedAll(c, m, I) ==
  IF I = {} THEN c
  ELSE LET i == CHOOSE x \in I : \A y \in I : x <= y
       IN ReleasedAll(Released(c, m.slot[i].key), m, I \ {i})

-----------------------------------------------------------------------------
(* The remembered set. *)

(* insert<transfer>: without a transfer the count is taken first, whether  *)
(* or not the object is already there.                                     *)
InsertCountSlip(k, transfer, added) ==
  IF transfer THEN (IF added THEN rc[k] ELSE rc[k] - 1) ELSE (IF added THEN rc[k] ELSE rc[k] + 1)
InsertCount(k, transfer, added) ==
  IF transfer THEN (IF added THEN rc[k] ELSE rc[k] - 1) ELSE rc[k] + 1
Remember(r, k, transfer) ==
  /\ Mutator(r) /\ held[k] > 0 /\ (transfer \/ rc[k] < MaxCount)
  /\ LET res == InsertKey(rem[r], k) IN
       /\ rem' = [rem EXCEPT ![r] = res.map]
       /\ rc' = [rc EXCEPT ![k] = InsertCount(k, transfer, res.added)]
  /\ held' = IF transfer THEN [held EXCEPT ![k] = @ - 1] ELSE held
  /\ refs' = [refs EXCEPT ![r] = @ \cup {k}]
  /\ UNCHANGED <<ext, open, gc, home, ert>>

(* The program: an object of the region takes over a reference from inside *)
(* an immutable, drops one, or the program takes or drops a count itself.  *)
ReadOut(r, k) ==
  /\ Mutator(r) /\ k \in refs[r] /\ Child[k] # Null
  /\ refs' = [refs EXCEPT ![r] = @ \cup {Child[k]}]
  /\ UNCHANGED <<rem, ext, open, rc, held, gc, home, ert>>
Forget(r, k) ==
  /\ Mutator(r) /\ k \in refs[r]
  /\ refs' = [refs EXCEPT ![r] = @ \ {k}]
  /\ UNCHANGED <<rem, ext, open, rc, held, gc, home, ert>>
Hold(r, k) ==
  /\ Mutator(r) /\ k \in refs[r] /\ held[k] = 0 /\ rc[k] < MaxCount
  /\ held' = [held EXCEPT ![k] = 1] /\ rc' = [rc EXCEPT ![k] = @ + 1]
  /\ UNCHANGED <<rem, ext, open, refs, gc, home, ert>>
DropHeld(k) ==
  /\ gc = NoGc /\ held[k] > 0
  /\ held' = [held EXCEPT ![k] = @ - 1] /\ rc' = Released(rc, k)
  /\ UNCHANGED <<rem, ext, open, refs, gc, home, ert>>

(* A collection marks what the live objects refer to, in any order ... *)
GcStart(r) ==
  /\ Mutator(r)
  /\ gc' = [region |-> r, todo |-> refs[r]]
  /\ UNCHANGED <<rem, ext, open, refs, rc, held, home, ert>>
MarkedSlip(m, i) == m
Marked(m, i) == MarkAt(m, i)
GcMark(k) ==
  /\ k \in gc.todo
  /\ LET r == gc.region  res == InsertKey(rem[r], k) IN
       /\ rem' = [rem EXCEPT ![r] = Marked(res.map, res.at)]
       /\ rc' = IF res.added THEN [rc EXCEPT ![k] = @ + 1] ELSE rc
       /\ gc' = [gc EXCEPT !.todo = @ \ {k}]
  /\ UNCHANGED <<ext, open, refs, held, home, ert>>

(* ... and then releases and erases every entry without a mark. *)
Swept(m) == [m EXCEPT !.slot = [i \in DOMAIN m.slot |->
                IF m.slot[i].mark THEN [m.slot[i] EXCEPT !.mark = FALSE] ELSE Free]]
GcSweep ==
  /\ gc.region # Null /\ gc.todo = {}
  /\ LET r == gc.region  m == rem[r] IN
       /\ rc' = ReleasedAll(rc, m, {i \in Filled(m) : ~m.slot[i].mark})
       /\ rem' = [rem EXCEPT ![r] = Swept(m)]
  /\ gc' = NoGc
  /\ UNCHANGED <<ext, open, refs, held, home, ert>>

(* merge: a count the other set already has is dropped. *)
RECURSIVE MergedFrom(_, _, _, _)
MergedFrom(m, c, that, i) ==
  IF i = that.cap THEN [map |-> m, rc |-> c]
  ELSE IF that.slot[i].key = Null THEN MergedFrom(m, c, that, i + 1)
  ELSE LET k == that.slot[i].key  res == InsertKey(m, k)
       IN MergedFrom(res.map, IF res.added THEN c ELSE [c EXCEPT ![k] = @ - 1], that, i + 1)
RECURSIVE ExtMerged(_, _, _)
ExtMerged(m, that, i) ==
  IF i = that.cap THEN m
  ELSE ExtMerged(IF that.slot[i].key = Null THEN m
                 ELSE InsertKey(m, that.slot[i].key).map, that, i + 1)
ErtAfterMerge(o, r, s) == IF o \in Keys(ext[s]) THEN r ELSE ert[o]
Merge(r, s) ==
  /\ Mutator(r) /\ Mutator(s) /\ r # s
  /\ LET res == MergedFrom(rem[r], rc, rem[s], 0) IN
       rem' = [rem EXCEPT ![r] = res.map, ![s] = EmptyMap] /\ rc' = res.rc
  /\ ext' = [ext EXCEPT ![r] = ExtMerged(ext[r], ext[s], 0), ![s] = EmptyMap]
  /\ ert' = [o \in Objs |-> ErtAfterMerge(o, r, s)]
  /\ home' = [o \in Objs |-> IF home[o] = s THEN r ELSE home[o]]
  /\ refs' = [refs EXCEPT ![r] = @ \cup refs[s], ![s] = {}]
  /\ open' = open \ {s}
  /\ UNCHANGED <<held, gc>>

(* The region is released: everything unmarked is swept, and deallocating  *)
(* the table invalidates every external reference.                         *)
ReleaseRegion(r) ==
  /\ Mutator(r)
  /\ rc' = ReleasedAll(rc, rem[r], Filled(rem[r]))
  /\ rem' = [rem EXCEPT ![r] = EmptyMap] /\ ext' = [ext EXCEPT ![r] = EmptyMap]
  /\ ert' = [o \in Objs |-> IF o \in Keys(ext[r]) THEN Null ELSE ert[o]]
  /\ home' = [o \in Objs |-> IF home[o] = r THEN Null ELSE home[o]]
  /\ refs' = [refs EXCEPT ![r] = {}]
  /\ open' = open \ {r}
  /\ UNCHANGED <<held, gc>>

-----------------------------------------------------------------------------
(* The external reference table. *)

(* ExternalRef::create for an object that has none yet (has_ext_ref). *)
CreateRef(o) ==
  /\ gc = NoGc /\ home[o] # Null /\ ert[o] = "none"
  /\ ext' = [ext EXCEPT ![home[o]] = InsertKey(@, o).map]
  /\ ert' = [ert EXCEPT ![o] = home[o]]
  /\ UNCHANGED <<rem, open, refs, rc, held, gc, home>>

(* A trivial object is collected: its entry goes, the reference is void. *)
CollectObject(o) ==
  /\ gc = NoGc /\ home[o] # Null
  /\ home' = [home EXCEPT ![o] = Null]
  /\ IF ert[o] = "none" THEN UNCHANGED <<ext, ert>>
     ELSE /\ ext' = [ext EXCEPT ![home[o]] = EraseAt(@, FindSlot(@, o))]
          /\ ert' = [ert EXCEPT ![o] = Null]
  /\ UNCHANGED <<rem, open, refs, rc, held, gc>>

Next ==
  \/ \E r \in Regions :
       \/ \E k \in Imms : \/ \E t \in BOOLEAN : Remember(r, k, t)
                          \/ ReadOut(r, k) \/ Forget(r, k) \/ Hold(r, k)
       \/ GcStart(r) \/ ReleaseRegion(r)
       \/ \E s \in Regions : Merge(r, s)
  \/ \E k \in Imms : DropHeld(k) \/ GcMark(k)
  \/ GcSweep
  \/ \E o \in Objs : CreateRef(o) \/ CollectObject(o)

Spec == Init /\ [][Next]_vars

-----------------------------------------------------------------------------
(* What the live objects of a region refer to is not freed, and the set    *)
(* has it, or what it was read out of, where find looks: however often the *)
(* set was swept and merged and its entries exchanged their slots          *)
(* (RememberedSet::mark and sweep against ObjectMap::insert and erase).    *)
RECURSIVE Inside(_)
Inside(k) == IF k = Null THEN {} ELSE {k} \cup Inside(Child[k])
ReferencedAlive ==
  \A r \in open : \A k \in refs[r] :
    rc[k] > 0 /\ \E j \in Imms : k \in Inside(j) /\ FindSlot(rem[r], j) # NoIndex

(* "Mark the given object. If the object is not in the set, incref and add *)
(* it", and sweep: "Erase all unmarked entries from the set and unmark the *)
(* remaining entries" (rememberedset.h:77, :92): what a collection marked  *)
(* is still in the set after it.                                           *)
SweepKeepsMarked ==
  [][gc.region # Null /\ gc' = NoGc => refs[gc.region] \subseteq Keys(rem'[gc.region])]_vars

(* Every entry of a set, every count of the program and every reference    *)
(* from a live immutable is covered by a count: no decref of insert or     *)
(* merge, whose result is ignored, is ever the last.                       *)
CountsCover ==
  \A k \in Imms :
    LET entries == UNION {{r} \X {i \in Filled(rem[r]) : rem[r].slot[i].key = k} : r \in Regions}
        parents == {x \in Imms : Child[x] = k /\ rc[x] > 0}
    IN rc[k] >= Cardinality(entries) + held[k] + Cardinality(parents)

(* The table of a region has exactly the external references of its        *)
(* objects, each once and where find looks, and is_in is true of exactly   *)
(* the objects still in the region.                                        *)
ExtRefsExact ==
  \A r \in Regions :
    LET Referenced == {o \in Objs : r \in open /\ home[o] = r /\ ert[o] # "none"}
    IN /\ Keys(ext[r]) = Referenced /\ {o \in Objs : ert[o] = r} = Referenced
       /\ \A o \in Referenced : Copies(ext[r], o) = 1 /\ FindSlot(ext[r], o) # NoIndex
=============================================================================
