------------------------------- MODULE Freeze -------------------------------
(***************************************************************************)
(* Freezing an isolated object graph (region/freeze.h): a depth-first      *)
(* search over the fields of the region's objects, kept on explicit        *)
(* stacks, joins the objects of a cycle in a union-find structure held in  *)
(* the object headers and counts the references into each strongly         *)
(* connected component; then the region's rings are swept, unreachable     *)
(* objects are finalised and deallocated, and the counts become atomic.    *)
(* Nested regions that are reachable are frozen too, one after the other.  *)
(*                                                                         *)
(* A header is modelled by its class, the pointer it may hold (the next    *)
(* object of the ring or the parent in the union-find) and the number it   *)
(* may hold (a rank or a reference count).  Descriptors, memory sizes and  *)
(* the has_ext_ref bit are left out.                                       *)
(***************************************************************************)
EXTENDS Integers, Sequences, FiniteSets

CONSTANTS Objects,   \* the objects, of a region or immutable ones outside
          Regions,   \* the region metadata objects
          Start,     \* the region that is frozen
          Graphs,    \* the initial shapes of the heap
          Null

All == Objects \cup Regions

VARIABLES graph,     \* the shape: fields, regions, entries and rings
          hdr,       \* the header of every object
          mem,       \* "live", "finalised" or "freed"
          pc,        \* where Freeze::apply is
          iso, objects, dfs, pending, toDealloc,  \* its stacks, top first
          root,      \* r: the component a path is collapsed into
          p          \* p: the object the sweep looks at
stacks == <<iso, objects, dfs, pending, toDealloc>>
freezeVars == <<graph, hdr, mem, pc, iso, objects, dfs, pending, toDealloc,
                root, p>>

Header(class, ptr, n) == [class |-> class, ptr |-> ptr, n |-> n]
Unmarked(next) == Header("UNMARKED", next, 0)
Pending(rank) == Header("PENDING", Null, rank)
SccPtr(parent) == Header("SCC_PTR", parent, 0)

Fields(o) == graph.field[o]
Outside(o) == o \in Objects /\ graph.region[o] = Null

(* trace(dfs): the fields are pushed in order, so the last is on top. *)
Traced(o, stack) == [i \in 1..Len(Fields(o)) |->
                       Fields(o)[Len(Fields(o)) - i + 1]] \o stack

(* The references from one region's objects to the immutables outside are  *)
(* what its remembered set holds a count on.                               *)
Remembers(reg) == {x \in Objects : Outside(x) /\
                     \E o \in Objects : /\ graph.region[o] = reg
                                        /\ \E i \in DOMAIN Fields(o) : Fields(o)[i] = x}
Members(reg) == {o \in Objects : graph.region[o] = reg}

-----------------------------------------------------------------------------
(* root_and_class: follow SCC_PTR, and shorten the path while following.   *)
Chain(o) ==
  LET c[n \in 0..Cardinality(All)] ==
        IF n = 0 THEN <<o>>
        ELSE LET s == c[n-1] IN
             IF hdr[s[Len(s)]].class = "SCC_PTR"
             THEN Append(s, hdr[s[Len(s)]].ptr) ELSE s
  IN c[Cardinality(All)]
Root(o) == LET s == Chain(o) IN s[Len(s)]
Class(o) == hdr[Root(o)].class
Compressed(o) ==
  LET s == Chain(o)
  IN [x \in All |-> IF \E i \in 1..(Len(s) - 2) : s[i] = x
                    THEN LET i == CHOOSE j \in 1..(Len(s) - 2) : s[j] = x
                         IN SccPtr(s[i + 2])
                    ELSE hdr[x]]

-----------------------------------------------------------------------------
Ring(reg, second) == Append(IF second THEN graph.second[reg] ELSE graph.primary[reg], reg)
NextInRing(o) ==
  LET reg == graph.region[o]
      s == Ring(reg, \E i \in DOMAIN graph.second[reg] : graph.second[reg][i] = o)
  IN s[1 + CHOOSE i \in 1..(Len(s) - 1) : s[i] = o]

Init ==
  /\ graph \in Graphs
  /\ hdr = [o \in All |->
              IF o \in Regions THEN Unmarked(Ring(o, FALSE)[1])
              ELSE IF Outside(o)
                   THEN Header(graph.outside, Null, Cardinality({g \in Regions : o \in Remembers(g)}))
              ELSE IF o = graph.entry[graph.region[o]]
                   THEN Header("ISO", graph.region[o], 0)
              ELSE Unmarked(NextInRing(o))]
  /\ mem = [o \in All |-> "live"]
  /\ pc = "region"
  /\ iso = <<graph.entry[Start]>>
  /\ objects = <<>> /\ dfs = <<>> /\ pending = <<>> /\ toDealloc = <<>>
  /\ root = Null /\ p = Null

Visit(o) == [obj |-> o, post |-> FALSE]
PostOrderMark(o) == [obj |-> o, post |-> TRUE]

(* Take the next region: its entry point becomes an ordinary object, the   *)
(* heads of both rings are where the sweep will start, and the metadata    *)
(* object is marked so that the sweep stops there.                         *)
NextRegion ==
  /\ pc = "region" /\ iso # <<>>
  /\ LET e == Head(iso)  reg == hdr[e].ptr IN
       /\ hdr' = [hdr EXCEPT ![e] = Unmarked(reg), ![reg].class = "MARKED"]
       /\ dfs' = <<Visit(e)>>
       /\ objects' = <<hdr[reg].ptr, Ring(reg, TRUE)[1]>>
       /\ p' = e
  /\ iso' = Tail(iso)
  /\ pc' = "visit"
  /\ UNCHANGED <<graph, mem, pending, toDealloc, root>>

Top == Head(dfs)
Visiting(class) == /\ pc = "visit" /\ dfs # <<>> /\ ~Top.post
                   /\ Class(Top.obj) = class

(* The post-order visit of a vertex still at the head of the path: its     *)
(* component is complete, with the one reference that led to it.           *)
CompletesSccSlip(q) == pending # <<>> /\ Root(q) = Root(Head(pending))
CompletesScc(q) == pending # <<>> /\ q = Head(pending)
VisitPostOrder ==
  /\ pc = "visit" /\ dfs # <<>> /\ Top.post
  /\ dfs' = Tail(dfs)
  /\ LET q == Top.obj IN
       IF CompletesScc(q)
       THEN /\ pending' = Tail(pending)
            /\ hdr' = [Compressed(q) EXCEPT ![Root(q)] = Header("NONATOMIC_RC", Null, 1)]
       ELSE UNCHANGED <<pending, hdr>>
  /\ UNCHANGED <<graph, mem, pc, iso, objects, toDealloc, root, p>>

(* A reference back into the path starts to collapse it. *)
VisitPending ==
  /\ Visiting("PENDING")
  /\ root' = Root(Top.obj)
  /\ hdr' = Compressed(Top.obj)
  /\ dfs' = Tail(dfs)
  /\ pc' = "collapse"
  /\ UNCHANGED <<graph, mem, iso, objects, pending, toDealloc, p>>

(* Union by rank of the component at the head of the path with r. *)
Union(h, r, q) ==
  IF h[q].n <= h[r].n
  THEN [h EXCEPT ![q] = SccPtr(r),
                 ![r] = IF h[q].n = h[r].n THEN Pending(h[r].n + 1) ELSE @]
  ELSE [h EXCEPT ![r] = SccPtr(q)]
Survivor(h, r, q) == IF h[q].n <= h[r].n THEN r ELSE q

Collapse ==
  /\ pc = "collapse"
  /\ LET q == Root(Head(pending))  h == Compressed(Head(pending)) IN
       /\ p' = q
       /\ IF q = root
          THEN hdr' = h /\ pc' = "visit" /\ UNCHANGED <<pending, root>>
          ELSE /\ hdr' = Union(h, root, q)
               /\ root' = Survivor(h, root, q)
               /\ pending' = Tail(pending)
               /\ UNCHANGED pc
  /\ UNCHANGED <<graph, mem, iso, objects, dfs, toDealloc>>

VisitIso ==
  /\ Visiting("ISO")
  /\ iso' = <<Top.obj>> \o iso
  /\ dfs' = Tail(dfs)
  /\ UNCHANGED <<graph, hdr, mem, pc, objects, pending, toDealloc, root, p>>

(* incref of an immutable or a cown outside, incref_nonatomic of a         *)
(* complete SCC.                                                           *)
IncreffedSlip(o) == [Compressed(o) EXCEPT ![o].n = @ + 1]
Increffed(o) == [Compressed(o) EXCEPT ![Root(o)].n = @ + 1]
VisitCounted ==
  /\ Visiting("RC") \/ Visiting("SHARED") \/ Visiting("NONATOMIC_RC")
  /\ hdr' = Increffed(Top.obj)
  /\ dfs' = Tail(dfs)
  /\ UNCHANGED <<graph, mem, pc, iso, objects, pending, toDealloc, root, p>>

VisitUnmarked ==
  /\ Visiting("UNMARKED")
  /\ LET q == Top.obj IN
       /\ objects' = <<hdr[q].ptr>> \o objects
       /\ hdr' = [hdr EXCEPT ![q] = Pending(0)]
       /\ pending' = <<q>> \o pending
       /\ LET d == Traced(q, <<>>)
          IN dfs' = [i \in DOMAIN d |-> Visit(d[i])] \o <<PostOrderMark(q)>> \o Tail(dfs)
  /\ UNCHANGED <<graph, mem, pc, iso, toDealloc, root, p>>

StartSweep ==
  /\ pc = "visit" /\ dfs = <<>>
  /\ p' = Head(objects) /\ objects' = Tail(objects)
  /\ pc' = "sweep"
  /\ UNCHANGED <<graph, hdr, mem, iso, dfs, pending, toDealloc, root>>

(* Region::release of the nested regions that only o referred to, and the  *)
(* counts their remembered sets held.                                      *)
NestedIn(o) == {hdr[Fields(o)[i]].ptr : i \in {j \in DOMAIN Fields(o) :
                                              hdr[Fields(o)[j]].class = "ISO"}}
Dropped(h, regs) ==
  [x \in All |-> [h[x] EXCEPT !.n = @ - Cardinality({g \in regs : x \in Remembers(g)})]]
Gone(h, regs) == regs \cup UNION {Members(g) : g \in regs}
                   \cup {x \in UNION {Remembers(g) : g \in regs} : h[x].n = 0}

(* An unreachable object: finalised now, deallocated after the sweep; the  *)
(* list of those to deallocate runs through their headers.                 *)
SweepUnreached ==
  /\ pc = "sweep" /\ hdr[p].class = "UNMARKED"
  /\ LET h == Dropped(hdr, NestedIn(p)) IN
       /\ mem' = [o \in All |-> IF o = p THEN "finalised"
                                ELSE IF o \in Gone(h, NestedIn(p)) THEN "freed" ELSE mem[o]]
       /\ hdr' = [h EXCEPT ![p] = Unmarked(IF toDealloc = <<>> THEN Null ELSE Head(toDealloc))]
  /\ toDealloc' = <<p>> \o toDealloc
  /\ p' = hdr[p].ptr
  /\ UNCHANGED <<graph, pc, iso, objects, dfs, pending, root>>

(* Any other object ends the sublist it is on; a completed count becomes   *)
(* atomic.                                                                 *)
SweepReached ==
  /\ pc = "sweep" /\ hdr[p].class \in {"NONATOMIC_RC", "MARKED", "RC", "SCC_PTR"}
  /\ hdr' = IF hdr[p].class = "NONATOMIC_RC" THEN [hdr EXCEPT ![p].class = "RC"] ELSE hdr
  /\ IF objects = <<>> THEN pc' = "dealloc" /\ UNCHANGED <<p, objects>>
     ELSE p' = Head(objects) /\ objects' = Tail(objects) /\ UNCHANGED pc
  /\ UNCHANGED <<graph, mem, iso, dfs, pending, toDealloc, root>>

(* Deallocate the unreachable objects, discard the remembered set with the *)
(* counts it holds, and deallocate the metadata object.                    *)
Dealloc ==
  /\ pc = "dealloc"
  /\ LET reg == CHOOSE g \in Regions : mem[g] = "live" /\ hdr[g].class = "MARKED"
         h == Dropped(hdr, {reg})
         dead == {toDealloc[i] : i \in DOMAIN toDealloc} \cup {reg}
                   \cup {x \in Remembers(reg) : h[x].n = 0}
     IN /\ hdr' = h
        /\ mem' = [o \in All |-> IF o \in dead THEN "freed" ELSE mem[o]]
  /\ toDealloc' = <<>>
  /\ pc' = "region"
  /\ UNCHANGED <<graph, iso, objects, dfs, pending, root, p>>

Done ==
  /\ pc = "region" /\ iso = <<>>
  /\ pc' = "frozen" /\ root' = Null /\ p' = Null
  /\ UNCHANGED <<graph, hdr, mem>> /\ UNCHANGED stacks

FreezeNext ==
  \/ NextRegion \/ VisitPostOrder \/ VisitPending \/ Collapse \/ VisitIso
  \/ VisitCounted \/ VisitUnmarked \/ StartSweep \/ SweepUnreached
  \/ SweepReached \/ Dealloc \/ Done
=============================================================================
