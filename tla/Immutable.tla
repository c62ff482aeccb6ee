----------------------------- MODULE Immutable -----------------------------
(***************************************************************************)
(* Reference counting of frozen graphs (region/immutable.h), composed with *)
(* the freeze that makes them.  Every thread may take a reference to any   *)
(* object another thread's reference reaches (Immutable::acquire) and give *)
(* it back (Immutable::release); the release that takes a component's last *)
(* count frees it, and drops its references to other components one by one *)
(* while other threads acquire and release.                                *)
(*                                                                         *)
(* The stacks dfs, scc and fl of Immutable::free are linked through the    *)
(* headers of their members, which thereby become UNMARKED: a member of    *)
(* the component already seen is told from one not yet seen by that.       *)
(***************************************************************************)
EXTENDS Freeze

CONSTANTS Threads, First   \* First freezes the region and has the reference to it

VARIABLES ref,     \* the object a thread has a reference to, or Null
          th       \* Immutable::free of every thread
vars == <<freezeVars, ref, th>>

Idle == [pc |-> "idle", target |-> Null, v |-> Null,
         f |-> <<>>, scc |-> <<>>, fl |-> <<>>, dfs |-> <<>>]

ImmutableInit ==
  /\ Init
  /\ ref = [t \in Threads |-> IF t = First THEN graph.entry[Start] ELSE Null]
  /\ th = [t \in Threads |-> Idle]

Freezing == FreezeNext /\ UNCHANGED <<ref, th>>

(* What a set of objects reaches through fields. *)
Reachable(S) ==
  LET g[n \in 0..Cardinality(Objects)] ==
        IF n = 0 THEN S
        ELSE g[n-1] \cup UNION {{Fields(o)[i] : i \in DOMAIN Fields(o)} : o \in g[n-1]}
  IN g[Cardinality(Objects)]

-----------------------------------------------------------------------------
Frozen == pc = "frozen"
Linked(s) == IF s = <<>> THEN Null ELSE Head(s)
Step(t, rec) == th' = [th EXCEPT ![t] = rec]
Rest == UNCHANGED <<graph, pc, root, p>> /\ UNCHANGED stacks

(* incref on behalf of a thread that gets a reference of its own. *)
Acquire(t, u, o) ==
  /\ Frozen /\ th[t].pc = "idle" /\ ref[t] = Null
  /\ ref[u] # Null /\ o \in Reachable({ref[u]}) /\ Class(o) = "RC"
  /\ hdr' = Increffed(o)
  /\ ref' = [ref EXCEPT ![t] = o]
  /\ UNCHANGED <<mem, th>> /\ Rest

Release(t) ==
  /\ Frozen /\ th[t].pc = "idle" /\ ref[t] # Null
  /\ Step(t, [Idle EXCEPT !.pc = "decref", !.target = Root(ref[t])])
  /\ hdr' = Compressed(ref[t])
  /\ ref' = [ref EXCEPT ![t] = Null]
  /\ UNCHANGED mem /\ Rest

(* The last count is gone: push the component's root on the dfs stack. *)
PushedSlip(t, o) == [th[t] EXCEPT !.pc = "free", !.target = Null, !.dfs = <<o>>]
Pushed(t, o) == [th[t] EXCEPT !.pc = "free", !.target = Null, !.dfs = <<o>> \o @]
Last(t, o) ==
  /\ Step(t, Pushed(t, o))
  /\ hdr' = [hdr EXCEPT ![o] = Unmarked(Linked(th[t].dfs))]

(* decref: a load sees whether this is the only count; only otherwise is   *)
(* it subtracted, and the subtraction may still turn out to be the last.   *)
DecrefLoad(t) ==
  /\ th[t].pc = "decref"
  /\ IF hdr[th[t].target].n = 1
     THEN Last(t, th[t].target)
     ELSE Step(t, [th[t] EXCEPT !.pc = "subtract"]) /\ UNCHANGED hdr
  /\ UNCHANGED <<mem, ref>> /\ Rest

DecrefSub(t) ==
  /\ th[t].pc = "subtract"
  /\ LET o == th[t].target IN
       IF hdr[o].n = 1 THEN Last(t, o)
       ELSE /\ hdr' = [hdr EXCEPT ![o].n = @ - 1]
            /\ Step(t, [th[t] EXCEPT !.pc = "free", !.target = Null])
  /\ UNCHANGED <<mem, ref>> /\ Rest

(* scc_classify of the next reference on f. *)
Classify(t) ==
  /\ th[t].pc = "free" /\ th[t].f # <<>>
  /\ LET w == Head(th[t].f)  rest == [th[t] EXCEPT !.f = Tail(@)] IN
       \/ /\ Class(w) = "RC"
          /\ hdr' = Compressed(w)
          /\ Step(t, [rest EXCEPT !.pc = "decref", !.target = Root(w)])
          /\ UNCHANGED mem
       \/ /\ Class(w) = "UNMARKED" /\ w = Root(w)
          /\ Step(t, rest) /\ UNCHANGED <<hdr, mem>>
       \/ /\ Class(w) = "UNMARKED" /\ w # Root(w)
          /\ hdr' = [Compressed(w) EXCEPT ![w] = Unmarked(Linked(th[t].scc))]
          /\ Step(t, [rest EXCEPT !.scc = <<w>> \o @])
          /\ UNCHANGED mem
       \/ /\ Class(w) = "SHARED"                \* shared::release of a cown
          /\ hdr' = [hdr EXCEPT ![w].n = @ - 1]
          /\ mem' = [mem EXCEPT ![w] = IF hdr[w].n = 1 THEN "freed" ELSE @]
          /\ Step(t, rest)
  /\ UNCHANGED ref /\ Rest

(* The next component whose count is gone. *)
NextScc(t) ==
  /\ th[t].pc = "free" /\ th[t].v = Null /\ th[t].f = <<>> /\ th[t].dfs # <<>>
  /\ LET v == Head(th[t].dfs)
     IN Step(t, [th[t] EXCEPT !.v = v, !.dfs = Tail(@), !.f = Traced(v, <<>>)])
  /\ UNCHANGED <<hdr, mem, ref>> /\ Rest

(* The next object of the component that has not been traced. *)
NextMember(t) ==
  /\ th[t].pc = "free" /\ th[t].f = <<>> /\ th[t].scc # <<>>
  /\ LET w == Head(th[t].scc) IN
       /\ Step(t, [th[t] EXCEPT !.scc = Tail(@), !.fl = <<w>> \o @, !.f = Traced(w, <<>>)])
       /\ hdr' = [hdr EXCEPT ![w] = Unmarked(Linked(th[t].fl))]
  /\ UNCHANGED <<mem, ref>> /\ Rest

(* Run the finalisers of the whole component, and only then deallocate. *)
Component(t) == {th[t].v} \cup {th[t].fl[i] : i \in DOMAIN th[t].fl}
Traversed(t) == th[t].pc = "free" /\ th[t].v # Null /\ th[t].f = <<>> /\ th[t].scc = <<>>
Finalise(t) ==
  /\ Traversed(t)
  /\ mem' = [o \in All |-> IF o \in Component(t) THEN "finalised" ELSE mem[o]]
  /\ Step(t, [th[t] EXCEPT !.pc = "destroy"])
  /\ UNCHANGED <<hdr, ref>> /\ Rest
Destroy(t) ==
  /\ th[t].pc = "destroy"
  /\ mem' = [o \in All |-> IF o \in Component(t) THEN "freed" ELSE mem[o]]
  /\ Step(t, [th[t] EXCEPT !.pc = "free", !.v = Null, !.fl = <<>>])
  /\ UNCHANGED <<hdr, ref>> /\ Rest

Return(t) ==
  /\ th[t].pc = "free" /\ th[t].v = Null /\ th[t].f = <<>> /\ th[t].dfs = <<>>
  /\ Step(t, Idle)
  /\ UNCHANGED <<hdr, mem, ref>> /\ Rest

Next ==
  \/ Freezing
  \/ \E t \in Threads :
       \/ \E u \in Threads, o \in Objects : Acquire(t, u, o)
       \/ Release(t) \/ DecrefLoad(t) \/ DecrefSub(t) \/ Classify(t)
       \/ NextScc(t) \/ NextMember(t) \/ Finalise(t) \/ Destroy(t) \/ Return(t)

Spec == ImmutableInit /\ [][Next]_vars

-----------------------------------------------------------------------------
(* The components of the graph, defined by mutual reachability. *)
Scc(o) == {x \in Reachable({o}) : o \in Reachable({x})}

(* References under way: a thread still has to drop them. *)
Underway(t, S) ==
  Cardinality({i \in DOMAIN th[t].f : th[t].f[i] \in S})
    + (IF th[t].pc \in {"decref", "subtract"} /\ th[t].target \in S THEN 1 ELSE 0)
    + (IF ref[t] \in S THEN 1 ELSE 0)
Untraced(o) == mem[o] = "live" /\ \A t \in Threads : o \notin Component(t)
Incoming(S) ==
  Cardinality({<<o, i>> \in (Objects \ S) \X (1..3) :
                 Untraced(o) /\ i \in DOMAIN Fields(o) /\ Fields(o)[i] \in S})
TotalUnderway(S) == Cardinality({<<t, i>> \in Threads \X (0..8) : i < Underway(t, S)})

(* Freezing finds the components, and the count of each is exact: the      *)
(* references into it from outside it, the threads' own and those a thread *)
(* is about to drop (the union-find and counts of freeze.h, the decrefs of *)
(* scc_classify and release).                                              *)
SccsCounted ==
  Frozen => \A o \in Objects : mem[o] = "live" /\ Class(o) \in {"RC", "SHARED"} =>
              /\ {x \in Objects : mem[x] = "live" /\ Root(x) = Root(o)} = Scc(o)
              /\ hdr[Root(o)].n = Incoming(Scc(o)) + TotalUnderway(Scc(o))

(* What a thread can reach from its reference is neither finalised nor     *)
(* freed: not by the freeze, and not by another thread's release.          *)
HeldIsAlive ==
  \A t \in Threads : ref[t] # Null => \A o \in Reachable({ref[t]}) : mem[o] = "live"

(* When no release is under way, what no reference reaches is gone: the    *)
(* freeze and the releases leak neither objects nor region metadata.       *)
NothingLeaks ==
  Frozen /\ (\A t \in Threads : th[t] = Idle) =>
    /\ \A g \in Regions : Members(g) # {} => mem[g] = "freed"
    /\ \A o \in Objects \ Reachable({ref[t] : t \in Threads} \cap Objects) : mem[o] = "freed"

(* "The finaliser is run while all objects in the region are valid. It may *)
(* follow pointers and examine other objects" (object.h:88): for a frozen  *)
(* object, what its fields point to is not deallocated when it is          *)
(* finalised.                                                              *)
FinaliserSeesFields ==
  [][Frozen => \A o, x \in Objects :
       /\ mem[o] = "live" /\ mem'[o] = "finalised"
       /\ graph.region[o] = graph.region[x] /\ (\E i \in DOMAIN Fields(o) : Fields(o)[i] = x)
       => mem'[x] # "freed"]_vars
=============================================================================
