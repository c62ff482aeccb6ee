----------------------------- MODULE RegionSets -----------------------------
(***************************************************************************)
(* What a region promises, whatever rings and arenas it keeps its objects  *)
(* in: a set of objects with an entry point.  An object is in one region,  *)
(* stays there until its region is merged into another, and is reclaimed   *)
(* only when the region's roots no longer reach it or nobody has the       *)
(* region.                                                                 *)
(***************************************************************************)
EXTENDS FiniteSets

CONSTANTS Objs, Metas, Null

VARIABLES members,   \* the objects of a region
          entry,     \* its entry point, or Null
          field,     \* the one field of an object
          roots,     \* the additional roots of a region
          owned      \* the regions the program itself has
vars == <<members, entry, field, roots, owned>>

Init ==
  /\ members = [m \in Metas |-> {}] /\ entry = [m \in Metas |-> Null]
  /\ field = [o \in Objs |-> Null] /\ roots = [m \in Metas |-> {}]
  /\ owned = {}

RECURSIVE Closure(_, _)
Closure(S, M) ==
  LET T == S \cup ({field[o] : o \in S} \cap M)
  IN IF T = S THEN S ELSE Closure(T, M)
Live(m) == Closure(({entry[m]} \cup roots[m]) \cap members[m], members[m])

InSomeRegion == UNION {members[m] : m \in Metas}
Dropped(m) == m \notin owned /\ \A o \in InSomeRegion \ members[m] :
                                  entry[m] = Null \/ field[o] # entry[m]
Unused(o) == o \notin InSomeRegion

Create(m, o) ==
  /\ members[m] = {} /\ entry[m] = Null /\ Unused(o)
  /\ members' = [members EXCEPT ![m] = {o}] /\ entry' = [entry EXCEPT ![m] = o]
  /\ owned' = owned \cup {m}
  /\ UNCHANGED <<field, roots>>
Allocate(m, o) ==
  /\ m \in owned /\ Unused(o)
  /\ members' = [members EXCEPT ![m] = @ \cup {o}]
  /\ UNCHANGED <<entry, field, roots, owned>>
SwapRoot(m, o) ==
  /\ m \in owned /\ o \in members[m]
  /\ entry' = [entry EXCEPT ![m] = o]
  /\ UNCHANGED <<members, field, roots, owned>>
Merge(m, s) ==
  /\ {m, s} \subseteq owned /\ m # s
  /\ members' = [members EXCEPT ![m] = @ \cup members[s], ![s] = {}]
  /\ entry' = [entry EXCEPT ![s] = Null]
  /\ owned' = owned \ {s}
  /\ UNCHANGED <<field, roots>>
Program ==      \* writes fields, pushes roots, gives and takes regions
  /\ UNCHANGED <<members, entry>>
  /\ \A o \in Objs : field'[o] # field[o] => o \in UNION {members[m] : m \in owned}
(* What is not reachable any more goes, all at once or one after the other. *)
Reclaim(m, S) ==
  /\ S \subseteq members[m] /\ (Dropped(m) \/ S \cap Live(m) = {})
  /\ members' = [members EXCEPT ![m] = @ \ S]
  /\ entry' = [entry EXCEPT ![m] = IF @ \in S THEN Null ELSE @]
  /\ UNCHANGED <<field, roots, owned>>

Next ==
  \/ \E m \in Metas, o \in Objs : Create(m, o) \/ Allocate(m, o) \/ SwapRoot(m, o)
  \/ \E m, s \in Metas : Merge(m, s)
  \/ \E m \in Metas, S \in SUBSET Objs : Reclaim(m, S)
  \/ Program
Spec == Init /\ [][Next]_vars
=============================================================================
