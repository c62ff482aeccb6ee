------------------------------ MODULE Regions ------------------------------
(***************************************************************************)
(* Trace and arena regions together, nested in one another: the program    *)
(* creates, fills, merges, re-roots, collects and releases them.           *)
(***************************************************************************)
EXTENDS TraceRegion, ArenaRegion

Next ==
  \/ \E m \in Metas, o \in Objs :
       \/ CreateTrace(m, o) \/ AllocTrace(m, o) \/ SwapTrace(m, o)
       \/ CreateArena(m, o) \/ AllocArena(m, o) \/ SwapArena(m, o)
       \/ ClearField(m, o) \/ TakeRegion(m, o) \/ PushRoot(m, o)
       \/ \E x \in Objs : SetField(m, o, x)
       \/ \E s \in Metas : StoreRegion(m, o, s)
  \/ \E m \in Metas : \/ PopRoot(m) \/ Gc(m) \/ Release(m)
                      \/ \E s \in Metas : MergeTrace(m, s) \/ MergeArena(m, s)
  \/ StartSweep \/ SweepIso \/ SweepMarked \/ SweepUnmarked \/ EndRing
  \/ FinaliseArena \/ FreeArena

Spec == Init /\ [][Next]_vars

-----------------------------------------------------------------------------
(* Whatever the rings and arenas look like, and however far a sweep got,   *)
(* they hold the objects the abstract region has, and an object goes only  *)
(* when its region is dropped or its roots no longer reach it.             *)
Sets == INSTANCE RegionSets WITH
          members <- [m \in Metas |-> Contents(m)],
          entry <- [m \in Metas |-> EntryOf(m)],
          roots <- [m \in Metas |-> RootObjects(m)]
ImplementsRegionSets == Sets!Spec

(* "The finaliser is run while all objects in the region are valid": when  *)
(* an object is finalised, no object of its region it points to has been   *)
(* freed, and no subregion either (sweep_ring's two passes).               *)
FinaliserSeesRegion ==
  [][\A o \in Objs : mem[o] = "live" /\ mem'[o] = "finalised" /\ field[o] # Null
       => mem'[field[o]] # "freed"]_vars

(* A collection leaves exactly what the roots reach, and when it or a      *)
(* release ends nothing of a dropped region is left, nested ones included. *)
Complete(m) == Contents(m) = Sets!Live(m)
NothingDropped == \A m \in Metas : mem[m] = "live" => ~Sets!Dropped(m)
CollectsGarbage ==
  [][job # NoJob /\ job' = NoJob
       => NothingDropped' /\ \A m \in Metas : m = job.of => Complete(m)']_vars
=============================================================================
