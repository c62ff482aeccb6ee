-------------------------------- MODULE BoC --------------------------------
(***************************************************************************)
(* What `when (cowns) << body` promises, with no queue and no lock in it.  *)
(*                                                                         *)
(* Behaviours are spawned in one total order.  A behaviour may start when  *)
(* every behaviour spawned before it has let go of each cown they share;   *)
(* when its body has returned it lets go of its cowns one at a time.       *)
(* The doc comment of BehaviourCore::schedule (behaviourcore.h 240-265)    *)
(* calls this the happens before order: one `when` cannot overtake         *)
(* another one that it shares a cown with.                                 *)
(***************************************************************************)
EXTENDS Naturals, TLAPS

CONSTANTS Behaviours,   \* the behaviours that get scheduled
          Cowns,        \* the concurrent owners they are scheduled on
          Footprint     \* Footprint[b]: the cowns of behaviour b's slots

(* What an instance has to give for Footprint. *)
FootprintAssumption ==
  Footprint \in [Behaviours -> (SUBSET Cowns) \ {{}}]

VARIABLES phase,        \* phase[b]: new, pending, running, releasing or done
          time,         \* time[b]: b's place in the order of spawning, 0 before
          spawned,      \* how many behaviours have been spawned
          held          \* held[b]: the cowns b has not let go of

vars == <<phase, time, spawned, held>>

(* The behaviours spawned before b. *)
Before(b) == {o \in Behaviours : 0 < time[o] /\ time[o] < time[b]}

Init == /\ phase = [b \in Behaviours |-> "new"]
        /\ time = [b \in Behaviours |-> 0]
        /\ spawned = 0
        /\ held = Footprint

(* A `when` takes its place in the order, on all of its cowns at once. *)
Spawn(b) == /\ phase[b] = "new"
            /\ phase' = [phase EXCEPT ![b] = "pending"]
            /\ spawned' = spawned + 1
            /\ time' = [time EXCEPT ![b] = spawned + 1]
            /\ UNCHANGED held

(* The body starts once nothing spawned earlier holds a cown it needs. *)
Start(b) == /\ phase[b] = "pending"
            /\ \A o \in Before(b) : held[o] \cap Footprint[b] = {}
            /\ phase' = [phase EXCEPT ![b] = "running"]
            /\ UNCHANGED <<time, spawned, held>>

(* The body returns. *)
Finish(b) == /\ phase[b] = "running"
             /\ phase' = [phase EXCEPT ![b] = "releasing"]
             /\ UNCHANGED <<time, spawned, held>>

(* One cown is handed on. *)
Release(b, c) == /\ phase[b] = "releasing"
                 /\ c \in held[b]
                 /\ held' = [held EXCEPT ![b] = @ \ {c}]
                 /\ phase' = [phase EXCEPT ![b] =
                                IF held[b] = {c} THEN "done" ELSE @]
                 /\ UNCHANGED <<time, spawned>>

(* What the scheduler does once a behaviour has been spawned. *)
Execute(b) == \/ Start(b) \/ Finish(b)
              \/ \E c \in Cowns : Release(b, c)

Next == \E b \in Behaviours : Spawn(b) \/ Execute(b)

Spec == Init /\ [][Next]_vars

(* The scheduler does not sleep while it has a behaviour to execute; no    *)
(* program has to spawn one.                                               *)
FairSpec == Spec /\ \A b \in Behaviours : WF_vars(Execute(b))

----------------------------------------------------------------------------

(* Data-race freedom: two bodies that run at once share no cown. *)
Isolation ==
  \A b, o \in Behaviours :
    phase[b] = "running" /\ phase[o] = "running" /\ b # o
      => Footprint[b] \cap Footprint[o] = {}

(* Waiting for everything spawned earlier is not waiting in a cycle: what  *)
(* was spawned is executed to the end.                                     *)
EveryWhenRuns ==
  \A b \in Behaviours : phase[b] = "pending" ~> phase[b] = "done"

----------------------------------------------------------------------------
(* Isolation, proved for every instance. *)

Phases == {"new", "pending", "running", "releasing", "done"}

(* Times are distinct, and whatever has started found nothing ahead of it  *)
(* that still held one of its cowns.                                       *)
BoCInv ==
  /\ phase \in [Behaviours -> Phases]
  /\ time \in [Behaviours -> Nat]
  /\ spawned \in Nat
  /\ held \in [Behaviours -> SUBSET Cowns]
  /\ \A b \in Behaviours :
       /\ phase[b] = "new" <=> time[b] = 0
       /\ time[b] <= spawned
       /\ phase[b] = "running" => held[b] = Footprint[b]
       /\ phase[b] = "running" =>
            \A o \in Before(b) : held[o] \cap Footprint[b] = {}
       /\ phase[b] \in {"new", "pending"} => held[b] = Footprint[b]
  /\ \A b, o \in Behaviours : time[b] = time[o] /\ time[b] # 0 => b = o

(* No step of a `when` breaks the order. *)
LEMMA BoCInvariance ==
  ASSUME FootprintAssumption
  PROVE  Spec => []BoCInv
<1>1. Init => BoCInv
  BY FootprintAssumption DEF FootprintAssumption, Init, BoCInv, Phases, Before
<1>2. BoCInv /\ [Next]_vars => BoCInv'
  <2> SUFFICES ASSUME BoCInv, [Next]_vars PROVE BoCInv'
    OBVIOUS
  <2> USE DEF BoCInv, Phases, Before
  <2>1. ASSUME NEW b \in Behaviours, Spawn(b) PROVE BoCInv'
    BY <2>1 DEF Spawn
  <2>2. ASSUME NEW b \in Behaviours, Start(b) PROVE BoCInv'
    BY <2>2 DEF Start
  <2>3. ASSUME NEW b \in Behaviours, Finish(b) PROVE BoCInv'
    BY <2>3 DEF Finish
  <2>4. ASSUME NEW b \in Behaviours, NEW c \in Cowns, Release(b, c)
        PROVE  BoCInv'
    BY <2>4 DEF Release
  <2>5. CASE UNCHANGED vars
    BY <2>5 DEF vars
  <2> QED BY <2>1, <2>2, <2>3, <2>4, <2>5 DEF Next, Execute
<1> QED BY <1>1, <1>2, PTL DEF Spec

(* Data-race freedom: of two running bodies the later one would have       *)
(* waited for the earlier one to let go of a shared cown.                  *)
THEOREM IsolationHolds ==
  ASSUME FootprintAssumption
  PROVE  Spec => []Isolation
<1>1. BoCInv => Isolation
  <2> SUFFICES ASSUME BoCInv, NEW b \in Behaviours, NEW o \in Behaviours,
                      phase[b] = "running", phase[o] = "running",
                      time[o] < time[b]
               PROVE  Footprint[b] \cap Footprint[o] = {}
    BY DEF BoCInv, Isolation
  <2>1. o \in Before(b)
    BY DEF BoCInv, Before
  <2> QED BY <2>1 DEF BoCInv
<1> QED BY <1>1, BoCInvariance, PTL

============================================================================
