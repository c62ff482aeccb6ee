-------------------------- MODULE BehaviourCoreInv --------------------------
(***************************************************************************)
(* The inductive invariant of BehaviourCore: what must hold between the    *)
(* program counters, the chains and the counts for the properties of the   *)
(* module to survive every step.  TLC checks it on the same small          *)
(* instances; BehaviourCoreProofs proves it for every instance.            *)
(***************************************************************************)
EXTENDS BehaviourCore

(* b has a place on c's chain; places up to served[c] have been released,  *)
(* the place after that owns the cown, the ones behind it are blocked.     *)
OnChain(b, c) == pos[b][c] > 0

Blocked(b) ==
  {c \in Footprint[b] : pos[b][c] = 0 \/ pos[b][c] > served[c] + 1}

InPhase1 == {"exchange", "acquire", "spin", "link"}

(* How the call and the execution of one behaviour depend on each other.   *)
CallInv ==
  \A b \in Behaviours :
    /\ time[b] = 0 <=> scall[b] \in InPhase1
    /\ time[b] <= spawned
    /\ todo[b] \subseteq Footprint[b]
    /\ scall[b] \in InPhase1 => todo[b] # {}
    /\ scall[b] \in {"acquire", "spin", "link"} => at[b] \in todo[b]
    /\ ec[b] >= 1
    /\ wakes[b] = IF work[b] = "idle" THEN 0 ELSE 1
    /\ work[b] # "idle" => scall[b] = "returned"

WorkInv ==
  \A b \in Behaviours :
    /\ left[b] \subseteq Footprint[b]
    /\ work[b] \in {"idle", "queued", "running"} => left[b] = Footprint[b]
    /\ work[b] \in {"release", "cas", "drop", "extended", "load", "sub"}
         => left[b] # {}
    /\ work[b] \in {"cas", "drop", "extended", "load", "sub"}
         => rel[b] \in left[b]
    /\ work[b] \in {"load", "sub"} => Successor(b) \in Behaviours
    /\ work[b] \in {"free", "freed"} => left[b] = {}
    /\ work[b] = "extended" => lastSlot[rel[b]] # b

(* A slot leaves Wait in phase 2, and a successor is linked after that.    *)
StatusInv ==
  \A b \in Behaviours, c \in Cowns :
    /\ time[b] = 0 \/ (scall[b] = "ready" /\ c \in todo[b])
         => status[b][c] = Wait
    /\ /\ time[b] > 0 /\ c \in Footprint[b]
       /\ scall[b] = "ready" => c \notin todo[b]
       => status[b][c] # Wait

(* Who is on the chain of a cown: whoever exchanged its tail.              *)
ChainInv ==
  \A b \in Behaviours, c \in Cowns :
    OnChain(b, c) <=>
      /\ c \in Footprint[b]
      /\ \/ time[b] > 0
         \/ c \notin todo[b]
         \/ scall[b] \in {"acquire", "spin", "link"} /\ c = at[b]

(* Places are unique and last_slot is the last one, or null when all the   *)
(* places were released.                                                   *)
PlaceInv ==
  \A b, o \in Behaviours : \A c \in Cowns :
    /\ pos[b][c] <= joined[c]
    /\ OnChain(b, c) /\ pos[b][c] = pos[o][c] => b = o

TailInv ==
  \A c \in Cowns :
    /\ served[c] <= joined[c]
    /\ lastSlot[c] = NoSlot <=> served[c] = joined[c]
    /\ lastSlot[c] # NoSlot => pos[lastSlot[c]][c] = joined[c]

(* prev is the slot one place ahead; it cannot be released before the link *)
(* is made.                                                                *)
PrevInv ==
  \A b \in Behaviours :
    scall[b] \in {"spin", "link"} =>
      /\ prev[b] \in Behaviours
      /\ pos[b][at[b]] = pos[prev[b]][at[b]] + 1
      /\ OnChain(prev[b], at[b])
      /\ at[b] \in Held(prev[b])
      /\ status[prev[b]][at[b]] \notin Behaviours
      /\ scall[b] = "link" => status[prev[b]][at[b]] # Wait

(* The status of a slot names the slot one place behind. *)
NextInv ==
  \A b \in Behaviours, c \in Cowns :
    status[b][c] \in Behaviours =>
      OnChain(b, c) /\ pos[status[b][c]][c] = pos[b][c] + 1

(* The released places of a chain are those of the slots let go of.        *)
HeldInv ==
  \A b \in Behaviours, c \in Cowns :
    OnChain(b, c) => (c \in Held(b) <=> served[c] < pos[b][c])

(* What executes is blocked nowhere.                                       *)
RunInv == \A b \in Behaviours : work[b] # "idle" => Blocked(b) = {}

(* exec_count_down is the number of blocked slots, plus what the call of   *)
(* schedule itself still has to resolve.                                   *)
CountInv ==
  \A b \in Behaviours :
    work[b] = "idle" =>
      /\ countdown[b] = Cardinality(Blocked(b))
                        + IF scall[b] = "returned" THEN 0 ELSE ec[b]
      /\ scall[b] = "returned" => Blocked(b) # {}

(* Chains agree with the order of finishing phase 1.                       *)
TimeInv ==
  \A b, o \in Behaviours : \A c \in Cowns :
    OnChain(b, c) /\ pos[b][c] < pos[o][c] /\ time[o] > 0
      => 0 < time[b] /\ time[b] < time[o]

(* Whoever got past its place on c knows that those ahead of it have       *)
(* finished phase 1.                                                       *)
AheadInv ==
  \A b, o \in Behaviours : \A c \in Cowns :
    /\ OnChain(b, c) /\ pos[b][c] < pos[o][c]
    /\ time[o] = 0
    /\ c \notin todo[o] \/ (scall[o] \in {"acquire", "link"} /\ c = at[o])
    => time[b] > 0

IInv == /\ TypeOK /\ CallInv /\ WorkInv /\ StatusInv /\ ChainInv /\ PlaceInv
        /\ TailInv /\ PrevInv /\ NextInv /\ HeldInv /\ RunInv /\ CountInv
        /\ TimeInv /\ AheadInv

----------------------------------------------------------------------------
(* The strong counts of the cowns, proved in BehaviourCoreProofs.          *)

(* Until a YesTransfer call has counted a chain, or found one, the count   *)
(* that its caller brought is still there; a NoTransfer caller keeps all   *)
(* its counts until the call has returned.                                 *)
CallerInv ==
  \A b \in Behaviours :
    /\ callerRef[b] \subseteq Footprint[b]
    /\ b \in Transfer /\ scall[b] \in {"exchange", "acquire", "spin"}
         => todo[b] \subseteq callerRef[b]
    /\ b \in Transfer /\ scall[b] = "link"
         => todo[b] \ {at[b]} \subseteq callerRef[b]
    /\ b \notin Transfer /\ scall[b] # "returned"
         => callerRef[b] = Footprint[b]

(* Whoever goes to Cown::acquire is the first of its chain: nobody else is *)
(* about to count this chain, and nobody can release it meanwhile.         *)
AcquireInv ==
  \A b \in Behaviours :
    scall[b] = "acquire" => pos[b][at[b]] = served[at[b]] + 1

(* The two terms of the equation on c's count, and its chain's.            *)
Droppers(c) == {b \in Behaviours : work[b] = "drop" /\ rel[b] = c}
Callers(c) == {b \in Behaviours : c \in callerRef[b]}
Counted(c) ==
  /\ lastSlot[c] # NoSlot
  /\ ~ \E b \in Behaviours : scall[b] = "acquire" /\ at[b] = c

RefInv == /\ CallerInv /\ AcquireInv /\ ChainHoldsOneCount

=============================================================================
