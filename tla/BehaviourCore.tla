--------------------------- MODULE BehaviourCore ---------------------------
(***************************************************************************)
(* The scheduling of behaviours on cowns: rt/sched/behaviourcore.h and     *)
(* behaviour.h, with the strong count of each cown.                        *)
(*                                                                         *)
(* Every cown is an MCS queue lock.  cown->last_slot is the tail of its    *)
(* chain, a slot is one behaviour's node in the chain of one cown, and the *)
(* slot's status is Wait, Ready, or the next behaviour.  A `when` does not *)
(* block: BehaviourCore::schedule enqueues the behaviour in two phases     *)
(* (exchange every tail, in address order; then mark every slot ready),    *)
(* and exec_count_down counts the slots still to be granted.  The call     *)
(* that brings it to zero hands the work item to Scheduler::schedule.      *)
(*                                                                         *)
(* Two threads of control touch a behaviour, each with a program counter:  *)
(* scall[b], the call of schedule(b) on its creator's thread, and work[b], *)
(* Behaviour::invoke on the scheduler thread that picked the item up.  One *)
(* action is one atomic access to a shared word, with the thread-local     *)
(* steps around it.  Accesses are sequentially consistent.                 *)
(*                                                                         *)
(* A slot is named by its behaviour and its cown: the cowns of one `when`  *)
(* are distinct (a duplicate would make the call wait for its own slot).   *)
(*                                                                         *)
(* The operators named ...Slip are the step below them with a slip in it;  *)
(* no action uses one.  They show that the properties notice.              *)
(***************************************************************************)
EXTENDS Integers, FiniteSets

CONSTANTS Behaviours,   \* the behaviours that get scheduled
          Cowns,        \* the cowns
          Footprint,    \* Footprint[b]: the cowns of b's slots
          Rank,         \* Rank[c]: the address of cown c, which orders phase 1
          Transfer,     \* the behaviours scheduled with YesTransfer
          Wait, Ready,  \* the values 0 and 1 of Slot::status
          NoSlot        \* nullptr in last_slot and in the local prev

ASSUME FootprintAssumption ==
  Footprint \in [Behaviours -> (SUBSET Cowns) \ {{}}]
ASSUME FiniteAssumption == IsFiniteSet(Behaviours) /\ IsFiniteSet(Cowns)
ASSUME RankAssumption ==
  /\ Rank \in [Cowns -> Nat]
  /\ \A c, d \in Cowns : Rank[c] = Rank[d] => c = d
ASSUME TransferAssumption == Transfer \subseteq Behaviours
ASSUME StatusAssumption ==
  /\ Wait \notin Behaviours /\ Ready \notin Behaviours /\ Wait # Ready
  /\ NoSlot \notin Behaviours

VARIABLES
  scall,      \* scall[b]: where the call of schedule(b) is
  todo,       \* todo[b]: cowns the current phase of the call has not done
  at,         \* at[b]: the cown that phase 1 exchanged last
  prev,       \* prev[b]: the slot found there
  ec,         \* ec[b]: the local count of grants to resolve at the end
  work,       \* work[b]: where the execution of b is
  left,       \* left[b]: slots that release_all has not finished
  rel,        \* rel[b]: cown of the slot being released
  countdown,  \* countdown[b]: exec_count_down
  status,     \* status[b][c]: status of b's slot on c
  lastSlot,   \* lastSlot[c]: behaviour whose slot is the tail of c's chain
  rc,         \* rc[c]: strong count of c; 0 is collected
  callerRef   \* callerRef[b]: cowns the caller of schedule(b) still counts on

(* History variables: written by the actions, read by no guard. *)
VARIABLES
  pos,        \* pos[b][c]: b's place in the order of exchanges on c, 0 before
  joined,     \* joined[c]: how many slots were ever put on c's chain
  served,     \* served[c]: how many of them were released
  time,       \* time[b]: b's place in the order of finishing phase 1, 0 before
  spawned,    \* how many behaviours have finished phase 1
  wakes       \* wakes[b]: how often b went to Scheduler::schedule

callVars == <<scall, todo, at, prev, ec>>
workVars == <<work, left, rel>>
slotVars == <<countdown, status, lastSlot>>
refVars  == <<rc, callerRef>>
history  == <<pos, joined, served, time, spawned, wakes>>
vars     == <<callVars, workVars, slotVars, refVars, history>>

----------------------------------------------------------------------------

(* The constructor: one more than the slots, for the call of schedule.     *)
InitialCount(b) == Cardinality(Footprint[b]) + 1

(* The callers of schedule each own one count on each cown they name. *)
Init ==
  /\ scall = [b \in Behaviours |-> "exchange"]
  /\ todo = Footprint
  /\ at = [b \in Behaviours |-> NoSlot]
  /\ prev = [b \in Behaviours |-> NoSlot]
  /\ ec = [b \in Behaviours |-> 1]
  /\ work = [b \in Behaviours |-> "idle"]
  /\ left = Footprint
  /\ rel = [b \in Behaviours |-> NoSlot]
  /\ countdown = [b \in Behaviours |-> InitialCount(b)]
  /\ status = [b \in Behaviours |-> [c \in Cowns |-> Wait]]
  /\ lastSlot = [c \in Cowns |-> NoSlot]
  /\ rc = [c \in Cowns |-> Cardinality({b \in Behaviours : c \in Footprint[b]})]
  /\ callerRef = Footprint
  /\ pos = [b \in Behaviours |-> [c \in Cowns |-> 0]]
  /\ joined = [c \in Cowns |-> 0]
  /\ served = [c \in Cowns |-> 0]
  /\ time = [b \in Behaviours |-> 0]
  /\ spawned = 0
  /\ wakes = [b \in Behaviours |-> 0]

(* The sorted order of phase 1: highest address first. *)
IsNextSlip(b, c) == c \in todo[b]
IsNext(b, c) == c \in todo[b] /\ \A d \in todo[b] : Rank[d] <= Rank[c]

(* The call is done with cown c; after the last one phase 1 is over. *)
Acquired(b, c) ==
  /\ IF todo[b] = {c}
     THEN /\ scall' = [scall EXCEPT ![b] = "ready"]
          /\ todo' = [todo EXCEPT ![b] = Footprint[b]]
          /\ spawned' = spawned + 1
          /\ time' = [time EXCEPT ![b] = spawned + 1]
     ELSE /\ scall' = [scall EXCEPT ![b] = "exchange"]
          /\ todo' = [todo EXCEPT ![b] = @ \ {c}]
          /\ UNCHANGED <<spawned, time>>
  /\ prev' = [prev EXCEPT ![b] = NoSlot]

(* Phase 1: become the tail of c's chain.  On an empty chain the slot is   *)
(* granted at once and counted in ec; otherwise prev is the slot ahead.    *)
Exchange(b, c) ==
  /\ scall[b] = "exchange"
  /\ IsNext(b, c)
  /\ at' = [at EXCEPT ![b] = c]
  /\ lastSlot' = [lastSlot EXCEPT ![c] = b]
  /\ prev' = [prev EXCEPT ![b] = lastSlot[c]]
  /\ IF lastSlot[c] = NoSlot
     THEN /\ ec' = [ec EXCEPT ![b] = @ + 1]
          /\ scall' = [scall EXCEPT ![b] = "acquire"]
     ELSE /\ scall' = [scall EXCEPT ![b] = "spin"]
          /\ UNCHANGED ec
  /\ joined' = [joined EXCEPT ![c] = @ + 1]
  /\ pos' = [pos EXCEPT ![b][c] = joined[c] + 1]
  /\ UNCHANGED <<todo, workVars, countdown, status, refVars,
                 served, time, spawned, wakes>>

(* A new chain needs a count on its cown: Cown::acquire for NoTransfer,    *)
(* the count of the caller for YesTransfer.                                *)
CountChain(b) ==
  IF b \in Transfer
  THEN /\ callerRef' = [callerRef EXCEPT ![b] = @ \ {at[b]}]
       /\ UNCHANGED rc
  ELSE /\ rc' = [rc EXCEPT ![at[b]] = @ + 1]
       /\ UNCHANGED callerRef

AcquireCown(b) ==
  /\ scall[b] = "acquire"
  /\ CountChain(b)
  /\ Acquired(b, at[b])
  /\ UNCHANGED <<at, ec, workVars, slotVars, pos, joined, served, wakes>>

(* The spin ends when the predecessor's own schedule call marked its slot; *)
(* the mark then stays, so reading it and giving up the surplus count are  *)
(* one step.                                                               *)
PrevReadySlip(b) == TRUE
PrevReady(b) == status[prev[b]][at[b]] # Wait

(* The count a YesTransfer caller brought is surplus on a chain that has   *)
(* one already: Cown::release.                                             *)
DropSurplusSlip(b) ==
  IF b \in Transfer
  THEN /\ callerRef' = [callerRef EXCEPT ![b] = @ \ {at[b]}]
       /\ UNCHANGED rc
  ELSE UNCHANGED refVars
DropSurplus(b) ==
  IF b \in Transfer
  THEN /\ rc' = [rc EXCEPT ![at[b]] = @ - 1]
       /\ callerRef' = [callerRef EXCEPT ![b] = @ \ {at[b]}]
  ELSE UNCHANGED refVars

AwaitPrev(b) ==
  /\ scall[b] = "spin"
  /\ PrevReady(b)
  /\ scall' = [scall EXCEPT ![b] = "link"]
  /\ DropSurplus(b)
  /\ UNCHANGED <<todo, at, prev, ec, workVars, slotVars, history>>

(* prev->set_behaviour(body). *)
Link(b) ==
  /\ scall[b] = "link"
  /\ status' = [status EXCEPT ![prev[b]][at[b]] = b]
  /\ Acquired(b, at[b])
  /\ UNCHANGED <<at, ec, workVars, countdown, lastSlot, refVars,
                 pos, joined, served, wakes>>

(* Phase 2: mark the slots ready, in the order the caller listed them,     *)
(* which can be any order.                                                 *)
SetReady(b, c) ==
  /\ scall[b] = "ready"
  /\ c \in todo[b]
  /\ status' = [status EXCEPT ![b][c] = Ready]
  /\ todo' = [todo EXCEPT ![b] = @ \ {c}]
  /\ scall' = [scall EXCEPT ![b] = IF todo[b] = {c} THEN "load" ELSE @]
  /\ UNCHANGED <<at, prev, ec, workVars, countdown, lastSlot, refVars, history>>

----------------------------------------------------------------------------
(* BehaviourCore::resolve(n) is a load and, if the count is not n, a       *)
(* fetch_sub.  Whichever of them sees n hands the work item over.          *)

LastGrantSlip(b, n) == countdown[b] <= n + 1
LastGrant(b, n) == countdown[b] = n

Wake(b) ==
  /\ work' = [work EXCEPT ![b] = "queued"]
  /\ wakes' = [wakes EXCEPT ![b] = @ + 1]

(* The load of body->resolve(ec), the last line of schedule. *)
CallLoad(b) ==
  /\ scall[b] = "load"
  /\ IF LastGrant(b, ec[b])
     THEN scall' = [scall EXCEPT ![b] = "returned"] /\ Wake(b)
     ELSE scall' = [scall EXCEPT ![b] = "sub"] /\ UNCHANGED <<work, wakes>>
  /\ UNCHANGED <<todo, at, prev, ec, left, rel, slotVars, refVars,
                 pos, joined, served, time, spawned>>

(* Its fetch_sub. *)
CallSub(b) ==
  /\ scall[b] = "sub"
  /\ countdown' = [countdown EXCEPT ![b] = @ - ec[b]]
  /\ scall' = [scall EXCEPT ![b] = "returned"]
  /\ IF LastGrant(b, ec[b]) THEN Wake(b) ELSE UNCHANGED <<work, wakes>>
  /\ UNCHANGED <<todo, at, prev, ec, left, rel, status, lastSlot, refVars,
                 pos, joined, served, time, spawned>>

(* A NoTransfer caller drops its count on c some time after the call. *)
CallerDrop(b, c) ==
  /\ scall[b] = "returned"
  /\ c \in callerRef[b]
  /\ callerRef' = [callerRef EXCEPT ![b] = @ \ {c}]
  /\ rc' = [rc EXCEPT ![c] = @ - 1]
  /\ UNCHANGED <<callVars, workVars, slotVars, history>>

----------------------------------------------------------------------------
(* Behaviour::invoke on a scheduler thread.                                *)

(* A scheduler thread takes the item and runs the body. *)
Run(b) ==
  /\ work[b] = "queued"
  /\ work' = [work EXCEPT ![b] = "running"]
  /\ UNCHANGED <<callVars, left, rel, slotVars, refVars, history>>

(* The body returns; release_all begins. *)
BodyReturns(b) ==
  /\ work[b] = "running"
  /\ work' = [work EXCEPT ![b] = "release"]
  /\ UNCHANGED <<callVars, left, rel, slotVars, refVars, history>>

(* release_all takes the slots in the order the caller listed them, which  *)
(* can be any order.                                                       *)
(* Slot::release reads the status: with no successor linked it tries to    *)
(* empty the chain, otherwise it resolves the successor.                   *)
ReleaseRead(b, c) ==
  /\ work[b] = "release"
  /\ c \in left[b]
  /\ rel' = [rel EXCEPT ![b] = c]
  /\ work' = [work EXCEPT ![b] = IF status[b][c] = Ready THEN "cas" ELSE "load"]
  /\ UNCHANGED <<callVars, left, slotVars, refVars, history>>

(* The slot is released: release_all goes to the next one or ends.  workOf *)
(* is work, or work after the successor was woken.                         *)
SlotDone(b, workOf) ==
  /\ left' = [left EXCEPT ![b] = @ \ {rel[b]}]
  /\ rel' = [rel EXCEPT ![b] = NoSlot]
  /\ work' = [workOf EXCEPT ![b] =
                IF left[b] = {rel[b]} THEN "free" ELSE "release"]

(* Compare-and-swap the tail from this slot to null. *)
ReleaseCasSlip(b) ==
  /\ work[b] = "cas"
  /\ IF lastSlot[rel[b]] = b
     THEN /\ lastSlot' = [lastSlot EXCEPT ![rel[b]] = NoSlot]
          /\ served' = [served EXCEPT ![rel[b]] = @ + 1]
          /\ work' = [work EXCEPT ![b] = "drop"]
          /\ UNCHANGED <<left, rel>>
     ELSE /\ SlotDone(b, work)
          /\ UNCHANGED <<lastSlot, served>>
  /\ UNCHANGED <<callVars, countdown, status, refVars,
                 pos, joined, time, spawned, wakes>>
ReleaseCas(b) ==
  /\ work[b] = "cas"
  /\ IF lastSlot[rel[b]] = b
     THEN /\ lastSlot' = [lastSlot EXCEPT ![rel[b]] = NoSlot]
          /\ served' = [served EXCEPT ![rel[b]] = @ + 1]
          /\ work' = [work EXCEPT ![b] = "drop"]
     ELSE /\ work' = [work EXCEPT ![b] = "extended"]
          /\ UNCHANGED <<lastSlot, served>>
  /\ UNCHANGED <<callVars, left, rel, countdown, status, refVars,
                 pos, joined, time, spawned, wakes>>

(* The chain is empty: shared::release of the count the chain had. *)
ReleaseCown(b) ==
  /\ work[b] = "drop"
  /\ rc' = [rc EXCEPT ![rel[b]] = @ - 1]
  /\ SlotDone(b, work)
  /\ UNCHANGED <<callVars, slotVars, callerRef, history>>

(* The swap failed, so somebody is extending the chain: wait for the link. *)
Linked(b) == status[b][rel[b]] # Ready

AwaitLink(b) ==
  /\ work[b] = "extended"
  /\ Linked(b)
  /\ work' = [work EXCEPT ![b] = "load"]
  /\ UNCHANGED <<callVars, left, rel, slotVars, refVars, history>>

Successor(b) == status[b][rel[b]]

(* The successor's slot is granted by this resolve. *)
Grant(b, woken) ==
  /\ served' = [served EXCEPT ![rel[b]] = @ + 1]
  /\ IF woken
     THEN /\ wakes' = [wakes EXCEPT ![Successor(b)] = @ + 1]
          /\ SlotDone(b, [work EXCEPT ![Successor(b)] = "queued"])
     ELSE /\ UNCHANGED wakes
          /\ SlotDone(b, work)

(* The load of get_behaviour()->resolve(1). *)
ResolveLoad(b) ==
  /\ work[b] = "load"
  /\ IF LastGrant(Successor(b), 1)
     THEN Grant(b, TRUE)
     ELSE /\ work' = [work EXCEPT ![b] = "sub"]
          /\ UNCHANGED <<left, rel, served, wakes>>
  /\ UNCHANGED <<callVars, slotVars, refVars, pos, joined, time, spawned>>

(* Its fetch_sub. *)
ResolveSub(b) ==
  /\ work[b] = "sub"
  /\ countdown' = [countdown EXCEPT ![Successor(b)] = @ - 1]
  /\ Grant(b, LastGrant(Successor(b), 1))
  /\ UNCHANGED <<callVars, status, lastSlot, refVars,
                 pos, joined, time, spawned>>

(* work->dealloc(): the slots are gone with the behaviour. *)
Dealloc(b) ==
  /\ work[b] = "free"
  /\ work' = [work EXCEPT ![b] = "freed"]
  /\ UNCHANGED <<callVars, left, rel, slotVars, refVars, history>>

----------------------------------------------------------------------------

(* A step of the thread inside schedule(b). *)
CallStep(b) ==
  \/ \E c \in Cowns : Exchange(b, c) \/ SetReady(b, c)
  \/ AcquireCown(b) \/ AwaitPrev(b) \/ Link(b) \/ CallLoad(b) \/ CallSub(b)

(* A step of the scheduler thread that executes b. *)
WorkStep(b) ==
  \/ Run(b) \/ BodyReturns(b)
  \/ \E c \in Cowns : ReleaseRead(b, c)
  \/ ReleaseCas(b) \/ ReleaseCown(b) \/ AwaitLink(b)
  \/ ResolveLoad(b) \/ ResolveSub(b) \/ Dealloc(b)

(* Everything has run and nobody refers to a cown any more. *)
Quiescent == \A b \in Behaviours : work[b] = "freed" /\ callerRef[b] = {}

Next == \E b \in Behaviours :
          CallStep(b) \/ WorkStep(b) \/ \E c \in Cowns : CallerDrop(b, c)

Spec == Init /\ [][Next]_vars

(* A thread inside schedule keeps running, and the thread pool runs every  *)
(* work item it was given; bodies return.                                  *)
FairSpec == /\ Spec
            /\ \A b \in Behaviours :
                 WF_vars(CallStep(b)) /\ WF_vars(WorkStep(b))

----------------------------------------------------------------------------
(* Properties.                                                             *)

CallStates == {"exchange", "acquire", "spin", "link", "ready", "load", "sub",
               "returned"}
WorkStates == {"idle", "queued", "running", "release", "cas", "drop",
               "extended", "load", "sub", "free", "freed"}

CallType == /\ scall \in [Behaviours -> CallStates]
            /\ todo \in [Behaviours -> SUBSET Cowns]
            /\ at \in [Behaviours -> Cowns \cup {NoSlot}]
            /\ prev \in [Behaviours -> Behaviours \cup {NoSlot}]
            /\ ec \in [Behaviours -> Nat]
WorkType == /\ work \in [Behaviours -> WorkStates]
            /\ left \in [Behaviours -> SUBSET Cowns]
            /\ rel \in [Behaviours -> Cowns \cup {NoSlot}]
SlotType == /\ status \in
                 [Behaviours -> [Cowns -> Behaviours \cup {Wait, Ready}]]
            /\ lastSlot \in [Cowns -> Behaviours \cup {NoSlot}]
CountType == countdown \in [Behaviours -> Nat]
RefType == /\ rc \in [Cowns -> Int]
           /\ callerRef \in [Behaviours -> SUBSET Cowns]
HistoryType == /\ pos \in [Behaviours -> [Cowns -> Nat]]
               /\ joined \in [Cowns -> Nat]
               /\ served \in [Cowns -> Nat]
               /\ time \in [Behaviours -> Nat]
               /\ spawned \in Nat
               /\ wakes \in [Behaviours -> Nat]

(* The values the variables range over; exec_count_down, which is          *)
(* unsigned, never goes below zero.                                        *)
TypeOK ==
  CallType /\ WorkType /\ SlotType /\ CountType /\ RefType /\ HistoryType

(* The cowns b has not handed on yet. *)
Held(b) == IF work[b] = "drop" THEN left[b] \ {rel[b]} ELSE left[b]

(* From the moment its work item is scheduled, a behaviour is the only one *)
(* to own each of its cowns, until that slot is released: the lock that    *)
(* the chain of a cown implements.                                         *)
MutualExclusion ==
  \A b, o \in Behaviours :
    b # o /\ work[b] # "idle" /\ work[o] # "idle" => Held(b) \cap Held(o) = {}

(* However the resolves of schedule and of the predecessors interleave,    *)
(* exactly one of them sees the count reach zero, and never before the     *)
(* call of schedule made its last access: the reason exec_count_down       *)
(* starts at count + 1 (comments at 136 and 298).                          *)
WokenOnceAfterCall ==
  \A b \in Behaviours :
    /\ wakes[b] <= 1
    /\ work[b] # "idle" => scall[b] = "returned" /\ wakes[b] = 1

(* Nobody follows a pointer into a behaviour that was deallocated: not the *)
(* creator of a successor that spins on a slot or links itself to it, and  *)
(* not the predecessor that resolves a linked successor.                   *)
NoUseAfterFree ==
  \A b \in Behaviours :
    /\ scall[b] \in {"spin", "link"} => work[prev[b]] # "freed"
    /\ work[b] \in {"load", "sub"} => work[Successor(b)] = "idle"

(* The asserts of Slot::release: the slot is past Wait when it is          *)
(* released, and holds a behaviour when the successor is fetched.          *)
ReleaseAsserts ==
  \A b \in Behaviours :
    /\ work[b] = "release" => \A c \in left[b] : status[b][c] # Wait
    /\ work[b] \in {"load", "sub"} => Successor(b) \in Behaviours

(* A chain whose first slot has been through Cown::acquire.  The releaser  *)
(* that emptied a chain still has the count of that chain.                 *)
ChainCounts(c) ==
  Cardinality({b \in Behaviours : work[b] = "drop" /\ rel[b] = c})
  + IF \/ lastSlot[c] = NoSlot
       \/ \E b \in Behaviours : scall[b] = "acquire" /\ at[b] = c
    THEN 0 ELSE 1

(* The doc's "if the cown is part of a chain, then the scheduler holds an  *)
(* RC on the cown": the strong count is at all times the callers' counts   *)
(* plus one per chain, through exchange, transfer, release and swap.       *)
ChainHoldsOneCount ==
  \A c \in Cowns :
    rc[c] = ChainCounts(c)
            + Cardinality({b \in Behaviours : c \in callerRef[b]})

(* No step of schedule or of the execution touches a collected cown. *)
CownAlive ==
  \A b \in Behaviours, c \in Cowns :
    \/ /\ scall[b] \in {"exchange", "acquire", "spin", "link"}
       /\ c \in Footprint[b]
    \/ time[b] > 0 /\ c \in left[b]
    => rc[c] > 0

(* When everything ran, every count was given back: no cown leaks. *)
NoLeak == Quiescent => \A c \in Cowns : rc[c] = 0

(* "One when cannot overtake another": the order of two behaviours is the  *)
(* same on every cown they share, and it is the order in which their calls *)
(* finished phase 1; so no set of behaviours can wait in a cycle.          *)
NoOvertaking ==
  \A b, o \in Behaviours : \A c \in Cowns :
    0 < pos[b][c] /\ pos[b][c] < pos[o][c] /\ time[o] > 0
      => 0 < time[b] /\ time[b] < time[o]

(* A behaviour waits only for ones that come before it: every `when` runs  *)
(* and is deallocated, whatever the overlap of the cowns.                  *)
EveryBehaviourRuns == \A b \in Behaviours : <>(work[b] = "freed")

----------------------------------------------------------------------------
(* The 2PL queue implements the abstract `when`.  A behaviour is spawned   *)
(* at the end of phase 1, and lets go of a cown when its successor's count *)
(* is taken down or the chain becomes empty.                               *)

AbstractPhase ==
  [b \in Behaviours |->
     IF Held(b) = {} THEN "done"
     ELSE IF time[b] = 0 THEN "new"
     ELSE IF work[b] \in {"idle", "queued"} THEN "pending"
     ELSE IF work[b] = "running" THEN "running"
     ELSE "releasing"]

AbstractHeld == [b \in Behaviours |-> Held(b)]

Abstract == INSTANCE BoC WITH phase <- AbstractPhase, held <- AbstractHeld

(* Every step of the queue is a step of the abstract order or invisible. *)
ImplementsBoC == Abstract!Spec

============================================================================
