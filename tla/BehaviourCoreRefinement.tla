---------------------- MODULE BehaviourCoreRefinement ----------------------
(***************************************************************************)
(* The 2PL queues of BehaviourCore implement the `when` of BoC, for every  *)
(* instance.  The refinement mapping is AbstractPhase and AbstractHeld of  *)
(* BehaviourCore; time and spawned are the same on both sides.             *)
(***************************************************************************)
EXTENDS BehaviourCoreProofs

(* What the mapping reads of the work of a behaviour. *)
Stage(b) == IF work[b] \in {"idle", "queued"} THEN "pending"
            ELSE IF work[b] = "running" THEN "running" ELSE "releasing"

PhaseOf(b) == IF Held(b) = {} THEN "done"
              ELSE IF time[b] = 0 THEN "new" ELSE Stage(b)

(* AbstractPhase, behaviour by behaviour. *)
LEMMA PhaseIs == /\ AbstractPhase = [b \in Behaviours |-> PhaseOf(b)]
                 /\ \A b \in Behaviours : AbstractPhase[b] = PhaseOf(b)
BY DEF AbstractPhase, PhaseOf, Stage

(* A step that moves none of the four values is invisible. *)
LEMMA Invisible ==
  ASSUME \A x \in Behaviours : Held(x)' = Held(x) /\ Stage(x)' = Stage(x),
         UNCHANGED <<time, spawned>>
  PROVE  UNCHANGED Abstract!vars
<1>1. \A x \in Behaviours : PhaseOf(x)' = PhaseOf(x)
  BY DEF PhaseOf
<1>2. AbstractPhase' = AbstractPhase
  BY <1>1 DEF AbstractPhase, PhaseOf, Stage
<1>3. AbstractHeld' = AbstractHeld
  BY DEF AbstractHeld
<1> QED BY <1>2, <1>3 DEF Abstract!vars

(* A step that moves the values of one behaviour. *)
LEMMA VisibleAt ==
  ASSUME NEW b \in Behaviours,
         \A x \in Behaviours \ {b} :
           Held(x)' = Held(x) /\ Stage(x)' = Stage(x) /\ time'[x] = time[x]
  PROVE  /\ AbstractPhase' = [AbstractPhase EXCEPT ![b] = PhaseOf(b)']
         /\ AbstractHeld' = [AbstractHeld EXCEPT ![b] = Held(b)']
<1>1. \A x \in Behaviours \ {b} : PhaseOf(x)' = PhaseOf(x)
  BY DEF PhaseOf
<1>2. AbstractPhase' = [x \in Behaviours |-> PhaseOf(x)']
  BY DEF AbstractPhase, PhaseOf, Stage
<1>3. AbstractHeld' = [x \in Behaviours |-> Held(x)']
  BY DEF AbstractHeld
<1>4. AbstractHeld = [x \in Behaviours |-> Held(x)]
  BY DEF AbstractHeld
<1>5. AbstractPhase' = [AbstractPhase EXCEPT ![b] = PhaseOf(b)']
  BY <1>1, <1>2, PhaseIs
<1>6. AbstractHeld' = [AbstractHeld EXCEPT ![b] = Held(b)']
  BY <1>3, <1>4
<1> QED BY <1>5, <1>6

(* The last turn of phase 1 is the abstract Spawn. *)
LEMMA AcquiredRefines ==
  ASSUME IInv, NEW b \in Behaviours, scall[b] \in {"acquire", "link"},
         Acquired(b, at[b]), UNCHANGED <<at, ec, work, left, rel>>
  PROVE  Abstract!Spawn(b) \/ UNCHANGED Abstract!vars
<1>1. /\ time[b] = 0 /\ spawned \in Nat /\ work[b] = "idle"
      /\ at[b] \in Footprint[b]
      /\ \A x \in Behaviours \ {b} : time'[x] = time[x]
      /\ todo[b] = {at[b]} => time'[b] = spawned + 1 /\ spawned' = spawned + 1
  BY AcquiredUpdates
<1>2. left[b] = Footprint[b]
  BY <1>1 DEF IInv, WorkInv
<1>3. \A x \in Behaviours : Held(x)' = Held(x) /\ Stage(x)' = Stage(x)
  BY DEF Held, Stage
<1>4. CASE todo[b] # {at[b]}
  <2>1. UNCHANGED <<time, spawned>>
    BY <1>4 DEF Acquired
  <2> QED BY <1>3, <2>1, Invisible
<1>5. CASE todo[b] = {at[b]}
  <2>1. Held(b) # {} /\ Stage(b) = "pending"
    BY <1>1, <1>2 DEF Held, Stage
  <2>2. AbstractPhase[b] = "new" /\ PhaseOf(b)' = "pending"
    BY <1>1, <1>3, <1>5, <2>1, PhaseIs DEF PhaseOf
  <2>3. AbstractPhase' = [AbstractPhase EXCEPT ![b] = "pending"]
    BY <1>1, <1>3, <2>2, VisibleAt
  <2>4. UNCHANGED AbstractHeld
    BY <1>3 DEF AbstractHeld
  <2>5. spawned' = spawned + 1 /\ time' = [time EXCEPT ![b] = spawned + 1]
    BY <1>5 DEF Acquired
  <2> QED BY <2>2, <2>3, <2>4, <2>5 DEF Abstract!Spawn
<1> QED BY <1>4, <1>5

(* Running the body is the abstract Start: an earlier behaviour that still *)
(* held a shared cown would be ahead on its chain, and b would be blocked. *)
LEMMA RunRefines ==
  ASSUME IInv, NEW b \in Behaviours, Run(b)
  PROVE  Abstract!Start(b)
<1>1. /\ work[b] = "queued" /\ work' = [work EXCEPT ![b] = "running"]
      /\ UNCHANGED <<left, rel, time, spawned>>
  BY DEF Run, history
<1> USE DEF IInv
<1>2. /\ left[b] = Footprint[b] /\ scall[b] = "returned"
      /\ work \in [Behaviours -> WorkStates]
  BY <1>1 DEF WorkInv, CallInv, TypeOK, WorkType
<1>3. time[b] # 0 /\ time[b] \in Nat
  BY <1>2 DEF CallInv, InPhase1, TypeOK, HistoryType
<1>4. /\ \A x \in Behaviours \ {b} : Held(x)' = Held(x) /\ Stage(x)' = Stage(x)
      /\ Held(b)' = Footprint[b] /\ Held(b) = Footprint[b]
      /\ Stage(b) = "pending" /\ Stage(b)' = "running"
  BY <1>1, <1>2 DEF Held, Stage
<1>5. Footprint[b] # {}
  BY FootprintAssumption
<1>6. AbstractPhase[b] = "pending" /\ PhaseOf(b)' = "running"
  BY <1>1, <1>3, <1>4, <1>5, PhaseIs DEF PhaseOf
<1>7. AbstractPhase' = [AbstractPhase EXCEPT ![b] = "running"]
  BY <1>1, <1>4, <1>6, VisibleAt
<1>8. UNCHANGED AbstractHeld
  BY <1>4 DEF AbstractHeld
<1>9. \A o \in Abstract!Before(b) : AbstractHeld[o] \cap Footprint[b] = {}
  <2> SUFFICES ASSUME NEW o \in Behaviours, 0 < time[o], time[o] < time[b],
                      NEW c \in Footprint[b], c \in Held(o)
               PROVE  FALSE
    BY DEF Abstract!Before, AbstractHeld
  <2>1. c \in Cowns /\ c \in Footprint[o]
    BY FootprintAssumption DEF WorkInv, Held
  <2>2. /\ pos[b][c] \in Nat /\ pos[o][c] \in Nat /\ served[c] \in Nat
        /\ time[o] \in Nat
    BY <2>1 DEF TypeOK, HistoryType
  <2>3. OnChain(o, c) /\ OnChain(b, c)
    BY <1>3, <2>1, <2>2 DEF ChainInv
  <2>4. served[c] < pos[o][c] /\ served[c] < pos[b][c]
    BY <1>4, <2>1, <2>3 DEF HeldInv
  <2>5. c \notin Blocked(b)
    BY <1>1 DEF RunInv
  <2>6. pos[b][c] <= served[c] + 1
    BY <2>2, <2>3, <2>5 DEF Blocked, OnChain
  <2>7. o # b
    BY <1>3, <2>2
  <2>8. pos[b][c] # pos[o][c]
    BY <2>1, <2>3, <2>7 DEF PlaceInv
  <2>9. pos[b][c] < pos[o][c]
    BY <2>2, <2>4, <2>6, <2>8
  <2>10. time[b] < time[o]
    BY <2>1, <2>3, <2>9 DEF TimeInv
  <2> QED BY <1>3, <2>2, <2>10
<1> QED BY <1>1, <1>6, <1>7, <1>8, <1>9 DEF Abstract!Start

(* The return of the body is the abstract Finish. *)
LEMMA BodyReturnsRefines ==
  ASSUME IInv, NEW b \in Behaviours, BodyReturns(b)
  PROVE  Abstract!Finish(b)
<1>1. /\ work[b] = "running" /\ work' = [work EXCEPT ![b] = "release"]
      /\ UNCHANGED <<left, rel, time, spawned>>
  BY DEF BodyReturns, history
<1>2. /\ left[b] = Footprint[b] /\ scall[b] = "returned"
      /\ work \in [Behaviours -> WorkStates]
  BY <1>1 DEF IInv, WorkInv, CallInv, TypeOK, WorkType
<1>3. time[b] # 0
  BY <1>2 DEF IInv, CallInv, InPhase1
<1>4. /\ \A x \in Behaviours \ {b} : Held(x)' = Held(x) /\ Stage(x)' = Stage(x)
      /\ Held(b)' = Footprint[b] /\ Held(b) = Footprint[b]
      /\ Stage(b) = "running" /\ Stage(b)' = "releasing"
  BY <1>1, <1>2 DEF Held, Stage
<1>5. Footprint[b] # {}
  BY FootprintAssumption
<1>6. AbstractPhase[b] = "running" /\ PhaseOf(b)' = "releasing"
  BY <1>1, <1>3, <1>4, <1>5, PhaseIs DEF PhaseOf
<1>7. AbstractPhase' = [AbstractPhase EXCEPT ![b] = "releasing"]
  BY <1>1, <1>4, <1>6, VisibleAt
<1>8. UNCHANGED AbstractHeld
  BY <1>4 DEF AbstractHeld
<1> QED BY <1>1, <1>6, <1>7, <1>8 DEF Abstract!Finish

(* Letting go of one cown is the abstract Release. *)
LEMMA HandOverRefines ==
  ASSUME IInv, NEW b \in Behaviours, work[b] \in {"cas", "load", "sub"},
         Held(b)' = Held(b) \ {rel[b]}, Stage(b)' = "releasing",
         \A x \in Behaviours \ {b} : Held(x)' = Held(x) /\ Stage(x)' = Stage(x),
         UNCHANGED <<time, spawned>>
  PROVE  Abstract!Release(b, rel[b])
<1>1. rel[b] \in Held(b) /\ scall[b] = "returned"
  BY DEF IInv, WorkInv, CallInv, Held
<1>2. time[b] # 0
  BY <1>1 DEF IInv, CallInv, InPhase1
<1>3. AbstractPhase[b] = "releasing"
  BY <1>1, <1>2, PhaseIs DEF PhaseOf, Stage
<1>4. PhaseOf(b)' = IF Held(b) = {rel[b]} THEN "done" ELSE "releasing"
  BY <1>1, <1>2 DEF PhaseOf
<1>5. /\ AbstractPhase' = [AbstractPhase EXCEPT ![b] = PhaseOf(b)']
      /\ AbstractHeld' = [AbstractHeld EXCEPT ![b] = Held(b)']
  BY VisibleAt
<1>6. AbstractHeld[b] = Held(b)
  BY DEF AbstractHeld
<1> QED BY <1>1, <1>3, <1>4, <1>5, <1>6 DEF Abstract!Release

(* The swap that empties a chain is a Release, the failed one invisible. *)
LEMMA ReleaseCasRefines ==
  ASSUME IInv, NEW b \in Behaviours, ReleaseCas(b)
  PROVE  Abstract!Release(b, rel[b]) \/ UNCHANGED Abstract!vars
<1>1. /\ work[b] = "cas" /\ work \in [Behaviours -> WorkStates]
      /\ UNCHANGED <<left, rel, time, spawned>>
      /\ \/ work' = [work EXCEPT ![b] = "drop"]
         \/ work' = [work EXCEPT ![b] = "extended"]
  BY DEF ReleaseCas, IInv, TypeOK, WorkType
<1>2. /\ \A x \in Behaviours \ {b} : Held(x)' = Held(x) /\ Stage(x)' = Stage(x)
      /\ Stage(b) = "releasing" /\ Stage(b)' = "releasing"
      /\ Held(b) = left[b]
  BY <1>1 DEF Held, Stage
<1>3. CASE work' = [work EXCEPT ![b] = "drop"]
  <2>1. Held(b)' = Held(b) \ {rel[b]}
    BY <1>1, <1>2, <1>3 DEF Held
  <2> QED BY <1>1, <1>2, <2>1, HandOverRefines
<1>4. CASE work' = [work EXCEPT ![b] = "extended"]
  <2>1. Held(b)' = Held(b)
    BY <1>1, <1>2, <1>4 DEF Held
  <2> QED BY <1>1, <1>2, <2>1, Invisible
<1> QED BY <1>1, <1>3, <1>4

(* Granting the successor's slot is a Release. *)
LEMMA GrantRefines ==
  ASSUME IInv, NEW b \in Behaviours, work[b] \in {"load", "sub"},
         NEW woken \in BOOLEAN, Grant(b, woken), UNCHANGED <<time, spawned>>
  PROVE  Abstract!Release(b, rel[b])
<1>1. /\ work \in [Behaviours -> WorkStates] /\ left \in [Behaviours -> SUBSET Cowns]
      /\ rel \in [Behaviours -> Cowns \cup {NoSlot}]
  BY DEF IInv, TypeOK, WorkType
<1>2. PICK o \in Behaviours : o = Successor(b) /\ o # b /\ work[o] = "idle"
  BY SuccessorBlocked
<1>3. /\ left' = [left EXCEPT ![b] = @ \ {rel[b]}]
      /\ rel' = [rel EXCEPT ![b] = NoSlot]
      /\ work' = [(IF woken THEN [work EXCEPT ![o] = "queued"] ELSE work)
                    EXCEPT ![b] = IF left[b] = {rel[b]} THEN "free" ELSE "release"]
  BY <1>2 DEF Grant, SlotDone
<1>4. /\ left'[b] = left[b] \ {rel[b]}
      /\ \A x \in Behaviours \ {b} : left'[x] = left[x] /\ rel'[x] = rel[x]
      /\ \A x \in Behaviours \ {b, o} : work'[x] = work[x]
      /\ work'[b] \in {"free", "release"} /\ work'[o] \in {"idle", "queued"}
  BY <1>1, <1>2, <1>3
<1>5. /\ \A x \in Behaviours \ {b} : Held(x)' = Held(x) /\ Stage(x)' = Stage(x)
      /\ Held(b)' = Held(b) \ {rel[b]} /\ Stage(b)' = "releasing"
  BY <1>2, <1>4 DEF Held, Stage
<1> QED BY <1>5, HandOverRefines

(* The count of an emptied chain was let go of with the swap. *)
LEMMA ReleaseCownInvisible ==
  ASSUME IInv, NEW b \in Behaviours, ReleaseCown(b)
  PROVE  UNCHANGED Abstract!vars
<1>1. /\ work[b] = "drop" /\ work \in [Behaviours -> WorkStates]
      /\ left \in [Behaviours -> SUBSET Cowns]
      /\ rel \in [Behaviours -> Cowns \cup {NoSlot}]
      /\ left' = [left EXCEPT ![b] = @ \ {rel[b]}]
      /\ rel' = [rel EXCEPT ![b] = NoSlot]
      /\ work' = [work EXCEPT ![b] =
                    IF left[b] = {rel[b]} THEN "free" ELSE "release"]
      /\ UNCHANGED <<time, spawned>>
  BY DEF ReleaseCown, SlotDone, history, IInv, TypeOK, WorkType
<1>2. /\ left'[b] = left[b] \ {rel[b]} /\ work'[b] \in {"free", "release"}
      /\ \A x \in Behaviours \ {b} :
           left'[x] = left[x] /\ rel'[x] = rel[x] /\ work'[x] = work[x]
  BY <1>1
<1>3. \A x \in Behaviours : Held(x)' = Held(x) /\ Stage(x)' = Stage(x)
  BY <1>1, <1>2 DEF Held, Stage
<1> QED BY <1>1, <1>3, Invisible

(* Reading a status, waiting for a link and deallocating are invisible. *)
LEMMA WorkInvisible ==
  ASSUME IInv, NEW b \in Behaviours,
         \/ \E c \in Cowns : ReleaseRead(b, c)
         \/ AwaitLink(b) \/ Dealloc(b)
         \/ ResolveLoad(b) /\ ~LastGrant(Successor(b), 1)
  PROVE  UNCHANGED Abstract!vars
<1>1. /\ work[b] \in {"release", "extended", "load", "free"}
      /\ \E w \in {"cas", "load", "sub", "freed"} : work' = [work EXCEPT ![b] = w]
      /\ work \in [Behaviours -> WorkStates]
      /\ \E r : rel' = [rel EXCEPT ![b] = r]
      /\ UNCHANGED <<left, time, spawned>>
  <2>1. work \in [Behaviours -> WorkStates] /\ rel = [rel EXCEPT ![b] = rel[b]]
    BY DEF IInv, TypeOK, WorkType
  <2>2. CASE \E c \in Cowns : ReleaseRead(b, c)
    BY <2>1, <2>2 DEF ReleaseRead, history
  <2>3. CASE AwaitLink(b)
    BY <2>1, <2>3 DEF AwaitLink, history
  <2>4. CASE Dealloc(b)
    BY <2>1, <2>4 DEF Dealloc, history
  <2>5. CASE ResolveLoad(b) /\ ~LastGrant(Successor(b), 1)
    BY <2>1, <2>5 DEF ResolveLoad
  <2> QED BY <2>2, <2>3, <2>4, <2>5
<1>2. /\ work'[b] \in {"cas", "load", "sub", "freed"}
      /\ \A x \in Behaviours \ {b} : work'[x] = work[x] /\ rel'[x] = rel[x]
  BY <1>1 DEF IInv, TypeOK, WorkType
<1>3. \A x \in Behaviours : Held(x)' = Held(x) /\ Stage(x)' = Stage(x)
  BY <1>1, <1>2 DEF Held, Stage
<1> QED BY <1>1, <1>3, Invisible

(* Every other step of schedule is invisible. *)
LEMMA CallInvisible ==
  ASSUME IInv, NEW b \in Behaviours,
         \/ \E c \in Cowns : Exchange(b, c) \/ SetReady(b, c) \/ CallerDrop(b, c)
         \/ AwaitPrev(b) \/ CallLoad(b) \/ CallSub(b)
  PROVE  UNCHANGED Abstract!vars
<1>1. /\ UNCHANGED <<left, rel, time, spawned>>
      /\ \/ UNCHANGED work
         \/ work[b] = "idle" /\ work' = [work EXCEPT ![b] = "queued"]
  <2>1. CASE \E c \in Cowns : Exchange(b, c) \/ SetReady(b, c) \/ CallerDrop(b, c)
    BY <2>1 DEF Exchange, SetReady, CallerDrop, workVars, history
  <2>2. CASE AwaitPrev(b)
    BY <2>2 DEF AwaitPrev, workVars, history
  <2>3. CASE CallLoad(b)
    BY <2>3, CallCount DEF CallLoad, Wake
  <2>4. CASE CallSub(b)
    BY <2>4, CallCount DEF CallSub, Wake
  <2> QED BY <2>1, <2>2, <2>3, <2>4
<1>2. work \in [Behaviours -> WorkStates]
  BY DEF IInv, TypeOK, WorkType
<1>3. \A x \in Behaviours : Held(x)' = Held(x) /\ Stage(x)' = Stage(x)
  BY <1>1, <1>2 DEF Held, Stage
<1> QED BY <1>1, <1>3, Invisible

(* Nothing is spawned at first. *)
LEMMA InitRefines == Init => Abstract!Init
<1> SUFFICES ASSUME Init PROVE Abstract!Init
  OBVIOUS
<1>1. \A b \in Behaviours : Held(b) = Footprint[b] /\ time[b] = 0
  BY DEF Init, Held
<1>2. AbstractPhase = [b \in Behaviours |-> "new"]
  BY <1>1, FootprintAssumption DEF AbstractPhase
<1>3. AbstractHeld = Footprint
  <2>1. AbstractHeld = [b \in Behaviours |-> Footprint[b]]
    BY <1>1 DEF AbstractHeld
  <2> QED BY <2>1, FootprintAssumption
<1> QED BY <1>2, <1>3 DEF Init, Abstract!Init

(* Every step of the queues is an abstract step or invisible. *)
LEMMA StepRefines == IInv /\ [Next]_vars => [Abstract!Next]_(Abstract!vars)
<1> SUFFICES ASSUME IInv, Next PROVE Abstract!Next \/ UNCHANGED Abstract!vars
  <2>1. ASSUME UNCHANGED vars PROVE UNCHANGED Abstract!vars
    <3>1. UNCHANGED <<work, left, rel, time, spawned>>
      BY <2>1 DEF vars, workVars, history
    <3>2. \A x \in Behaviours : Held(x)' = Held(x) /\ Stage(x)' = Stage(x)
      BY <3>1 DEF Held, Stage
    <3> QED BY <3>1, <3>2, Invisible
  <2> QED BY <2>1
<1>1. PICK b \in Behaviours :
        CallStep(b) \/ WorkStep(b) \/ \E c \in Cowns : CallerDrop(b, c)
  BY DEF Next
<1>2. rel[b] \in Cowns \/ rel[b] = NoSlot
  BY DEF IInv, TypeOK, WorkType
<1>3. CASE AcquireCown(b) \/ Link(b)
  <2>1. /\ scall[b] \in {"acquire", "link"} /\ Acquired(b, at[b])
        /\ UNCHANGED <<at, ec, work, left, rel>>
    BY <1>3 DEF AcquireCown, Link, workVars
  <2>2. Abstract!Spawn(b) \/ UNCHANGED Abstract!vars
    BY <2>1, AcquiredRefines
  <2> QED BY <2>2 DEF Abstract!Next
<1>4. CASE Run(b)
  BY <1>4, RunRefines DEF Abstract!Next, Abstract!Execute
<1>5. CASE BodyReturns(b)
  BY <1>5, BodyReturnsRefines DEF Abstract!Next, Abstract!Execute
<1>6. CASE ReleaseCas(b)
  <2>1. rel[b] \in Cowns
    BY <1>6, ReleasedOwns DEF ReleaseCas
  <2> QED BY <1>6, <2>1, ReleaseCasRefines
          DEF Abstract!Next, Abstract!Execute
<1>7. CASE ResolveSub(b) \/ (ResolveLoad(b) /\ LastGrant(Successor(b), 1))
  <2>1. /\ work[b] \in {"load", "sub"} /\ UNCHANGED <<time, spawned>>
        /\ \E woken \in BOOLEAN : Grant(b, woken)
    <3>1. CASE ResolveSub(b)
      BY <3>1 DEF ResolveSub, LastGrant
    <3>2. CASE ResolveLoad(b) /\ LastGrant(Successor(b), 1)
      BY <3>2 DEF ResolveLoad
    <3> QED BY <1>7, <3>1, <3>2
  <2>2. rel[b] \in Cowns
    BY <2>1, ReleasedOwns
  <2>3. Abstract!Release(b, rel[b])
    BY <2>1, GrantRefines
  <2> QED BY <2>2, <2>3 DEF Abstract!Next, Abstract!Execute
<1>8. CASE ReleaseCown(b)
  BY <1>8, ReleaseCownInvisible
<1>9. CASE \/ \E c \in Cowns : ReleaseRead(b, c)
           \/ AwaitLink(b) \/ Dealloc(b)
           \/ ResolveLoad(b) /\ ~LastGrant(Successor(b), 1)
  BY <1>9, WorkInvisible
<1>10. CASE \/ \E c \in Cowns :
                 Exchange(b, c) \/ SetReady(b, c) \/ CallerDrop(b, c)
            \/ AwaitPrev(b) \/ CallLoad(b) \/ CallSub(b)
  BY <1>10, CallInvisible
<1> QED BY <1>1, <1>3, <1>4, <1>5, <1>6, <1>7, <1>8, <1>9, <1>10
        DEF CallStep, WorkStep

(* BehaviourCore::schedule, resolve and Slot::release together do what     *)
(* `when` promises: behaviours that share a cown run one at a time, in the *)
(* order their calls finished phase 1.                                     *)
THEOREM QueueImplementsBoC == Spec => ImplementsBoC
<1>1. Init => Abstract!Init
  BY InitRefines
<1>2. IInv /\ [Next]_vars => [Abstract!Next]_(Abstract!vars)
  BY StepRefines
<1>3. Spec => []IInv
  BY Invariance
<1> QED BY <1>1, <1>2, <1>3, PTL DEF Spec, ImplementsBoC, Abstract!Spec

============================================================================
