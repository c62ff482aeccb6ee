----------------------------- MODULE ThreadPool -----------------------------
(***************************************************************************)
(* The thread pool: rt/sched/threadpool.h, schedulerthread.h, mpmcq.h,     *)
(* core.h and threadsync.h.                                                *)
(*                                                                         *)
(* Each scheduler thread serves one core, whose queue any thread may take  *)
(* from.  A thread that finds nothing for long enough tries to pause; who  *)
(* adds work tries to unpause.  Two epochs keep them from missing each     *)
(* other: a pauser advances pause_epoch before it looks for work a last    *)
(* time, an unpauser brings unpause_epoch level after adding its work, and *)
(* the thread that does so wakes all sleepers.  The last thread to pause   *)
(* tears the pool down, unless external event sources are registered.      *)
(*                                                                         *)
(* An MPMCQ is an intrusive list.  An enqueue exchanges `back` and links   *)
(* the former last item afterwards; a dequeue fails on a front item that   *)
(* is not linked yet, so a queue always keeps one item.  That is why each  *)
(* core owns a token, a work item that puts itself back.                   *)
(*                                                                         *)
(* Cores and their tokens are named by the threads that serve them.  One   *)
(* action is one access to shared memory; a critical section of the        *)
(* scheduler lock without a release in it is one action.  Accesses are     *)
(* sequentially consistent.  A local that is dead has its initial value.   *)
(* Operators named ...Slip are variants that no action uses.               *)
(***************************************************************************)
EXTENDS Integers, Sequences, FiniteSets

CONSTANTS Threads,     \* the scheduler threads, and their cores
          First,       \* first_core
          NextCore,    \* NextCore[c]: the ring of cores
          Externals,   \* threads outside the pool
          Works,       \* the work items
          Root,        \* the item scheduled before the pool runs
          Programs,    \* programs to run: script[w] is what item w does, and
                       \* pushes[x] the items that thread x schedules
          BatchSize,   \* BATCH_SIZE
          MaxFutile,   \* bound on a thread's failed attempts to pause while
                       \* queues hold work
          None         \* nullptr

Actors == Threads \cup Externals
Items  == Works \cup Threads
Steps  == [op : {"spawn"}, w : Works] \cup [op : {"add", "remove"}]
            \cup [op : {"start"}, x : Externals]

ASSUME RingAssumption ==
  /\ IsFiniteSet(Threads)
  /\ First \in Threads
  /\ NextCore \in [Threads -> Threads]
  /\ \A c, d \in Threads : NextCore[c] = NextCore[d] => c = d
  /\ \A S \in SUBSET Threads :
       First \in S /\ (\A c \in S : NextCore[c] \in S) => S = Threads
ASSUME NamesAssumption ==
  /\ Threads \cap Externals = {} /\ Threads \cap Works = {}
  /\ None \notin Items
ASSUME WorkAssumption ==
  /\ Root \in Works
  /\ \A p \in Programs : /\ p.script \in [Works -> Seq(Steps)]
                          /\ p.pushes \in [Externals -> Seq(Works)]
\* An item is a node of one intrusive list, and a thread starts once.
ASSUME ProgramAssumption ==
  \A p \in Programs :
    /\ \A v, w \in Works : \A i \in DOMAIN p.script[v], j \in DOMAIN p.script[w] :
         p.script[v][i] = p.script[w][j] /\ p.script[v][i].op \in {"spawn", "start"}
           => v = w /\ i = j
    /\ \A x, y \in Externals : \A i \in DOMAIN p.pushes[x], j \in DOMAIN p.pushes[y] :
         p.pushes[x][i] = p.pushes[y][j] => x = y /\ i = j
    /\ \A v \in Works : \A i \in DOMAIN p.script[v] : p.script[v][i].op = "spawn" =>
         /\ p.script[v][i].w # Root
         /\ \A x \in Externals : \A j \in DOMAIN p.pushes[x] : p.pushes[x][j] # p.script[v][i].w
    /\ \A x \in Externals : \A j \in DOMAIN p.pushes[x] : p.pushes[x][j] # Root
ASSUME BoundsAssumption == BatchSize \in Nat /\ MaxFutile \in Nat

VARIABLES
  program,       \* the one of Programs that runs; it never changes
  queue,         \* queue[c]: the items of core c, from front to back
  linked,        \* items whose next_in_queue is set
  fairness,      \* fairness[c]: should_steal_for_fairness
  nextWork,      \* nextWork[t]: next_work
  cur,           \* cur[t]: the item t has got
  todo,          \* todo[a]: what is left of cur's script, or of a's program
  batch,         \* batch[t]: uses of next_work left before the queue's turn
  victim,        \* victim[t]: the core to steal from next
  pc,            \* pc[a]: where actor a is
  ret,           \* ret[a]: where its current call returns to
  toLink,        \* toLink[a]: the item its enqueue has to link
  pauseEpoch, unpauseEpoch,
  localPause,    \* localPause[a]: local_pause_epoch
  localUnpause,  \* localUnpause[a]: local_unpause_epoch
  probe,         \* probe[t]: the core check_for_work looks at
  localBack,     \* localBack[t]: local_back of nothing_old
  lock,          \* SchedulerLock::state
  waiters,       \* the list of threads that are about to sleep
  toWake,        \* toWake[a]: the part of that list a still has to wake
  sem,           \* sem[t]: t's semaphore
  counted,       \* counted[t]: t is among the active threads
  active,        \* active_threads
  external,      \* external_event_sources
  teardown       \* teardown_in_progress, and every thread's ~running

(* History, and the count behind the bound. *)
VARIABLES scheduled, started, finished, futile

coreVars  == <<queue, linked, fairness, toLink>>
localVars == <<nextWork, cur, todo, batch, victim>>
epochVars == <<pauseEpoch, unpauseEpoch, localPause, localUnpause>>
probeVars == <<probe, localBack>>
syncVars  == <<lock, waiters, toWake, sem>>
poolVars  == <<counted, active, external, teardown>>
history   == <<scheduled, started, finished, futile>>
vars == <<program, coreVars, localVars, pc, ret, epochVars, probeVars, syncVars,
          poolVars, history>>

(* run_with_startup, after the main thread has scheduled Root on the first *)
(* core: all threads count as active from the start.                       *)
Init ==
  /\ program \in Programs
  /\ queue = [c \in Threads |-> IF c = First THEN <<Root, c>> ELSE <<c>>]
  /\ linked = {Root}
  /\ fairness = [c \in Threads |-> FALSE]
  /\ toLink = [a \in Actors |-> None]
  /\ nextWork = [t \in Threads |-> None]
  /\ cur = [t \in Threads |-> None]
  /\ todo = [a \in Actors |-> IF a \in Externals THEN program.pushes[a] ELSE <<>>]
  /\ batch = [t \in Threads |-> BatchSize]
  /\ victim = [a \in Actors |-> IF a \in Threads THEN NextCore[a] ELSE First]
  /\ pc = [a \in Actors |-> IF a \in Threads THEN "get" ELSE "off"]
  /\ ret = [a \in Actors |-> "get"]
  /\ pauseEpoch = 0 /\ unpauseEpoch = 0
  /\ localPause = [a \in Actors |-> 0]
  /\ localUnpause = [a \in Actors |-> 0]
  /\ probe = [t \in Threads |-> First]
  /\ localBack = [t \in Threads |-> None]
  /\ lock = "Unlocked"
  /\ waiters = <<>>
  /\ toWake = [a \in Actors |-> <<>>]
  /\ sem = [t \in Threads |-> 0]
  /\ counted = [t \in Threads |-> TRUE]
  /\ active = Cardinality(Threads)
  /\ external = 0
  /\ teardown = FALSE
  /\ scheduled = {Root} /\ started = {} /\ finished = {}
  /\ futile = [t \in Threads |-> 0]

Goto(a, where) == pc' = [pc EXCEPT ![a] = where]
Call(a, where, back) ==
  /\ Goto(a, where)
  /\ ret' = [ret EXCEPT ![a] = back]
Return(a) == Call(a, ret[a], "get")

----------------------------------------------------------------------------
(* The queues: mpmcq.h.                                                    *)

Front(c) == queue[c][1]
Back(c)  == queue[c][Len(queue[c])]

(* Whether a dequeue of c's queue succeeds. *)
CanDequeue(c) == Front(c) \in linked

Dequeue(t, c) ==
  /\ cur' = [cur EXCEPT ![t] = Front(c)]
  /\ queue' = [queue EXCEPT ![c] = Tail(@)]
  /\ linked' = linked \ {Front(c)}

(* The exchange of `back`; Link is the store that follows it. *)
Enqueue(a, c, item) ==
  /\ queue' = [queue EXCEPT ![c] = Append(@, item)]
  /\ toLink' = [toLink EXCEPT ![a] = Back(c)]
  /\ UNCHANGED linked

EnqueueFront(c, item) ==
  /\ queue' = [queue EXCEPT ![c] = <<item>> \o @]
  /\ linked' = linked \cup {item}

LinkBack(a) ==
  /\ linked' = linked \cup {toLink[a]}
  /\ toLink' = [toLink EXCEPT ![a] = None]

----------------------------------------------------------------------------
(* Finding work: SchedulerThread::get_work and steal.                      *)

(* return_next_work: offer next_work to the others before running cur. *)
ReturnNextWork(t) ==
  IF nextWork[t] = None
  THEN Goto(t, "run") /\ UNCHANGED ret
  ELSE Call(t, "offer", "run")

(* next_work goes first, BATCH_SIZE times in a row at most. *)
UsesNextWork(t) == nextWork[t] # None /\ batch[t] > 0

GetWork(t) ==
  /\ pc[t] = "get"
  /\ IF UsesNextWork(t)
     THEN /\ cur' = [cur EXCEPT ![t] = nextWork[t]]
          /\ nextWork' = [nextWork EXCEPT ![t] = None]
          /\ batch' = [batch EXCEPT ![t] = @ - 1]
          /\ Goto(t, "run")
          /\ UNCHANGED fairness
     ELSE /\ batch' = [batch EXCEPT ![t] = BatchSize]
          /\ fairness' = [fairness EXCEPT ![t] = FALSE]
          /\ Goto(t, IF fairness[t] THEN "fairSteal" ELSE "own")
          /\ UNCHANGED <<cur, nextWork>>
  /\ UNCHANGED <<program, queue, linked, toLink, todo, victim, ret, epochVars,
                 probeVars, syncVars, poolVars, history>>

(* try_steal for fairness, or after the own queue was found empty. *)
TrySteal(t, from, miss) ==
  /\ pc[t] = from
  /\ victim' = [victim EXCEPT ![t] = NextCore[victim[t]]]
  /\ IF victim[t] # t /\ CanDequeue(victim[t])
     THEN Dequeue(t, victim[t]) /\ ReturnNextWork(t)
     ELSE Goto(t, miss) /\ UNCHANGED <<cur, queue, linked, ret>>
  /\ UNCHANGED <<program, fairness, toLink, nextWork, todo, batch, epochVars,
                 probeVars, syncVars, poolVars, history>>

FairSteal(t) == TrySteal(t, "fairSteal", "own")
FirstSteal(t) == TrySteal(t, "firstSteal", "keep")

DequeueOwn(t) ==
  /\ pc[t] = "own"
  /\ IF CanDequeue(t)
     THEN Dequeue(t, t) /\ ReturnNextWork(t)
     ELSE Goto(t, "firstSteal") /\ UNCHANGED <<cur, queue, linked, ret>>
  /\ UNCHANGED <<program, fairness, toLink, nextWork, todo, batch, victim, epochVars,
                 probeVars, syncVars, poolVars, history>>

(* Nothing to be had from the queues: run next_work, or start stealing. *)
KeepNextWork(t) ==
  /\ pc[t] = "keep"
  /\ cur' = [cur EXCEPT ![t] = nextWork[t]]
  /\ nextWork' = [nextWork EXCEPT ![t] = None]
  /\ Goto(t, IF nextWork[t] = None THEN "steal" ELSE "run")
  /\ UNCHANGED <<program, coreVars, todo, batch, victim, ret, epochVars, probeVars,
                 syncVars, poolVars, history>>

(* The loop of steal(): the own queue, then the victim's. *)
StealOwn(t) ==
  /\ pc[t] = "steal"
  /\ CASE teardown -> Goto(t, "exit") /\ UNCHANGED <<cur, queue, linked>>
       [] ~teardown /\ CanDequeue(t) -> Dequeue(t, t) /\ Goto(t, "run")
       [] OTHER -> Goto(t, "stealNext") /\ UNCHANGED <<cur, queue, linked>>
  /\ UNCHANGED <<program, fairness, toLink, nextWork, todo, batch, victim, ret,
                 epochVars, probeVars, syncVars, poolVars, history>>

StealNext(t) ==
  /\ pc[t] = "stealNext"
  /\ IF victim[t] # t /\ CanDequeue(victim[t])
     THEN Dequeue(t, victim[t]) /\ Goto(t, "run") /\ UNCHANGED victim
     ELSE /\ victim' = [victim EXCEPT ![t] = NextCore[victim[t]]]
          /\ Goto(t, "tick")
          /\ UNCHANGED <<cur, queue, linked>>
  /\ UNCHANGED <<program, fairness, toLink, nextWork, todo, batch, ret, epochVars,
                 probeVars, syncVars, poolVars, history>>

(* TSC_QUIESCENCE_TIMEOUT has not passed yet. *)
TryAgain(t) ==
  /\ pc[t] = "tick"
  /\ Goto(t, "steal")
  /\ UNCHANGED <<program, coreVars, localVars, ret, epochVars, probeVars, syncVars,
                 poolVars, history>>

----------------------------------------------------------------------------
(* Running work.                                                           *)

(* core.h: a token marks its core for a steal and goes back to its queue,  *)
(* without an unpause.                                                     *)
RunToken(t) ==
  /\ pc[t] = "run" /\ cur[t] \in Threads
  /\ fairness' = [fairness EXCEPT ![cur[t]] = TRUE]
  /\ Goto(t, "token")
  /\ UNCHANGED <<program, queue, linked, toLink, localVars, ret, epochVars, probeVars,
                 syncVars, poolVars, history>>

TokenBack(t) ==
  /\ pc[t] = "token"
  /\ Enqueue(t, cur[t], cur[t])
  /\ cur' = [cur EXCEPT ![t] = None]
  /\ Goto(t, "linkToken")
  /\ UNCHANGED <<program, fairness, nextWork, todo, batch, victim, ret, epochVars,
                 probeVars, syncVars, poolVars, history>>

LinkToken(t) ==
  /\ pc[t] = "linkToken"
  /\ LinkBack(t)
  /\ Goto(t, "get")
  /\ UNCHANGED <<program, queue, fairness, localVars, ret, epochVars, probeVars,
                 syncVars, poolVars, history>>

RunWork(t) ==
  /\ pc[t] = "run" /\ cur[t] \in Works
  /\ todo' = [todo EXCEPT ![t] = program.script[cur[t]]]
  /\ started' = started \cup {cur[t]}
  /\ Goto(t, "body")
  /\ UNCHANGED <<program, coreVars, nextWork, cur, batch, victim, ret, epochVars,
                 probeVars, syncVars, poolVars, scheduled, finished, futile>>

WorkReturns(t) ==
  /\ pc[t] = "body" /\ todo[t] = <<>>
  /\ cur' = [cur EXCEPT ![t] = None]
  /\ finished' = finished \cup {cur[t]}
  /\ Goto(t, "get")
  /\ UNCHANGED <<program, coreVars, nextWork, todo, batch, victim, ret, epochVars,
                 probeVars, syncVars, poolVars, scheduled, started, futile>>

Doing(t, op) == pc[t] = "body" /\ todo[t] # <<>> /\ Head(todo[t]).op = op
StepDone(t) == todo' = [todo EXCEPT ![t] = Tail(@)]

(* schedule_fifo: make room in next_work first, then keep the item there. *)
Spawn(t) ==
  /\ Doing(t, "spawn")
  /\ IF nextWork[t] # None
     THEN Call(t, "offer", "body") /\ UNCHANGED <<todo, nextWork, scheduled>>
     ELSE /\ nextWork' = [nextWork EXCEPT ![t] = Head(todo[t]).w]
          /\ scheduled' = scheduled \cup {Head(todo[t]).w}
          /\ StepDone(t)
          /\ UNCHANGED <<pc, ret>>
  /\ UNCHANGED <<program, coreVars, cur, batch, victim, epochVars, probeVars, syncVars,
                 poolVars, started, finished, futile>>

(* add_external_event_source and remove_external_event_source. *)
SourceAdded(t) == Doing(t, "add") /\ external' = external + 1
SourceRemoved(t) == Doing(t, "remove") /\ external' = external - 1
ChangeSources(t) ==
  /\ SourceAdded(t) \/ SourceRemoved(t)
  /\ lock = "Unlocked" /\ lock' = "Locked"
  /\ StepDone(t)
  /\ Call(t, "unlock", "body")
  /\ UNCHANGED <<program, coreVars, nextWork, cur, batch, victim, epochVars, probeVars,
                 waiters, toWake, sem, counted, active, teardown, history>>

StartExternal(t) ==
  /\ Doing(t, "start")
  /\ pc' = [pc EXCEPT ![Head(todo[t]).x] = "push"]
  /\ StepDone(t)
  /\ UNCHANGED <<program, coreVars, nextWork, cur, batch, victim, ret, epochVars,
                 probeVars, syncVars, poolVars, history>>

Offer(t) ==
  /\ pc[t] = "offer"
  /\ Enqueue(t, t, nextWork[t])
  /\ nextWork' = [nextWork EXCEPT ![t] = None]
  /\ Goto(t, "link")
  /\ UNCHANGED <<program, fairness, cur, todo, batch, victim, ret, epochVars,
                 probeVars, syncVars, poolVars, history>>

Link(t) ==
  /\ pc[t] = "link"
  /\ LinkBack(t)
  /\ Goto(t, "unpause")
  /\ UNCHANGED <<program, queue, fairness, localVars, ret, epochVars, probeVars,
                 syncVars, poolVars, history>>

(* A thread outside the pool: round_robin and schedule_lifo. *)
Push(x) ==
  /\ pc[x] = "push" /\ todo[x] # <<>>
  /\ EnqueueFront(victim[x], Head(todo[x]))
  /\ scheduled' = scheduled \cup {Head(todo[x])}
  /\ victim' = [victim EXCEPT ![x] = NextCore[@]]
  /\ StepDone(x)
  /\ Call(x, "unpause", "push")
  /\ UNCHANGED <<program, fairness, toLink, nextWork, cur, batch, epochVars, probeVars,
                 syncVars, poolVars, started, finished, futile>>

----------------------------------------------------------------------------
(* Unpausing: ThreadPool::unpause, unpause_slow, ThreadSync::unpause_all.  *)

UnpauseLoadPause(a) ==
  /\ pc[a] = "unpause"
  /\ localPause' = [localPause EXCEPT ![a] = pauseEpoch]
  /\ Goto(a, "compare")
  /\ UNCHANGED <<program, coreVars, localVars, ret, pauseEpoch, unpauseEpoch,
                 localUnpause, probeVars, syncVars, poolVars, history>>

(* No thread is trying to sleep when the epochs are level. *)
UnpauseCompare(a) ==
  /\ pc[a] = "compare"
  /\ localPause' = [localPause EXCEPT ![a] = 0]
  /\ IF unpauseEpoch = localPause[a]
     THEN Return(a)
     ELSE Goto(a, "slowUnpause") /\ UNCHANGED ret
  /\ UNCHANGED <<program, coreVars, localVars, pauseEpoch, unpauseEpoch, localUnpause,
                 probeVars, syncVars, poolVars, history>>

SlowLoadUnpause(a) ==
  /\ pc[a] = "slowUnpause"
  /\ localUnpause' = [localUnpause EXCEPT ![a] = unpauseEpoch]
  /\ Goto(a, "slowPause")
  /\ UNCHANGED <<program, coreVars, localVars, ret, pauseEpoch, unpauseEpoch,
                 localPause, probeVars, syncVars, poolVars, history>>

SlowLoadPause(a) ==
  /\ pc[a] = "slowPause"
  /\ localPause' = [localPause EXCEPT ![a] = pauseEpoch]
  /\ Goto(a, "catchUp")
  /\ UNCHANGED <<program, coreVars, localVars, ret, pauseEpoch, unpauseEpoch,
                 localUnpause, probeVars, syncVars, poolVars, history>>

(* Who wins the CAS wakes everyone; the others leave it to the winner. *)
Wins(a) == unpauseEpoch = localUnpause[a]
CatchUp(a) ==
  /\ pc[a] = "catchUp"
  /\ IF Wins(a)
     THEN /\ unpauseEpoch' = localPause[a]
          /\ Goto(a, "ring") /\ UNCHANGED ret
     ELSE Return(a) /\ UNCHANGED unpauseEpoch
  /\ localPause' = [localPause EXCEPT ![a] = 0]
  /\ localUnpause' = [localUnpause EXCEPT ![a] = 0]
  /\ UNCHANGED <<program, coreVars, localVars, pauseEpoch, probeVars, syncVars,
                 poolVars, history>>

(* lock_for_unpause: a holder of the lock takes over the wake-up. *)
Ring(a) ==
  /\ pc[a] = "ring"
  /\ lock' = "LockedUnpauseNeeded"
  /\ IF lock = "Unlocked"
     THEN Goto(a, "unlock") /\ UNCHANGED ret
     ELSE Return(a)
  /\ UNCHANGED <<program, coreVars, localVars, epochVars, probeVars, waiters, toWake,
                 sem, poolVars, history>>

(* ThreadSync::unlock: release the lock, or take the waiters along. *)
ReleasesSlip == TRUE
Releases == lock = "Locked"
TakeWaitersSlip(a) == toWake' = [toWake EXCEPT ![a] = waiters] /\ UNCHANGED waiters
TakeWaiters(a) == toWake' = [toWake EXCEPT ![a] = waiters] /\ waiters' = <<>>
Unlock(a) ==
  /\ pc[a] = "unlock"
  /\ IF Releases
     THEN lock' = "Unlocked" /\ Return(a) /\ UNCHANGED <<waiters, toWake>>
     ELSE /\ TakeWaiters(a)
          /\ Goto(a, "unlockUnpause")
          /\ UNCHANGED <<lock, ret>>
  /\ UNCHANGED <<program, coreVars, localVars, epochVars, probeVars, sem, poolVars,
                 history>>

UnlockUnpause(a) ==
  /\ pc[a] = "unlockUnpause"
  /\ lock' = "Unlocked"
  /\ Goto(a, "wake")
  /\ UNCHANGED <<program, coreVars, localVars, ret, epochVars, probeVars, waiters,
                 toWake, sem, poolVars, history>>

Wake(a) ==
  /\ pc[a] = "wake"
  /\ IF toWake[a] = <<>>
     THEN Return(a) /\ UNCHANGED <<toWake, sem>>
     ELSE /\ sem' = [sem EXCEPT ![Head(toWake[a])] = @ + 1]
          /\ toWake' = [toWake EXCEPT ![a] = Tail(@)]
          /\ UNCHANGED <<pc, ret>>
  /\ UNCHANGED <<program, coreVars, localVars, epochVars, probeVars, lock, waiters,
                 poolVars, history>>

----------------------------------------------------------------------------
(* Pausing: ThreadPool::pause and check_for_work.                          *)

Quiet == \A c \in Threads : Len(queue[c]) = 1

(* The timeout has passed: unpause_epoch is read before all else. *)
GiveUp(t) ==
  /\ pc[t] = "tick"
  /\ futile[t] < MaxFutile \/ Quiet
  /\ localUnpause' = [localUnpause EXCEPT ![t] = unpauseEpoch]
  /\ Goto(t, "announce")
  /\ UNCHANGED <<program, coreVars, localVars, ret, pauseEpoch, unpauseEpoch,
                 localPause, probeVars, syncVars, poolVars, history>>

Announce(t) ==
  /\ pc[t] = "announce"
  /\ pauseEpoch' = pauseEpoch + 1
  /\ Goto(t, "loadBack")
  /\ UNCHANGED <<program, coreVars, localVars, ret, unpauseEpoch, localPause,
                 localUnpause, probeVars, syncVars, poolVars, history>>

(* nothing_old: the queue holds one item, says the back read before the    *)
(* front.                                                                  *)
LoadBack(t) ==
  /\ pc[t] = "loadBack"
  /\ localBack' = [localBack EXCEPT ![t] = Back(probe[t])]
  /\ Goto(t, "loadFront")
  /\ UNCHANGED <<program, coreVars, localVars, ret, epochVars, probe, syncVars,
                 poolVars, history>>

NothingOld(t) == localBack[t] = Front(probe[t])

Forget(t) == localUnpause' = [localUnpause EXCEPT ![t] = 0]
Futile(t) == futile' = [futile EXCEPT ![t] = IF @ < MaxFutile THEN @ + 1 ELSE @]

LoadFront(t) ==
  /\ pc[t] = "loadFront"
  /\ localBack' = [localBack EXCEPT ![t] = None]
  /\ IF ~NothingOld(t)
     THEN /\ Goto(t, "steal")
          /\ probe' = [probe EXCEPT ![t] = First]
          /\ Futile(t) /\ Forget(t)
     ELSE /\ Goto(t, IF NextCore[probe[t]] = First THEN "decide" ELSE "loadBack")
          /\ probe' = [probe EXCEPT ![t] = NextCore[@]]
          /\ UNCHANGED <<futile, localUnpause>>
  /\ UNCHANGED <<program, coreVars, localVars, ret, pauseEpoch, unpauseEpoch,
                 localPause, syncVars, poolVars, scheduled, started, finished>>

(* Under the scheduler lock: was there an unpause since? *)
RacedSlip(t) == FALSE
Raced(t) == localUnpause[t] # unpauseEpoch

AbandonPause(t) ==
  /\ pc[t] = "decide" /\ lock = "Unlocked"
  /\ Raced(t)
  /\ lock' = "Locked"
  /\ Call(t, "unlock", "steal")
  /\ Futile(t) /\ Forget(t)
  /\ UNCHANGED <<program, coreVars, localVars, pauseEpoch, unpauseEpoch, localPause,
                 probeVars, waiters, toWake, sem, poolVars,
                 scheduled, started, finished>>

(* ThreadSyncHandle::pause: join the waiters, release the lock and sleep.  *)
(* The last active thread stays counted, and only waits for a source.      *)
OthersActiveSlip == active >= 1
OthersActive == active > 1
MaySleepSlip == OthersActive
MaySleep == OthersActive \/ external # 0
JoinWaiters(t) ==
  /\ pc[t] = "decide" /\ lock = "Unlocked"
  /\ ~Raced(t)
  /\ MaySleep
  /\ lock' = "Locked"
  /\ waiters' = <<t>> \o waiters
  /\ IF OthersActive
     THEN /\ active' = active - 1
          /\ counted' = [counted EXCEPT ![t] = FALSE]
     ELSE UNCHANGED <<active, counted>>
  /\ Call(t, "unlock", "sleep")
  /\ Forget(t)
  /\ UNCHANGED <<program, coreVars, localVars, pauseEpoch, unpauseEpoch, localPause,
                 probeVars, toWake, sem, external, teardown, history>>

Teardown(t) ==
  /\ pc[t] = "decide" /\ lock = "Unlocked"
  /\ ~Raced(t)
  /\ ~MaySleep
  /\ teardown' = TRUE
  /\ lock' = "LockedUnpauseNeeded"
  /\ Call(t, "unlock", "steal")
  /\ Forget(t)
  /\ UNCHANGED <<program, coreVars, localVars, pauseEpoch, unpauseEpoch, localPause,
                 probeVars, waiters, toWake, sem, counted, active, external,
                 history>>

Sleep(t) ==
  /\ pc[t] = "sleep"
  /\ sem[t] > 0
  /\ sem' = [sem EXCEPT ![t] = @ - 1]
  /\ Goto(t, "relock")
  /\ UNCHANGED <<program, coreVars, localVars, ret, epochVars, probeVars, lock,
                 waiters, toWake, poolVars, history>>

Relock(t) ==
  /\ pc[t] = "relock" /\ lock = "Unlocked"
  /\ lock' = "Locked"
  /\ IF counted[t]
     THEN UNCHANGED <<active, counted>>
     ELSE /\ active' = active + 1
          /\ counted' = [counted EXCEPT ![t] = TRUE]
  /\ Call(t, "unlock", "steal")
  /\ UNCHANGED <<program, coreVars, localVars, epochVars, probeVars, waiters, toWake,
                 sem, external, teardown, history>>

----------------------------------------------------------------------------

Search(t) ==
  \/ GetWork(t) \/ FairSteal(t) \/ DequeueOwn(t) \/ FirstSteal(t)
  \/ KeepNextWork(t) \/ StealOwn(t) \/ StealNext(t)
Execute(t) ==
  \/ RunToken(t) \/ TokenBack(t) \/ LinkToken(t)
  \/ RunWork(t) \/ WorkReturns(t)
  \/ Spawn(t) \/ ChangeSources(t) \/ StartExternal(t) \/ Offer(t) \/ Link(t)
Unpause(a) ==
  \/ UnpauseLoadPause(a) \/ UnpauseCompare(a)
  \/ SlowLoadUnpause(a) \/ SlowLoadPause(a) \/ CatchUp(a)
  \/ Ring(a) \/ Unlock(a) \/ UnlockUnpause(a) \/ Wake(a)
Pause(t) ==
  \/ Announce(t) \/ LoadBack(t) \/ LoadFront(t)
  \/ AbandonPause(t) \/ JoinWaiters(t) \/ Teardown(t)
  \/ Sleep(t) \/ Relock(t)

Next ==
  \/ \E t \in Threads : Search(t) \/ Execute(t) \/ Pause(t)
                          \/ TryAgain(t) \/ GiveUp(t)
  \/ \E x \in Externals : Push(x)
  \/ \E a \in Actors : Unpause(a)

Spec == Init /\ [][Next]_vars

(* A thread keeps running between its accesses, and a thread that finds    *)
(* nothing does not spin for ever: its timeout passes.                     *)
FairSpec ==
  /\ Spec
  /\ \A t \in Threads :
       /\ WF_vars(Search(t) \/ Execute(t) \/ Pause(t) \/ Unpause(t))
       /\ WF_vars(TryAgain(t) \/ GiveUp(t))
       /\ SF_vars(GiveUp(t))
  /\ \A x \in Externals : WF_vars(Push(x) \/ Unpause(x))

----------------------------------------------------------------------------

ThreadPCs == {"get", "fairSteal", "own", "firstSteal", "keep", "steal",
  "stealNext", "tick", "run", "token", "linkToken", "body", "offer", "link",
  "announce", "loadBack", "loadFront", "decide", "sleep", "relock", "exit"}
CallPCs == {"unpause", "compare", "slowUnpause", "slowPause", "catchUp",
  "ring", "unlock", "unlockUnpause", "wake"}

Locks == {"Unlocked", "Locked", "LockedUnpauseNeeded"}

(* Types. *)
TypeOK ==
  /\ program \in Programs
  /\ queue \in [Threads -> Seq(Items)] /\ linked \subseteq Items
  /\ fairness \in [Threads -> BOOLEAN]
  /\ toLink \in [Actors -> Items \cup {None}]
  /\ nextWork \in [Threads -> Works \cup {None}]
  /\ cur \in [Threads -> Items \cup {None}]
  /\ todo \in [Actors -> Seq(Steps) \cup Seq(Works)]
  /\ batch \in [Threads -> 0 .. BatchSize]
  /\ victim \in [Actors -> Threads]
  /\ pc \in [Actors -> ThreadPCs \cup CallPCs \cup {"off", "push"}]
  /\ ret \in [Actors -> ThreadPCs \cup {"push"}]
  /\ pauseEpoch \in Nat /\ unpauseEpoch \in Nat
  /\ localPause \in [Actors -> Nat] /\ localUnpause \in [Actors -> Nat]
  /\ probe \in [Threads -> Threads]
  /\ localBack \in [Threads -> Items \cup {None}]
  /\ lock \in Locks
  /\ waiters \in Seq(Threads) /\ toWake \in [Actors -> Seq(Threads)]
  /\ sem \in [Threads -> Nat]
  /\ counted \in [Threads -> BOOLEAN] /\ active \in Nat
  /\ external \in Nat /\ teardown \in BOOLEAN
  /\ scheduled \subseteq Works /\ started \subseteq Works
  /\ finished \subseteq Works /\ futile \in [Threads -> 0 .. MaxFutile]

On(list, t) == \E i \in 1 .. Len(list) : list[i] = t

(* t sleeps and nobody has started to wake it. *)
Asleep(t) ==
  pc[t] = "sleep" /\ sem[t] = 0 /\ \A a \in Actors : ~On(toWake[a], t)

(* No lost wake-up: when every thread sleeps and no thread outside is in   *)
(* the middle of an unpause, all work is done and every core has its token.*)
NoLostWakeup ==
  (/\ \A t \in Threads : Asleep(t)
   /\ \A x \in Externals : pc[x] \in {"off", "push"})
    => /\ \A c \in Threads : queue[c] = <<c>> /\ nextWork[c] = None
       /\ scheduled = finished

(* The contract of SleepHandle, a binary semaphore: at most one wake for   *)
(* each sleep, however unpause, unlock and teardown interleave.            *)
OneWakePerSleep ==
  \A t \in Threads :
    /\ sem[t] <= 1
    /\ sem[t] + Cardinality({a \in Actors : On(toWake[a], t)})
         + (IF On(waiters, t) THEN 1 ELSE 0) <= 1

(* t was told to sleep, and is not up again before it has the lock. *)
Decided(t) == pc[t] = "sleep" \/ ret[t] = "sleep"
Gone(t) == Decided(t) \/ pc[t] = "relock"

(* active_threads never misses a thread that may touch work, and never     *)
(* reaches zero: one thread that sleeps may stay counted, while only an    *)
(* event source can bring work, and nobody is counted twice after waking.  *)
(* So who reads 1 is alone, and somebody is left to tear the pool down.    *)
SomeoneInCharge ==
  LET up == Cardinality({t \in Threads : ~Gone(t)})
  IN active >= 1 /\ up <= active /\ active <= up + 1

(* The duty of programs with threads outside the pool: only a registered   *)
(* source is removed ("assert(prev_count != 0)"), and while no source is   *)
(* registered no outside thread is about to schedule: all its calls have   *)
(* returned, or what they push was run.                                    *)
SourcesCover ==
  /\ \A t \in Threads : Doing(t, "remove") => external > 0
  /\ external = 0 => \A x \in Externals : pc[x] # "off" =>
       /\ todo[x] = <<>>
       /\ pc[x] # "push" => \A w \in Works : On(program.pushes[x], w) => w \in started

(* unpause_slow: "required to ensure we are going to monotonically         *)
(* increase unpause_epoch", without which Raced could miss an unpause.     *)
EpochsMonotone == [][unpauseEpoch' >= unpauseEpoch]_vars

(* Whatever was scheduled is eventually run, however the threads fall      *)
(* asleep in between, and the pool then stops.                             *)
PoolStops ==
  <>[](scheduled = finished /\ \A t \in Threads : pc[t] = "exit")

(* The pool keeps the promise of WorkPool. *)
Pool == INSTANCE WorkPool WITH sources <- external, open <- ~teardown
ImplementsWorkPool == Pool!Spec
=============================================================================
