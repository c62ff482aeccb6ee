------------------------------- MODULE Epoch -------------------------------
(***************************************************************************)
(* Epoch-based reclamation (sched/epoch.h) under a noticeboard             *)
(* (sched/noticeboard.h).  A thread that reads the board holds its own     *)
(* epoch while it takes a reference to what it read; the count that the    *)
(* board gave up is dropped when the epoch has advanced far enough.  A     *)
(* thread in an old epoch is ejected if it is not using it.                *)
(*                                                                         *)
(* Every load and store of a shared variable is a step of its own, except  *)
(* that an owner's store of its epoch also makes its waiting stores        *)
(* visible (they are older, and nobody acts on the epoch before it is      *)
(* visible).  A thread uses its epoch without nesting.                     *)
(***************************************************************************)
EXTENDS AsymLock, FiniteSets

CONSTANTS Objs, First,      \* the objects for the board, and what it holds first
          None,             \* no object
          Readers, Updaters, Advancers, Ejectors, Exiting,   \* what a thread may do
          MaxEpoch          \* bound on the global epoch

ASSUME EpochAssumption ==
  /\ First \in Objs /\ None \notin Objs
  /\ IsFiniteSet(Threads) /\ Threads = 1..Cardinality(Threads)
  /\ Readers \cup Updaters \cup Advancers \cup Exiting \subseteq Threads /\ Ejectors \subseteq Advancers

VARIABLES global,           \* the global epoch
          epoch, ejected,   \* a thread's epoch and its EJECTED_BIT
          todec,            \* the delayed decrements, in four slots
          pc, seen,         \* where a thread is, the global epoch it last read
          local,            \* the epoch it rejoins from, or the thread it checks
          obj,              \* what it read from the board, or took off it
          board, rc         \* the board's content, the counts of the objects
vars == <<global, epoch, ejected, todec, pc, seen, local, obj, board, rc, lockVars>>

Init ==
  /\ LockInit
  /\ global = 0 /\ epoch = [t \in Threads |-> 0] /\ ejected = [t \in Threads |-> TRUE]
  /\ todec = [t \in Threads |-> <<{}, {}, {}, {}>>]
  /\ pc = [t \in Threads |-> "idle"] /\ seen = [t \in Threads |-> 0]
  /\ local = [t \in Threads |-> 0] /\ obj = [t \in Threads |-> None]
  /\ board = First /\ rc = [o \in Objs |-> IF o = First THEN 1 ELSE 0]

Step(t, from, to) == pc[t] = from /\ pc' = [pc EXCEPT ![t] = to]
EpochsSame == UNCHANGED <<global, epoch, ejected, todec>>
BoardSame == UNCHANGED <<obj, board, rc>>
LocalsSame == UNCHANGED <<seen, local>>
See(t) == seen' = [seen EXCEPT ![t] = global]
SetEpoch(t) ==
  /\ epoch' = [epoch EXCEPT ![t] = seen[t]] /\ ejected' = [ejected EXCEPT ![t] = FALSE]
  /\ DrainedSet({t}) /\ UNCHANGED external

(* flush_old_epoch, n times: the oldest slot is decremented, the others    *)
(* move up.                                                                *)
Flush(t, n) ==
  LET Slot(i) == IF i <= 4 THEN todec[t][i] ELSE {}
      due == UNION {Slot(i) : i \in 1..n}
  IN /\ todec' = [todec EXCEPT ![t] = [i \in 1..4 |-> Slot(i + n)]]
     /\ rc' = [o \in Objs |-> IF o \in due THEN rc[o] - 1 ELSE rc[o]]

-----------------------------------------------------------------------------
(* Noticeboard::peek and update: update reads the board, puts an object of *)
(* its own there, and then uses the epoch to drop the board's count of the *)
(* old one.  The behaviour that updates holds the cown that the board is   *)
(* in, so no other one is between the read and the store.                  *)
Peek(t) ==
  /\ t \in Readers /\ obj[t] = None /\ Step(t, "idle", "acquire") /\ InternalStore(t)
  /\ EpochsSame /\ BoardSame /\ LocalsSame
Update(t) ==
  /\ t \in Updaters /\ obj[t] = None /\ Step(t, "idle", "put")
  /\ (\A u \in Threads : pc[u] # "put") /\ \E o \in Objs : rc[o] = 0
  /\ obj' = [obj EXCEPT ![t] = board]
  /\ EpochsSame /\ LocalsSame /\ UNCHANGED <<board, rc, lockVars>>
Put(t, o) ==
  /\ Step(t, "put", "update") /\ rc[o] = 0
  /\ board' = o /\ rc' = [rc EXCEPT ![o] = 1]
  /\ EpochsSame /\ LocalsSame /\ UNCHANGED <<obj, lockVars>>
UpdateEpoch(t) ==
  /\ Step(t, "update", "acquire") /\ InternalStore(t)
  /\ EpochsSame /\ BoardSame /\ LocalsSame

(* use_epoch *)
Acquire(t) ==
  /\ Step(t, "acquire", IF external[t] THEN "back off" ELSE "check")
  /\ EpochsSame /\ BoardSame /\ LocalsSame /\ UNCHANGED lockVars
BackOff(t) ==
  /\ Step(t, "back off", "spin") /\ InternalRelease(t)
  /\ EpochsSame /\ BoardSame /\ LocalsSame
Spin(t) ==
  /\ Step(t, "spin", "hand over") /\ InternalSpin(t)
  /\ EpochsSame /\ BoardSame /\ LocalsSame
HandOver(t) ==
  /\ Step(t, "hand over", "check") /\ InternalHandOver(t)
  /\ EpochsSame /\ BoardSame /\ LocalsSame
Check(t) ==
  /\ Step(t, "check", IF ejected[t] THEN "rejoin"
                      ELSE IF epoch[t] # global THEN "refresh" ELSE "using")
  /\ See(t)
  /\ EpochsSame /\ BoardSame /\ UNCHANGED <<local, lockVars>>

(* refresh: before the use, and before and after advancing.                *)
AfterRefresh(l) == CASE l = "refresh" -> "using" [] l = "refresh first" -> "scan"
                     [] OTHER -> "release"
Refresh(t) ==
  /\ pc[t] \in {"refresh", "refresh first", "refresh last"}
  /\ See(t)
  /\ IF epoch[t] = global THEN Step(t, pc[t], AfterRefresh(pc[t])) /\ UNCHANGED <<todec, rc, local>>
     ELSE /\ Step(t, pc[t], "publish") /\ Flush(t, 1)
          /\ local' = [local EXCEPT ![t] = AfterRefresh(pc[t])]
  /\ UNCHANGED <<global, epoch, ejected, obj, board, lockVars>>
Publish(t) ==
  /\ Step(t, "publish", local[t]) /\ SetEpoch(t)
  /\ local' = [local EXCEPT ![t] = 0]
  /\ BoardSame /\ UNCHANGED <<global, todec, seen>>

(* rejoin_epoch: announce an epoch, read the global one again, announce    *)
(* that, and flush a slot for each epoch missed.                           *)
Rejoin(t) ==
  /\ Step(t, "rejoin", "rejoin again") /\ SetEpoch(t)
  /\ local' = [local EXCEPT ![t] = epoch[t]]      \* old_epoch
  /\ BoardSame /\ UNCHANGED <<global, todec, seen>>
RejoinAgain(t) ==
  /\ Step(t, "rejoin again", "announce") /\ See(t)
  /\ EpochsSame /\ BoardSame /\ UNCHANGED <<local, lockVars>>
Announce(t) ==
  /\ Step(t, "announce", "rejoined") /\ SetEpoch(t)
  /\ BoardSame /\ LocalsSame /\ UNCHANGED <<global, todec>>
MissedSlip(old, new) == 4
Missed(old, new) == IF old < new /\ new - old < 4 THEN new - old ELSE 4
Rejoined(t) ==
  /\ Step(t, "rejoined", "using") /\ Flush(t, Missed(local[t], seen[t]))
  /\ local' = [local EXCEPT ![t] = 0]
  /\ UNCHANGED <<global, epoch, ejected, seen, obj, board, lockVars>>

-----------------------------------------------------------------------------
(* The use: a reader reads the board and then takes a reference, a writer  *)
(* retires what it took off the board.                                     *)
Read(t) ==
  /\ obj[t] = None /\ Step(t, "using", "incref")
  /\ obj' = [obj EXCEPT ![t] = board]
  /\ EpochsSame /\ LocalsSame /\ UNCHANGED <<board, rc, lockVars>>
ReadIncref(t) ==
  /\ Step(t, "incref", "used")
  /\ rc' = [rc EXCEPT ![obj[t]] = @ + 1]
  /\ DrainedSet({t}) /\ UNCHANGED external
  /\ EpochsSame /\ LocalsSame /\ UNCHANGED <<obj, board>>
RetireSlotSlip == 1
RetireSlot == 3     \* get_to_dec(2)
DecInEpoch(t) ==
  /\ obj[t] # None /\ Step(t, "using", "used")
  /\ todec' = [todec EXCEPT ![t][RetireSlot] = @ \cup {obj[t]}]
  /\ obj' = [obj EXCEPT ![t] = None]
  /\ LocalsSame /\ UNCHANGED <<global, epoch, ejected, board, rc, lockVars>>

(* release_epoch: some releases try to advance the epoch, when enough      *)
(* work (on this board or elsewhere) is delayed.                           *)
AdvanceIsSensible(t) ==
  /\ t \in Advancers /\ global < MaxEpoch /\ Step(t, "used", "refresh first")
  /\ EpochsSame /\ BoardSame /\ LocalsSame /\ UNCHANGED lockVars
NotSensible(t) ==
  /\ Step(t, "used", "release")
  /\ EpochsSame /\ BoardSame /\ LocalsSame /\ UNCHANGED lockVars
Release(t) ==
  /\ Step(t, "release", "idle") /\ InternalRelease(t)
  /\ EpochsSame /\ BoardSame /\ LocalsSame

(* try_advance_global_epoch: check every thread, in the pool's order; an   *)
(* urgent thread tries to eject one that is in another epoch.              *)
Scan(t) ==
  /\ Step(t, "scan", "scan at")
  /\ local' = [local EXCEPT ![t] = 1]
  /\ EpochsSame /\ BoardSame /\ UNCHANGED <<seen, lockVars>>
InEpoch(u, e) == ejected[u] \/ epoch[u] = e
NextThread(t, from) ==
  /\ Step(t, from, IF local[t] + 1 \in Threads THEN "scan at" ELSE "advance")
  /\ local' = [local EXCEPT ![t] = IF @ + 1 \in Threads THEN @ + 1 ELSE 0]
GiveUp(t, from) == Step(t, from, "release") /\ local' = [local EXCEPT ![t] = 0]
ScanInEpoch(t) ==
  /\ NextThread(t, "scan at") /\ InEpoch(local[t], epoch[t])
  /\ EpochsSame /\ BoardSame /\ UNCHANGED <<seen, lockVars>>
ScanFails(t) ==
  /\ GiveUp(t, "scan at") /\ ~InEpoch(local[t], epoch[t])
  /\ EpochsSame /\ BoardSame /\ UNCHANGED <<seen, lockVars>>
ScanEject(t) ==
  /\ t \in Ejectors /\ Step(t, "scan at", "exchange")
  /\ ~InEpoch(local[t], epoch[t]) /\ SeemsFree(local[t])
  /\ EpochsSame /\ BoardSame /\ LocalsSame /\ UNCHANGED lockVars
Exchange(t) ==
  /\ pc[t] = "exchange" /\ ExternalExchange(local[t])
  /\ IF external[local[t]] THEN GiveUp(t, "exchange")
     ELSE Step(t, "exchange", "barrier") /\ UNCHANGED local
  /\ EpochsSame /\ BoardSame /\ UNCHANGED seen
BarrierStep(t) ==
  /\ Step(t, "barrier", "eject") /\ Barrier(local[t])
  /\ EpochsSame /\ BoardSame /\ LocalsSame
Eject(t) ==
  /\ pc[t] = "eject"
  /\ IF SeemsFree(local[t])
     THEN /\ Step(t, "eject", "ejected")
          /\ ejected' = [ejected EXCEPT ![local[t]] = @ \/ epoch[local[t]] # epoch[t]]
     ELSE Step(t, "eject", "held") /\ UNCHANGED ejected
  /\ BoardSame /\ LocalsSame /\ UNCHANGED <<global, epoch, todec, lockVars>>
Ejected(t) ==
  /\ NextThread(t, "ejected") /\ ExternalRelease(local[t])
  /\ EpochsSame /\ BoardSame /\ UNCHANGED seen
HeldByOwner(t) ==
  /\ GiveUp(t, "held") /\ ExternalRelease(local[t])
  /\ EpochsSame /\ BoardSame /\ UNCHANGED seen
Advance(t) ==
  /\ Step(t, "advance", "refresh last") /\ global' = epoch[t] + 1
  /\ BoardSame /\ LocalsSame /\ UNCHANGED <<epoch, ejected, todec, lockVars>>

(* The reader drops its reference.  A thread that exits leaves the epoch   *)
(* system without taking its lock (~ThreadLocalEpoch); another thread may  *)
(* get its structure from the pool.                                        *)
Drop(t) ==
  /\ pc[t] = "idle" /\ obj[t] # None
  /\ rc' = [rc EXCEPT ![obj[t]] = @ - 1] /\ obj' = [obj EXCEPT ![t] = None]
  /\ EpochsSame /\ LocalsSame /\ UNCHANGED <<pc, board, lockVars>>
Exit(t) ==
  /\ t \in Exiting /\ pc[t] = "idle" /\ ejected' = [ejected EXCEPT ![t] = TRUE]
  /\ BoardSame /\ LocalsSame /\ UNCHANGED <<global, epoch, todec, pc, lockVars>>
OwnerStoreVisible(t) ==
  /\ StoreVisible(t)
  /\ EpochsSame /\ BoardSame /\ LocalsSame /\ UNCHANGED pc

Next ==
  \E t \in Threads :
    \/ Peek(t) \/ Update(t) \/ \E o \in Objs : Put(t, o)
    \/ UpdateEpoch(t) \/ Acquire(t) \/ BackOff(t) \/ Spin(t) \/ HandOver(t) \/ Check(t)
    \/ Refresh(t) \/ Publish(t) \/ Rejoin(t) \/ RejoinAgain(t) \/ Announce(t) \/ Rejoined(t)
    \/ Read(t) \/ ReadIncref(t) \/ DecInEpoch(t) \/ AdvanceIsSensible(t) \/ NotSensible(t)
    \/ Release(t) \/ Scan(t) \/ ScanInEpoch(t) \/ ScanFails(t) \/ ScanEject(t) \/ Exchange(t)
    \/ BarrierStep(t) \/ Eject(t) \/ Ejected(t) \/ HeldByOwner(t) \/ Advance(t)
    \/ Drop(t) \/ Exit(t) \/ OwnerStoreVisible(t)
Spec == Init /\ [][Next]_vars

-----------------------------------------------------------------------------
(* peek takes its reference while the object it read still has a count:    *)
(* the writer's delayed decrement waits for every thread that was using    *)
(* the epoch when the object left the board.                               *)
PeekSafe == \A t \in Threads : pc[t] = "incref" => rc[obj[t]] > 0

(* The asserts of refresh and try_advance_global_epoch: a thread that uses *)
(* its epoch is not ejected and is in the global epoch or one behind.  The *)
(* global epoch, which several threads may set at once to values they      *)
(* computed from their own, never goes back or skips an epoch.             *)
Using == {"using", "incref", "used", "refresh", "refresh first", "scan", "scan at",
          "exchange", "barrier", "eject", "ejected", "held", "advance"}
OneBehind ==
  /\ [](\A t \in Threads : pc[t] \in Using => ~ejected[t] /\ global - epoch[t] \in {0, 1})
  /\ [][global' \in {global, global + 1}]_vars
=============================================================================
