------------------------------ MODULE SharedRC ------------------------------
(***************************************************************************)
(* The strong and weak counts of one shared object (a cown): Shared in     *)
(* rt/sched/shared.h with decref_shared and acquire_strong_from_weak of    *)
(* rt/object/object.h.  All operations are wait-free: no loop retries a    *)
(* compare-and-swap.                                                       *)
(*                                                                         *)
(* The strong word is rc with a top bit, here closed, that is set once rc  *)
(* was seen to be zero; from then on every promotion fails.  Between the   *)
(* decrement to zero and the swap that sets the bit, a promotion may bring *)
(* the count back up.  Whoever does hands its own weak count over to the   *)
(* thread that is about to swap, and acquires a new one.                   *)
(*                                                                         *)
(* at[r] is what the thread that owns reference r is doing with it, one    *)
(* atomic access per action.                                               *)
(*                                                                         *)
(* The operators named ...Slip are the step below them with a slip in it;  *)
(* no action uses one.                                                     *)
(***************************************************************************)
EXTENDS Integers, FiniteSets

CONSTANT Refs           \* the places that can hold a reference

ASSUME RefsAssumption == IsFiniteSet(Refs) /\ Refs # {}

VARIABLES
  at,           \* at[r]: see RefStates
  rc,           \* strong count: low bits of the strong word
  closed,       \* FINISHED_RC's top bit of the strong word
  weak_count,   \* weak count; all strong references together own one
  collected,    \* how often collect() ran
  freed         \* how often the object was deallocated

vars == <<at, rc, closed, weak_count, collected, freed>>

RefStates ==
  {"none",       \* no reference here
   "strong", "weak",
   "closing",    \* decref_shared took rc to zero, the swap comes next
   "collecting", \* the swap set the top bit: queue_collect
   "dropping",   \* about to weak_release a count it does not need any more
   "freeing",    \* weak_release took the count to zero: dealloc
   "promised",   \* the strong reference a promotion is about to return
   "reacquire",  \* a weak reference whose promotion found rc = 0
   "failing"}    \* a weak reference whose promotion found the top bit

(* The constructor: one strong reference and the weak count it owns. *)
Init ==
  /\ \E r \in Refs : at = [x \in Refs |-> IF x = r THEN "strong" ELSE "none"]
  /\ rc = 1
  /\ closed = FALSE
  /\ weak_count = 1
  /\ collected = 0
  /\ freed = 0

(* Shared::acquire: a strong reference is copied. *)
Acquire(r, n) ==
  /\ at[r] = "strong" /\ at[n] = "none"
  /\ at' = [at EXCEPT ![n] = "strong"]
  /\ rc' = rc + 1
  /\ UNCHANGED <<closed, weak_count, collected, freed>>

(* weak_acquire: a weak reference is made from a strong or a weak one. *)
WeakAcquire(r, n) ==
  /\ at[r] \in {"strong", "weak"} /\ at[n] = "none"
  /\ at' = [at EXCEPT ![n] = "weak"]
  /\ weak_count' = weak_count + 1
  /\ UNCHANGED <<rc, closed, collected, freed>>

(* Shared::release, part 1 of decref_shared: the decrement. *)
Release(r) ==
  /\ at[r] = "strong"
  /\ rc' = rc - 1
  /\ at' = [at EXCEPT ![r] = IF rc = 1 THEN "closing" ELSE "none"]
  /\ UNCHANGED <<closed, weak_count, collected, freed>>

(* Part 2: swap zero for FINISHED_RC.  If the count came back up, or       *)
(* another thread was first, only the weak count is released.              *)
CanCloseSlip == ~closed
CanClose == ~closed /\ rc = 0

AfterFailedCloseRetrySlip == "closing"
AfterFailedClose == "dropping"

Close(r) ==
  /\ at[r] = "closing"
  /\ IF CanClose
     THEN closed' = TRUE /\ at' = [at EXCEPT ![r] = "collecting"]
     ELSE UNCHANGED closed /\ at' = [at EXCEPT ![r] = AfterFailedClose]
  /\ UNCHANGED <<rc, weak_count, collected, freed>>

(* queue_collect: finalise, release what the object refers to, destroy;    *)
(* the weak count of the strong references is released afterwards.         *)
Collect(r) ==
  /\ at[r] = "collecting"
  /\ collected' = collected + 1
  /\ at' = [at EXCEPT ![r] = "dropping"]
  /\ UNCHANGED <<rc, closed, weak_count, freed>>

(* weak_release of a weak reference, or at the end of Shared::release. *)
WeakRelease(r) ==
  /\ at[r] \in {"weak", "dropping"}
  /\ weak_count' = weak_count - 1
  /\ at' = [at EXCEPT ![r] = IF weak_count = 1 THEN "freeing" ELSE "none"]
  /\ UNCHANGED <<rc, closed, collected, freed>>

(* weak_release took the last count: dealloc. *)
Dealloc(r) ==
  /\ at[r] = "freeing"
  /\ freed' = freed + 1
  /\ at' = [at EXCEPT ![r] = "none"]
  /\ UNCHANGED <<rc, closed, weak_count, collected>>

(* acquire_strong_from_weak increments before it knows whether it may.     *)
(* A promotion that finds rc = 0 has given its weak count away.            *)
PromotedFromSlip(old) == "weak"
PromotedFrom(old) == IF old = 0 THEN "reacquire" ELSE "weak"

Promote(r, n) ==
  /\ at[r] = "weak" /\ at[n] = "none" /\ r # n
  /\ rc' = rc + 1
  /\ at' = IF closed
           THEN [at EXCEPT ![r] = "failing"]
           ELSE [at EXCEPT ![r] = PromotedFrom(rc),
                           ![n] = IF PromotedFrom(rc) = "weak"
                                  THEN "strong" ELSE "promised"]
  /\ UNCHANGED <<closed, weak_count, collected, freed>>

(* The weak_acquire at the end of such a promotion. *)
Reacquire(r, n) ==
  /\ at[r] = "reacquire" /\ at[n] = "promised"
  /\ weak_count' = weak_count + 1
  /\ at' = [at EXCEPT ![r] = "weak", ![n] = "strong"]
  /\ UNCHANGED <<rc, closed, collected, freed>>

(* A failed promotion stores FINISHED_RC, which forgets its increment and  *)
(* those of any other promotion that is failing.                           *)
FailPromote(r) ==
  /\ at[r] = "failing"
  /\ rc' = 0
  /\ at' = [at EXCEPT ![r] = "weak"]
  /\ UNCHANGED <<closed, weak_count, collected, freed>>

(* What an operation that was started does next. *)
Continue(r) == \/ Close(r) \/ Collect(r) \/ Dealloc(r) \/ FailPromote(r)
               \/ at[r] = "dropping" /\ WeakRelease(r)
               \/ \E n \in Refs : Reacquire(r, n)

Next == \E r \in Refs :
          \/ Release(r) \/ WeakRelease(r) \/ Continue(r)
          \/ \E n \in Refs : Acquire(r, n) \/ WeakAcquire(r, n) \/ Promote(r, n)

Spec == Init /\ [][Next]_vars

(* A thread inside an operation gets on with it. *)
FairSpec == Spec /\ \A r \in Refs : WF_vars(Continue(r))

----------------------------------------------------------------------------

Count(f, states) == Cardinality({r \in Refs : f[r] \in states})
HowMany(states) == Count(at, states)

TypeOK == /\ at \in [Refs -> RefStates]
          /\ rc \in Nat
          /\ closed \in BOOLEAN
          /\ weak_count \in Nat
          /\ collected \in Nat
          /\ freed \in Nat

WeakHolders == {"weak", "failing", "closing", "collecting", "dropping"}
StrongHolders == {"strong", "promised"}

(* The weak count is at all times one for each weak reference, one for     *)
(* each thread that has taken rc to zero and is not through with it, and   *)
(* one for the strong references together: the argument of the doc for     *)
(* n + 1 threads between the decrement and the swap.                       *)
WeakAccounting ==
  weak_count =
    HowMany(WeakHolders) + IF ~closed /\ rc > 0 THEN 1 ELSE 0

(* The memory outlives every access: once the last weak count is gone      *)
(* nobody has a reference and nobody is inside an operation.               *)
NoUseAfterDealloc ==
  \A r \in Refs : at[r] = "freeing" \/ freed > 0
                    => \A x \in Refs \ {r} : at[x] = "none"

(* Nobody holds a strong reference to contents that were collected, also   *)
(* if it came from a promotion that raced with the last release.           *)
StrongKeepsContents ==
  \A r \in Refs : at[r] \in StrongHolders => ~closed /\ collected = 0

(* The contents are collected once, and before the memory goes, once. *)
ReclaimedOnce == collected <= 1 /\ freed <= collected

(* With no reference left and no operation under way, all is reclaimed. *)
NoLeak == (\A r \in Refs : at[r] = "none") => freed = 1

(* Every promoted reference that is not yet returned has its weak one. *)
PromisesPaired == HowMany({"promised"}) = HowMany({"reacquire"})

(* While the top bit is clear rc counts the strong references, and if it   *)
(* is zero somebody is about to swap; when it is set there are none.       *)
StrongAccounting ==
  IF closed
  THEN HowMany(StrongHolders) = 0
  ELSE /\ rc = HowMany(StrongHolders)
       /\ HowMany({"failing"}) = 0
       /\ rc = 0 => HowMany({"closing"}) > 0

(* The top bit makes one thread the collector, the last weak count one     *)
(* thread the one that frees.                                              *)
OneCollector == collected + HowMany({"collecting"}) = (IF closed THEN 1 ELSE 0)
OneFreer == freed + HowMany({"freeing"}) = (IF weak_count = 0 THEN 1 ELSE 0)

(* What makes the above inductive. *)
IInv == /\ TypeOK /\ WeakAccounting /\ PromisesPaired
        /\ StrongAccounting /\ OneCollector /\ OneFreer

(* Every operation finishes, whatever the others do. *)
WaitFree ==
  \A r \in Refs :
    at[r] \in {"closing", "collecting", "dropping", "freeing", "reacquire",
               "failing"}
      ~> at[r] \in {"none", "weak"}

----------------------------------------------------------------------------
(* The references of the doc's API. *)
AbstractRef ==
  [r \in Refs |->
     CASE at[r] \in StrongHolders -> "strong"
       [] at[r] \in {"weak", "failing", "reacquire"} -> "weak"
       [] OTHER -> "none"]

AbstractLife ==
  IF freed > 0 THEN "freed" ELSE IF closed THEN "collected" ELSE "live"

Abstract == INSTANCE WeakRefs WITH ref <- AbstractRef, life <- AbstractLife

(* The counts implement the references of the doc: the top bit is the      *)
(* moment at which the contents are given up.                              *)
ImplementsWeakRefs == Abstract!Spec

=============================================================================
