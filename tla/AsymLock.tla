------------------------------ MODULE AsymLock ------------------------------
(***************************************************************************)
(* The asymmetric lock of a thread (ds/asymlock.h): the owner takes the    *)
(* internal side with plain stores and loads, another thread tries the     *)
(* external side and pays for a barrier that the owner's processor sees.   *)
(*                                                                         *)
(* The owner's stores to the internal count wait in its store buffer:      *)
(* other threads see them later, in order.  An atomic exchange or a store  *)
(* with release semantics by the owner makes them visible first.           *)
(***************************************************************************)
EXTENDS Integers, Sequences

CONSTANTS Threads,
          MaxBuffer      \* bound on the stores that wait in a buffer

VARIABLES internal,      \* internal_lock as other threads see it
          buffer,        \* the owner's stores to it that they do not see yet
          external       \* external_lock
lockVars == <<internal, buffer, external>>

LockInit ==
  /\ internal = [t \in Threads |-> 0] /\ buffer = [t \in Threads |-> <<>>]
  /\ external = [t \in Threads |-> FALSE]

Visible(t) == IF buffer[t] = <<>> THEN internal[t] ELSE buffer[t][Len(buffer[t])]
DrainedSet(T) ==
  /\ internal' = [t \in Threads |-> IF t \in T THEN Visible(t) ELSE internal[t]]
  /\ buffer' = [t \in Threads |-> IF t \in T THEN <<>> ELSE buffer[t]]
Buffered(t, n) ==
  /\ Len(buffer[t]) < MaxBuffer
  /\ buffer' = [buffer EXCEPT ![t] = Append(@, n)]
  /\ UNCHANGED <<internal, external>>

(* The processor writes the oldest store of a buffer. *)
StoreVisible(t) ==
  /\ buffer[t] # <<>>
  /\ internal' = [internal EXCEPT ![t] = Head(buffer[t])]
  /\ buffer' = [buffer EXCEPT ![t] = Tail(@)]
  /\ UNCHANGED external

(* The owner. *)
InternalStore(t) == Buffered(t, 1)
InternalRelease(t) == Buffered(t, 0)
InternalSpin(t) ==
  /\ ~external[t]
  /\ external' = [external EXCEPT ![t] = TRUE] /\ DrainedSet({t})
InternalHandOver(t) ==
  /\ internal' = [internal EXCEPT ![t] = 1] /\ buffer' = [buffer EXCEPT ![t] = <<>>]
  /\ external' = [external EXCEPT ![t] = FALSE]

(* Another thread. *)
SeemsFree(t) == internal[t] = 0
ExternalExchange(t) ==
  /\ external' = [external EXCEPT ![t] = TRUE]
  /\ UNCHANGED <<internal, buffer>>
BarrierSlip(t) == UNCHANGED lockVars
Barrier(t) == DrainedSet({t}) /\ UNCHANGED external
ExternalRelease(t) ==
  /\ external' = [external EXCEPT ![t] = FALSE]
  /\ UNCHANGED <<internal, buffer>>
=============================================================================
