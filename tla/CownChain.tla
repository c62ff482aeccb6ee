----------------------------- MODULE CownChain -----------------------------
(***************************************************************************)
(* The chain of slots of one cown (sched/behaviourcore.h), for behaviours  *)
(* that name only this cown and may be scheduled again after they ran.     *)
(* BehaviourCore has the general chain, of slots that are used once.       *)
(*                                                                         *)
(* A caller of schedule is where call says; a behaviour runs on a          *)
(* scheduler thread where run says.                                        *)
(***************************************************************************)
EXTENDS Integers

CONSTANTS Slots,         \* the behaviours' slots, and any slot without one
          Callers,       \* those who call schedule
          NoSlot

VARIABLES last,          \* last_slot
          status,        \* a slot: "wait", "ready", or the next behaviour
          countdown,     \* exec_count_down
          call, prev,    \* a call of schedule: where it is, the slot ahead
          run,           \* a behaviour: where its execution is
          count          \* the cown's strong count
chainVars == <<last, status, countdown, call, prev, run, count>>

Resolve(b, n) ==
  /\ countdown' = [countdown EXCEPT ![b] = @ - n]
  /\ run' = [run EXCEPT ![b] = IF countdown[b] = n THEN "body" ELSE @]

(* BehaviourCore::schedule<NoTransfer> by caller a of behaviour b.         *)
Exchange(a, b) ==
  /\ call[a] = "exchange"
  /\ prev' = [prev EXCEPT ![a] = last] /\ last' = b
  /\ call' = [call EXCEPT ![a] = IF last = NoSlot THEN "acquire" ELSE "link"]
  /\ UNCHANGED <<status, countdown, run, count>>
AcquireCown(a) ==
  /\ call[a] = "acquire"
  /\ count' = count + 1
  /\ call' = [call EXCEPT ![a] = "setReady"]
  /\ UNCHANGED <<last, status, countdown, prev, run>>
Link(a, b) ==
  /\ call[a] = "link" /\ status[prev[a]] # "wait"
  /\ status' = [status EXCEPT ![prev[a]] = b]
  /\ call' = [call EXCEPT ![a] = "setReady"]
  /\ UNCHANGED <<last, countdown, prev, run, count>>
SetReady(a, b) ==
  /\ call[a] = "setReady"
  /\ status' = [status EXCEPT ![b] = "ready"]
  /\ call' = [call EXCEPT ![a] = "resolve"]
  /\ UNCHANGED <<last, countdown, prev, run, count>>
ResolveCallSlip(a, b) ==
  /\ call[a] = "resolve"
  /\ Resolve(b, 2)
  /\ call' = [call EXCEPT ![a] = "done"] /\ prev' = [prev EXCEPT ![a] = NoSlot]
  /\ UNCHANGED <<last, status, count>>
ResolveCall(a, b) ==
  /\ call[a] = "resolve"
  /\ Resolve(b, IF prev[a] = NoSlot THEN 2 ELSE 1)
  /\ call' = [call EXCEPT ![a] = "done"] /\ prev' = [prev EXCEPT ![a] = NoSlot]
  /\ UNCHANGED <<last, status, count>>
Schedule(a, b) ==
  \/ Exchange(a, b) \/ AcquireCown(a) \/ Link(a, b) \/ SetReady(a, b) \/ ResolveCall(a, b)

(* Slot::release: take the slot off the chain if it is the last (a count   *)
(* of the cown is then still to be released), or wait for the next         *)
(* behaviour and resolve it.                                               *)
ReleaseLast(s) ==
  /\ status[s] = "ready" /\ last = s
  /\ last' = NoSlot
  /\ UNCHANGED <<status, countdown, call, prev, count>>
ReleaseNext(s) == status[s] \notin {"wait", "ready"} /\ Resolve(status[s], 1)

(* BehaviourCore::reset *)
Reset(b) ==
  /\ status' = [status EXCEPT ![b] = "wait"]
  /\ countdown' = [countdown EXCEPT ![b] = 2]
=============================================================================
