------------------------------ MODULE Signals ------------------------------
(***************************************************************************)
(* A promise (cpp/promise.h) and a notification (sched/notification.h)     *)
(* whose behaviour runs on the promise's cown.  The promise's own slot is  *)
(* first in the cown's chain, so that the readers' `then` behaviours and   *)
(* the notification's wait until the write end fulfils the promise or is   *)
(* dropped.                                                                *)
(*                                                                         *)
(* Every access to shared memory is a step of its own.  The reference      *)
(* counts are atomic (SharedRC has their detail); an object is gone when   *)
(* its count is 0.                                                         *)
(***************************************************************************)
EXTENDS CownChain, FiniteSets

CONSTANTS Notifiers, Readers,    \* threads: holders of a notification, of PromiseR
          note, slot             \* the notification's behaviour, the promise's slot

ASSUME SignalsAssumption ==
  /\ Slots = Readers \cup {note, slot} /\ Callers = Notifiers \cup Readers \cup {note}
  /\ IsFiniteSet(Callers)
ASSUME SignalNames ==
  /\ note # slot /\ {note, slot} \cap (Notifiers \cup Readers) = {}
  /\ Notifiers # {} /\ Notifiers \cap Readers = {} /\ "writer" \notin Notifiers \cup Readers
  /\ NoSlot \notin Slots /\ Slots \cap {"wait", "ready"} = {}

VARIABLES pc,          \* a notifier, a reader, or the holder of PromiseW ("writer")
          fulfilled,   \* Promise::fulfilled
          noteStatus,  \* Notification::status
          noteCount    \* the notification's strong count
vars == <<chainVars, pc, fulfilled, noteStatus, noteCount>>

(* create_promise and Notification::make have returned: the write end,     *)
(* each reader and the notification's slot hold a count on the promise,    *)
(* and each notifier holds a count on the notification.                    *)
Init ==
  /\ last = slot
  /\ status = [s \in Slots |-> IF s = slot THEN "ready" ELSE "wait"]
  /\ countdown = [b \in Slots |-> 2]
  /\ call = [a \in Callers |-> "done"] /\ prev = [a \in Callers |-> NoSlot]
  /\ run = [b \in Slots |-> "idle"]
  /\ count = 2 + Cardinality(Readers)
  /\ pc = [t \in Notifiers \cup Readers \cup {"writer"} |-> "holds"]
  /\ fulfilled = FALSE
  /\ noteStatus = "waiting" /\ noteCount = Cardinality(Notifiers)

Goto(t, l) == pc' = [pc EXCEPT ![t] = l]
NoteSame == UNCHANGED <<noteStatus, noteCount>>
Runs(b, from, to) == run[b] = from /\ run' = [run EXCEPT ![b] = to]

-----------------------------------------------------------------------------
(* The write end.  fulfill stores the value, then takes a count for the    *)
(* chain and releases the slot; the end then drops its own count.  An end  *)
(* dropped unfulfilled gives its count to the chain.                       *)
FulfillSlip ==
  /\ pc["writer"] = "holds" /\ fulfilled' = TRUE /\ Goto("writer", "releaseSlot")
  /\ NoteSame /\ UNCHANGED chainVars
Fulfill ==
  /\ pc["writer"] = "holds" /\ fulfilled' = TRUE /\ Goto("writer", "acquire")
  /\ NoteSame /\ UNCHANGED chainVars
FulfillAcquire ==
  /\ pc["writer"] = "acquire" /\ count' = count + 1 /\ Goto("writer", "releaseSlot")
  /\ NoteSame /\ UNCHANGED <<fulfilled, last, status, countdown, call, prev, run>>
DropWriter ==
  /\ pc["writer"] = "holds" /\ Goto("writer", "releaseSlot")
  /\ NoteSame /\ UNCHANGED <<fulfilled, chainVars>>
AfterSlot == IF fulfilled THEN "drop" ELSE "gone"
ReleaseSlotLast ==
  /\ pc["writer"] = "releaseSlot" /\ ReleaseLast(slot) /\ Goto("writer", "releaseChain")
  /\ NoteSame /\ UNCHANGED <<fulfilled, run>>
ReleaseSlotChain ==
  /\ pc["writer"] = "releaseChain" /\ count' = count - 1 /\ Goto("writer", AfterSlot)
  /\ NoteSame /\ UNCHANGED <<fulfilled, last, status, countdown, call, prev, run>>
ReleaseSlotNext ==
  /\ pc["writer"] = "releaseSlot" /\ ReleaseNext(slot) /\ Goto("writer", AfterSlot)
  /\ NoteSame /\ UNCHANGED <<fulfilled, last, status, call, prev, count>>
DropFulfilled ==
  /\ pc["writer"] = "drop" /\ count' = count - 1 /\ Goto("writer", "gone")
  /\ NoteSame /\ UNCHANGED <<fulfilled, last, status, countdown, call, prev, run>>
Writer ==
  \/ Fulfill \/ FulfillAcquire \/ DropWriter
  \/ ReleaseSlotLast \/ ReleaseSlotChain \/ ReleaseSlotNext \/ DropFulfilled

-----------------------------------------------------------------------------
(* A read end: `then` schedules a behaviour, the end drops its count.      *)
Then(r) ==
  /\ pc[r] = "holds" /\ Goto(r, "then")
  /\ call' = [call EXCEPT ![r] = "exchange"]
  /\ NoteSame /\ UNCHANGED <<fulfilled, last, status, countdown, prev, run, count>>
ThenSchedule(r) ==
  /\ pc[r] = "then" /\ Schedule(r, r)
  /\ NoteSame /\ UNCHANGED <<fulfilled, pc>>
DropReader(r) ==
  /\ pc[r] \in {"holds", "then"} /\ call[r] = "done"
  /\ count' = count - 1 /\ Goto(r, "gone")
  /\ NoteSame /\ UNCHANGED <<fulfilled, last, status, countdown, call, prev, run>>
Reader(r) == Then(r) \/ ThenSchedule(r) \/ DropReader(r)

(* A behaviour runs its body and releases its slot.                        *)
Body(b) ==
  /\ b \in Readers /\ Runs(b, "body", "release")
  /\ NoteSame /\ UNCHANGED <<pc, fulfilled, last, status, countdown, call, prev, count>>
AfterRelease(b) == IF b = note THEN "reset" ELSE "idle"
BodyReleaseLast(b) ==
  /\ ReleaseLast(b) /\ Runs(b, "release", "releaseChain")
  /\ NoteSame /\ UNCHANGED <<pc, fulfilled>>
BodyReleaseChain(b) ==
  /\ Runs(b, "releaseChain", AfterRelease(b)) /\ count' = count - 1
  /\ NoteSame /\ UNCHANGED <<pc, fulfilled, last, status, countdown, call, prev>>
BodyReleaseNext(b) ==
  /\ run[b] = "release" /\ status[b] \notin {"wait", "ready"}
  /\ LET next == status[b]
     IN /\ countdown' = [countdown EXCEPT ![next] = @ - 1]
        /\ run' = [run EXCEPT ![b] = AfterRelease(b), ![next] = IF countdown[next] = 1 THEN "body" ELSE @]
  /\ NoteSame /\ UNCHANGED <<pc, fulfilled, last, status, call, prev, count>>
Behaviour(b) == Body(b) \/ BodyReleaseLast(b) \/ BodyReleaseChain(b) \/ BodyReleaseNext(b)

-----------------------------------------------------------------------------
(* notify: ask for a run; the first to ask takes a count and schedules.    *)
Notify(n) ==
  /\ pc[n] = "holds"
  /\ noteStatus' = "requested" /\ Goto(n, IF noteStatus = "waiting" THEN "acquire" ELSE "holds")
  /\ UNCHANGED <<fulfilled, noteCount, chainVars>>
NotifyAcquire(n) ==
  /\ pc[n] = "acquire" /\ noteCount' = noteCount + 1 /\ Goto(n, "schedule")
  /\ call' = [call EXCEPT ![n] = "exchange"]
  /\ UNCHANGED <<fulfilled, noteStatus, last, status, countdown, prev, run, count>>
NotifySchedule(n) ==
  /\ pc[n] = "schedule"
  /\ IF call[n] = "done" THEN Goto(n, "holds") /\ UNCHANGED chainVars
     ELSE Schedule(n, note) /\ UNCHANGED pc
  /\ NoteSame /\ UNCHANGED fulfilled

(* Releasing the notification: the last count destroys it, and with it the *)
(* count that its slot holds on the cown.                                  *)
ReleaseNote ==
  /\ noteCount' = noteCount - 1
  /\ count' = IF noteCount = 1 THEN count - 1 ELSE count
DropNotifier(n) ==
  /\ pc[n] = "holds" /\ ReleaseNote /\ Goto(n, "gone")
  /\ UNCHANGED <<fulfilled, noteStatus, last, status, countdown, call, prev, run>>
Notifier(n) == Notify(n) \/ NotifyAcquire(n) \/ NotifySchedule(n) \/ DropNotifier(n)

(* invoke: status is running while the body runs; after the release and    *)
(* the reset, a notify that came in between schedules the behaviour again. *)
SetRunningSlip ==
  /\ Runs(note, "body", "release") /\ noteStatus' = "waiting"
  /\ UNCHANGED <<pc, fulfilled, noteCount, last, status, countdown, call, prev, count>>
SetRunning ==
  /\ Runs(note, "body", "release") /\ noteStatus' = "running"
  /\ UNCHANGED <<pc, fulfilled, noteCount, last, status, countdown, call, prev, count>>
NoteReset ==
  /\ Runs(note, "reset", "finish") /\ Reset(note)
  /\ NoteSame /\ UNCHANGED <<pc, fulfilled, last, call, prev, count>>
NotifiedMeanwhileSlip ==
  /\ noteStatus # "running" /\ Runs(note, "finish", "idle")
  /\ noteStatus' = "waiting" /\ ReleaseNote
  /\ UNCHANGED <<pc, fulfilled, last, status, countdown, call, prev>>
FinishedRunning ==
  /\ noteStatus = "running" /\ Runs(note, "finish", "idle")
  /\ noteStatus' = "waiting" /\ ReleaseNote
  /\ UNCHANGED <<pc, fulfilled, last, status, countdown, call, prev>>
NotifiedMeanwhile ==
  /\ noteStatus # "running" /\ Runs(note, "finish", "idle")
  /\ call' = [call EXCEPT ![note] = "exchange"]
  /\ NoteSame /\ UNCHANGED <<pc, fulfilled, last, status, countdown, prev, count>>
Reschedule ==
  /\ Schedule(note, note)
  /\ NoteSame /\ UNCHANGED <<pc, fulfilled>>
Notification == SetRunning \/ NoteReset \/ FinishedRunning \/ NotifiedMeanwhile \/ Reschedule

(* Everything is dropped and no behaviour waits.                           *)
Finished ==
  /\ \A t \in DOMAIN pc : pc[t] = "gone"
  /\ \A b \in Slots : run[b] = "idle" /\ count = 0 /\ UNCHANGED vars

Next ==
  \/ Writer \/ \E r \in Readers : Reader(r)
  \/ \E b \in Readers \cup {note} : Behaviour(b)
  \/ \E n \in Notifiers : Notifier(n)
  \/ Notification \/ Finished
Spec == Init /\ [][Next]_vars

(* The scheduler runs every behaviour that is ready, a spinning thread is  *)
(* scheduled again, and the program drops or fulfils its write end.        *)
FairSpec ==
  /\ Spec /\ WF_vars(Writer) /\ WF_vars(Notification)
  /\ \A r \in Readers : WF_vars(Then(r) \/ ThenSchedule(r))
  /\ \A b \in Readers \cup {note} : WF_vars(Behaviour(b))
  /\ \A n \in Notifiers : WF_vars(NotifyAcquire(n) \/ NotifySchedule(n))

-----------------------------------------------------------------------------
(* No thread touches an object that is gone.  The promise is touched by    *)
(* its ends, by a call of schedule and by the release of a slot; the       *)
(* notification by notify and by every step of its behaviour, and its      *)
(* destructor asserts that it is Waiting.                                  *)
Enqueuing == {"exchange", "acquire", "link", "setReady", "resolve"}
TouchesPromise ==
  \/ pc["writer"] # "gone" \/ \E r \in Readers : pc[r] # "gone"
  \/ \E a \in Callers : call[a] \in {"exchange", "acquire", "link"}
  \/ \E b \in Slots : run[b] \in {"body", "release", "releaseChain"}
TouchesNote ==
  \/ \E n \in Notifiers : pc[n] # "gone"
  \/ run[note] # "idle" \/ call[note] # "done" \/ last = note \/ noteStatus # "waiting"
NoUseAfterFree ==
  /\ count > 0 \/ ~TouchesPromise
  /\ noteCount > 0 \/ ~TouchesNote

(* The behaviours on the promise's cown run one at a time, and none before *)
(* the write end has fulfilled the promise, value first, or was dropped.   *)
OutcomeFirst ==
  LET running == {b \in Slots : run[b] \in {"body", "release"}}
  IN /\ Cardinality(running) <= 1
     /\ running # {} => pc["writer"] \notin {"holds", "acquire"}

(* The notification's behaviour is scheduled again and again with the same *)
(* slot: a call of schedule for it starts only when the slot has left the  *)
(* chain and was reset, by one caller, and while a run is requested.       *)
NoteCalls == {a \in Notifiers \cup {note} : call[a] # "done"}
ScheduledOnce ==
  /\ Cardinality(NoteCalls) <= 1
  /\ \A a \in NoteCalls : call[a] = "exchange" =>
       status[note] = "wait" /\ run[note] = "idle" /\ last # note
  /\ (NoteCalls # {} \/ run[note] = "body") => noteStatus = "requested"

(* A requested run happens, also when the request comes while the          *)
(* behaviour runs, and so does every `then`.                               *)
RequestsRun ==
  /\ noteStatus = "requested" ~> noteStatus = "running"
  /\ \A r \in Readers : call[r] # "done" ~> run[r] = "body"
=============================================================================
