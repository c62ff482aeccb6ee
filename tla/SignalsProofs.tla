--------------------------- MODULE SignalsProofs ---------------------------
(***************************************************************************)
(* Proofs about Signals: for any number of notifiers and readers, the      *)
(* behaviours on the promise's cown run one at a time and after its        *)
(* outcome, the notification's slot is enqueued by one caller at a time,   *)
(* and no thread touches an object that is gone.                           *)
(*                                                                         *)
(* The inductive invariant ranks the slots: there are a rank of each slot  *)
(* and a rank `lo` of the head, such that the slots from lo on are the     *)
(* chain, each linked to the next (or about to be, by its caller), and     *)
(* only the head runs.                                                     *)
(***************************************************************************)
EXTENDS FiniteSetTheorems, TLAPS, Signals

Actors == Notifiers \cup Readers \cup {"writer"}
Behaviours == Readers \cup {note}
RunPCs == {"idle", "body", "release", "releaseChain", "reset", "finish"}
WriterPCs == {"holds", "acquire", "releaseSlot", "releaseChain", "drop", "gone"}
NotifierPCs == {"holds", "acquire", "schedule", "gone"}
ReaderPCs == {"holds", "then", "gone"}
NotePCs == {"waiting", "requested", "running"}
Marks == {"wait", "ready"}

(* Types. *)
ChainTypeOK ==
  /\ last \in Slots \cup {NoSlot}
  /\ status \in [Slots -> Slots \cup Marks]
  /\ countdown \in [Slots -> Int]
  /\ call \in [Callers -> Enqueuing \cup {"done"}]
  /\ prev \in [Callers -> Slots \cup {NoSlot}]
  /\ run \in [Slots -> RunPCs]
TypeOK ==
  /\ ChainTypeOK
  /\ pc \in [Actors -> WriterPCs \cup NotifierPCs \cup ReaderPCs]
  /\ pc["writer"] \in WriterPCs
  /\ \A n \in Notifiers : pc[n] \in NotifierPCs
  /\ \A r \in Readers : pc[r] \in ReaderPCs
  /\ fulfilled \in BOOLEAN
  /\ noteStatus \in NotePCs

(* The behaviour that a caller of schedule schedules. *)
Beh(a) == IF a \in Readers THEN a ELSE note
Inside == {"acquire", "link", "setReady", "resolve"}
NoCall(b) == \A a \in Callers : Beh(a) = b => call[a] = "done"

(* The chain: slots of rank lo and above, up to the last.                  *)
Order(R, lo) ==
  /\ R \in [Slots -> Int] /\ lo \in Int
  /\ \A s, t \in Slots : lo <= R[s] /\ R[s] = R[t] => s = t
  /\ last = NoSlot => \A s \in Slots : R[s] < lo
  /\ last # NoSlot => lo <= R[last] /\ \A s \in Slots : R[s] <= R[last]

(* A slot of the chain before the last is linked to the next, or the       *)
(* caller that scheduled the next is about to link it.                     *)
LinkedTo(R, s) ==
  \/ status[s] \in Slots /\ R[status[s]] = R[s] + 1
  \/ status[s] \in Marks
     /\ \E a \in Callers : call[a] = "link" /\ prev[a] = s /\ R[Beh(a)] = R[s] + 1
Links(R, lo) ==
  \A s \in Slots : lo <= R[s] =>
     /\ s = last => status[s] \in Marks
     /\ s # last => LinkedTo(R, s)

(* A caller of schedule has appended its behaviour's slot from the         *)
(* exchange on; the behaviour waits for the call and, unless it is the     *)
(* head, for the slot ahead.                                               *)
Before(R, lo, a) ==
  /\ R[Beh(a)] < lo /\ status[Beh(a)] = "wait" /\ countdown[Beh(a)] = 2
  /\ prev[a] = NoSlot /\ run[Beh(a)] = "idle"
Linking(R, lo, a) ==
  prev[a] \in Slots /\ lo <= R[prev[a]] /\ R[Beh(a)] = R[prev[a]] + 1 /\ status[prev[a]] \in Marks
CallOf(R, lo, a) ==
  /\ call[a] = "done" => prev[a] = NoSlot
  /\ call[a] = "exchange" => Before(R, lo, a)
  /\ call[a] \in Inside =>
       /\ lo <= R[Beh(a)] /\ run[Beh(a)] = "idle"
       /\ prev[a] = NoSlot => R[Beh(a)] = lo /\ countdown[Beh(a)] = 2
       /\ prev[a] # NoSlot /\ R[Beh(a)] = lo => countdown[Beh(a)] = 1
       /\ R[Beh(a)] # lo => countdown[Beh(a)] = 2
  /\ call[a] \in {"acquire", "link", "setReady"} => status[Beh(a)] = "wait"
  /\ call[a] = "resolve" => status[Beh(a)] # "wait"
  /\ call[a] = "acquire" => prev[a] = NoSlot
  /\ call[a] = "link" => Linking(R, lo, a)
Calls(R, lo) == \A a \in Callers : CallOf(R, lo, a)

(* A slot of the chain without a call: it runs if it is the head, and      *)
(* waits for the slot ahead otherwise.                                     *)
Waiting(R, lo) ==
  \A s \in Slots : lo <= R[s] /\ NoCall(s) =>
     /\ status[s] # "wait"
     /\ s # slot /\ R[s] = lo => countdown[s] = 0 /\ run[s] \in {"body", "release"}
     /\ R[s] # lo => countdown[s] = 1 /\ run[s] = "idle"
Running(R, lo) ==
  \A s \in Slots : run[s] \in {"body", "release"} => R[s] = lo /\ NoCall(s)

(* The promise's slot is the head until the write end releases it.         *)
SlotFirst(R, lo) ==
  /\ pc["writer"] \in {"holds", "acquire", "releaseSlot"} => R[slot] = lo
  /\ pc["writer"] \notin {"holds", "acquire", "releaseSlot"} => R[slot] < lo
  /\ status[slot] # "wait" /\ run[slot] = "idle"

ReaderInv(R, lo) ==
  \A r \in Readers :
    /\ pc[r] = "holds" => /\ call[r] = "done" /\ R[r] < lo /\ run[r] = "idle"
                           /\ status[r] = "wait" /\ countdown[r] = 2
    /\ call[r] # "done" => pc[r] = "then"
    /\ run[r] \notin {"reset", "finish"}

(* One at a time: a notifier that got Waiting, the behaviour's own call, a *)
(* run of the behaviour.                                                   *)
Busy(n) == pc[n] = "acquire" \/ call[n] # "done"
NotifierInv(R, lo, n) ==
  /\ \A m \in Notifiers : Busy(m) /\ Busy(n) => m = n
  /\ Busy(n) => call[note] = "done" /\ run[note] = "idle" /\ noteStatus = "requested"
  /\ call[n] # "done" => pc[n] = "schedule"
  /\ pc[n] = "acquire" => R[note] < lo
NoteInv(R, lo) ==
  /\ call[note] # "done" => run[note] = "idle" /\ noteStatus = "requested"
  /\ noteStatus = "waiting" => R[note] < lo /\ run[note] = "idle"
  /\ noteStatus = "running" => run[note] \in {"release", "releaseChain", "reset", "finish"}
  /\ run[note] \in {"releaseChain", "reset", "finish"} => R[note] < lo
  /\ R[note] < lo /\ run[note] \in {"idle", "finish"} => status[note] = "wait" /\ countdown[note] = 2

ChainInv(R, lo) ==
  /\ Order(R, lo) /\ Links(R, lo) /\ Calls(R, lo) /\ Waiting(R, lo) /\ Running(R, lo)
  /\ SlotFirst(R, lo) /\ ReaderInv(R, lo)
  /\ (\A n \in Notifiers : NotifierInv(R, lo, n)) /\ NoteInv(R, lo)
Ranked == \E R \in [Slots -> Int], lo \in Int : ChainInv(R, lo)

-----------------------------------------------------------------------------
(* Slots, callers and their behaviours are told apart.                     *)
LEMMA Names ==
  /\ \A a \in Callers : Beh(a) \in Slots /\ Beh(a) # slot /\ Beh(a) \in Behaviours
  /\ note \in Slots /\ slot \in Slots /\ note \in Callers /\ NoSlot \notin Slots
  /\ Readers \subseteq Slots /\ Readers \subseteq Callers /\ Notifiers \subseteq Callers
  /\ \A s \in Slots : s \notin Marks /\ s # NoSlot
  /\ \A n \in Notifiers : Beh(n) = note
  /\ \A r \in Readers : Beh(r) = r /\ r # note /\ r # slot
  /\ Beh(note) = note /\ note # slot
BY SignalsAssumption, SignalNames DEF Beh, Behaviours, Marks

(* No two callers schedule the same behaviour at a time.                   *)
LEMMA OneCaller ==
  ASSUME NEW R, NEW lo, ChainInv(R, lo),
         NEW a \in Callers, NEW c \in Callers, Beh(a) = Beh(c),
         call[a] # "done", call[c] # "done"
  PROVE  a = c
<1>1. CASE Beh(a) \in Readers
  BY <1>1, Names, SignalsAssumption, SignalNames DEF Beh
<1>2. CASE Beh(a) = note
  <2>1. a \in Notifiers \cup {note} /\ c \in Notifiers \cup {note}
    BY <1>2, Names, SignalsAssumption, SignalNames DEF Beh
  <2>2. \A n \in Notifiers : call[n] # "done" => Busy(n) /\ call[note] = "done"
    BY DEF ChainInv, NotifierInv, Busy
  <2>3. \A m, n \in Notifiers : Busy(m) /\ Busy(n) => m = n
    BY DEF ChainInv, NotifierInv
  <2>4. QED BY <2>1, <2>2, <2>3
<1>3. QED BY <1>1, <1>2, Names DEF Behaviours

(* While the notification's behaviour is being scheduled, a run is         *)
(* requested and nobody else is about to schedule it.                      *)
LEMMA NoteBeingScheduled ==
  ASSUME NEW R, NEW lo, ChainInv(R, lo), NEW a \in Callers, Beh(a) = note, call[a] # "done"
  PROVE  /\ noteStatus = "requested" /\ run[note] = "idle"
         /\ \A n \in Notifiers : pc[n] # "acquire"
<1>1. a \in Notifiers \cup {note}
  BY Names, SignalsAssumption, SignalNames DEF Beh
<1>2. CASE a \in Notifiers
  <2>1. Busy(a) BY DEF Busy
  <2>2. \A n \in Notifiers : pc[n] = "acquire" => Busy(n) BY DEF Busy
  <2>3. pc[a] = "schedule" BY <1>2 DEF ChainInv, NotifierInv
  <2>4. noteStatus = "requested" /\ run[note] = "idle"
    BY <1>2, <2>1 DEF ChainInv, NotifierInv
  <2>5. \A n \in Notifiers : pc[n] = "acquire" => n = a
    BY <1>2, <2>1, <2>2 DEF ChainInv, NotifierInv
  <2>6. QED BY <2>3, <2>4, <2>5
<1>3. CASE a = note
  BY <1>3 DEF ChainInv, NoteInv, NotifierInv, Busy
<1>4. QED BY <1>1, <1>2, <1>3

(* A caller that has not exchanged is not in the chain yet.                *)
LEMMA ExchangeKeeps ==
  ASSUME TypeOK, NEW R, NEW lo, ChainInv(R, lo), NEW a \in Callers,
         Exchange(a, Beh(a)), UNCHANGED <<pc, noteStatus>>,
         NEW R2, R2 = [R EXCEPT ![Beh(a)] = IF last = NoSlot THEN lo ELSE R[last] + 1]
  PROVE  ChainInv(R2, lo)'
<1> DEFINE b == Beh(a)
<1>1. b \in Slots /\ b # slot /\ NoSlot \notin Slots /\ last \in Slots \cup {NoSlot}
  BY Names DEF TypeOK, ChainTypeOK
<1>2. /\ R \in [Slots -> Int] /\ lo \in Int /\ R2 \in [Slots -> Int]
      /\ \A s \in Slots : s # b => R2[s] = R[s]
      /\ R2[b] = IF last = NoSlot THEN lo ELSE R[last] + 1
  BY <1>1 DEF ChainInv, Order
<1>3. /\ R[b] < lo /\ status[b] = "wait" /\ countdown[b] = 2 /\ prev[a] = NoSlot /\ run[b] = "idle"
      /\ call[a] = "exchange"
  BY DEF ChainInv, Calls, CallOf, Before, Exchange
<1>4. /\ last' = b /\ prev' = [prev EXCEPT ![a] = last]
      /\ call' = [call EXCEPT ![a] = IF last = NoSlot THEN "acquire" ELSE "link"]
      /\ UNCHANGED <<status, countdown, run, pc, noteStatus>>
  BY DEF Exchange
<1>5. b # last
  BY <1>1, <1>2, <1>3 DEF ChainInv, Order
<1>6. \A s \in Slots : R2[s] >= lo => s = b \/ R[s] >= lo
  BY <1>2
<1>7. /\ lo <= R2[b] /\ \A s \in Slots : s # b => R2[s] < R2[b]
  <2>1. CASE last = NoSlot
    BY <2>1, <1>2 DEF ChainInv, Order
  <2>2. CASE last # NoSlot
    <3>1. lo <= R[last] /\ (\A s \in Slots : R[s] <= R[last]) /\ last \in Slots
      BY <2>2, <1>1 DEF ChainInv, Order
    <3>2. QED BY <3>1, <2>2, <1>2
  <2>3. QED BY <2>1, <2>2
<1>8. \A c \in Callers : c # a => call'[c] = call[c] /\ prev'[c] = prev[c]
  BY <1>4 DEF TypeOK, ChainTypeOK
<1>9. \A c \in Callers : c # a /\ Beh(c) = b => call[c] = "done"
  BY <1>3, OneCaller
<1>10. call'[a] \in {"acquire", "link"} /\ prev'[a] = last
  BY <1>4 DEF TypeOK, ChainTypeOK
<1>11. Order(R2, lo)'
  BY <1>1, <1>2, <1>4, <1>6, <1>7 DEF ChainInv, Order
<1>12. Links(R2, lo)'
  <2> SUFFICES ASSUME NEW s \in Slots, lo <= R2[s]
               PROVE  /\ s = b => status[s] \in Marks
                      /\ s # b => LinkedTo(R2, s)'
    BY <1>4 DEF Links
  <2>1. CASE s = b
    BY <2>1, <1>3 DEF Marks
  <2>2. CASE s # b /\ s = last
    <3>1. status[s] \in Marks /\ R2[b] = R2[s] + 1
      BY <2>2, <1>1, <1>2 DEF ChainInv, Links
    <3>2. call'[a] = "link" /\ prev'[a] = s
      BY <2>2, <1>1, <1>4 DEF TypeOK, ChainTypeOK
    <3>3. QED BY <2>2, <3>1, <3>2, <1>4 DEF LinkedTo, Beh
  <2>3. CASE s # b /\ s # last
    <3>1. LinkedTo(R, s) /\ R2[s] = R[s]
      BY <2>3, <1>2 DEF ChainInv, Links
    <3>2. CASE status[s] \in Slots /\ R[status[s]] = R[s] + 1
      <4>1. status[s] # b
        BY <3>1, <3>2, <1>2, <1>3
      <4>2. QED BY <3>1, <3>2, <4>1, <1>2, <1>4, <2>3 DEF LinkedTo
    <3>3. ASSUME NEW c \in Callers, status[s] \in Marks, call[c] = "link", prev[c] = s, R[Beh(c)] = R[s] + 1
          PROVE  LinkedTo(R2, s)'
      <4>1. c # a BY <3>3, <1>3
      <4>2. Beh(c) # b BY <4>1, <3>3, <1>9
      <4>3. R2[Beh(c)] = R2[s] + 1 BY <4>2, <3>1, <3>3, <1>2, Names
      <4>4. call'[c] = "link" /\ prev'[c] = s BY <4>1, <3>3, <1>8
      <4>5. QED BY <4>3, <4>4, <3>3, <1>4 DEF LinkedTo, Beh
    <3>4. QED BY <3>1, <3>2, <3>3 DEF LinkedTo
  <2>4. QED BY <2>1, <2>2, <2>3
<1>13. Calls(R2, lo)'
  <2> SUFFICES ASSUME NEW c \in Callers PROVE CallOf(R2, lo, c)'
    BY DEF Calls
  <2>1. CASE c = a
    <3>1. CASE last = NoSlot
      <4>1. call'[a] = "acquire" /\ prev'[a] = NoSlot /\ R2[b] = lo
        BY <3>1, <1>2, <1>4 DEF TypeOK, ChainTypeOK
      <4>2. QED BY <2>1, <4>1, <1>1, <1>2, <1>3, <1>4 DEF CallOf, Inside, Beh
    <3>2. CASE last # NoSlot
      <4>1. /\ call'[a] = "link" /\ prev'[a] = last /\ last \in Slots
            /\ R2[b] = R2[last] + 1 /\ lo <= R2[last] /\ status[last] \in Marks
        BY <3>2, <1>1, <1>2, <1>4, <1>5 DEF TypeOK, ChainTypeOK, ChainInv, Order, Links
      <4>2. R2[b] # lo BY <4>1, <1>2
      <4>3. QED BY <2>1, <3>2, <4>1, <4>2, <1>1, <1>2, <1>3, <1>4 DEF CallOf, Linking, Inside, Beh
    <3>3. QED BY <3>1, <3>2
  <2>2. CASE c # a
    <3>1. CallOf(R, lo, c) /\ call'[c] = call[c] /\ prev'[c] = prev[c]
      BY <2>2, <1>8 DEF ChainInv, Calls
    <3>2. CASE call[c] = "done"
      BY <3>1, <3>2 DEF CallOf, Inside
    <3>3. CASE call[c] # "done"
      <4>1. Beh(c) # b /\ Beh(c) \in Slots BY <2>2, <3>3, <1>9, Names
      <4>2. R2[Beh(c)] = R[Beh(c)] BY <4>1, <1>2
      <4>3. call[c] = "link" => prev[c] # b /\ R2[prev[c]] = R[prev[c]]
        BY <3>1, <1>2, <1>3 DEF CallOf, Linking
      <4>4. QED BY <3>1, <3>3, <4>1, <4>2, <4>3, <1>4 DEF CallOf, Before, Linking, Inside, Beh
    <3>4. QED BY <3>2, <3>3
  <2>3. QED BY <2>1, <2>2
<1>14. Waiting(R2, lo)'
  <2> SUFFICES ASSUME NEW s \in Slots, lo <= R2[s], NoCall(s)'
               PROVE  /\ status[s] # "wait"
                      /\ s # slot /\ R2[s] = lo => countdown[s] = 0 /\ run[s] \in {"body", "release"}
                      /\ R2[s] # lo => countdown[s] = 1 /\ run[s] = "idle"
    BY <1>4 DEF Waiting
  <2>1. s # b BY <1>10 DEF NoCall, Beh
  <2>2. NoCall(s) BY <2>1, <1>8 DEF NoCall, Beh
  <2>3. R2[s] = R[s] BY <2>1, <1>2
  <2>4. QED BY <2>2, <2>3 DEF ChainInv, Waiting
<1>15. Running(R2, lo)'
  <2> SUFFICES ASSUME NEW s \in Slots, run[s] \in {"body", "release"}
               PROVE  R2[s] = lo /\ NoCall(s)'
    BY <1>4 DEF Running
  <2>1. s # b BY <1>3
  <2>2. R2[s] = R[s] BY <2>1, <1>2
  <2>3. NoCall(s)' BY <2>1, <1>8 DEF ChainInv, Running, NoCall, Beh
  <2>4. QED BY <2>2, <2>3 DEF ChainInv, Running
<1>16. SlotFirst(R2, lo)'
  BY <1>1, <1>2, <1>4, Names DEF ChainInv, SlotFirst
<1>17. ReaderInv(R2, lo)'
  <2> SUFFICES ASSUME NEW r \in Readers
               PROVE  /\ pc[r] = "holds" => /\ call'[r] = "done" /\ R2[r] < lo /\ run[r] = "idle"
                                             /\ status[r] = "wait" /\ countdown[r] = 2
                      /\ call'[r] # "done" => pc[r] = "then"
                      /\ run[r] \notin {"reset", "finish"}
    BY <1>4 DEF ReaderInv
  <2>1. CASE r = a
    BY <2>1, <1>3 DEF ChainInv, ReaderInv
  <2>2. CASE r # a
    <3>1. call'[r] = call[r] BY <2>2, <1>8, Names
    <3>2. pc[r] = "holds" => R2[r] = R[r]
      BY <2>2, <1>2, <1>9, <1>3, Names DEF ChainInv, ReaderInv, Beh
    <3>3. QED BY <3>1, <3>2 DEF ChainInv, ReaderInv
  <2>3. QED BY <2>1, <2>2
<1>18. ASSUME NEW n \in Notifiers PROVE NotifierInv(R2, lo, n)'
  <2>1. \A m \in Notifiers \cup {note} : (call'[m] # "done") <=> (call[m] # "done")
    BY <1>3, <1>8, <1>10, Names
  <2>2. pc[n] = "acquire" => R2[note] = R[note]
    BY <1>2, <1>3, NoteBeingScheduled, Names
  <2>3. QED BY <2>1, <2>2, <1>4 DEF ChainInv, NotifierInv, Busy
<1>19. NoteInv(R2, lo)'
  <2>1. (call'[note] # "done") <=> (call[note] # "done")
    BY <1>3, <1>8, <1>10, Names
  <2>2. CASE b = note
    <3>1. noteStatus = "requested" /\ run[note] = "idle"
      BY <2>2, <1>3, NoteBeingScheduled
    <3>2. QED BY <3>1, <1>3, <1>4, <2>2
              DEF NoteInv
  <2>3. CASE b # note
    <3>1. R2[note] = R[note] BY <2>3, <1>2, Names
    <3>2. QED BY <3>1, <2>1, <1>4 DEF ChainInv, NoteInv
  <2>4. QED BY <2>2, <2>3
<1>20. QED BY <1>11, <1>12, <1>13, <1>14, <1>15, <1>16, <1>17, <1>18, <1>19 DEF ChainInv

(* A step of a call of schedule after its exchange moves the call on, and  *)
(* marks or links slots, but not the end of the chain.                     *)
LEMMA InsideStep ==
  ASSUME TypeOK, NEW R, NEW lo, ChainInv(R, lo), NEW a \in Callers, NEW l \in Inside,
         call[a] \in Inside, call' = [call EXCEPT ![a] = l],
         \A s \in Slots : s # Beh(a) => (status'[s] = "wait" <=> status[s] = "wait"),
         UNCHANGED <<last, countdown, prev, run, pc, noteStatus>>
  PROVE  /\ Order(R, lo)' /\ Waiting(R, lo)' /\ Running(R, lo)'
         /\ SlotFirst(R, lo)' /\ ReaderInv(R, lo)'
         /\ (\A n \in Notifiers : NotifierInv(R, lo, n)') /\ NoteInv(R, lo)'
<1> DEFINE b == Beh(a)
<1>1. b \in Slots /\ b # slot /\ lo <= R[b] /\ call[a] # "done" /\ call'[a] # "done"
  BY Names DEF ChainInv, Calls, CallOf, Inside, TypeOK, ChainTypeOK
<1>2. \A c \in Callers : (call'[c] = "done") <=> (call[c] = "done")
  BY <1>1 DEF TypeOK, ChainTypeOK
<1>3. \A s : NoCall(s)' <=> NoCall(s)
  BY <1>2 DEF NoCall, Beh
<1>4. ~NoCall(b)
  BY <1>1 DEF NoCall
<1>5. Order(R, lo)'
  BY DEF ChainInv, Order
<1>6. Waiting(R, lo)'
  BY <1>3, <1>4 DEF ChainInv, Waiting
<1>7. Running(R, lo)'
  BY <1>3 DEF ChainInv, Running
<1>8. SlotFirst(R, lo)'
  BY <1>1, Names DEF ChainInv, SlotFirst
<1>9. ReaderInv(R, lo)'
  <2> SUFFICES ASSUME NEW r \in Readers
               PROVE  /\ pc[r] = "holds" => /\ call'[r] = "done" /\ R[r] < lo /\ run[r] = "idle"
                                             /\ status'[r] = "wait" /\ countdown[r] = 2
                      /\ call'[r] # "done" => pc[r] = "then"
                      /\ run[r] \notin {"reset", "finish"}
    BY DEF ReaderInv
  <2>1. pc[r] = "holds" => r # b
    BY <1>1, Names DEF ChainInv, ReaderInv, Beh
  <2>2. QED BY <2>1, <1>2, Names DEF ChainInv, ReaderInv
<1>10. ASSUME NEW n \in Notifiers PROVE NotifierInv(R, lo, n)'
  BY <1>2, Names DEF ChainInv, NotifierInv, Busy
<1>11. NoteInv(R, lo)'
  <2>1. R \in [Slots -> Int] /\ lo \in Int BY DEF ChainInv, Order
  <2>2. R[note] < lo => note # b BY <1>1, <2>1
  <2>3. QED BY <2>2, <1>2, Names DEF ChainInv, NoteInv
<1>12. QED BY <1>5, <1>6, <1>7, <1>8, <1>9, <1>10, <1>11

(* AcquireCown: only the count and the caller's place move.                *)
LEMMA AcquireKeeps ==
  ASSUME TypeOK, NEW R, NEW lo, ChainInv(R, lo), NEW a \in Callers,
         AcquireCown(a), UNCHANGED <<pc, noteStatus>>
  PROVE  ChainInv(R, lo)'
<1>1. /\ call[a] = "acquire" /\ call' = [call EXCEPT ![a] = "setReady"]
      /\ UNCHANGED <<last, status, countdown, prev, run>>
  BY DEF AcquireCown
<1>2. /\ Order(R, lo)' /\ Waiting(R, lo)' /\ Running(R, lo)' /\ SlotFirst(R, lo)' /\ ReaderInv(R, lo)'
      /\ (\A n \in Notifiers : NotifierInv(R, lo, n)') /\ NoteInv(R, lo)'
  BY <1>1, InsideStep DEF Inside
<1>3. \A c \in Callers : call'[c] = IF c = a THEN "setReady" ELSE call[c]
  BY <1>1 DEF TypeOK, ChainTypeOK
<1>4. Links(R, lo)'
  <2>1. \A s \in Slots : LinkedTo(R, s) => LinkedTo(R, s)'
    BY <1>1, <1>3 DEF LinkedTo, Beh
  <2>2. QED BY <1>1, <2>1 DEF ChainInv, Links
<1>5. ASSUME NEW c \in Callers PROVE CallOf(R, lo, c)'
  <2>1. CallOf(R, lo, c) BY DEF ChainInv, Calls
  <2>2. CASE c = a
    <3>1. call'[c] = "setReady" /\ Beh(c)' = Beh(c) BY <2>2, <1>3 DEF Beh
    <3>2. /\ R[Beh(c)] = lo /\ lo <= R[Beh(c)] /\ run[Beh(c)] = "idle" /\ countdown[Beh(c)] = 2
          /\ status[Beh(c)] = "wait" /\ prev[c] = NoSlot
      BY <2>1, <2>2, <1>1 DEF CallOf, Inside
    <3>3. QED BY <3>1, <3>2, <1>1 DEF CallOf
  <2>3. CASE c # a
    <3>1. call'[c] = call[c] /\ Beh(c)' = Beh(c) BY <2>3, <1>3 DEF Beh
    <3>2. QED BY <2>1, <3>1, <1>1 DEF CallOf, Before, Linking
  <2>4. QED BY <2>2, <2>3
<1>6. QED BY <1>2, <1>4, <1>5 DEF ChainInv, Calls

(* Link: the slot ahead now names the next one, and the caller no longer   *)
(* stands for that link.                                                   *)
LEMMA LinkKeeps ==
  ASSUME TypeOK, NEW R, NEW lo, ChainInv(R, lo), NEW a \in Callers,
         Link(a, Beh(a)), UNCHANGED <<pc, noteStatus>>
  PROVE  ChainInv(R, lo)'
<1> DEFINE b == Beh(a)
           p == prev[a]
<1>1. /\ call[a] = "link" /\ call' = [call EXCEPT ![a] = "setReady"]
      /\ status' = [status EXCEPT ![p] = b] /\ status[p] # "wait"
      /\ UNCHANGED <<last, countdown, prev, run>>
  BY DEF Link
<1>2. b \in Slots /\ b \notin Marks /\ NoSlot \notin Slots /\ b # slot
  BY Names DEF Marks
<1>3. p \in Slots /\ lo <= R[p] /\ R[b] = R[p] + 1 /\ status[p] \in Marks
  BY <1>1 DEF ChainInv, Calls, CallOf, Linking
<1>4. R \in [Slots -> Int] /\ lo \in Int
  BY DEF ChainInv, Order
<1>5. p # b /\ R[b] # lo
  BY <1>2, <1>3, <1>4
<1>6. \A s \in Slots : status'[s] = IF s = p THEN b ELSE status[s]
  BY <1>1, <1>3 DEF TypeOK, ChainTypeOK
<1>7. \A s \in Slots : s # b => (status'[s] = "wait" <=> status[s] = "wait")
  BY <1>1, <1>2, <1>6 DEF Marks
<1>8. /\ Order(R, lo)' /\ Waiting(R, lo)' /\ Running(R, lo)' /\ SlotFirst(R, lo)' /\ ReaderInv(R, lo)'
      /\ (\A n \in Notifiers : NotifierInv(R, lo, n)') /\ NoteInv(R, lo)'
  BY <1>1, <1>7, InsideStep DEF Inside
<1>9. \A c \in Callers : call'[c] = IF c = a THEN "setReady" ELSE call[c]
  BY <1>1 DEF TypeOK, ChainTypeOK
<1>10. Links(R, lo)'
  <2> SUFFICES ASSUME NEW s \in Slots, lo <= R[s]
               PROVE  /\ s = last => status'[s] \in Marks
                      /\ s # last => LinkedTo(R, s)'
    BY <1>1 DEF Links
  <2>1. CASE s = p
    <3>1. s # last
      <4>1. last # NoSlot => R[b] <= R[last] BY <1>2 DEF ChainInv, Order
      <4>2. QED BY <4>1, <2>1, <1>2, <1>3, <1>4
    <3>2. status'[s] = b BY <2>1, <1>6
    <3>3. QED BY <3>1, <3>2, <2>1, <1>2, <1>3 DEF LinkedTo
  <2>2. CASE s # p
    <3>1. status'[s] = status[s] BY <2>2, <1>6
    <3>2. LinkedTo(R, s) => LinkedTo(R, s)'
      BY <3>1, <2>2, <1>1, <1>9 DEF LinkedTo, Beh
    <3>3. QED BY <3>1, <3>2 DEF ChainInv, Links
  <2>3. QED BY <2>1, <2>2
<1>11. ASSUME NEW c \in Callers PROVE CallOf(R, lo, c)'
  <2>1. CallOf(R, lo, c) BY DEF ChainInv, Calls
  <2>2. status[b] = "wait" BY <1>1 DEF ChainInv, Calls, CallOf
  <2>3. CASE c = a
    <3>1. call'[a] = "setReady" /\ status'[b] = "wait" /\ prev[a] # NoSlot
      BY <2>2, <1>2, <1>3, <1>5, <1>6, <1>9
    <3>2. lo <= R[b] /\ run[b] = "idle" /\ countdown[b] = 2
      BY <2>1, <2>3, <1>1, <1>5 DEF CallOf, Inside
    <3>3. QED BY <2>3, <3>1, <3>2, <1>1, <1>5 DEF CallOf, Inside, Beh
  <2>4. CASE c # a
    <3>1. call[c] = "link" => prev[c] # p
      <4> SUFFICES ASSUME call[c] = "link", prev[c] = p PROVE FALSE
        OBVIOUS
      <4>1. R[Beh(c)] = R[b] /\ lo <= R[b] BY <2>1, <1>3, <1>4 DEF CallOf, Linking
      <4>2. Beh(c) = b BY <4>1, <1>2, Names DEF ChainInv, Order
      <4>3. QED BY <4>2, <2>4, <1>1, OneCaller
    <3>2. call[c] \in {"exchange", "acquire", "link", "setReady"} => Beh(c) # p
      BY <2>1, <1>1 DEF CallOf, Before
    <3>3. call'[c] = call[c] BY <2>4, <1>9
    <3>4. Beh(c) \in Slots /\ Beh(c)' = Beh(c) BY Names DEF Beh
    <3>5. call[c] \in {"exchange", "acquire", "link", "setReady"} => status'[Beh(c)] = status[Beh(c)]
      BY <3>2, <3>4, <1>6
    <3>6. call[c] = "resolve" => status'[Beh(c)] # "wait"
      BY <2>1, <3>4, <1>2, <1>6 DEF CallOf, Marks
    <3>7. call[c] = "link" => status'[prev[c]] = status[prev[c]]
      BY <2>1, <3>1, <1>6 DEF CallOf, Linking
    <3>8. call[c] = "link" => Linking(R, lo, c)'
      BY <2>1, <3>4, <3>7, <1>1 DEF CallOf, Linking
    <3>9. QED BY <2>1, <3>3, <3>4, <3>5, <3>6, <3>8, <1>1 DEF CallOf, Before
  <2>5. QED BY <2>3, <2>4
<1>12. QED BY <1>8, <1>10, <1>11 DEF ChainInv, Calls

(* SetReady: the behaviour's slot may be linked from now on.               *)
LEMMA SetReadyKeeps ==
  ASSUME TypeOK, NEW R, NEW lo, ChainInv(R, lo), NEW a \in Callers,
         SetReady(a, Beh(a)), UNCHANGED <<pc, noteStatus>>
  PROVE  ChainInv(R, lo)'
<1> DEFINE b == Beh(a)
<1>1. /\ call[a] = "setReady" /\ call' = [call EXCEPT ![a] = "resolve"]
      /\ status' = [status EXCEPT ![b] = "ready"]
      /\ UNCHANGED <<last, countdown, prev, run>>
  BY DEF SetReady
<1>2. b \in Slots /\ status[b] = "wait"
  BY <1>1, Names DEF ChainInv, Calls, CallOf
<1>3. \A s \in Slots : status'[s] = IF s = b THEN "ready" ELSE status[s]
  BY <1>1, <1>2 DEF TypeOK, ChainTypeOK
<1>4. /\ Order(R, lo)' /\ Waiting(R, lo)' /\ Running(R, lo)' /\ SlotFirst(R, lo)' /\ ReaderInv(R, lo)'
      /\ (\A n \in Notifiers : NotifierInv(R, lo, n)') /\ NoteInv(R, lo)'
  BY <1>1, <1>3, InsideStep DEF Inside
<1>5. \A c \in Callers : call'[c] = IF c = a THEN "resolve" ELSE call[c]
  BY <1>1 DEF TypeOK, ChainTypeOK
<1>6. \A s \in Slots : status[s] \in Marks => status'[s] \in Marks
  BY <1>3 DEF Marks
<1>7. Links(R, lo)'
  <2> SUFFICES ASSUME NEW s \in Slots, lo <= R[s]
               PROVE  /\ s = last => status'[s] \in Marks
                      /\ s # last => LinkedTo(R, s)'
    BY <1>1 DEF Links
  <2>1. status[s] \in Slots => s # b /\ status'[s] = status[s]
    BY <1>2, <1>3, Names DEF Marks
  <2>2. LinkedTo(R, s) => LinkedTo(R, s)'
    BY <2>1, <1>1, <1>5, <1>6 DEF LinkedTo, Beh
  <2>3. QED BY <2>2, <1>6 DEF ChainInv, Links
<1>8. ASSUME NEW c \in Callers PROVE CallOf(R, lo, c)'
  <2>1. CallOf(R, lo, c) BY DEF ChainInv, Calls
  <2>2. Beh(c)' = Beh(c) /\ Beh(c) \in Slots BY Names DEF Beh
  <2>3. CASE c = a
    <3>1. call'[c] = "resolve" /\ status'[Beh(c)] # "wait" BY <2>2, <2>3, <1>3, <1>5
    <3>2. /\ lo <= R[Beh(c)] /\ run[Beh(c)] = "idle"
          /\ prev[c] = NoSlot => R[Beh(c)] = lo /\ countdown[Beh(c)] = 2
          /\ prev[c] # NoSlot /\ R[Beh(c)] = lo => countdown[Beh(c)] = 1
          /\ R[Beh(c)] # lo => countdown[Beh(c)] = 2
      BY <2>1, <2>3, <1>1 DEF CallOf, Inside
    <3>3. QED BY <2>2, <3>1, <3>2, <1>1 DEF CallOf
  <2>4. CASE c # a
    <3>1. call'[c] = call[c] BY <2>4, <1>5
    <3>2. call[c] # "done" => Beh(c) # b BY <2>4, <1>1, OneCaller
    <3>3. call[c] # "done" => status'[Beh(c)] = status[Beh(c)] BY <2>2, <3>2, <1>3
    <3>4. call[c] = "link" => Linking(R, lo, c)' BY <2>1, <2>2, <1>1, <1>6 DEF CallOf, Linking
    <3>5. QED BY <2>1, <2>2, <3>1, <3>3, <3>4, <1>1 DEF CallOf, Before
  <2>5. QED BY <2>3, <2>4
<1>9. QED BY <1>4, <1>7, <1>8 DEF ChainInv, Calls

(* The call ends.  Its behaviour runs if it is the head of the chain, and  *)
(* otherwise has the slot ahead left to wait for.                          *)
LEMMA ResolveKeeps ==
  ASSUME TypeOK, NEW R, NEW lo, ChainInv(R, lo), NEW a \in Callers,
         ResolveCall(a, Beh(a)), UNCHANGED <<pc, noteStatus>>
  PROVE  ChainInv(R, lo)'
<1> DEFINE b == Beh(a)
           n == IF prev[a] = NoSlot THEN 2 ELSE 1
<1>1. /\ call[a] = "resolve" /\ call' = [call EXCEPT ![a] = "done"]
      /\ prev' = [prev EXCEPT ![a] = NoSlot]
      /\ countdown' = [countdown EXCEPT ![b] = @ - n]
      /\ run' = [run EXCEPT ![b] = IF countdown[b] = n THEN "body" ELSE @]
      /\ UNCHANGED <<last, status>>
  BY DEF ResolveCall, Resolve
<1>2. /\ b \in Slots /\ b # slot /\ status[b] # "wait" /\ run[b] = "idle" /\ lo <= R[b]
      /\ prev[a] = NoSlot => R[b] = lo /\ countdown[b] = 2
      /\ prev[a] # NoSlot /\ R[b] = lo => countdown[b] = 1
      /\ R[b] # lo => countdown[b] = 2
  BY <1>1, Names DEF ChainInv, Calls, CallOf, Inside
<1>3. /\ \A s \in Slots : s # b => run'[s] = run[s] /\ countdown'[s] = countdown[s]
      /\ \A c \in Callers : c # a => call'[c] = call[c] /\ prev'[c] = prev[c]
      /\ call'[a] = "done" /\ prev'[a] = NoSlot
  BY <1>1 DEF TypeOK, ChainTypeOK
<1>4. countdown[b] \in Int BY <1>2 DEF TypeOK, ChainTypeOK
<1>5. /\ R[b] = lo => countdown'[b] = 0 /\ run'[b] = "body"
      /\ R[b] # lo => countdown'[b] = 1 /\ run'[b] = "idle"
  BY <1>1, <1>2, <1>4 DEF TypeOK, ChainTypeOK
<1>6. \A c \in Callers : c # a /\ Beh(c) = b => call[c] = "done"
  BY <1>1, OneCaller
<1>7. NoCall(b)'
  BY <1>3, <1>6 DEF NoCall, Beh
<1>8. \A s \in Slots : s # b => (NoCall(s)' <=> NoCall(s))
  BY <1>3 DEF NoCall, Beh
<1>9. Order(R, lo)'
  BY <1>1 DEF ChainInv, Order
<1>10. Links(R, lo)'
  <2>1. \A s \in Slots : LinkedTo(R, s) => LinkedTo(R, s)'
    BY <1>1, <1>3 DEF LinkedTo, Beh
  <2>2. QED BY <2>1, <1>1 DEF ChainInv, Links
<1>11. ASSUME NEW c \in Callers PROVE CallOf(R, lo, c)'
  <2>1. CallOf(R, lo, c) /\ Beh(c)' = Beh(c) /\ Beh(c) \in Slots BY Names DEF ChainInv, Calls, Beh
  <2>2. CASE c = a
    BY <2>2, <1>3 DEF CallOf, Inside
  <2>3. CASE c # a
    <3>1. call'[c] = call[c] /\ prev'[c] = prev[c] BY <2>3, <1>3
    <3>2. call[c] # "done" => Beh(c) # b BY <2>3, <1>6
    <3>3. call[c] # "done" => run'[Beh(c)] = run[Beh(c)] /\ countdown'[Beh(c)] = countdown[Beh(c)]
      BY <2>1, <3>2, <1>3
    <3>4. QED BY <2>1, <3>1, <3>3, <1>1 DEF CallOf, Before, Linking, Inside
  <2>4. QED BY <2>2, <2>3
<1>12. Waiting(R, lo)'
  <2> SUFFICES ASSUME NEW s \in Slots, lo <= R[s], NoCall(s)'
               PROVE  /\ status[s] # "wait"
                      /\ s # slot /\ R[s] = lo => countdown'[s] = 0 /\ run'[s] \in {"body", "release"}
                      /\ R[s] # lo => countdown'[s] = 1 /\ run'[s] = "idle"
    BY <1>1 DEF Waiting
  <2>1. CASE s = b BY <2>1, <1>2, <1>5
  <2>2. CASE s # b BY <2>2, <1>3, <1>8 DEF ChainInv, Waiting
  <2>3. QED BY <2>1, <2>2
<1>13. Running(R, lo)'
  <2> SUFFICES ASSUME NEW s \in Slots, run'[s] \in {"body", "release"}
               PROVE  R[s] = lo /\ NoCall(s)'
    BY DEF Running
  <2>1. CASE s = b BY <2>1, <1>5, <1>7
  <2>2. CASE s # b BY <2>2, <1>3, <1>8 DEF ChainInv, Running
  <2>3. QED BY <2>1, <2>2
<1>14. SlotFirst(R, lo)'
  BY <1>1, <1>2, <1>3, Names DEF ChainInv, SlotFirst
<1>15. ReaderInv(R, lo)'
  <2> SUFFICES ASSUME NEW r \in Readers
               PROVE  /\ pc[r] = "holds" => /\ call'[r] = "done" /\ R[r] < lo /\ run'[r] = "idle"
                                             /\ status[r] = "wait" /\ countdown'[r] = 2
                      /\ call'[r] # "done" => pc[r] = "then"
                      /\ run'[r] \notin {"reset", "finish"}
    BY <1>1 DEF ReaderInv
  <2>1. pc[r] = "holds" => r # b
    BY <1>2 DEF ChainInv, ReaderInv
  <2>2. call'[r] # "done" => call[r] # "done"
    BY <1>3, Names
  <2>3. pc[r] = "holds" => call'[r] = "done"
    BY <2>2 DEF ChainInv, ReaderInv
  <2>4. run'[r] \notin {"reset", "finish"}
    BY <1>3, <1>5, Names DEF ChainInv, ReaderInv
  <2>5. QED BY <2>1, <2>2, <2>3, <2>4, <1>3, Names DEF ChainInv, ReaderInv
<1>16. ASSUME NEW m \in Notifiers PROVE NotifierInv(R, lo, m)'
  <2>1. \A k \in Notifiers : Busy(k)' => Busy(k)
    BY <1>3, Names DEF Busy
  <2>2. Busy(m)' => call'[note] = "done"
    BY <2>1, <1>3, Names DEF ChainInv, NotifierInv
  <2>3. Busy(m)' => b # note
    <3>1. SUFFICES ASSUME Busy(m)', b = note PROVE FALSE
      OBVIOUS
    <3>2. pc[m] # "acquire" BY <3>1, <1>1, NoteBeingScheduled
    <3>3. call'[m] # "done" BY <3>1, <3>2 DEF Busy
    <3>4. QED BY <3>1, <3>3, <1>7, Names DEF NoCall, Beh
  <2>4. Busy(m)' => run'[note] = "idle" /\ noteStatus = "requested"
    BY <2>1, <2>3, <1>3, Names DEF ChainInv, NotifierInv
  <2>5. call'[m] # "done" => call[m] # "done"
    BY <1>3, Names
  <2>6. QED BY <2>1, <2>2, <2>4, <2>5 DEF ChainInv, NotifierInv
<1>17. NoteInv(R, lo)'
  <2>1. CASE b = note
    <3>1. noteStatus = "requested" BY <2>1, <1>1, NoteBeingScheduled
    <3>2. call'[note] = "done" BY <2>1, <1>7, Names DEF NoCall, Beh
    <3>3. R \in [Slots -> Int] /\ lo \in Int BY DEF ChainInv, Order
    <3>4. ~(R[note] < lo) BY <2>1, <3>3, <1>2
    <3>5. run'[note] \in {"body", "idle"} BY <2>1, <1>5
    <3>6. QED BY <3>1, <3>2, <3>4, <3>5 DEF NoteInv
  <2>2. CASE b # note
    <3>1. run'[note] = run[note] /\ countdown'[note] = countdown[note]
      BY <2>2, <1>3, Names
    <3>2. call'[note] # "done" => call[note] # "done"
      BY <1>3, Names
    <3>3. QED BY <3>1, <3>2, <1>1 DEF ChainInv, NoteInv
  <2>3. QED BY <2>1, <2>2
<1>18. QED BY <1>9, <1>10, <1>11, <1>12, <1>13, <1>14, <1>15, <1>16, <1>17 DEF ChainInv, Calls

(* The head leaves the chain as its last slot: nobody is in it any more.   *)
LEMMA LastLeaves ==
  ASSUME TypeOK, NEW R, NEW lo, ChainInv(R, lo), NEW hi, hi = lo + 1,
         NEW s \in Slots, R[s] = lo, NoCall(s),
         \A x \in Slots : R[x] <= lo, last' = NoSlot,
         UNCHANGED <<status, countdown, call, prev>>,
         \A t \in Slots : t # s => run'[t] = run[t],
         run'[s] \in {"idle", "releaseChain"}
  PROVE  /\ Order(R, hi)' /\ Links(R, hi)' /\ Calls(R, hi)' /\ Waiting(R, hi)' /\ Running(R, hi)'
         /\ hi \in Int /\ \A t \in Slots : R[t] < hi
<1>1. /\ R \in [Slots -> Int] /\ lo \in Int /\ hi \in Int
  BY DEF ChainInv, Order
<1>3. \A t \in Slots : R[t] < hi
  BY <1>1
<1>4. Order(R, hi)'
  BY <1>1, <1>3 DEF Order
<1>5. \A t \in Slots : ~(hi <= R[t])
  BY <1>1, <1>3
<1>6. Links(R, hi)' /\ Waiting(R, hi)'
  BY <1>5 DEF Links, Waiting
<1>7. ASSUME NEW c \in Callers PROVE CallOf(R, hi, c)'
  <2>1. CallOf(R, lo, c) /\ Beh(c)' = Beh(c) /\ Beh(c) \in Slots BY Names DEF ChainInv, Calls, Beh
  <2>2. call[c] \notin Inside
    <3> SUFFICES ASSUME call[c] \in Inside PROVE FALSE
      OBVIOUS
    <3>1. lo <= R[Beh(c)] BY <2>1 DEF CallOf
    <3>2. R[Beh(c)] = lo BY <2>1, <3>1, <1>1
    <3>3. Beh(c) = s BY <2>1, <3>2, <1>1 DEF ChainInv, Order
    <3>4. QED BY <3>3 DEF NoCall, Inside
  <2>3. call[c] = "exchange" => run'[Beh(c)] = "idle"
    BY <2>1, <1>1 DEF CallOf, Before
  <2>4. QED BY <2>1, <2>2, <2>3, <1>3 DEF CallOf, Before, Inside
<1>8. Running(R, hi)'
  <2> SUFFICES ASSUME NEW t \in Slots, run'[t] \in {"body", "release"} PROVE FALSE
    BY DEF Running
  <2>1. t # s /\ run[t] \in {"body", "release"} OBVIOUS
  <2>2. R[t] = lo BY <2>1 DEF ChainInv, Running
  <2>3. QED BY <2>1, <2>2, <1>1 DEF ChainInv, Order
<1>9. QED BY <1>1, <1>3, <1>4, <1>6, <1>7, <1>8 DEF Calls

(* The head s leaves the chain and resolves the next slot's behaviour t.   *)
HeadGone(lo, hi, s, t) ==
  /\ hi = lo + 1
  /\ t = status[s] /\ t \notin Marks
  /\ countdown' = [countdown EXCEPT ![t] = @ - 1]
  /\ UNCHANGED <<last, status, call, prev>>
  /\ t # s => run'[t] = IF countdown[t] = 1 THEN "body" ELSE run[t]
  /\ \A x \in Slots : x # s /\ x # t => run'[x] = run[x]
  /\ run'[s] = IF s = note THEN "reset" ELSE "idle"
(* The head is released to the next slot: the chain starts one rank later, *)
(* and the next behaviour is resolved.                                     *)
LEMMA HeadLeaves ==
  ASSUME TypeOK, NEW R, NEW lo, ChainInv(R, lo), NEW hi,
         NEW s \in Slots, R[s] = lo, NoCall(s), NEW t \in Slots, HeadGone(lo, hi, s, t)
  PROVE  /\ Order(R, hi)' /\ Links(R, hi)' /\ Calls(R, hi)' /\ Waiting(R, hi)' /\ Running(R, hi)'
         /\ t \in Slots /\ t # s /\ R[t] = hi /\ t # slot
         /\ run[t] = "idle" /\ run'[t] \in {"idle", "body"}
         /\ NoCall(t) <=> run'[t] = "body"
<1> USE DEF HeadGone
<1>1. R \in [Slots -> Int] /\ lo \in Int /\ hi \in Int /\ t \in Slots
  BY DEF ChainInv, Order, TypeOK, ChainTypeOK
<1>2. s # last /\ lo <= R[s]
  BY <1>1 DEF ChainInv, Links
<1>3. R[t] = hi
  BY <1>1, <1>2 DEF ChainInv, Links, LinkedTo
<1>4. t # s /\ R[t] # lo /\ lo <= R[t]
  BY <1>1, <1>3
<1>5. t # slot
  <2>1. R[slot] = lo \/ R[slot] < lo BY DEF ChainInv, SlotFirst
  <2>2. R[slot] # hi BY <2>1, <1>1, Names
  <2>3. QED BY <2>2, <1>3
<1>6. \A x \in Slots : lo <= R[x] /\ x # s => hi <= R[x]
  <2> SUFFICES ASSUME NEW x \in Slots, lo <= R[x], x # s PROVE hi <= R[x]
    OBVIOUS
  <2>1. R[x] # lo BY <1>1 DEF ChainInv, Order
  <2>2. QED BY <2>1, <1>1
<1>7. \A x \in Slots : hi <= R[x] => lo <= R[x] /\ x # s /\ R[x] # lo
  BY <1>1
<1>8. \A x \in Slots : R[x] = hi => x = t
  BY <1>1, <1>3, <1>4 DEF ChainInv, Order
<1>9. \A x \in Slots : x # t => countdown'[x] = countdown[x]
  BY DEF TypeOK, ChainTypeOK
<1>10. countdown'[t] = countdown[t] - 1
  BY <1>1 DEF TypeOK, ChainTypeOK
<1>11. Order(R, hi)'
  <2>1. last # NoSlot
    <3>1. ~(R[s] < lo) BY <1>1
    <3>2. QED BY <3>1 DEF ChainInv, Order
  <2>2. last \in Slots /\ R[t] <= R[last]
    BY <2>1, <1>1 DEF ChainInv, Order, TypeOK, ChainTypeOK
  <2>3. hi <= R[last] BY <2>2, <1>3
  <2>4. \A x, y \in Slots : hi <= R[x] /\ R[x] = R[y] => x = y
    BY <1>7 DEF ChainInv, Order
  <2>5. QED BY <1>1, <2>1, <2>3, <2>4 DEF ChainInv, Order
<1>12. Links(R, hi)'
  <2>1. \A x \in Slots : LinkedTo(R, x) => LinkedTo(R, x)'
    BY DEF LinkedTo, Beh
  <2>2. QED BY <2>1, <1>7 DEF ChainInv, Links
<1>13. \A c \in Callers : call[c] = "link" => prev[c] # s
  BY <1>1 DEF ChainInv, Calls, CallOf, Linking
<1>14. \A c \in Callers : Beh(c) = s => call[c] = "done"
  BY DEF NoCall
<1>15. ASSUME NEW c \in Callers, call[c] \in Inside
       PROVE  /\ Beh(c) \in Slots /\ hi <= R[Beh(c)] /\ prev[c] # NoSlot /\ countdown[Beh(c)] = 2
              /\ Beh(c) = t => call[c] # "link"
  <2>1. Beh(c) \in Slots /\ Beh(c) # s BY <1>14, <1>15, Names DEF Inside
  <2>2. lo <= R[Beh(c)] BY <1>15 DEF ChainInv, Calls, CallOf
  <2>3. hi <= R[Beh(c)] BY <2>1, <2>2, <1>6
  <2>4. R[Beh(c)] # lo BY <2>1, <2>3, <1>7
  <2>5. prev[c] # NoSlot /\ countdown[Beh(c)] = 2
    BY <2>4, <1>15 DEF ChainInv, Calls, CallOf
  <2>6. ASSUME Beh(c) = t, call[c] = "link" PROVE FALSE
    <3>1. prev[c] \in Slots /\ lo <= R[prev[c]] /\ R[t] = R[prev[c]] + 1
      BY <2>6 DEF ChainInv, Calls, CallOf, Linking
    <3>2. R[prev[c]] = lo BY <3>1, <1>1, <1>3
    <3>3. prev[c] = s BY <3>1, <3>2, <1>1 DEF ChainInv, Order
    <3>4. QED BY <3>3, <2>6, <1>13
  <2>7. QED BY <2>1, <2>3, <2>5, <2>6
<1>16. NoCall(t) => countdown[t] = 1 /\ run[t] = "idle" /\ status[t] # "wait"
  BY <1>1, <1>4 DEF ChainInv, Waiting
<1>17. ~NoCall(t) => countdown[t] = 2 /\ run[t] = "idle"
  <2> SUFFICES ASSUME NEW c \in Callers, Beh(c) = t, call[c] # "done"
               PROVE  countdown[t] = 2 /\ run[t] = "idle"
    BY DEF NoCall
  <2>1. ~(R[t] < lo) BY <1>1, <1>4
  <2>2. call[c] \in Inside
    <3>1. call[c] # "exchange" BY <2>1 DEF ChainInv, Calls, CallOf, Before
    <3>2. call[c] \in Enqueuing \cup {"done"} BY DEF TypeOK, ChainTypeOK
    <3>3. QED BY <3>1, <3>2 DEF Inside, Enqueuing
  <2>3. QED BY <2>2, <1>15 DEF ChainInv, Calls, CallOf
<1>18. /\ NoCall(t) => countdown'[t] = 0 /\ run'[t] = "body"
       /\ ~NoCall(t) => countdown'[t] = 1 /\ run'[t] = "idle"
  BY <1>4, <1>10, <1>16, <1>17
<1>19. ASSUME NEW c \in Callers PROVE CallOf(R, hi, c)'
  <2>1. CallOf(R, lo, c) /\ Beh(c)' = Beh(c) /\ Beh(c) \in Slots BY Names DEF ChainInv, Calls, Beh
  <2>2. CASE call[c] = "done"
    BY <2>1, <2>2 DEF CallOf, Inside
  <2>3. CASE call[c] = "exchange"
    <3>1. R[Beh(c)] < lo BY <2>1, <2>3 DEF CallOf, Before
    <3>2. R[Beh(c)] < hi /\ Beh(c) # t /\ Beh(c) # s BY <2>1, <3>1, <1>1, <1>3
    <3>3. countdown'[Beh(c)] = countdown[Beh(c)] /\ run'[Beh(c)] = run[Beh(c)]
      BY <2>1, <3>2, <1>9
    <3>4. QED BY <2>1, <2>3, <3>2, <3>3 DEF CallOf, Before, Inside
  <2>4. CASE call[c] \in Inside
    <3>1. /\ hi <= R[Beh(c)] /\ prev[c] # NoSlot /\ countdown[Beh(c)] = 2
          /\ Beh(c) = t => call[c] # "link"
      BY <2>4, <1>15
    <3>2. Beh(c) # s BY <2>4, <1>14 DEF Inside
    <3>3. CASE Beh(c) = t
      <4>1. ~NoCall(t) BY <3>3, <2>4 DEF NoCall, Inside
      <4>2. countdown'[Beh(c)] = 1 /\ run'[Beh(c)] = "idle" /\ R[Beh(c)] = hi
        BY <4>1, <3>3, <1>3, <1>18
      <4>3. call[c] # "link" /\ call[c] # "acquire" /\ call[c] # "exchange" /\ call[c] # "done"
        BY <2>1, <2>4, <3>1, <3>3 DEF CallOf, Inside
      <4>4. QED BY <2>1, <3>1, <4>2, <4>3 DEF CallOf
    <3>4. CASE Beh(c) # t
      <4>1. countdown'[Beh(c)] = countdown[Beh(c)] /\ run'[Beh(c)] = run[Beh(c)]
        BY <2>1, <3>2, <3>4, <1>9
      <4>2. R[Beh(c)] # hi BY <2>1, <3>4, <1>8
      <4>3. call[c] = "link" => Linking(R, hi, c)'
        BY <2>1, <1>6, <1>13 DEF CallOf, Linking
      <4>4. run[Beh(c)] = "idle" BY <2>1, <2>4 DEF CallOf
      <4>5. call[c] # "exchange" /\ call[c] # "done" /\ call[c] # "acquire"
        BY <2>1, <2>4, <3>1 DEF CallOf, Inside
      <4>6. QED BY <2>1, <3>1, <4>1, <4>2, <4>3, <4>4, <4>5 DEF CallOf
    <3>5. QED BY <3>3, <3>4
  <2>5. QED BY <2>2, <2>3, <2>4 DEF Inside, Enqueuing, TypeOK, ChainTypeOK
<1>20. Waiting(R, hi)'
  <2> SUFFICES ASSUME NEW x \in Slots, hi <= R[x], NoCall(x)
               PROVE  /\ status[x] # "wait"
                      /\ x # slot /\ R[x] = hi => countdown'[x] = 0 /\ run'[x] \in {"body", "release"}
                      /\ R[x] # hi => countdown'[x] = 1 /\ run'[x] = "idle"
    BY DEF Waiting, NoCall, Beh
  <2>1. CASE x = t
    BY <2>1, <1>3, <1>16, <1>18
  <2>2. CASE x # t
    <3>1. x # s /\ lo <= R[x] /\ R[x] # lo /\ R[x] # hi BY <2>2, <1>7, <1>8
    <3>2. status[x] # "wait" /\ countdown[x] = 1 /\ run[x] = "idle"
      BY <3>1 DEF ChainInv, Waiting
    <3>3. QED BY <2>2, <3>1, <3>2, <1>9
  <2>3. QED BY <2>1, <2>2
<1>21. Running(R, hi)'
  <2> SUFFICES ASSUME NEW x \in Slots, run'[x] \in {"body", "release"}
               PROVE  R[x] = hi /\ NoCall(x)'
    BY DEF Running
  <2>1. x # s OBVIOUS
  <2>2. x = t
    <3> SUFFICES ASSUME x # t PROVE FALSE
      OBVIOUS
    <3>1. R[x] = lo BY <2>1 DEF ChainInv, Running
    <3>2. QED BY <2>1, <3>1, <1>1 DEF ChainInv, Order
  <2>3. NoCall(t) BY <2>2, <1>18
  <2>4. QED BY <2>2, <2>3, <1>3 DEF NoCall, Beh
<1>22. QED
  BY <1>1, <1>3, <1>4, <1>5, <1>11, <1>12, <1>16, <1>17, <1>18, <1>19, <1>20, <1>21 DEF Calls

-----------------------------------------------------------------------------
(* Steps that leave the chain alone, or touch a slot that is not in it.    *)

(* A step that leaves the chain's variables alone keeps the chain.         *)
LEMMA ChainSame ==
  ASSUME NEW R, NEW lo, ChainInv(R, lo), UNCHANGED <<last, status, countdown, call, prev, run>>
  PROVE  /\ Order(R, lo)' /\ Links(R, lo)' /\ Calls(R, lo)' /\ Waiting(R, lo)' /\ Running(R, lo)'
         /\ R \in [Slots -> Int] /\ lo \in Int
<1>1. Order(R, lo)' /\ R \in [Slots -> Int] /\ lo \in Int
  BY DEF ChainInv, Order
<1>2. Links(R, lo)'
  BY DEF ChainInv, Links, LinkedTo, Beh
<1>3. Calls(R, lo)'
  BY DEF ChainInv, Calls, CallOf, Before, Linking, Beh
<1>4. Waiting(R, lo)' /\ Running(R, lo)'
  BY DEF ChainInv, Waiting, Running, NoCall, Beh
<1>5. QED BY <1>1, <1>2, <1>3, <1>4

(* A behaviour that has released its slot is not in the chain.             *)
LEMMA AfterRun ==
  ASSUME TypeOK, NEW R, NEW lo, ChainInv(R, lo), NEW b \in Slots,
         run[b] \in {"releaseChain", "reset", "finish"}
  PROVE  R[b] < lo /\ NoCall(b) /\ b # slot /\ b \in Behaviours
<1>1. R \in [Slots -> Int] /\ lo \in Int
  BY DEF ChainInv, Order
<1>2. NoCall(b)
  <2> SUFFICES ASSUME NEW a \in Callers, Beh(a) = b, call[a] # "done" PROVE FALSE
    BY DEF NoCall
  <2>1. CallOf(R, lo, a) /\ call[a] \in Enqueuing BY DEF ChainInv, Calls, TypeOK, ChainTypeOK
  <2>2. QED BY <2>1 DEF CallOf, Before, Inside, Enqueuing
<1>3. b # slot
  BY DEF ChainInv, SlotFirst
<1>4. ~(lo <= R[b])
  <2>1. lo <= R[b] => run[b] \in {"body", "release", "idle"}
    BY <1>2, <1>3 DEF ChainInv, Waiting
  <2>2. QED BY <2>1
<1>5. QED BY <1>1, <1>2, <1>3, <1>4, SignalsAssumption DEF Behaviours

(* A step of a slot that left the chain and has no call keeps the chain.   *)
LEMMA OutsideMoves ==
  ASSUME TypeOK, NEW R, NEW lo, ChainInv(R, lo), NEW b \in Slots,
         R[b] < lo, NoCall(b), run'[b] \notin {"body", "release"},
         \A s \in Slots : s # b => run'[s] = run[s] /\ status'[s] = status[s] /\ countdown'[s] = countdown[s],
         UNCHANGED <<last, call, prev>>
  PROVE  /\ Order(R, lo)' /\ Links(R, lo)' /\ Calls(R, lo)' /\ Waiting(R, lo)' /\ Running(R, lo)'
         /\ R \in [Slots -> Int] /\ lo \in Int
<1>1. Order(R, lo)' /\ R \in [Slots -> Int] /\ lo \in Int
  BY DEF ChainInv, Order
<1>2. \A s \in Slots : lo <= R[s] => s # b
  BY <1>1
<1>3. Links(R, lo)'
  BY <1>2 DEF ChainInv, Links, LinkedTo, Beh
<1>4. ASSUME NEW c \in Callers PROVE CallOf(R, lo, c)'
  <2>1. CallOf(R, lo, c) /\ Beh(c)' = Beh(c) /\ Beh(c) \in Slots BY Names DEF ChainInv, Calls, Beh
  <2>2. CASE call[c] = "done"
    BY <2>1, <2>2 DEF CallOf, Inside
  <2>3. CASE call[c] # "done"
    <3>1. Beh(c) # b BY <2>3 DEF NoCall
    <3>2. status'[Beh(c)] = status[Beh(c)] /\ run'[Beh(c)] = run[Beh(c)] /\ countdown'[Beh(c)] = countdown[Beh(c)]
      BY <2>1, <3>1
    <3>3. call[c] = "link" => Linking(R, lo, c)'
      BY <2>1, <1>2 DEF CallOf, Linking
    <3>4. QED BY <2>1, <2>3, <3>2, <3>3 DEF CallOf, Before
  <2>4. QED BY <2>2, <2>3
<1>5. Waiting(R, lo)'
  BY <1>2 DEF ChainInv, Waiting, NoCall, Beh
<1>6. Running(R, lo)'
  BY DEF ChainInv, Running, NoCall, Beh
<1>7. QED BY <1>1, <1>3, <1>4, <1>5, <1>6 DEF Calls

(* The head's body ends.                                                   *)
LEMMA HeadMoves ==
  ASSUME TypeOK, NEW R, NEW lo, ChainInv(R, lo), NEW b \in Slots,
         run[b] = "body", run' = [run EXCEPT ![b] = "release"],
         UNCHANGED <<last, status, countdown, call, prev>>
  PROVE  /\ Order(R, lo)' /\ Links(R, lo)' /\ Calls(R, lo)' /\ Waiting(R, lo)' /\ Running(R, lo)'
         /\ R \in [Slots -> Int] /\ lo \in Int
<1>1. Order(R, lo)' /\ R \in [Slots -> Int] /\ lo \in Int
  BY DEF ChainInv, Order
<1>2. R[b] = lo /\ NoCall(b)
  BY DEF ChainInv, Running
<1>3. \A s \in Slots : run'[s] = IF s = b THEN "release" ELSE run[s]
  BY DEF TypeOK, ChainTypeOK
<1>4. Links(R, lo)'
  BY DEF ChainInv, Links, LinkedTo, Beh
<1>5. ASSUME NEW c \in Callers PROVE CallOf(R, lo, c)'
  <2>1. CallOf(R, lo, c) /\ Beh(c)' = Beh(c) /\ Beh(c) \in Slots BY Names DEF ChainInv, Calls, Beh
  <2>2. call[c] # "done" => run'[Beh(c)] = run[Beh(c)] BY <2>1, <1>2, <1>3 DEF NoCall
  <2>3. QED BY <2>1, <2>2 DEF CallOf, Before, Linking, Inside
<1>6. Waiting(R, lo)'
  BY <1>2, <1>3 DEF ChainInv, Waiting, NoCall, Beh
<1>7. Running(R, lo)'
  BY <1>2, <1>3 DEF ChainInv, Running, NoCall, Beh
<1>8. QED BY <1>1, <1>4, <1>5, <1>6, <1>7 DEF Calls

-----------------------------------------------------------------------------
(* Every action keeps the chain in order.                                  *)

(* What the invariant says of an actor, in a step that does not move it.   *)
LEMMA OthersSame ==
  ASSUME NEW R, NEW lo, ChainInv(R, lo)
  PROVE  /\ UNCHANGED <<status, run>> /\ pc'["writer"] = pc["writer"] => SlotFirst(R, lo)'
         /\ UNCHANGED <<call, status, countdown, run>> /\ (\A r \in Readers : pc'[r] = pc[r])
              => ReaderInv(R, lo)'
         /\ UNCHANGED <<call, run, noteStatus>> /\ (\A n \in Notifiers : pc'[n] = pc[n])
              => \A n \in Notifiers : NotifierInv(R, lo, n)'
         /\ UNCHANGED <<call, status, countdown, run, noteStatus>> => NoteInv(R, lo)'
<1>1. UNCHANGED <<status, run>> /\ pc'["writer"] = pc["writer"] => SlotFirst(R, lo)'
  BY DEF ChainInv, SlotFirst
<1>2. UNCHANGED <<call, status, countdown, run>> /\ (\A r \in Readers : pc'[r] = pc[r])
        => ReaderInv(R, lo)'
  BY DEF ChainInv, ReaderInv
<1>3. UNCHANGED <<call, run, noteStatus>> /\ (\A n \in Notifiers : pc'[n] = pc[n])
        => \A n \in Notifiers : NotifierInv(R, lo, n)'
  BY DEF ChainInv, NotifierInv, Busy
<1>4. UNCHANGED <<call, status, countdown, run, noteStatus>> => NoteInv(R, lo)'
  BY DEF ChainInv, NoteInv
<1>5. QED BY <1>1, <1>2, <1>3, <1>4

(* A thread that moves moves alone.                                        *)
LEMMA GotoMoves ==
  ASSUME TypeOK, NEW t \in Actors, NEW l, Goto(t, l)
  PROVE  pc'[t] = l /\ \A u \in Actors : u # t => pc'[u] = pc[u]
BY DEF TypeOK, Goto

(* The threads are told apart.                                             *)
LEMMA ActorNames ==
  /\ "writer" \in Actors /\ Readers \subseteq Actors /\ Notifiers \subseteq Actors
  /\ \A r \in Readers : r # "writer" /\ r \notin Notifiers
  /\ \A n \in Notifiers : n # "writer" /\ n # note
BY SignalNames DEF Actors

(* The write end moves without touching the chain, before or after its     *)
(* release.                                                                *)
LEMMA WriterMoves ==
  ASSUME TypeOK, Ranked, UNCHANGED <<last, status, countdown, call, prev, run, noteStatus>>,
         NEW l \in WriterPCs, Goto("writer", l),
         l \in {"holds", "acquire", "releaseSlot"}
           <=> pc["writer"] \in {"holds", "acquire", "releaseSlot"}
  PROVE  Ranked'
<1>1. PICK R \in [Slots -> Int], lo \in Int : ChainInv(R, lo)
  BY DEF Ranked
<1>2. /\ pc'["writer"] = l /\ (\A r \in Readers : pc'[r] = pc[r])
      /\ \A n \in Notifiers : pc'[n] = pc[n]
  BY GotoMoves, ActorNames
<1>3. SlotFirst(R, lo)'
  BY <1>1, <1>2 DEF ChainInv, SlotFirst
<1>4. ReaderInv(R, lo)' /\ (\A n \in Notifiers : NotifierInv(R, lo, n)') /\ NoteInv(R, lo)'
  BY <1>1, <1>2, OthersSame
<1>5. ChainInv(R, lo)'
  BY <1>1, <1>3, <1>4, ChainSame DEF ChainInv
<1>6. QED BY <1>5 DEF Ranked

(* The chain's last slot is its head.                                      *)
LEMMA OnlyHead ==
  ASSUME NEW R \in [Slots -> Int], NEW lo \in Int, ChainInv(R, lo), NEW s \in Slots, last = s, R[s] = lo
  PROVE  \A x \in Slots : R[x] <= lo
<1>1. last # NoSlot BY Names
<1>2. QED BY <1>1 DEF ChainInv, Order

(* The rank after lo is greater than it.                                   *)
LEMMA NextRank ==
  ASSUME NEW lo \in Int
  PROVE  lo + 1 \in Int /\ lo < lo + 1 /\ \A i \in Int : i < lo => i < lo + 1 /\ i # lo
OBVIOUS

(* The write end releases its slot, nothing being enqueued behind it: the  *)
(* chain is empty.                                                         *)
LEMMA ReleaseSlotLastKeeps ==
  ASSUME TypeOK, Ranked, ReleaseSlotLast
  PROVE  Ranked'
<1>1. PICK R \in [Slots -> Int], lo \in Int : ChainInv(R, lo)
  BY DEF Ranked
<1>2. PICK hi \in Int : hi = lo + 1
  BY NextRank
<1>3. /\ pc["writer"] = "releaseSlot" /\ last = slot /\ last' = NoSlot
      /\ UNCHANGED <<status, countdown, call, prev, run, noteStatus>> /\ Goto("writer", "releaseChain")
  BY DEF ReleaseSlotLast, ReleaseLast, NoteSame
<1>4. R[slot] = lo /\ NoCall(slot) /\ run'[slot] = "idle" /\ slot \in Slots
  BY <1>1, <1>3, Names DEF ChainInv, SlotFirst, NoCall
<1>5. \A x \in Slots : R[x] <= lo
  BY <1>1, <1>3, <1>4, OnlyHead
<1>6. /\ Order(R, hi)' /\ Links(R, hi)' /\ Calls(R, hi)' /\ Waiting(R, hi)' /\ Running(R, hi)'
      /\ \A t \in Slots : R[t] < hi
  BY <1>1, <1>2, <1>3, <1>4, <1>5, LastLeaves
<1>7. /\ pc'["writer"] = "releaseChain" /\ (\A r \in Readers : pc'[r] = pc[r])
      /\ \A n \in Notifiers : pc'[n] = pc[n]
  BY <1>3, GotoMoves, ActorNames
<1>8. SlotFirst(R, hi)'
  BY <1>1, <1>3, <1>4, <1>6, <1>7 DEF ChainInv, SlotFirst
<1>9. ReaderInv(R, hi)'
  BY <1>1, <1>3, <1>6, <1>7, Names DEF ChainInv, ReaderInv
<1>10. ASSUME NEW n \in Notifiers PROVE NotifierInv(R, hi, n)'
  BY <1>1, <1>3, <1>6, <1>7, Names DEF ChainInv, NotifierInv, Busy
<1>11. NoteInv(R, hi)'
  <2>1. R[note] < lo
    BY <1>1, <1>4, <1>5, Names DEF ChainInv, Order
  <2>2. QED BY <1>1, <1>3, <1>6, <2>1, Names DEF ChainInv, NoteInv
<1>12. QED BY <1>6, <1>8, <1>9, <1>10, <1>11 DEF Ranked, ChainInv

(* When the head leaves, the next behaviour may start to run.              *)
LEMMA HeadLeavesKeeps ==
  ASSUME TypeOK, NEW R \in [Slots -> Int], NEW lo \in Int, ChainInv(R, lo), NEW hi \in Int,
         NEW s \in Slots, R[s] = lo, NoCall(s), s = note => run[note] = "release",
         NEW t \in Slots, HeadGone(lo, hi, s, t), UNCHANGED noteStatus,
         \A r \in Readers : pc'[r] = pc[r], \A n \in Notifiers : pc'[n] = pc[n],
         SlotFirst(R, hi)'
  PROVE  Ranked'
<1>1. /\ Order(R, hi)' /\ Links(R, hi)' /\ Calls(R, hi)' /\ Waiting(R, hi)' /\ Running(R, hi)'
      /\ t \in Slots /\ t # s /\ R[t] = hi /\ t # slot
      /\ run[t] = "idle" /\ run'[t] \in {"idle", "body"}
      /\ NoCall(t) <=> run'[t] = "body"
  BY HeadLeaves
<1> USE DEF HeadGone
<1>2. \A x \in Slots : x # t => countdown'[x] = countdown[x]
  BY <1>1 DEF TypeOK, ChainTypeOK
<1>3. \A x \in Slots : R[x] < lo => x # s /\ x # t /\ R[x] < hi
  BY <1>1, NextRank
<1>4. \A x \in Slots : x # s /\ R[x] < hi => R[x] < lo
  <2> SUFFICES ASSUME NEW x \in Slots, x # s, R[x] < hi PROVE R[x] < lo
    OBVIOUS
  <2>1. R[x] # lo BY DEF ChainInv, Order
  <2>2. QED BY <2>1
<1>5. R[s] < hi /\ ~(R[t] < hi)
  BY <1>1
<1>6. ReaderInv(R, hi)'
  <2> SUFFICES ASSUME NEW r \in Readers
               PROVE  /\ pc[r] = "holds" => /\ call[r] = "done" /\ R[r] < hi /\ run'[r] = "idle"
                                             /\ status[r] = "wait" /\ countdown'[r] = 2
                      /\ call[r] # "done" => pc[r] = "then"
                      /\ run'[r] \notin {"reset", "finish"}
    BY DEF ReaderInv
  <2>1. r \in Slots /\ r # note BY Names
  <2>2. pc[r] = "holds" => R[r] < lo BY DEF ChainInv, ReaderInv
  <2>3. pc[r] = "holds" => run'[r] = run[r] /\ countdown'[r] = countdown[r] /\ R[r] < hi
    BY <2>1, <2>2, <1>2, <1>3
  <2>4. run'[r] \notin {"reset", "finish"}
    BY <2>1, <1>1 DEF ChainInv, ReaderInv
  <2>5. QED BY <2>3, <2>4 DEF ChainInv, ReaderInv
<1>7. ASSUME NEW n \in Notifiers PROVE NotifierInv(R, hi, n)'
  <2>1. \A m \in Notifiers : Busy(m)' <=> Busy(m) BY DEF Busy
  <2>2. ASSUME Busy(n) PROVE run'[note] = "idle"
    <3>1. run[note] = "idle" BY <2>2 DEF ChainInv, NotifierInv
    <3>2. note # s BY <3>1
    <3>3. CASE note = t
      <4>1. pc[n] # "acquire" BY <3>3, <1>3, Names DEF ChainInv, NotifierInv
      <4>2. ~NoCall(note) BY <4>1, <2>2, Names DEF Busy, NoCall
      <4>3. QED BY <4>2, <3>3, <1>1
    <3>4. CASE note # t BY <3>1, <3>2, <3>4, Names
    <3>5. QED BY <3>3, <3>4
  <2>3. pc[n] = "acquire" => R[note] < hi
    BY <1>3, Names DEF ChainInv, NotifierInv
  <2>4. QED BY <2>1, <2>2, <2>3 DEF ChainInv, NotifierInv
<1>8. NoteInv(R, hi)'
  <2>1. CASE note = s
    <3>1. noteStatus # "waiting" /\ call[note] = "done"
      BY <2>1 DEF ChainInv, NoteInv
    <3>2. QED BY <2>1, <3>1, <1>5 DEF NoteInv
  <2>2. CASE note = t
    <3>1. noteStatus = "requested"
      <4>1. noteStatus # "waiting" BY <2>2, <1>3, Names DEF ChainInv, NoteInv
      <4>2. noteStatus # "running" BY <2>2, <1>1 DEF ChainInv, NoteInv
      <4>3. QED BY <4>1, <4>2 DEF TypeOK, NotePCs
    <3>2. call[note] # "done" => run'[note] = "idle"
      BY <2>2, <1>1, Names DEF NoCall
    <3>3. QED BY <2>2, <3>1, <3>2, <1>1, <1>5 DEF NoteInv
  <2>3. CASE note # s /\ note # t
    <3>1. run'[note] = run[note] /\ countdown'[note] = countdown[note] /\ (R[note] < hi <=> R[note] < lo)
      BY <2>3, <1>2, <1>3, <1>4, Names
    <3>2. QED BY <3>1 DEF ChainInv, NoteInv
  <2>4. QED BY <2>1, <2>2, <2>3
<1>9. QED BY <1>1, <1>6, <1>7, <1>8 DEF Ranked, ChainInv

(* The write end releases its slot to the next behaviour.                  *)
LEMMA ReleaseSlotNextKeeps ==
  ASSUME TypeOK, Ranked, ReleaseSlotNext
  PROVE  Ranked'
<1>1. PICK R \in [Slots -> Int], lo \in Int : ChainInv(R, lo)
  BY DEF Ranked
<1>2. PICK hi \in Int : hi = lo + 1
  BY NextRank
<1> DEFINE t == status[slot]
<1>3. /\ pc["writer"] = "releaseSlot" /\ t \notin Marks
      /\ countdown' = [countdown EXCEPT ![t] = @ - 1]
      /\ run' = [run EXCEPT ![t] = IF countdown[t] = 1 THEN "body" ELSE @]
      /\ UNCHANGED <<last, status, call, prev, noteStatus>> /\ Goto("writer", AfterSlot)
  BY DEF ReleaseSlotNext, ReleaseNext, Resolve, NoteSame, Marks
<1>4. R[slot] = lo /\ NoCall(slot) /\ run[slot] = "idle" /\ slot \in Slots /\ slot # note /\ t \in Slots
  BY <1>1, <1>3, Names DEF ChainInv, SlotFirst, NoCall, TypeOK, ChainTypeOK
<1>5. /\ pc'["writer"] \in {"drop", "gone"} /\ (\A r \in Readers : pc'[r] = pc[r])
      /\ \A n \in Notifiers : pc'[n] = pc[n]
  BY <1>3, GotoMoves, ActorNames DEF AfterSlot
<1>6. /\ t # slot => run'[t] = IF countdown[t] = 1 THEN "body" ELSE run[t]
      /\ \A x \in Slots : x # t => run'[x] = run[x]
  BY <1>3, <1>4 DEF TypeOK, ChainTypeOK
<1>7. slot # t
  <2>1. slot # last
    BY <1>1, <1>3, <1>4 DEF ChainInv, Links
  <2>2. R[t] = R[slot] + 1
    BY <1>1, <1>3, <1>4, <2>1 DEF ChainInv, Links, LinkedTo
  <2>3. QED BY <2>2, <1>4
<1>8. run'[slot] = "idle" BY <1>4, <1>6, <1>7
<1>9. R[slot] < hi BY <1>2, <1>4
<1>10. SlotFirst(R, hi)'
  BY <1>1, <1>3, <1>5, <1>8, <1>9 DEF ChainInv, SlotFirst
<1>11. HeadGone(lo, hi, slot, t)
  BY <1>2, <1>3, <1>4, <1>6, <1>8 DEF HeadGone
<1>12. QED BY <1>1, <1>3, <1>4, <1>5, <1>10, <1>11, HeadLeavesKeeps

(* A behaviour releases its slot to the next one.                          *)
LEMMA BodyReleaseNextKeeps ==
  ASSUME TypeOK, Ranked, NEW b \in Behaviours, BodyReleaseNext(b)
  PROVE  Ranked'
<1>1. PICK R \in [Slots -> Int], lo \in Int : ChainInv(R, lo)
  BY DEF Ranked
<1>2. PICK hi \in Int : hi = lo + 1
  BY NextRank
<1>14. status[b] \in Slots \cup Marks
  BY Names, SignalsAssumption DEF Behaviours, TypeOK, ChainTypeOK
<1>15. status[b] \notin Marks
  BY DEF BodyReleaseNext, Marks
<1>16. PICK t \in Slots : t = status[b]
  BY <1>14, <1>15
<1>3. /\ run[b] = "release" /\ t \notin Marks
      /\ countdown' = [countdown EXCEPT ![t] = @ - 1]
      /\ run' = [run EXCEPT ![b] = AfterRelease(b), ![t] = IF countdown[t] = 1 THEN "body" ELSE @]
      /\ UNCHANGED <<last, status, call, prev, noteStatus, pc>>
  BY <1>15, <1>16 DEF BodyReleaseNext, NoteSame
<1>4. b \in Slots /\ b # slot
  BY Names, SignalsAssumption, SignalNames DEF Behaviours
<1>5. R[b] = lo /\ NoCall(b) /\ t \in Slots
  BY <1>1, <1>3, <1>4 DEF ChainInv, Running
<1>6. R[t] = R[b] + 1
  <2>1. b # last
    BY <1>1, <1>3, <1>4, <1>5, <1>15 DEF ChainInv, Links
  <2>2. QED BY <1>1, <1>4, <1>5, <1>15, <1>16, <2>1 DEF ChainInv, Links, LinkedTo
<1>7. t # b BY <1>4, <1>5, <1>6
<1>8. /\ run'[t] = IF countdown[t] = 1 THEN "body" ELSE run[t]
      /\ \A x \in Slots : x # b /\ x # t => run'[x] = run[x]
      /\ run'[b] = IF b = note THEN "reset" ELSE "idle"
  BY <1>3, <1>4, <1>5, <1>7 DEF TypeOK, ChainTypeOK, AfterRelease
<1>9. R[slot] = lo \/ R[slot] < lo BY <1>1 DEF ChainInv, SlotFirst
<1>10. slot \in Slots /\ R[slot] # lo BY <1>1, <1>4, <1>5, Names DEF ChainInv, Order
<1>11. R[slot] < lo /\ R[slot] < hi /\ slot # t BY <1>2, <1>5, <1>6, <1>9, <1>10, NextRank
<1>12. SlotFirst(R, hi)'
  <2>1. run'[slot] = run[slot] BY <1>4, <1>8, <1>10, <1>11
  <2>2. pc["writer"] \notin {"holds", "acquire", "releaseSlot"} BY <1>1, <1>10 DEF ChainInv, SlotFirst
  <2>3. status[slot] # "wait" /\ run[slot] = "idle" BY <1>1 DEF ChainInv, SlotFirst
  <2>4. pc'["writer"] \notin {"holds", "acquire", "releaseSlot"} /\ status'[slot] # "wait"
    BY <2>2, <2>3, <1>3
  <2>5. R[slot] < hi /\ run'[slot] = "idle" BY <2>1, <2>3, <1>11
  <2>6. QED BY <2>4, <2>5 DEF SlotFirst
<1>13. b = note => run[note] = "release" BY <1>3
<1>17. HeadGone(lo, hi, b, t)
  BY <1>2, <1>3, <1>8, <1>16 DEF HeadGone
<1>18. QED BY <1>1, <1>3, <1>4, <1>5, <1>12, <1>13, <1>17, HeadLeavesKeeps

(* A call of schedule starts for a behaviour that is reset and not in the  *)
(* chain.                                                                  *)
LEMMA CallStarts ==
  ASSUME TypeOK, NEW R, NEW lo, ChainInv(R, lo), NEW a \in Callers, NoCall(Beh(a)),
         R[Beh(a)] < lo, status[Beh(a)] = "wait", countdown[Beh(a)] = 2, run'[Beh(a)] = "idle",
         \A s \in Slots : s # Beh(a) => run'[s] = run[s],
         call' = [call EXCEPT ![a] = "exchange"],
         UNCHANGED <<last, status, countdown, prev>>
  PROVE  /\ Order(R, lo)' /\ Links(R, lo)' /\ Calls(R, lo)' /\ Waiting(R, lo)' /\ Running(R, lo)'
         /\ \A c \in Callers : c # a => call'[c] = call[c]
         /\ call'[a] = "exchange" /\ R \in [Slots -> Int] /\ lo \in Int
<1> DEFINE b == Beh(a)
<1>1. Order(R, lo)' /\ R \in [Slots -> Int] /\ lo \in Int /\ b \in Slots /\ b # slot
  BY Names DEF ChainInv, Order
<1>2. \A s \in Slots : lo <= R[s] => s # b
  BY <1>1
<1>3. (\A c \in Callers : c # a => call'[c] = call[c]) /\ call'[a] = "exchange" /\ call[a] = "done"
  BY DEF TypeOK, ChainTypeOK, NoCall
<1>4. Links(R, lo)'
  <2>1. \A s \in Slots : LinkedTo(R, s) => LinkedTo(R, s)'
    <3>1. \A c \in Callers : call[c] = "link" => call'[c] = "link" BY <1>3
    <3>2. QED BY <3>1 DEF LinkedTo, Beh
  <2>2. QED BY <2>1 DEF ChainInv, Links
<1>5. ASSUME NEW c \in Callers PROVE CallOf(R, lo, c)'
  <2>1. CallOf(R, lo, c) /\ Beh(c)' = Beh(c) /\ Beh(c) \in Slots BY Names DEF ChainInv, Calls, Beh
  <2>2. CASE c = a
    <3>1. prev[c] = NoSlot BY <2>1, <2>2, <1>3 DEF CallOf
    <3>2. QED BY <2>1, <2>2, <3>1, <1>3 DEF CallOf, Before, Inside
  <2>3. CASE c # a
    <3>1. call'[c] = call[c] BY <2>3, <1>3
    <3>2. call[c] # "done" => run'[Beh(c)] = run[Beh(c)] BY <2>1 DEF NoCall
    <3>3. QED BY <2>1, <3>1, <3>2 DEF CallOf, Before, Linking, Inside
  <2>4. QED BY <2>2, <2>3
<1>6. Waiting(R, lo)'
  <2> SUFFICES ASSUME NEW s \in Slots, lo <= R[s], NoCall(s)'
               PROVE  /\ status[s] # "wait"
                      /\ s # slot /\ R[s] = lo => countdown[s] = 0 /\ run'[s] \in {"body", "release"}
                      /\ R[s] # lo => countdown[s] = 1 /\ run'[s] = "idle"
    BY DEF Waiting
  <2>1. s # b BY <1>2
  <2>2. NoCall(s) BY <2>1, <1>3 DEF NoCall, Beh
  <2>3. run'[s] = run[s] BY <2>1
  <2>4. QED BY <2>2, <2>3 DEF ChainInv, Waiting
<1>7. Running(R, lo)'
  <2> SUFFICES ASSUME NEW s \in Slots, run'[s] \in {"body", "release"} PROVE R[s] = lo /\ NoCall(s)'
    BY DEF Running
  <2>1. s # b OBVIOUS
  <2>2. R[s] = lo /\ NoCall(s) BY <2>1 DEF ChainInv, Running
  <2>3. NoCall(s)' BY <2>1, <2>2, <1>3 DEF NoCall, Beh
  <2>4. QED BY <2>2, <2>3
<1>8. QED BY <1>1, <1>3, <1>4, <1>5, <1>6, <1>7 DEF Calls

(* `then` starts a call of schedule for the reader's behaviour, which has  *)
(* never been scheduled.                                                   *)
LEMMA ThenKeeps ==
  ASSUME TypeOK, Ranked, NEW r \in Readers, Then(r)
  PROVE  Ranked'
<1>1. PICK R \in [Slots -> Int], lo \in Int : ChainInv(R, lo)
  BY DEF Ranked
<1>2. /\ pc[r] = "holds" /\ Goto(r, "then") /\ call' = [call EXCEPT ![r] = "exchange"]
      /\ UNCHANGED <<noteStatus, last, status, countdown, prev, run>>
  BY DEF Then, NoteSame
<1>3. /\ r \in Slots /\ r \in Callers /\ Beh(r) = r /\ r # note /\ r # slot
      /\ R[r] < lo /\ status[r] = "wait" /\ countdown[r] = 2 /\ run[r] = "idle" /\ call[r] = "done"
  BY <1>1, <1>2, Names DEF ChainInv, ReaderInv
<1>4. NoCall(r)
  <2>1. \A a \in Callers : Beh(a) = r => a = r BY <1>3 DEF Beh
  <2>2. QED BY <2>1, <1>3 DEF NoCall
<1>5. /\ Order(R, lo)' /\ Links(R, lo)' /\ Calls(R, lo)' /\ Waiting(R, lo)' /\ Running(R, lo)'
      /\ \A c \in Callers : c # r => call'[c] = call[c]
      /\ call'[r] = "exchange"
  <2>1. \A s \in Slots : s # Beh(r) => run'[s] = run[s] BY <1>2
  <2>2. NoCall(Beh(r)) /\ run'[Beh(r)] = "idle" BY <1>2, <1>3, <1>4
  <2>3. QED BY <1>1, <1>2, <1>3, <2>1, <2>2, CallStarts
<1>6. pc'[r] = "then" /\ \A u \in Actors : u # r => pc'[u] = pc[u]
  BY <1>2, GotoMoves, ActorNames
<1>7. SlotFirst(R, lo)'
  BY <1>1, <1>2, <1>6, ActorNames, OthersSame
<1>8. ReaderInv(R, lo)'
  <2> SUFFICES ASSUME NEW x \in Readers
               PROVE  /\ pc'[x] = "holds" => /\ call'[x] = "done" /\ R[x] < lo /\ run[x] = "idle"
                                              /\ status[x] = "wait" /\ countdown[x] = 2
                      /\ call'[x] # "done" => pc'[x] = "then"
                      /\ run[x] \notin {"reset", "finish"}
    BY <1>2 DEF ReaderInv
  <2>1. CASE x = r BY <2>1, <1>3, <1>6
  <2>2. CASE x # r
    BY <2>2, <1>1, <1>5, <1>6, Names, ActorNames DEF ChainInv, ReaderInv
  <2>3. QED BY <2>1, <2>2
<1>9. call'[note] = call[note] /\ \A n \in Notifiers : call'[n] = call[n] /\ pc'[n] = pc[n]
  BY <1>3, <1>5, <1>6, Names, ActorNames
<1>10. ASSUME NEW n \in Notifiers PROVE NotifierInv(R, lo, n)'
  BY <1>1, <1>2, <1>9 DEF ChainInv, NotifierInv, Busy
<1>11. NoteInv(R, lo)'
  BY <1>1, <1>2, <1>9 DEF ChainInv, NoteInv
<1>12. QED BY <1>5, <1>7, <1>8, <1>10, <1>11 DEF Ranked, ChainInv

(* A step of a call of schedule, whichever behaviour it is for.            *)
LEMMA ScheduleKeeps ==
  ASSUME TypeOK, Ranked, NEW a \in Callers, Schedule(a, Beh(a)), UNCHANGED <<pc, noteStatus>>
  PROVE  Ranked'
<1>1. PICK R \in [Slots -> Int], lo \in Int : ChainInv(R, lo)
  BY DEF Ranked
<1>2. CASE Exchange(a, Beh(a))
  <2>1. Beh(a) \in Slots /\ last \in Slots \cup {NoSlot}
    BY Names DEF TypeOK, ChainTypeOK
  <2>2. (IF last = NoSlot THEN lo ELSE R[last] + 1) \in Int
    BY <2>1
  <2>3. PICK R2 \in [Slots -> Int] : R2 = [R EXCEPT ![Beh(a)] = IF last = NoSlot THEN lo ELSE R[last] + 1]
    BY <2>1, <2>2
  <2>4. ChainInv(R2, lo)'
    BY <1>1, <1>2, <2>3, ExchangeKeeps
  <2>5. QED BY <2>4 DEF Ranked
<1>3. CASE AcquireCown(a)
  BY <1>1, <1>3, AcquireKeeps DEF Ranked
<1>4. CASE Link(a, Beh(a))
  BY <1>1, <1>4, LinkKeeps DEF Ranked
<1>5. CASE SetReady(a, Beh(a))
  BY <1>1, <1>5, SetReadyKeeps DEF Ranked
<1>6. CASE ResolveCall(a, Beh(a))
  BY <1>1, <1>6, ResolveKeeps DEF Ranked
<1>7. QED BY <1>2, <1>3, <1>4, <1>5, <1>6 DEF Schedule

(* A read end that is dropped has no call in flight.                       *)
LEMMA DropReaderKeeps ==
  ASSUME TypeOK, Ranked, NEW r \in Readers, DropReader(r)
  PROVE  Ranked'
<1>1. PICK R \in [Slots -> Int], lo \in Int : ChainInv(R, lo)
  BY DEF Ranked
<1>2. /\ call[r] = "done" /\ Goto(r, "gone")
      /\ UNCHANGED <<noteStatus, last, status, countdown, call, prev, run>>
  BY DEF DropReader, NoteSame
<1>3. pc'[r] = "gone" /\ \A u \in Actors : u # r => pc'[u] = pc[u]
  BY <1>2, GotoMoves, ActorNames
<1>4. SlotFirst(R, lo)' /\ (\A n \in Notifiers : NotifierInv(R, lo, n)') /\ NoteInv(R, lo)'
  BY <1>1, <1>2, <1>3, ActorNames, OthersSame
<1>5. ReaderInv(R, lo)'
  BY <1>1, <1>2, <1>3, ActorNames DEF ChainInv, ReaderInv
<1>6. QED BY <1>1, <1>2, <1>4, <1>5, ChainSame DEF Ranked, ChainInv

(* The readers' and notifiers' parts, when only b's run moves.             *)
LEMMA BodyKeeps ==
  ASSUME TypeOK, Ranked, NEW b \in Behaviours, run[b] = "body", run' = [run EXCEPT ![b] = "release"],
         UNCHANGED <<last, status, countdown, call, prev, pc>>,
         b = note => noteStatus' = "running", b # note => UNCHANGED noteStatus
  PROVE  Ranked'
<1>1. PICK R \in [Slots -> Int], lo \in Int : ChainInv(R, lo)
  BY DEF Ranked
<1>2. b \in Slots /\ b # slot
  BY Names, SignalsAssumption, SignalNames DEF Behaviours
<1>3. run'[b] = "release" /\ \A s \in Slots : s # b => run'[s] = run[s]
  BY <1>2 DEF TypeOK, ChainTypeOK
<1>4. /\ Order(R, lo)' /\ Links(R, lo)' /\ Calls(R, lo)' /\ Waiting(R, lo)' /\ Running(R, lo)'
  BY <1>1, <1>2, HeadMoves
<1>5. SlotFirst(R, lo)'
  BY <1>1, <1>2, <1>3, Names DEF ChainInv, SlotFirst
<1>6. ReaderInv(R, lo)'
  BY <1>1, <1>3, Names DEF ChainInv, ReaderInv
<1>7. ASSUME NEW n \in Notifiers PROVE NotifierInv(R, lo, n)'
  <2>1. Busy(n) => b # note BY <1>1 DEF ChainInv, NotifierInv
  <2>2. QED BY <2>1, <1>1, <1>3, Names DEF ChainInv, NotifierInv, Busy
<1>8. NoteInv(R, lo)'
  <2>1. CASE b = note
    <3>1. call[note] = "done" BY <2>1, <1>1 DEF ChainInv, NoteInv
    <3>2. QED BY <2>1, <3>1, <1>3 DEF NoteInv
  <2>2. CASE b # note
    <3>1. run'[note] = run[note] BY <2>2, <1>3, Names
    <3>2. QED BY <2>2, <3>1, <1>1 DEF ChainInv, NoteInv
  <2>3. QED BY <2>1, <2>2
<1>9. QED BY <1>4, <1>5, <1>6, <1>7, <1>8 DEF Ranked, ChainInv

(* A behaviour releases its slot, the last of the chain.                   *)
LEMMA BodyReleaseLastKeeps ==
  ASSUME TypeOK, Ranked, NEW b \in Behaviours, BodyReleaseLast(b)
  PROVE  Ranked'
<1>1. PICK R \in [Slots -> Int], lo \in Int : ChainInv(R, lo)
  BY DEF Ranked
<1>2. PICK hi \in Int : hi = lo + 1
  BY NextRank
<1>3. /\ run[b] = "release" /\ run' = [run EXCEPT ![b] = "releaseChain"] /\ last = b /\ last' = NoSlot
      /\ UNCHANGED <<status, countdown, call, prev, noteStatus, pc>>
  BY DEF BodyReleaseLast, ReleaseLast, Runs, NoteSame
<1>4. b \in Slots /\ b # slot
  BY Names, SignalsAssumption, SignalNames DEF Behaviours
<1>5. R[b] = lo /\ NoCall(b)
  BY <1>1, <1>3, <1>4 DEF ChainInv, Running
<1>6. run'[b] = "releaseChain" /\ \A s \in Slots : s # b => run'[s] = run[s]
  BY <1>3, <1>4 DEF TypeOK, ChainTypeOK
<1>7. \A x \in Slots : R[x] <= lo
  BY <1>1, <1>3, <1>4, <1>5, OnlyHead
<1>8. /\ Order(R, hi)' /\ Links(R, hi)' /\ Calls(R, hi)' /\ Waiting(R, hi)' /\ Running(R, hi)'
      /\ \A t \in Slots : R[t] < hi
  BY <1>1, <1>2, <1>3, <1>4, <1>5, <1>6, <1>7, LastLeaves
<1>9. \A x \in Slots : x # b => R[x] < lo
  <2>1. \A x \in Slots : x # b => R[x] # lo BY <1>1, <1>4, <1>5 DEF ChainInv, Order
  <2>2. QED BY <2>1, <1>7
<1>10. SlotFirst(R, hi)'
  <2>1. R[slot] # lo BY <1>4, <1>9, Names
  <2>2. pc["writer"] \notin {"holds", "acquire", "releaseSlot"} BY <2>1, <1>1 DEF ChainInv, SlotFirst
  <2>3. QED BY <2>2, <1>1, <1>3, <1>4, <1>6, <1>8, Names DEF ChainInv, SlotFirst
<1>11. ReaderInv(R, hi)'
  <2> SUFFICES ASSUME NEW r \in Readers
               PROVE  /\ pc[r] = "holds" => /\ call[r] = "done" /\ R[r] < hi /\ run'[r] = "idle"
                                             /\ status[r] = "wait" /\ countdown[r] = 2
                      /\ call[r] # "done" => pc[r] = "then"
                      /\ run'[r] \notin {"reset", "finish"}
    BY <1>3 DEF ReaderInv
  <2>1. pc[r] = "holds" => r # b BY <1>1, <1>3 DEF ChainInv, ReaderInv
  <2>2. run'[r] \notin {"reset", "finish"} BY <1>1, <1>6, Names DEF ChainInv, ReaderInv
  <2>3. QED BY <2>1, <2>2, <1>1, <1>6, <1>8, Names DEF ChainInv, ReaderInv
<1>12. ASSUME NEW n \in Notifiers PROVE NotifierInv(R, hi, n)'
  <2>1. Busy(n) => note # b BY <1>1, <1>3 DEF ChainInv, NotifierInv
  <2>2. Busy(n) => run'[note] = "idle" BY <2>1, <1>1, <1>6, Names DEF ChainInv, NotifierInv
  <2>3. QED BY <2>2, <1>1, <1>3, <1>8, Names DEF ChainInv, NotifierInv, Busy
<1>13. NoteInv(R, hi)'
  <2>1. CASE b = note
    <3>1. call[note] = "done" /\ noteStatus # "waiting" BY <2>1, <1>1, <1>3 DEF ChainInv, NoteInv
    <3>2. QED BY <2>1, <3>1, <1>3, <1>6, <1>8, Names DEF NoteInv
  <2>2. CASE b # note
    <3>1. run'[note] = run[note] /\ R[note] < lo /\ R[note] < hi BY <2>2, <1>6, <1>8, <1>9, Names
    <3>2. QED BY <2>2, <3>1, <1>1, <1>3 DEF ChainInv, NoteInv
  <2>3. QED BY <2>1, <2>2
<1>14. QED BY <1>8, <1>10, <1>11, <1>12, <1>13 DEF Ranked, ChainInv

(* After the release of the slot, and after the reset.                     *)
LEMMA AfterRunKeeps ==
  ASSUME TypeOK, Ranked, NEW b \in Behaviours, run[b] \in {"releaseChain", "reset", "finish"},
         NEW l \in {"idle", "reset", "finish"}, run' = [run EXCEPT ![b] = l],
         b # note => l = "idle",
         \A s \in Slots : s # b => status'[s] = status[s] /\ countdown'[s] = countdown[s],
         b = note /\ l \in {"idle", "finish"} => status'[note] = "wait" /\ countdown'[note] = 2,
         l = "idle" => b # note \/ noteStatus' = "waiting",
         l # "idle" \/ b # note => UNCHANGED noteStatus,
         UNCHANGED <<last, call, prev, pc>>
  PROVE  Ranked'
<1>1. PICK R \in [Slots -> Int], lo \in Int : ChainInv(R, lo)
  BY DEF Ranked
<1>2. b \in Slots /\ b # slot
  BY Names, SignalsAssumption, SignalNames DEF Behaviours
<1>3. R[b] < lo /\ NoCall(b)
  BY <1>1, <1>2, AfterRun
<1>4. run'[b] = l /\ \A s \in Slots : s # b => run'[s] = run[s]
  BY <1>2 DEF TypeOK, ChainTypeOK
<1>5. /\ Order(R, lo)' /\ Links(R, lo)' /\ Calls(R, lo)' /\ Waiting(R, lo)' /\ Running(R, lo)'
  BY <1>1, <1>2, <1>3, <1>4, OutsideMoves
<1>6. SlotFirst(R, lo)'
  BY <1>1, <1>2, <1>4, Names DEF ChainInv, SlotFirst
<1>7. ReaderInv(R, lo)'
  <2> SUFFICES ASSUME NEW r \in Readers
               PROVE  /\ pc[r] = "holds" => /\ call[r] = "done" /\ R[r] < lo /\ run'[r] = "idle"
                                             /\ status'[r] = "wait" /\ countdown'[r] = 2
                      /\ call[r] # "done" => pc[r] = "then"
                      /\ run'[r] \notin {"reset", "finish"}
    BY DEF ReaderInv
  <2>1. pc[r] = "holds" => r # b BY <1>1 DEF ChainInv, ReaderInv
  <2>2. run'[r] \notin {"reset", "finish"} BY <1>1, <1>4, Names DEF ChainInv, ReaderInv
  <2>3. QED BY <2>1, <2>2, <1>1, <1>4, Names DEF ChainInv, ReaderInv
<1>8. ASSUME NEW n \in Notifiers PROVE NotifierInv(R, lo, n)'
  <2>1. Busy(n) => note # b BY <1>1 DEF ChainInv, NotifierInv
  <2>2. Busy(n) => run'[note] = "idle" /\ noteStatus' = "requested"
    BY <2>1, <1>1, <1>4, Names DEF ChainInv, NotifierInv
  <2>3. QED BY <2>2, <1>1, Names DEF ChainInv, NotifierInv, Busy
<1>9. NoteInv(R, lo)'
  <2>1. CASE b = note
    <3>1. call[note] = "done" /\ noteStatus # "waiting" BY <2>1, <1>1 DEF ChainInv, NoteInv
    <3>2. QED BY <2>1, <3>1, <1>3, <1>4 DEF NoteInv
  <2>2. CASE b # note
    <3>1. run'[note] = run[note] /\ status'[note] = status[note] /\ countdown'[note] = countdown[note]
      BY <2>2, <1>4, Names
    <3>2. QED BY <2>2, <3>1, <1>1 DEF ChainInv, NoteInv
  <2>3. QED BY <2>1, <2>2
<1>10. QED BY <1>5, <1>6, <1>7, <1>8, <1>9 DEF Ranked, ChainInv

(* A step of a behaviour that runs.                                        *)
LEMMA BehaviourKeeps ==
  ASSUME TypeOK, Ranked, NEW b \in Behaviours, Behaviour(b)
  PROVE  Ranked'
<1>1. CASE Body(b)
  <2>1. b # note BY <1>1, Names DEF Body
  <2>2. QED BY <1>1, <2>1, BodyKeeps DEF Body, Runs, NoteSame
<1>2. CASE BodyReleaseLast(b)
  BY <1>2, BodyReleaseLastKeeps
<1>3. CASE BodyReleaseChain(b)
  <2>1. AfterRelease(b) \in {"idle", "reset", "finish"} /\ (b # note => AfterRelease(b) = "idle")
        /\ (b = note => AfterRelease(b) = "reset")
    BY DEF AfterRelease
  <2>2. /\ run[b] = "releaseChain" /\ run' = [run EXCEPT ![b] = AfterRelease(b)]
        /\ UNCHANGED <<noteStatus, pc, last, status, countdown, call, prev>>
    BY <1>3 DEF BodyReleaseChain, Runs, NoteSame
  <2>3. QED BY <2>1, <2>2, AfterRunKeeps
<1>4. CASE BodyReleaseNext(b)
  BY <1>4, BodyReleaseNextKeeps
<1>5. QED BY <1>1, <1>2, <1>3, <1>4 DEF Behaviour

(* notify: the notifier that got Waiting is the only one to schedule.      *)
LEMMA NotifyKeeps ==
  ASSUME TypeOK, Ranked, NEW n \in Notifiers, Notify(n)
  PROVE  Ranked'
<1>1. PICK R \in [Slots -> Int], lo \in Int : ChainInv(R, lo)
  BY DEF Ranked
<1>2. /\ pc[n] = "holds" /\ noteStatus' = "requested"
      /\ Goto(n, IF noteStatus = "waiting" THEN "acquire" ELSE "holds")
      /\ UNCHANGED <<last, status, countdown, call, prev, run>>
  BY DEF Notify, chainVars
<1>3. /\ pc'[n] = IF noteStatus = "waiting" THEN "acquire" ELSE "holds"
      /\ \A u \in Actors : u # n => pc'[u] = pc[u]
  BY <1>2, GotoMoves, ActorNames
<1>4. SlotFirst(R, lo)' /\ ReaderInv(R, lo)'
  BY <1>1, <1>2, <1>3, ActorNames, OthersSame
<1>5. call[n] = "done"
  BY <1>1, <1>2 DEF ChainInv, NotifierInv
<1>6. ASSUME NEW m \in Notifiers PROVE NotifierInv(R, lo, m)'
  <2>1. CASE noteStatus = "waiting"
    <3>1. \A k \in Notifiers : ~Busy(k) BY <2>1, <1>1 DEF ChainInv, NotifierInv
    <3>2. \A k \in Notifiers : k # n => ~Busy(k)' /\ pc'[k] = pc[k]
      BY <3>1, <1>2, <1>3, ActorNames DEF Busy
    <3>3. call[note] = "done" /\ run[note] = "idle" /\ R[note] < lo
      BY <2>1, <1>1 DEF ChainInv, NoteInv
    <3>4. CASE m = n
      BY <3>2, <3>3, <3>4, <1>2, <1>5 DEF NotifierInv
    <3>5. CASE m # n
      <4>1. ~Busy(m)' BY <3>2, <3>5
      <4>2. pc'[m] # "acquire" /\ call'[m] = "done" BY <4>1 DEF Busy
      <4>3. QED BY <4>1, <4>2 DEF NotifierInv
    <3>6. QED BY <3>4, <3>5
  <2>2. CASE noteStatus # "waiting"
    <3>1. \A k \in Notifiers : pc'[k] = pc[k]
      BY <2>2, <1>2, <1>3, ActorNames
    <3>2. QED BY <3>1, <1>1, <1>2 DEF ChainInv, NotifierInv, Busy
  <2>3. QED BY <2>1, <2>2
<1>7. NoteInv(R, lo)'
  BY <1>1, <1>2 DEF ChainInv, NoteInv
<1>8. QED BY <1>1, <1>2, <1>4, <1>6, <1>7, ChainSame DEF Ranked, ChainInv

(* The notifier that got Waiting starts the call of schedule.              *)
LEMMA NotifyAcquireKeeps ==
  ASSUME TypeOK, Ranked, NEW n \in Notifiers, NotifyAcquire(n)
  PROVE  Ranked'
<1>1. PICK R \in [Slots -> Int], lo \in Int : ChainInv(R, lo)
  BY DEF Ranked
<1>2. /\ pc[n] = "acquire" /\ Goto(n, "schedule") /\ call' = [call EXCEPT ![n] = "exchange"]
      /\ UNCHANGED <<noteStatus, last, status, countdown, prev, run>>
  BY DEF NotifyAcquire
<1>3. /\ Busy(n) /\ call[n] = "done" /\ call[note] = "done" /\ run[note] = "idle" /\ R[note] < lo
      /\ noteStatus = "requested" /\ \A m \in Notifiers : Busy(m) => m = n
  BY <1>1, <1>2 DEF ChainInv, NotifierInv, Busy
<1>4. status[note] = "wait" /\ countdown[note] = 2
  BY <1>1, <1>3 DEF ChainInv, NoteInv
<1>5. NoCall(note)
  <2>1. \A a \in Callers : Beh(a) = note => a \in Notifiers \cup {note}
    BY Names, SignalsAssumption, SignalNames DEF Beh
  <2>2. \A m \in Notifiers : call[m] = "done" BY <1>3 DEF Busy
  <2>3. QED BY <2>1, <2>2, <1>3 DEF NoCall
<1>6. n \in Callers /\ Beh(n) = note BY Names
<1>7. /\ Order(R, lo)' /\ Links(R, lo)' /\ Calls(R, lo)' /\ Waiting(R, lo)' /\ Running(R, lo)'
      /\ \A c \in Callers : c # n => call'[c] = call[c]
      /\ call'[n] = "exchange"
  <2>1. NoCall(Beh(n)) /\ R[Beh(n)] < lo /\ status[Beh(n)] = "wait" /\ countdown[Beh(n)] = 2
        /\ run'[Beh(n)] = "idle"
    BY <1>2, <1>3, <1>4, <1>5, <1>6
  <2>2. \A s \in Slots : s # Beh(n) => run'[s] = run[s] BY <1>2
  <2>3. QED BY <1>1, <1>2, <1>6, <2>1, <2>2, CallStarts
<1>8. pc'[n] = "schedule" /\ \A u \in Actors : u # n => pc'[u] = pc[u]
  BY <1>2, GotoMoves, ActorNames
<1>9. SlotFirst(R, lo)'
  BY <1>1, <1>2, <1>8, ActorNames, OthersSame
<1>10. \A r \in Readers : pc'[r] = pc[r] /\ call'[r] = call[r]
  BY <1>7, <1>8, Names, ActorNames
<1>11. ReaderInv(R, lo)'
  BY <1>1, <1>2, <1>10 DEF ChainInv, ReaderInv
<1>12. call'[note] = "done" /\ \A m \in Notifiers : m # n => pc'[m] = pc[m] /\ call'[m] = call[m]
  BY <1>3, <1>7, <1>8, Names, ActorNames
<1>13. ASSUME NEW m \in Notifiers PROVE NotifierInv(R, lo, m)'
  <2>1. \A k \in Notifiers : k # n => ~Busy(k)'
    BY <1>3, <1>12 DEF Busy
  <2>2. CASE m = n
    BY <2>1, <2>2, <1>2, <1>3, <1>8, <1>12 DEF NotifierInv
  <2>3. CASE m # n
    <3>1. ~Busy(m)' BY <2>1, <2>3
    <3>2. pc'[m] # "acquire" /\ call'[m] = "done" BY <3>1 DEF Busy
    <3>3. QED BY <3>1, <3>2 DEF NotifierInv
  <2>4. QED BY <2>2, <2>3
<1>14. NoteInv(R, lo)'
  BY <1>1, <1>2, <1>12 DEF ChainInv, NoteInv
<1>15. QED BY <1>7, <1>9, <1>11, <1>13, <1>14 DEF Ranked, ChainInv

(* A notifier that is neither about to schedule nor scheduling moves on.   *)
LEMMA NotifierMoves ==
  ASSUME TypeOK, Ranked, NEW n \in Notifiers, NEW l \in {"holds", "gone"}, Goto(n, l), call[n] = "done",
         UNCHANGED <<noteStatus, last, status, countdown, call, prev, run>>
  PROVE  Ranked'
<1>1. PICK R \in [Slots -> Int], lo \in Int : ChainInv(R, lo)
  BY DEF Ranked
<1>2. pc'[n] = l /\ \A u \in Actors : u # n => pc'[u] = pc[u]
  BY GotoMoves, ActorNames
<1>3. SlotFirst(R, lo)' /\ ReaderInv(R, lo)' /\ NoteInv(R, lo)'
  BY <1>1, <1>2, ActorNames, OthersSame
<1>4. ASSUME NEW m \in Notifiers PROVE NotifierInv(R, lo, m)'
  <2>1. \A k \in Notifiers : Busy(k)' => Busy(k) /\ k # n BY <1>2, ActorNames DEF Busy
  <2>2. m # n => pc'[m] = pc[m] BY <1>2, ActorNames
  <2>3. CASE m = n
    <3>1. ~Busy(m)' /\ pc'[m] # "acquire" BY <2>1, <2>3, <1>2
    <3>2. QED BY <3>1, <2>3 DEF NotifierInv
  <2>4. CASE m # n
    BY <2>1, <2>2, <2>4, <1>1 DEF ChainInv, NotifierInv
  <2>5. QED BY <2>3, <2>4
<1>5. QED BY <1>1, <1>3, <1>4, ChainSame DEF Ranked, ChainInv

(* A notification asked for during the run is scheduled by its own         *)
(* behaviour, after the reset.                                             *)
LEMMA NotifiedMeanwhileKeeps ==
  ASSUME TypeOK, Ranked, NotifiedMeanwhile
  PROVE  Ranked'
<1>1. PICK R \in [Slots -> Int], lo \in Int : ChainInv(R, lo)
  BY DEF Ranked
<1>2. /\ noteStatus # "running" /\ run[note] = "finish" /\ run' = [run EXCEPT ![note] = "idle"]
      /\ call' = [call EXCEPT ![note] = "exchange"]
      /\ UNCHANGED <<noteStatus, pc, last, status, countdown, prev>>
  BY DEF NotifiedMeanwhile, Runs, NoteSame
<1>3. R[note] < lo /\ NoCall(note) /\ note \in Slots /\ note \in Callers /\ Beh(note) = note
  BY <1>1, <1>2, AfterRun, Names
<1>4. status[note] = "wait" /\ countdown[note] = 2
  BY <1>1, <1>2, <1>3 DEF ChainInv, NoteInv
<1>5. noteStatus = "requested"
  BY <1>1, <1>2 DEF ChainInv, NoteInv, TypeOK, NotePCs
<1>6. run'[note] = "idle" /\ \A s \in Slots : s # note => run'[s] = run[s]
  BY <1>2, <1>3 DEF TypeOK, ChainTypeOK
<1>7. /\ Order(R, lo)' /\ Links(R, lo)' /\ Calls(R, lo)' /\ Waiting(R, lo)' /\ Running(R, lo)'
      /\ \A c \in Callers : c # note => call'[c] = call[c]
      /\ call'[note] = "exchange"
  <2>1. NoCall(Beh(note)) /\ R[Beh(note)] < lo /\ status[Beh(note)] = "wait" /\ countdown[Beh(note)] = 2
        /\ run'[Beh(note)] = "idle" /\ \A s \in Slots : s # Beh(note) => run'[s] = run[s]
    BY <1>3, <1>4, <1>6
  <2>2. call' = [call EXCEPT ![note] = "exchange"] /\ UNCHANGED <<last, status, countdown, prev>>
    BY <1>2
  <2>3. QED BY <1>1, <1>3, <2>1, <2>2, CallStarts
<1>8. SlotFirst(R, lo)'
  BY <1>1, <1>2, <1>6, Names DEF ChainInv, SlotFirst
<1>9. ReaderInv(R, lo)'
  BY <1>1, <1>2, <1>6, <1>7, Names DEF ChainInv, ReaderInv
<1>10. ASSUME NEW n \in Notifiers PROVE NotifierInv(R, lo, n)'
  <2>1. \A k \in Notifiers : ~Busy(k) /\ call'[k] = call[k]
    BY <1>1, <1>2, <1>7, Names, ActorNames DEF ChainInv, NotifierInv
  <2>2. \A k \in Notifiers : ~Busy(k)' BY <2>1, <1>2 DEF Busy
  <2>3. pc'[n] # "acquire" /\ call'[n] = "done" BY <2>2 DEF Busy
  <2>4. QED BY <2>2, <2>3 DEF NotifierInv
<1>11. NoteInv(R, lo)'
  BY <1>2, <1>4, <1>5, <1>6 DEF NoteInv
<1>12. QED BY <1>7, <1>8, <1>9, <1>10, <1>11 DEF Ranked, ChainInv

-----------------------------------------------------------------------------
(* Types are kept.                                                         *)
LEMMA ScheduleType ==
  ASSUME ChainTypeOK, NEW a \in Callers, NEW b \in Slots, Schedule(a, b)
  PROVE  ChainTypeOK'
<1> USE DEF ChainTypeOK
<1>1. CASE Exchange(a, b)
  BY <1>1 DEF Exchange, Enqueuing
<1>2. CASE AcquireCown(a)
  BY <1>2 DEF AcquireCown, Enqueuing
<1>3. CASE Link(a, b)
  BY <1>3 DEF Link, Enqueuing
<1>4. CASE SetReady(a, b)
  BY <1>4 DEF SetReady, Enqueuing, Marks
<1>5. CASE ResolveCall(a, b)
  BY <1>5 DEF ResolveCall, Resolve, Enqueuing, RunPCs
<1>6. QED BY <1>1, <1>2, <1>3, <1>4, <1>5 DEF Schedule

(* A thread moves to a place of its kind.                                  *)
LEMMA PcType ==
  ASSUME TypeOK, NEW t \in Actors, NEW l, Goto(t, l),
         t = "writer" => l \in WriterPCs, t \in Notifiers => l \in NotifierPCs, t \in Readers => l \in ReaderPCs
  PROVE  /\ pc' \in [Actors -> WriterPCs \cup NotifierPCs \cup ReaderPCs]
         /\ pc'["writer"] \in WriterPCs
         /\ \A n \in Notifiers : pc'[n] \in NotifierPCs
         /\ \A r \in Readers : pc'[r] \in ReaderPCs
<1>1. l \in WriterPCs \cup NotifierPCs \cup ReaderPCs
  BY DEF Actors
<1>2. pc' \in [Actors -> WriterPCs \cup NotifierPCs \cup ReaderPCs]
  BY <1>1 DEF TypeOK, Goto
<1>3. pc'[t] = l /\ \A u \in Actors : u # t => pc'[u] = pc[u]
  BY GotoMoves
<1>4. QED BY <1>2, <1>3, ActorNames DEF TypeOK

(* Every step keeps the types.                                             *)
LEMMA TypeStep ==
  ASSUME TypeOK, [Next]_vars
  PROVE  TypeOK'
<1>1. CASE Writer
  <2> USE DEF TypeOK, ChainTypeOK, NoteSame
  <2>1. CASE Fulfill
    BY <2>1, PcType, ActorNames DEF Fulfill, chainVars, WriterPCs
  <2>2. CASE FulfillAcquire
    BY <2>2, PcType, ActorNames DEF FulfillAcquire, WriterPCs
  <2>3. CASE DropWriter
    BY <2>3, PcType, ActorNames DEF DropWriter, chainVars, WriterPCs
  <2>4. CASE ReleaseSlotLast
    BY <2>4, PcType, ActorNames DEF ReleaseSlotLast, ReleaseLast, WriterPCs
  <2>5. CASE ReleaseSlotChain
    BY <2>5, PcType, ActorNames DEF ReleaseSlotChain, AfterSlot, WriterPCs
  <2>6. CASE ReleaseSlotNext
    <3>1. status[slot] \in Slots BY <2>6, Names DEF ReleaseSlotNext, ReleaseNext, Marks
    <3>2. countdown' \in [Slots -> Int] /\ run' \in [Slots -> RunPCs]
      BY <2>6, <3>1 DEF ReleaseSlotNext, ReleaseNext, Resolve, RunPCs
    <3>3. QED BY <2>6, <3>2, PcType, ActorNames DEF ReleaseSlotNext, AfterSlot, WriterPCs
  <2>7. CASE DropFulfilled
    BY <2>7, PcType, ActorNames DEF DropFulfilled, WriterPCs
  <2>8. QED BY <1>1, <2>1, <2>2, <2>3, <2>4, <2>5, <2>6, <2>7 DEF Writer
<1>2. ASSUME NEW r \in Readers, Reader(r) PROVE TypeOK'
  <2>1. r \in Callers /\ r \in Slots /\ Beh(r) = r BY Names
  <2>2. CASE Then(r)
    BY <2>1, <2>2, PcType, ActorNames DEF Then, TypeOK, ChainTypeOK, NoteSame, Enqueuing, ReaderPCs
  <2>3. CASE ThenSchedule(r)
    BY <2>1, <2>3, ScheduleType DEF ThenSchedule, TypeOK, NoteSame
  <2>4. CASE DropReader(r)
    BY <2>4, PcType, ActorNames DEF DropReader, TypeOK, ChainTypeOK, NoteSame, ReaderPCs
  <2>5. QED BY <1>2, <2>2, <2>3, <2>4 DEF Reader
<1>3. ASSUME NEW b \in Behaviours, Behaviour(b) PROVE TypeOK'
  <2>1. b \in Slots BY SignalsAssumption DEF Behaviours
  <2> USE DEF TypeOK, ChainTypeOK, NoteSame, RunPCs
  <2>2. CASE Body(b)
    BY <2>1, <2>2 DEF Body, Runs
  <2>3. CASE BodyReleaseLast(b)
    BY <2>1, <2>3 DEF BodyReleaseLast, ReleaseLast, Runs
  <2>4. CASE BodyReleaseChain(b)
    BY <2>1, <2>4 DEF BodyReleaseChain, AfterRelease, Runs
  <2>5. CASE BodyReleaseNext(b)
    <3>1. status[b] \in Slots BY <2>1, <2>5 DEF BodyReleaseNext, Marks
    <3>2. countdown' \in [Slots -> Int] BY <2>5, <3>1 DEF BodyReleaseNext
    <3>3. run' \in [Slots -> RunPCs] BY <2>1, <2>5, <3>1 DEF BodyReleaseNext, AfterRelease
    <3>4. QED BY <2>5, <3>2, <3>3 DEF BodyReleaseNext
  <2>6. QED BY <1>3, <2>2, <2>3, <2>4, <2>5 DEF Behaviour
<1>4. ASSUME NEW n \in Notifiers, Notifier(n) PROVE TypeOK'
  <2>1. n \in Callers /\ note \in Slots BY Names
  <2>2. CASE Notify(n)
    BY <2>2, PcType, ActorNames DEF Notify, TypeOK, ChainTypeOK, chainVars, NotifierPCs, NotePCs
  <2>3. CASE NotifyAcquire(n)
    BY <2>1, <2>3, PcType, ActorNames DEF NotifyAcquire, TypeOK, ChainTypeOK, Enqueuing, NotifierPCs
  <2>4. CASE NotifySchedule(n)
    <3>1. CASE Goto(n, "holds") /\ UNCHANGED chainVars
      BY <2>4, <3>1, PcType, ActorNames DEF NotifySchedule, NoteSame, TypeOK, ChainTypeOK, chainVars, NotifierPCs
    <3>2. CASE Schedule(n, note) /\ UNCHANGED pc
      BY <2>1, <2>4, <3>2, ScheduleType DEF NotifySchedule, NoteSame, TypeOK
    <3>3. QED BY <2>4, <3>1, <3>2 DEF NotifySchedule
  <2>5. CASE DropNotifier(n)
    BY <2>5, PcType, ActorNames DEF DropNotifier, TypeOK, ChainTypeOK, NotifierPCs
  <2>6. QED BY <1>4, <2>2, <2>3, <2>4, <2>5 DEF Notifier
<1>5. CASE Notification
  <2>1. note \in Slots /\ note \in Callers BY Names
  <2> USE DEF TypeOK, ChainTypeOK, NoteSame, RunPCs, NotePCs, Runs
  <2>2. CASE SetRunning
    BY <2>1, <2>2 DEF SetRunning
  <2>3. CASE NoteReset
    BY <2>1, <2>3 DEF NoteReset, Reset, Marks
  <2>4. CASE FinishedRunning
    BY <2>1, <2>4 DEF FinishedRunning
  <2>5. CASE NotifiedMeanwhile
    BY <2>1, <2>5 DEF NotifiedMeanwhile, Enqueuing
  <2>6. CASE Reschedule
    BY <2>1, <2>6, ScheduleType DEF Reschedule
  <2>7. QED BY <1>5, <2>2, <2>3, <2>4, <2>5, <2>6 DEF Notification
<1>6. CASE Finished \/ UNCHANGED vars
  <2>1. UNCHANGED vars BY <1>6, Names DEF Finished
  <2>2. QED BY <2>1 DEF vars, chainVars, TypeOK, ChainTypeOK
<1>7. QED BY <1>1, <1>2, <1>3, <1>4, <1>5, <1>6 DEF Next, Behaviours

-----------------------------------------------------------------------------
(* The chain is in order at all times.                                     *)
LEMMA RankedInit == Init => TypeOK /\ Ranked
<1> SUFFICES ASSUME Init PROVE TypeOK /\ Ranked
  OBVIOUS
<1>2. PICK R \in [Slots -> Int] : R = [s \in Slots |-> IF s = slot THEN 1 ELSE 0]
  <2>1. [s \in Slots |-> IF s = slot THEN 1 ELSE 0] \in [Slots -> Int] OBVIOUS
  <2>2. QED BY <2>1
<1>1. TypeOK
  <2>1. ChainTypeOK
    BY Names DEF Init, ChainTypeOK, Marks, Enqueuing, RunPCs
  <2>2. pc = [t \in Actors |-> "holds"] BY DEF Init, Actors
  <2>3. /\ pc \in [Actors -> WriterPCs \cup NotifierPCs \cup ReaderPCs]
        /\ pc["writer"] \in WriterPCs
        /\ \A n \in Notifiers : pc[n] \in NotifierPCs
        /\ \A r \in Readers : pc[r] \in ReaderPCs
    BY <2>2, ActorNames DEF WriterPCs, NotifierPCs, ReaderPCs
  <2>4. QED BY <2>1, <2>3 DEF Init, TypeOK, NotePCs
<1> USE DEF Init
<1>3. R[slot] = 1 /\ \A s \in Slots : s # slot => R[s] = 0
  BY <1>2, Names
<1>4. Order(R, 1)
  <2>1. last = slot /\ slot # NoSlot /\ slot \in Slots BY Names
  <2>2. \A s \in Slots : 1 <= R[s] => s = slot BY <1>3
  <2>3. \A s \in Slots : R[s] <= R[slot] BY <1>3
  <2>4. QED BY <1>2, <1>3, <2>1, <2>2, <2>3 DEF Order
<1>5. \A s \in Slots : 1 <= R[s] => s = slot
  BY <1>3
<1>6. Links(R, 1)
  BY <1>5, Names DEF Links, Marks
<1>7. Calls(R, 1)
  BY DEF Calls, CallOf, Inside
<1>8. Waiting(R, 1)
  BY <1>3, <1>5, Names DEF Waiting
<1>9. Running(R, 1)
  BY DEF Running
<1>10. SlotFirst(R, 1)
  BY <1>3, Names DEF SlotFirst
<1>11. ReaderInv(R, 1)
  <2>1. \A r \in Readers : R[r] < 1 BY <1>3, Names
  <2>2. QED BY <2>1, Names, ActorNames DEF ReaderInv
<1>12. \A n \in Notifiers : NotifierInv(R, 1, n)
  BY Names, ActorNames DEF NotifierInv, Busy
<1>13. NoteInv(R, 1)
  <2>1. R[note] < 1 BY <1>3, Names
  <2>2. QED BY <2>1, Names DEF NoteInv
<1>14. ChainInv(R, 1)
  BY <1>4, <1>6, <1>7, <1>8, <1>9, <1>10, <1>11, <1>12, <1>13 DEF ChainInv
<1>15. QED BY <1>1, <1>14 DEF Ranked

(* Every step keeps the chain: each action by its lemma.                   *)
LEMMA RankedStep ==
  ASSUME TypeOK, Ranked, [Next]_vars
  PROVE  Ranked'
<1>1. CASE Writer
  <2>1. CASE Fulfill
    BY <2>1, WriterMoves DEF Fulfill, NoteSame, chainVars, WriterPCs
  <2>2. CASE FulfillAcquire
    BY <2>2, WriterMoves DEF FulfillAcquire, NoteSame, WriterPCs
  <2>3. CASE DropWriter
    BY <2>3, WriterMoves DEF DropWriter, NoteSame, chainVars, WriterPCs
  <2>4. CASE ReleaseSlotLast
    BY <2>4, ReleaseSlotLastKeeps
  <2>5. CASE ReleaseSlotChain
    BY <2>5, WriterMoves DEF ReleaseSlotChain, AfterSlot, NoteSame, WriterPCs
  <2>6. CASE ReleaseSlotNext
    BY <2>6, ReleaseSlotNextKeeps
  <2>7. CASE DropFulfilled
    BY <2>7, WriterMoves DEF DropFulfilled, NoteSame, WriterPCs
  <2>8. QED BY <1>1, <2>1, <2>2, <2>3, <2>4, <2>5, <2>6, <2>7 DEF Writer
<1>2. ASSUME NEW r \in Readers, Reader(r) PROVE Ranked'
  <2>1. r \in Callers /\ Beh(r) = r BY Names
  <2>2. CASE Then(r)
    BY <2>2, ThenKeeps
  <2>3. CASE ThenSchedule(r)
    BY <2>1, <2>3, ScheduleKeeps DEF ThenSchedule, NoteSame
  <2>4. CASE DropReader(r)
    BY <2>4, DropReaderKeeps
  <2>5. QED BY <1>2, <2>2, <2>3, <2>4 DEF Reader
<1>3. ASSUME NEW b \in Behaviours, Behaviour(b) PROVE Ranked'
  BY <1>3, BehaviourKeeps
<1>4. ASSUME NEW n \in Notifiers, Notifier(n) PROVE Ranked'
  <2>1. n \in Callers /\ Beh(n) = note BY Names
  <2>2. CASE Notify(n)
    BY <2>2, NotifyKeeps
  <2>3. CASE NotifyAcquire(n)
    BY <2>3, NotifyAcquireKeeps
  <2>4. CASE NotifySchedule(n)
    <3>1. CASE call[n] = "done" /\ Goto(n, "holds") /\ UNCHANGED chainVars
      BY <2>4, <3>1, NotifierMoves DEF NotifySchedule, NoteSame, chainVars
    <3>2. CASE Schedule(n, note) /\ UNCHANGED pc
      BY <2>1, <2>4, <3>2, ScheduleKeeps DEF NotifySchedule, NoteSame
    <3>3. QED BY <2>4, <3>1, <3>2 DEF NotifySchedule
  <2>5. CASE DropNotifier(n)
    <3>1. call[n] = "done" BY <2>5 DEF DropNotifier, Ranked, ChainInv, NotifierInv
    <3>2. QED BY <2>5, <3>1, NotifierMoves DEF DropNotifier
  <2>6. QED BY <1>4, <2>2, <2>3, <2>4, <2>5 DEF Notifier
<1>5. CASE Notification
  <2>1. note \in Behaviours /\ note \in Callers /\ Beh(note) = note BY Names DEF Behaviours
  <2>2. CASE SetRunning
    BY <2>1, <2>2, BodyKeeps DEF SetRunning, Runs
  <2>3. CASE NoteReset
    <3>1. /\ run[note] = "reset" /\ run' = [run EXCEPT ![note] = "finish"]
          /\ status' = [status EXCEPT ![note] = "wait"] /\ countdown' = [countdown EXCEPT ![note] = 2]
          /\ UNCHANGED <<noteStatus, pc, last, call, prev>>
      BY <2>3 DEF NoteReset, Runs, Reset, NoteSame
    <3>2. /\ \A s \in Slots : s # note => status'[s] = status[s] /\ countdown'[s] = countdown[s]
          /\ status'[note] = "wait" /\ countdown'[note] = 2
      BY <3>1, Names DEF TypeOK, ChainTypeOK
    <3>3. QED BY <2>1, <3>1, <3>2, AfterRunKeeps
  <2>4. CASE FinishedRunning
    <3>1. /\ run[note] = "finish" /\ run' = [run EXCEPT ![note] = "idle"] /\ noteStatus' = "waiting"
          /\ UNCHANGED <<pc, last, status, countdown, call, prev>>
      BY <2>4 DEF FinishedRunning, Runs
    <3>2. status[note] = "wait" /\ countdown[note] = 2
      BY <3>1 DEF Ranked, ChainInv, NoteInv
    <3>3. QED BY <2>1, <3>1, <3>2, AfterRunKeeps
  <2>5. CASE NotifiedMeanwhile
    BY <2>5, NotifiedMeanwhileKeeps
  <2>6. CASE Reschedule
    BY <2>1, <2>6, ScheduleKeeps DEF Reschedule, NoteSame
  <2>7. QED BY <1>5, <2>2, <2>3, <2>4, <2>5, <2>6 DEF Notification
<1>6. CASE Finished \/ UNCHANGED vars
  <2>1. UNCHANGED vars BY <1>6, Names DEF Finished
  <2>2. PICK R \in [Slots -> Int], lo \in Int : ChainInv(R, lo)
    BY DEF Ranked
  <2>3. UNCHANGED <<last, status, countdown, call, prev, run, pc, noteStatus>>
    BY <2>1 DEF vars, chainVars
  <2>4. SlotFirst(R, lo)' /\ ReaderInv(R, lo)' /\ (\A n \in Notifiers : NotifierInv(R, lo, n)') /\ NoteInv(R, lo)'
    BY <2>2, <2>3, OthersSame
  <2>5. QED BY <2>2, <2>3, <2>4, ChainSame DEF Ranked, ChainInv
<1>7. QED BY <1>1, <1>2, <1>3, <1>4, <1>5, <1>6 DEF Next, Behaviours

(* In every reachable state the slots from some rank on are one chain,     *)
(* linked in order, and only its head runs (Slot::release,                 *)
(* BehaviourCore::schedule).                                               *)
THEOREM RankedInvariance == Spec => [](TypeOK /\ Ranked)
<1>1. TypeOK /\ Ranked /\ [Next]_vars => (TypeOK /\ Ranked)'
  BY TypeStep, RankedStep
<1>2. QED BY <1>1, RankedInit, PTL DEF Spec

(* A set whose members are equal has at most one.                          *)
LEMMA AtMostOne ==
  ASSUME NEW S, \A x, y \in S : x = y
  PROVE  Cardinality(S) \in Nat /\ Cardinality(S) <= 1
<1>1. CASE S = {}
  BY <1>1, FS_EmptySet
<1>2. CASE S # {}
  <2>1. PICK x : S = {x} BY <1>2
  <2>2. QED BY <2>1, FS_Singleton
<1>3. QED BY <1>1, <1>2

(* The behaviours on the promise's cown run one at a time, and none before *)
(* the promise has its outcome: only the head of the chain runs, and until *)
(* the write end releases it the head is the promise's own slot.           *)
THEOREM OutcomeFirstHolds == Spec => []OutcomeFirst
<1>1. ASSUME Ranked PROVE OutcomeFirst
  <2>1. PICK R \in [Slots -> Int], lo \in Int : ChainInv(R, lo)
    BY <1>1 DEF Ranked
  <2> DEFINE running == {b \in Slots : run[b] \in {"body", "release"}}
  <2>2. \A b \in running : R[b] = lo
    BY <2>1 DEF ChainInv, Running
  <2>3. \A b, c \in running : b = c
    BY <2>1, <2>2 DEF ChainInv, Order
  <2>4. ASSUME NEW b \in running PROVE pc["writer"] \notin {"holds", "acquire"}
    <3>1. b # slot BY <2>1 DEF ChainInv, SlotFirst
    <3>2. R[slot] # lo BY <2>1, <2>2, <3>1, Names DEF ChainInv, Order
    <3>3. QED BY <2>1, <3>2 DEF ChainInv, SlotFirst
  <2>5. Cardinality(running) <= 1 BY <2>3, AtMostOne
  <2>6. running # {} => pc["writer"] \notin {"holds", "acquire"} BY <2>4
  <2>7. QED BY <2>5, <2>6 DEF OutcomeFirst
<1>2. QED BY <1>1, RankedInvariance, PTL

(* The notification's slot is enqueued by one caller at a time, when it is *)
(* out of the chain and reset, and while a run is requested.               *)
THEOREM ScheduledOnceHolds == Spec => []ScheduledOnce
<1>1. ASSUME TypeOK, Ranked PROVE ScheduledOnce
  <2>1. PICK R \in [Slots -> Int], lo \in Int : ChainInv(R, lo)
    BY <1>1 DEF Ranked
  <2>2. \A a \in NoteCalls : a \in Callers /\ Beh(a) = note /\ call[a] # "done"
    BY Names DEF NoteCalls
  <2>3. Cardinality(NoteCalls) <= 1
    <3>1. \A a, c \in NoteCalls : a = c BY <2>1, <2>2, OneCaller
    <3>2. QED BY <3>1, AtMostOne
  <2>4. ASSUME NEW a \in NoteCalls, call[a] = "exchange"
        PROVE  status[note] = "wait" /\ run[note] = "idle" /\ last # note
    <3>1. R[note] < lo /\ status[note] = "wait" /\ run[note] = "idle"
      BY <2>1, <2>2, <2>4 DEF ChainInv, Calls, CallOf, Before
    <3>2. ~(lo <= R[note]) BY <3>1, Names
    <3>3. last # note BY <2>1, <3>2, Names DEF ChainInv, Order
    <3>4. QED BY <3>1, <3>3
  <2>5. NoteCalls # {} => noteStatus = "requested"
    BY <2>1, <2>2, NoteBeingScheduled
  <2>6. run[note] = "body" => noteStatus = "requested"
    BY <1>1, <2>1 DEF ChainInv, NoteInv, TypeOK, NotePCs
  <2>7. QED BY <2>3, <2>4, <2>5, <2>6 DEF ScheduledOnce
<1>2. QED BY <1>1, RankedInvariance, PTL

-----------------------------------------------------------------------------
(* The counts.  The strong count of the promise's cown is the number of    *)
(* its holders: the write end, the chain, the notification's slot, the     *)
(* read ends, and releases of the chain that still have to drop it.        *)
One(p) == IF p THEN 1 ELSE 0
NoteHolders == {n \in Notifiers : pc[n] # "gone"}
NobodyAcquires == \A n \in Notifiers : pc[n] # "acquire"
NoteClaim == One(noteStatus # "waiting" /\ NobodyAcquires)
WriterHolds ==
  CASE pc["writer"] \in {"holds", "acquire", "drop"} -> 1
    [] pc["writer"] = "releaseSlot" -> One(fulfilled)
    [] pc["writer"] = "releaseChain" -> 1 + One(fulfilled)
    [] OTHER -> 0
ChainAcquired ==
  /\ last # NoSlot /\ pc["writer"] \notin {"holds", "acquire"}
  /\ \A a \in Callers : call[a] # "acquire"
ReaderEnds == {r \in Readers : pc[r] # "gone"}
Releasing == {b \in Slots : run[b] = "releaseChain"}

NoteCounted == noteCount = Cardinality(NoteHolders) + NoteClaim
CownCounted ==
  count = WriterHolds + One(noteCount > 0) + One(ChainAcquired)
            + Cardinality(ReaderEnds) + Cardinality(Releasing)
CountInv ==
  /\ NoteCounted /\ CownCounted
  /\ pc["writer"] = "acquire" => fulfilled = TRUE
  /\ pc["writer"] = "holds" => fulfilled = FALSE

(* Holders are finitely many.                                              *)
LEMMA HoldersFinite ==
  /\ IsFiniteSet(NoteHolders) /\ IsFiniteSet(ReaderEnds) /\ IsFiniteSet(Releasing)
  /\ Cardinality(NoteHolders) \in Nat /\ Cardinality(ReaderEnds) \in Nat /\ Cardinality(Releasing) \in Nat
<1>1. IsFiniteSet(Callers \cup {slot})
  BY SignalsAssumption, FS_AddElement
<1>2. NoteHolders \subseteq Callers \cup {slot}
  BY SignalsAssumption DEF NoteHolders
<1>3. ReaderEnds \subseteq Callers \cup {slot}
  BY SignalsAssumption DEF ReaderEnds
<1>4. Releasing \subseteq Callers \cup {slot}
  BY SignalsAssumption DEF Releasing
<1>5. IsFiniteSet(NoteHolders) /\ IsFiniteSet(ReaderEnds) /\ IsFiniteSet(Releasing)
  BY <1>1, <1>2, <1>3, <1>4, FS_Subset
<1>6. QED BY <1>5, FS_CardinalityType

(* The write end holds a number of counts.                                 *)
LEMMA WriterHoldsNat == WriterHolds \in Nat
BY DEF WriterHolds, One

(* One counts a condition.                                                 *)
LEMMA OneNat == ASSUME NEW p PROVE One(p) \in Nat /\ (p => One(p) = 1) /\ (~p => One(p) = 0)
BY DEF One

(* A set that has a member, or gains or loses one.                         *)
LEMMA HasMember ==
  ASSUME NEW S, IsFiniteSet(S), NEW x \in S
  PROVE  Cardinality(S) >= 1
<1>1. Cardinality(S) \in Nat /\ Cardinality(S) # 0
  BY FS_CardinalityType, FS_EmptySet
<1>2. QED BY <1>1

(* Its cardinality when it loses one.                                      *)
LEMMA LosesMember ==
  ASSUME NEW S, IsFiniteSet(S), NEW x \in S, NEW T, T = S \ {x}
  PROVE  Cardinality(T) = Cardinality(S) - 1
BY FS_RemoveElement

(* Its cardinality when it gains one.                                      *)
LEMMA GainsMember ==
  ASSUME NEW S, IsFiniteSet(S), NEW x, x \notin S, NEW T, T = S \cup {x}
  PROVE  Cardinality(T) = Cardinality(S) + 1
BY FS_AddElement

(* What leaves each term of the counts as it is.                           *)
LEMMA TermsSame ==
  /\ pc'["writer"] = pc["writer"] /\ UNCHANGED fulfilled => WriterHolds' = WriterHolds
  /\ UNCHANGED noteCount => One(noteCount > 0)' = One(noteCount > 0)
  /\ UNCHANGED last /\ pc'["writer"] = pc["writer"]
       /\ (\A a \in Callers : call'[a] = "acquire" <=> call[a] = "acquire")
       => One(ChainAcquired)' = One(ChainAcquired)
  /\ (\A r \in Readers : pc'[r] = pc[r]) => Cardinality(ReaderEnds)' = Cardinality(ReaderEnds)
  /\ (\A b \in Slots : run'[b] = "releaseChain" <=> run[b] = "releaseChain")
       => Cardinality(Releasing)' = Cardinality(Releasing)
  /\ UNCHANGED <<noteStatus, noteCount>> /\ (\A n \in Notifiers : pc'[n] = pc[n]) /\ NoteCounted
       => NoteCounted'
<1>1. pc'["writer"] = pc["writer"] /\ UNCHANGED fulfilled => WriterHolds' = WriterHolds
  BY DEF WriterHolds, One
<1>2. UNCHANGED noteCount => One(noteCount > 0)' = One(noteCount > 0)
  BY DEF One
<1>3. ASSUME UNCHANGED last, pc'["writer"] = pc["writer"],
             \A a \in Callers : call'[a] = "acquire" <=> call[a] = "acquire"
      PROVE  One(ChainAcquired)' = One(ChainAcquired)
  <2>1. ChainAcquired' <=> ChainAcquired BY <1>3 DEF ChainAcquired
  <2>2. QED BY <2>1 DEF One
<1>4. ASSUME \A r \in Readers : pc'[r] = pc[r] PROVE Cardinality(ReaderEnds)' = Cardinality(ReaderEnds)
  <2>1. ReaderEnds' = ReaderEnds BY <1>4 DEF ReaderEnds
  <2>2. QED BY <2>1
<1>5. ASSUME \A b \in Slots : run'[b] = "releaseChain" <=> run[b] = "releaseChain"
      PROVE  Cardinality(Releasing)' = Cardinality(Releasing)
  <2>1. Releasing' = Releasing BY <1>5 DEF Releasing
  <2>2. QED BY <2>1
<1>6. ASSUME UNCHANGED <<noteStatus, noteCount>>, \A n \in Notifiers : pc'[n] = pc[n], NoteCounted
      PROVE  NoteCounted'
  <2>1. NoteHolders' = NoteHolders BY <1>6 DEF NoteHolders
  <2>2. NobodyAcquires' <=> NobodyAcquires BY <1>6 DEF NobodyAcquires
  <2>3. NoteClaim' = NoteClaim BY <1>6, <2>2 DEF NoteClaim, One
  <2>4. QED BY <1>6, <2>1, <2>3 DEF NoteCounted
<1>7. QED BY <1>1, <1>2, <1>3, <1>4, <1>5, <1>6

(* While the promise's slot is the head, or a behaviour runs, no caller is *)
(* about to take the chain's count.                                        *)
LEMMA HeadIsCounted ==
  ASSUME NEW R \in [Slots -> Int], NEW lo \in Int, ChainInv(R, lo), NEW s \in Slots, R[s] = lo, NoCall(s)
  PROVE  /\ last # NoSlot /\ \A a \in Callers : call[a] # "acquire"
         /\ s # slot => pc["writer"] \notin {"holds", "acquire"}
<1>1. last # NoSlot
  <2>1. ~(R[s] < lo) OBVIOUS
  <2>2. QED BY <2>1 DEF ChainInv, Order
<1>2. ASSUME NEW a \in Callers, call[a] = "acquire" PROVE FALSE
  <2>1. R[Beh(a)] = lo BY <1>2 DEF ChainInv, Calls, CallOf, Inside
  <2>2. Beh(a) = s BY <2>1, Names DEF ChainInv, Order
  <2>3. QED BY <1>2, <2>2 DEF NoCall
<1>3. s # slot => R[slot] # lo
  BY Names DEF ChainInv, Order
<1>4. s # slot => pc["writer"] \notin {"holds", "acquire"}
  BY <1>3 DEF ChainInv, SlotFirst
<1>5. QED BY <1>1, <1>2, <1>4

(* Until the write end has released its slot the chain is not empty, and   *)
(* nobody is about to take the chain's count.                              *)
LEMMA SlotIsCounted ==
  ASSUME Ranked, pc["writer"] \in {"holds", "acquire", "releaseSlot"}
  PROVE  last # NoSlot /\ \A a \in Callers : call[a] # "acquire"
<1>1. PICK R \in [Slots -> Int], lo \in Int : ChainInv(R, lo)
  BY DEF Ranked
<1>2. R[slot] = lo
  BY <1>1 DEF ChainInv, SlotFirst
<1>3. NoCall(slot) /\ slot \in Slots
  BY Names DEF NoCall
<1>4. QED BY <1>1, <1>2, <1>3, HeadIsCounted

(* The write end's steps keep the counts: fulfil takes the chain's count   *)
(* first, a dropped end hands over its own.                                *)
LEMMA WriterCounts ==
  ASSUME TypeOK, Ranked, CountInv, Writer
  PROVE  CountInv'
<1> USE DEF CountInv
<1>1. ASSUME NEW l, Goto("writer", l)
      PROVE  /\ pc'["writer"] = l /\ (\A r \in Readers : pc'[r] = pc[r])
             /\ \A n \in Notifiers : pc'[n] = pc[n]
  BY <1>1, GotoMoves, ActorNames
<1>2. CASE Fulfill
  <2>1. pc["writer"] = "holds" /\ fulfilled' = TRUE /\ pc'["writer"] = "acquire"
        /\ UNCHANGED <<noteStatus, noteCount, last, call, run, count>>
        /\ (\A r \in Readers : pc'[r] = pc[r]) /\ \A n \in Notifiers : pc'[n] = pc[n]
    BY <1>2, <1>1 DEF Fulfill, NoteSame, chainVars
  <2>2. WriterHolds = 1 /\ WriterHolds' = 1
    BY <2>1 DEF WriterHolds, One
  <2>3. One(ChainAcquired)' = One(ChainAcquired)
    BY <2>1 DEF One, ChainAcquired
  <2>4. CownCounted'
    BY <2>1, <2>2, <2>3, TermsSame, HoldersFinite, OneNat DEF CownCounted
  <2>5. QED BY <2>1, <2>4, TermsSame
<1>3. CASE FulfillAcquire
  <2>1. pc["writer"] = "acquire" /\ pc'["writer"] = "releaseSlot" /\ count' = count + 1
        /\ UNCHANGED <<noteStatus, noteCount, last, call, run, fulfilled>>
        /\ (\A r \in Readers : pc'[r] = pc[r]) /\ \A n \in Notifiers : pc'[n] = pc[n]
    BY <1>3, <1>1 DEF FulfillAcquire, NoteSame
  <2>2. WriterHolds = 1 /\ WriterHolds' = 1
    BY <2>1 DEF WriterHolds, One
  <2>3. One(ChainAcquired)' = 1 /\ One(ChainAcquired) = 0
    BY <2>1, SlotIsCounted DEF One, ChainAcquired
  <2>4. CownCounted'
    BY <2>1, <2>2, <2>3, TermsSame, HoldersFinite, OneNat DEF CownCounted
  <2>5. QED BY <2>1, <2>4, TermsSame
<1>4. CASE DropWriter
  <2>1. pc["writer"] = "holds" /\ pc'["writer"] = "releaseSlot"
        /\ UNCHANGED <<noteStatus, noteCount, last, call, run, fulfilled, count>>
        /\ (\A r \in Readers : pc'[r] = pc[r]) /\ \A n \in Notifiers : pc'[n] = pc[n]
    BY <1>4, <1>1 DEF DropWriter, NoteSame, chainVars
  <2>2. WriterHolds = 1 /\ WriterHolds' = 0
    BY <2>1 DEF WriterHolds, One
  <2>3. One(ChainAcquired)' = 1 /\ One(ChainAcquired) = 0
    BY <2>1, SlotIsCounted DEF One, ChainAcquired
  <2>4. CownCounted'
    BY <2>1, <2>2, <2>3, TermsSame, HoldersFinite, OneNat DEF CownCounted
  <2>5. QED BY <2>1, <2>4, TermsSame
<1>5. CASE ReleaseSlotLast
  <2>1. pc["writer"] = "releaseSlot" /\ pc'["writer"] = "releaseChain" /\ last' = NoSlot
        /\ UNCHANGED <<noteStatus, noteCount, call, run, fulfilled, count>>
        /\ (\A r \in Readers : pc'[r] = pc[r]) /\ \A n \in Notifiers : pc'[n] = pc[n]
    BY <1>5, <1>1 DEF ReleaseSlotLast, ReleaseLast, NoteSame
  <2>2. WriterHolds = One(fulfilled) /\ WriterHolds' = 1 + One(fulfilled) /\ One(fulfilled) \in Nat
    BY <2>1 DEF WriterHolds, One
  <2>3. One(ChainAcquired)' = 0 /\ One(ChainAcquired) = 1
    BY <2>1, SlotIsCounted DEF One, ChainAcquired
  <2>4. CownCounted'
    BY <2>1, <2>2, <2>3, TermsSame, HoldersFinite, OneNat DEF CownCounted
  <2>5. QED BY <2>1, <2>4, TermsSame
<1>6. CASE ReleaseSlotChain
  <2>1. pc["writer"] = "releaseChain" /\ pc'["writer"] = AfterSlot /\ count' = count - 1
        /\ UNCHANGED <<noteStatus, noteCount, last, call, run, fulfilled>>
        /\ (\A r \in Readers : pc'[r] = pc[r]) /\ \A n \in Notifiers : pc'[n] = pc[n]
    BY <1>6, <1>1 DEF ReleaseSlotChain, NoteSame
  <2>2. WriterHolds = 1 + One(fulfilled) /\ WriterHolds' = One(fulfilled) /\ One(fulfilled) \in Nat
    BY <2>1 DEF WriterHolds, One, AfterSlot
  <2>3. One(ChainAcquired)' = One(ChainAcquired)
    BY <2>1 DEF One, ChainAcquired, AfterSlot
  <2>4. CownCounted'
    BY <2>1, <2>2, <2>3, TermsSame, HoldersFinite, OneNat DEF CownCounted
  <2>5. QED BY <2>1, <2>4, TermsSame DEF AfterSlot
<1>7. CASE ReleaseSlotNext
  <2>1. pc["writer"] = "releaseSlot" /\ pc'["writer"] = AfterSlot
        /\ UNCHANGED <<noteStatus, noteCount, last, call, fulfilled, count>>
        /\ (\A r \in Readers : pc'[r] = pc[r]) /\ \A n \in Notifiers : pc'[n] = pc[n]
    BY <1>7, <1>1 DEF ReleaseSlotNext, NoteSame
  <2>2. WriterHolds = One(fulfilled) /\ WriterHolds' = One(fulfilled)
    BY <2>1 DEF WriterHolds, One, AfterSlot
  <2>3. One(ChainAcquired)' = One(ChainAcquired)
    BY <2>1 DEF One, ChainAcquired, AfterSlot
  <2>4. \A b \in Slots : run'[b] = "releaseChain" <=> run[b] = "releaseChain"
    <3>1. status[slot] \in Slots /\ run' = [run EXCEPT ![status[slot]] = IF countdown[status[slot]] = 1 THEN "body" ELSE @]
      BY <1>7, Names DEF ReleaseSlotNext, ReleaseNext, Resolve, TypeOK, ChainTypeOK, Marks
    <3>2. run[status[slot]] # "releaseChain"
      <4>1. PICK R \in [Slots -> Int], lo \in Int : ChainInv(R, lo) BY DEF Ranked
      <4>2. slot # last /\ lo <= R[slot] /\ slot \in Slots
        BY <1>7, <2>1, <4>1, Names DEF ChainInv, SlotFirst, Links, ReleaseSlotNext, ReleaseNext, Marks
      <4>3. R[status[slot]] = R[slot] + 1
        BY <3>1, <4>1, <4>2, Names DEF ChainInv, Links, LinkedTo, Marks
      <4>4. ~(R[status[slot]] < lo) BY <3>1, <4>2, <4>3
      <4>5. QED BY <3>1, <4>1, <4>4, AfterRun
    <3>3. QED BY <3>1, <3>2 DEF TypeOK, ChainTypeOK
  <2>5. CownCounted'
    BY <2>1, <2>2, <2>3, <2>4, TermsSame DEF CownCounted
  <2>6. QED BY <2>1, <2>5, TermsSame DEF AfterSlot
<1>8. CASE DropFulfilled
  <2>1. pc["writer"] = "drop" /\ pc'["writer"] = "gone" /\ count' = count - 1
        /\ UNCHANGED <<noteStatus, noteCount, last, call, run, fulfilled>>
        /\ (\A r \in Readers : pc'[r] = pc[r]) /\ \A n \in Notifiers : pc'[n] = pc[n]
    BY <1>8, <1>1 DEF DropFulfilled, NoteSame
  <2>2. WriterHolds = 1 /\ WriterHolds' = 0
    BY <2>1 DEF WriterHolds, One
  <2>3. One(ChainAcquired)' = One(ChainAcquired)
    BY <2>1 DEF One, ChainAcquired
  <2>4. CownCounted'
    BY <2>1, <2>2, <2>3, TermsSame, HoldersFinite, OneNat DEF CownCounted
  <2>5. QED BY <2>1, <2>4, TermsSame
<1>9. QED BY <1>2, <1>3, <1>4, <1>5, <1>6, <1>7, <1>8 DEF Writer

(* A call of schedule takes the chain's count if it found the chain empty. *)
LEMMA ScheduleCounts ==
  ASSUME TypeOK, Ranked, CountInv, NEW a \in Callers, Schedule(a, Beh(a)), UNCHANGED <<pc, fulfilled, noteStatus, noteCount>>
  PROVE  CountInv'
<1> USE DEF CountInv
<1>1. PICK R \in [Slots -> Int], lo \in Int : ChainInv(R, lo)
  BY DEF Ranked
<1>2. WriterHolds' = WriterHolds /\ One(noteCount > 0)' = One(noteCount > 0)
      /\ Cardinality(ReaderEnds)' = Cardinality(ReaderEnds) /\ NoteCounted'
  BY TermsSame
<1>3. WriterHolds \in Nat /\ One(noteCount > 0) \in Nat
      /\ Cardinality(ReaderEnds) \in Nat /\ Cardinality(Releasing) \in Nat
  BY HoldersFinite, OneNat, WriterHoldsNat
<1>4. SUFFICES CownCounted'
  BY <1>2
<1>5. CASE Exchange(a, Beh(a))
  <2>1. UNCHANGED <<run, count>> /\ last' = Beh(a) /\ Beh(a) # NoSlot /\ call[a] = "exchange"
        /\ call' = [call EXCEPT ![a] = IF last = NoSlot THEN "acquire" ELSE "link"]
    BY <1>5, Names DEF Exchange
  <2>2. Cardinality(Releasing)' = Cardinality(Releasing)
    BY <2>1, TermsSame
  <2>3. CASE last = NoSlot
    <3>1. ~ChainAcquired BY <2>3 DEF ChainAcquired
    <3>2. call'[a] = "acquire" BY <2>1, <2>3 DEF TypeOK, ChainTypeOK
    <3>3. ~ChainAcquired' BY <3>2 DEF ChainAcquired
    <3>4. One(ChainAcquired)' = One(ChainAcquired) BY <3>1, <3>3 DEF One
    <3>5. QED BY <1>2, <1>3, <2>1, <2>2, <3>4 DEF CownCounted
  <2>4. CASE last # NoSlot
    <3>1. \A c \in Callers : call'[c] = "acquire" <=> call[c] = "acquire"
      BY <2>1, <2>4 DEF TypeOK, ChainTypeOK
    <3>2. ChainAcquired' <=> ChainAcquired BY <2>1, <2>4, <3>1 DEF ChainAcquired
    <3>3. One(ChainAcquired)' = One(ChainAcquired) BY <3>2 DEF One
    <3>4. QED BY <1>2, <1>3, <2>1, <2>2, <3>3 DEF CownCounted
  <2>5. QED BY <2>3, <2>4
<1>6. CASE AcquireCown(a)
  <2>1. UNCHANGED <<run, last>> /\ call[a] = "acquire" /\ count' = count + 1
        /\ call' = [call EXCEPT ![a] = "setReady"]
    BY <1>6 DEF AcquireCown
  <2>2. Cardinality(Releasing)' = Cardinality(Releasing)
    BY <2>1, TermsSame
  <2>3. R[Beh(a)] = lo /\ Beh(a) \in Slots /\ Beh(a) # slot /\ slot \in Slots
    BY <1>1, <2>1, Names DEF ChainInv, Calls, CallOf, Inside
  <2>4. last # NoSlot
    <3>1. ~(R[Beh(a)] < lo) BY <2>3
    <3>2. QED BY <1>1, <2>3, <3>1 DEF ChainInv, Order
  <2>5. \A c \in Callers : call[c] = "acquire" => c = a
    <3>1. ASSUME NEW c \in Callers, call[c] = "acquire" PROVE c = a
      <4>1. R[Beh(c)] = lo /\ Beh(c) \in Slots
        BY <1>1, <3>1, Names DEF ChainInv, Calls, CallOf, Inside
      <4>2. Beh(c) = Beh(a) BY <1>1, <2>3, <4>1 DEF ChainInv, Order
      <4>3. call[c] # "done" /\ call[a] # "done" BY <2>1, <3>1
      <4>4. QED BY <1>1, <4>2, <4>3, OneCaller
    <3>2. QED BY <3>1
  <2>6. \A c \in Callers : call'[c] # "acquire"
    BY <2>1, <2>5 DEF TypeOK, ChainTypeOK
  <2>7. pc["writer"] \notin {"holds", "acquire"}
    <3>1. R[slot] # lo BY <1>1, <2>3 DEF ChainInv, Order
    <3>2. QED BY <1>1, <3>1 DEF ChainInv, SlotFirst
  <2>8. One(ChainAcquired) = 0 /\ One(ChainAcquired)' = 1
    BY <2>1, <2>4, <2>6, <2>7 DEF ChainAcquired, One
  <2>9. QED BY <1>2, <1>3, <2>1, <2>2, <2>8 DEF CownCounted
<1>7. CASE Link(a, Beh(a)) \/ SetReady(a, Beh(a))
  <2>1. UNCHANGED <<run, count, last>> /\ call[a] # "acquire"
        /\ \E c \in {"setReady", "resolve"} : call' = [call EXCEPT ![a] = c]
    BY <1>7 DEF Link, SetReady
  <2>2. \A c \in Callers : call'[c] = "acquire" <=> call[c] = "acquire"
    BY <2>1 DEF TypeOK, ChainTypeOK
  <2>3. One(ChainAcquired)' = One(ChainAcquired) /\ Cardinality(Releasing)' = Cardinality(Releasing)
    BY <2>1, <2>2, TermsSame
  <2>4. QED BY <1>2, <2>1, <2>3 DEF CownCounted
<1>8. CASE ResolveCall(a, Beh(a))
  <2>1. UNCHANGED <<count, last>> /\ call[a] = "resolve" /\ call' = [call EXCEPT ![a] = "done"]
        /\ run' = [run EXCEPT ![Beh(a)] =
                     IF countdown[Beh(a)] = (IF prev[a] = NoSlot THEN 2 ELSE 1) THEN "body" ELSE @]
    BY <1>8 DEF ResolveCall, Resolve
  <2>2. \A c \in Callers : call'[c] = "acquire" <=> call[c] = "acquire"
    BY <2>1 DEF TypeOK, ChainTypeOK
  <2>3. run[Beh(a)] = "idle"
    BY <1>1, <2>1, Names DEF ChainInv, Calls, CallOf, Inside
  <2>4. \A b \in Slots : run'[b] = "releaseChain" <=> run[b] = "releaseChain"
    BY <2>1, <2>3, Names DEF TypeOK, ChainTypeOK
  <2>5. One(ChainAcquired)' = One(ChainAcquired) /\ Cardinality(Releasing)' = Cardinality(Releasing)
    BY <2>1, <2>2, <2>4, TermsSame
  <2>6. QED BY <1>2, <2>1, <2>5 DEF CownCounted
<1>9. QED BY <1>5, <1>6, <1>7, <1>8 DEF Schedule

(* A reader's steps keep the counts.                                       *)
LEMMA ReaderCounts ==
  ASSUME TypeOK, Ranked, CountInv, NEW r \in Readers, Reader(r)
  PROVE  CountInv'
<1> USE DEF CountInv
<1>1. ASSUME NEW l, Goto(r, l)
      PROVE  /\ pc'["writer"] = pc["writer"] /\ pc'[r] = l /\ (\A q \in Readers : q # r => pc'[q] = pc[q])
             /\ \A n \in Notifiers : pc'[n] = pc[n]
  BY <1>1, GotoMoves, ActorNames
<1>2. CASE Then(r)
  <2>1. pc[r] = "holds" /\ pc'[r] = "then" /\ call' = [call EXCEPT ![r] = "exchange"]
        /\ UNCHANGED <<noteStatus, noteCount, last, run, fulfilled, count>>
    BY <1>1, <1>2 DEF Then, NoteSame
  <2>2. pc'["writer"] = pc["writer"] /\ (\A q \in Readers : q # r => pc'[q] = pc[q])
        /\ \A n \in Notifiers : pc'[n] = pc[n]
    BY <1>1, <1>2 DEF Then
  <2>3. call[r] = "done"
    BY <2>1 DEF Ranked, ChainInv, ReaderInv
  <2>4. \A a \in Callers : call'[a] = "acquire" <=> call[a] = "acquire"
    BY <2>1, <2>3, Names DEF TypeOK, ChainTypeOK
  <2>5. ReaderEnds' = ReaderEnds
    BY <2>1, <2>2 DEF ReaderEnds
  <2>6. CownCounted'
    BY <2>1, <2>2, <2>4, <2>5, TermsSame DEF CownCounted
  <2>7. QED BY <2>1, <2>2, <2>6, TermsSame
<1>3. CASE ThenSchedule(r)
  BY <1>3, ScheduleCounts, Names DEF ThenSchedule, NoteSame
<1>4. CASE DropReader(r)
  <2>1. pc[r] # "gone" /\ pc'[r] = "gone" /\ count' = count - 1
        /\ UNCHANGED <<noteStatus, noteCount, last, run, fulfilled, call>>
    BY <1>1, <1>4 DEF DropReader, NoteSame
  <2>2. pc'["writer"] = pc["writer"] /\ (\A q \in Readers : q # r => pc'[q] = pc[q])
        /\ \A n \in Notifiers : pc'[n] = pc[n]
    BY <1>1, <1>4 DEF DropReader
  <2>3. r \in ReaderEnds /\ ReaderEnds' = ReaderEnds \ {r}
    BY <2>1, <2>2 DEF ReaderEnds
  <2>4. Cardinality(ReaderEnds') = Cardinality(ReaderEnds) - 1
    BY <2>3, HoldersFinite, LosesMember
  <2>5. WriterHolds' = WriterHolds /\ One(noteCount > 0)' = One(noteCount > 0)
        /\ One(ChainAcquired)' = One(ChainAcquired) /\ Cardinality(Releasing)' = Cardinality(Releasing)
    BY <2>1, <2>2, TermsSame
  <2>6. CownCounted'
    BY <2>1, <2>4, <2>5, HoldersFinite, OneNat, WriterHoldsNat DEF CownCounted
  <2>7. QED BY <2>1, <2>2, <2>6, TermsSame
<1>5. QED BY <1>2, <1>3, <1>4 DEF Reader

(* A behaviour's steps keep the counts: the last of the chain drops the    *)
(* chain's.                                                                *)
LEMMA BehaviourCounts ==
  ASSUME TypeOK, Ranked, CountInv, NEW b \in Behaviours, Behaviour(b)
  PROVE  CountInv'
<1> USE DEF CountInv
<1>1. b \in Slots /\ b # slot /\ slot \in Slots
  BY Names DEF Behaviours
<1>2. PICK R \in [Slots -> Int], lo \in Int : ChainInv(R, lo)
  BY DEF Ranked
<1>3. UNCHANGED <<pc, fulfilled, noteStatus, noteCount, call>>
  BY DEF Behaviour, Body, BodyReleaseLast, BodyReleaseChain, BodyReleaseNext, ReleaseLast, NoteSame
<1>4. WriterHolds' = WriterHolds /\ One(noteCount > 0)' = One(noteCount > 0)
      /\ Cardinality(ReaderEnds)' = Cardinality(ReaderEnds) /\ NoteCounted'
  BY <1>3, TermsSame
<1>5. SUFFICES CownCounted'
  BY <1>3, <1>4
<1>6. WriterHolds \in Nat /\ One(noteCount > 0) \in Nat /\ One(ChainAcquired) \in Nat
      /\ Cardinality(ReaderEnds) \in Nat /\ Cardinality(Releasing) \in Nat
  BY HoldersFinite, OneNat, WriterHoldsNat
<1>7. CASE Body(b)
  <2>1. UNCHANGED <<count, last>> /\ run[b] = "body" /\ run' = [run EXCEPT ![b] = "release"]
    BY <1>7 DEF Body, Runs
  <2>2. \A c \in Slots : run'[c] = "releaseChain" <=> run[c] = "releaseChain"
    BY <2>1, <1>1 DEF TypeOK, ChainTypeOK
  <2>3. One(ChainAcquired)' = One(ChainAcquired) /\ Cardinality(Releasing)' = Cardinality(Releasing)
    BY <1>3, <2>1, <2>2, TermsSame
  <2>4. QED BY <1>4, <2>1, <2>3 DEF CownCounted
<1>8. CASE BodyReleaseLast(b)
  <2>1. UNCHANGED count /\ last' = NoSlot /\ run[b] = "release" /\ run' = [run EXCEPT ![b] = "releaseChain"]
    BY <1>8 DEF BodyReleaseLast, ReleaseLast, Runs
  <2>2. R[b] = lo /\ NoCall(b)
    BY <1>1, <1>2, <2>1 DEF ChainInv, Running
  <2>3. One(ChainAcquired) = 1 /\ One(ChainAcquired)' = 0
    BY <1>1, <1>2, <2>1, <2>2, HeadIsCounted DEF ChainAcquired, One
  <2>4. b \notin Releasing /\ Releasing' = Releasing \cup {b}
    BY <1>1, <2>1 DEF TypeOK, ChainTypeOK, Releasing
  <2>5. Cardinality(Releasing') = Cardinality(Releasing) + 1
    BY <2>4, HoldersFinite, GainsMember
  <2>6. QED BY <1>4, <1>6, <2>1, <2>3, <2>5 DEF CownCounted
<1>9. CASE BodyReleaseChain(b)
  <2>1. UNCHANGED last /\ count' = count - 1 /\ run[b] = "releaseChain"
        /\ run' = [run EXCEPT ![b] = AfterRelease(b)] /\ AfterRelease(b) # "releaseChain"
    BY <1>9 DEF BodyReleaseChain, AfterRelease, Runs
  <2>2. One(ChainAcquired)' = One(ChainAcquired)
    BY <1>3, <2>1, TermsSame
  <2>3. b \in Releasing /\ Releasing' = Releasing \ {b}
    BY <1>1, <2>1 DEF TypeOK, ChainTypeOK, Releasing
  <2>4. Cardinality(Releasing') = Cardinality(Releasing) - 1
    BY <2>3, HoldersFinite, LosesMember
  <2>5. QED BY <1>4, <1>6, <2>1, <2>2, <2>4 DEF CownCounted
<1>10. CASE BodyReleaseNext(b)
  <2>1. UNCHANGED <<count, last>> /\ run[b] = "release" /\ status[b] \notin Marks
        /\ run' = [run EXCEPT ![b] = AfterRelease(b), ![status[b]] = IF countdown[status[b]] = 1 THEN "body" ELSE @]
    BY <1>10 DEF BodyReleaseNext, Marks
  <2>2. R[b] = lo /\ b # last /\ status[b] \in Slots
    BY <1>1, <1>2, <2>1 DEF ChainInv, Running, Links, TypeOK, ChainTypeOK
  <2>3. R[status[b]] = R[b] + 1
    BY <1>1, <1>2, <2>1, <2>2 DEF ChainInv, Links, LinkedTo
  <2>4. ~(R[status[b]] < lo) BY <1>1, <2>2, <2>3
  <2>5. run[status[b]] # "releaseChain" BY <1>2, <2>2, <2>4, AfterRun
  <2>6. AfterRelease(b) # "releaseChain" BY DEF AfterRelease
  <2>7. \A c \in Slots : run'[c] = "releaseChain" <=> run[c] = "releaseChain"
    BY <1>1, <2>1, <2>2, <2>5, <2>6 DEF TypeOK, ChainTypeOK
  <2>8. One(ChainAcquired)' = One(ChainAcquired) /\ Cardinality(Releasing)' = Cardinality(Releasing)
    BY <1>3, <2>1, <2>7, TermsSame
  <2>9. QED BY <1>4, <2>1, <2>8 DEF CownCounted
<1>11. QED BY <1>7, <1>8, <1>9, <1>10 DEF Behaviour

(* The last count of the notification takes the count of its slot along.   *)
LEMMA ReleaseNoteCounts ==
  ASSUME CownCounted, noteCount \in Int, noteCount >= 1, ReleaseNote,
         WriterHolds' = WriterHolds, One(ChainAcquired)' = One(ChainAcquired),
         Cardinality(ReaderEnds)' = Cardinality(ReaderEnds), Cardinality(Releasing)' = Cardinality(Releasing)
  PROVE  CownCounted'
<1>1. WriterHolds \in Nat /\ One(ChainAcquired) \in Nat
      /\ Cardinality(ReaderEnds) \in Nat /\ Cardinality(Releasing) \in Nat
  BY HoldersFinite, OneNat, WriterHoldsNat
<1>2. One(noteCount > 0) = 1
  BY DEF One
<1>3. CASE noteCount = 1
  <2>1. One(noteCount > 0)' = 0 /\ count' = count - 1
    BY <1>3 DEF One, ReleaseNote
  <2>2. QED BY <1>1, <1>2, <2>1 DEF CownCounted
<1>4. CASE noteCount # 1
  <2>1. One(noteCount > 0)' = 1 /\ count' = count
    BY <1>4 DEF One, ReleaseNote
  <2>2. QED BY <1>1, <1>2, <2>1 DEF CownCounted
<1>5. QED BY <1>3, <1>4

(* A notifier holds a count of the notification.                           *)
LEMMA NotifierHolds ==
  ASSUME NoteCounted, NEW n \in Notifiers, pc[n] # "gone"
  PROVE  noteCount \in Int /\ noteCount >= 1 + NoteClaim /\ NoteClaim \in Nat
<1>1. n \in NoteHolders BY DEF NoteHolders
<1>2. Cardinality(NoteHolders) >= 1 BY <1>1, HoldersFinite, HasMember
<1>3. NoteClaim \in Nat BY OneNat DEF NoteClaim
<1>4. QED BY <1>2, <1>3, HoldersFinite DEF NoteCounted

(* A notifier's steps keep the counts: the one that got Waiting takes a    *)
(* count for the run.                                                      *)
LEMMA NotifierCounts ==
  ASSUME TypeOK, Ranked, CountInv, NEW n \in Notifiers, Notifier(n)
  PROVE  CountInv'
<1> USE DEF CountInv
<1>1. ASSUME NEW l, Goto(n, l)
      PROVE  /\ pc'["writer"] = pc["writer"] /\ pc'[n] = l /\ (\A m \in Notifiers : m # n => pc'[m] = pc[m])
             /\ \A r \in Readers : pc'[r] = pc[r]
  BY <1>1, GotoMoves, ActorNames
<1>2. PICK R \in [Slots -> Int], lo \in Int : ChainInv(R, lo)
  BY DEF Ranked
<1>3. NotifierInv(R, lo, n)
  BY <1>2 DEF ChainInv
<1>4. CASE Notify(n)
  <2>1. pc[n] = "holds" /\ pc'[n] = (IF noteStatus = "waiting" THEN "acquire" ELSE "holds")
        /\ noteStatus' = "requested" /\ UNCHANGED <<noteCount, last, run, fulfilled, call, count>>
        /\ pc'["writer"] = pc["writer"] /\ (\A m \in Notifiers : m # n => pc'[m] = pc[m])
        /\ \A r \in Readers : pc'[r] = pc[r]
    BY <1>1, <1>4 DEF Notify, chainVars
  <2>2. NoteHolders' = NoteHolders
    BY <2>1 DEF NoteHolders
  <2>3. NoteClaim' = NoteClaim
    <3>1. CASE noteStatus = "waiting"
      BY <2>1, <3>1 DEF NoteClaim, NobodyAcquires, One
    <3>2. CASE noteStatus # "waiting"
      <4>1. NobodyAcquires' <=> NobodyAcquires BY <2>1, <3>2 DEF NobodyAcquires
      <4>2. QED BY <2>1, <3>2, <4>1 DEF NoteClaim, One
    <3>3. QED BY <3>1, <3>2
  <2>4. NoteCounted'
    BY <2>1, <2>2, <2>3 DEF NoteCounted
  <2>5. CownCounted'
    BY <2>1, TermsSame DEF CownCounted
  <2>6. QED BY <2>1, <2>4, <2>5
<1>5. CASE NotifyAcquire(n)
  <2>1. pc[n] = "acquire" /\ pc'[n] = "schedule" /\ noteCount' = noteCount + 1
        /\ call' = [call EXCEPT ![n] = "exchange"]
        /\ UNCHANGED <<noteStatus, last, run, fulfilled, count>>
        /\ pc'["writer"] = pc["writer"] /\ (\A m \in Notifiers : m # n => pc'[m] = pc[m])
        /\ \A r \in Readers : pc'[r] = pc[r]
    BY <1>1, <1>5 DEF NotifyAcquire
  <2>2. call[n] = "done" /\ noteStatus = "requested" /\ \A m \in Notifiers : pc[m] = "acquire" => m = n
    BY <1>2, <1>3, <2>1 DEF NotifierInv, Busy
  <2>3. NoteHolders' = NoteHolders
    BY <2>1 DEF NoteHolders
  <2>4. NoteClaim = 0 /\ NoteClaim' = 1
    BY <2>1, <2>2 DEF NoteClaim, NobodyAcquires, One
  <2>5. noteCount \in Int /\ noteCount >= 1
    BY <2>1, <2>4, NotifierHolds
  <2>6. NoteCounted'
    BY <2>1, <2>3, <2>4, HoldersFinite DEF NoteCounted
  <2>7. One(noteCount > 0)' = One(noteCount > 0)
    BY <2>1, <2>5 DEF One
  <2>8. \A a \in Callers : call'[a] = "acquire" <=> call[a] = "acquire"
    BY <2>1, <2>2, Names DEF TypeOK, ChainTypeOK
  <2>9. CownCounted'
    BY <2>1, <2>7, <2>8, TermsSame DEF CownCounted
  <2>10. QED BY <2>1, <2>6, <2>9
<1>6. CASE NotifySchedule(n)
  <2>1. CASE call[n] = "done"
    <3>1. pc[n] = "schedule" /\ pc'[n] = "holds"
          /\ UNCHANGED <<noteStatus, noteCount, last, run, fulfilled, call, count>>
          /\ pc'["writer"] = pc["writer"] /\ (\A m \in Notifiers : m # n => pc'[m] = pc[m])
          /\ \A r \in Readers : pc'[r] = pc[r]
      BY <1>1, <1>6, <2>1 DEF NotifySchedule, chainVars, NoteSame
    <3>2. NoteHolders' = NoteHolders BY <3>1 DEF NoteHolders
    <3>3. NobodyAcquires' <=> NobodyAcquires BY <3>1 DEF NobodyAcquires
    <3>4. NoteClaim' = NoteClaim BY <3>1, <3>3 DEF NoteClaim, One
    <3>5. NoteCounted' BY <3>1, <3>2, <3>4 DEF NoteCounted
    <3>6. CownCounted' BY <3>1, TermsSame DEF CownCounted
    <3>7. QED BY <3>1, <3>5, <3>6
  <2>2. CASE call[n] # "done"
    BY <1>6, <2>2, ScheduleCounts, Names DEF NotifySchedule, NoteSame
  <2>3. QED BY <2>1, <2>2
<1>7. CASE DropNotifier(n)
  <2>1. pc[n] = "holds" /\ pc'[n] = "gone" /\ ReleaseNote /\ noteCount' = noteCount - 1
        /\ UNCHANGED <<noteStatus, last, run, fulfilled, call>>
        /\ pc'["writer"] = pc["writer"] /\ (\A m \in Notifiers : m # n => pc'[m] = pc[m])
        /\ \A r \in Readers : pc'[r] = pc[r]
    BY <1>1, <1>7 DEF DropNotifier, ReleaseNote
  <2>2. n \in NoteHolders /\ NoteHolders' = NoteHolders \ {n}
    BY <2>1 DEF NoteHolders
  <2>3. Cardinality(NoteHolders') = Cardinality(NoteHolders) - 1
    BY <2>2, HoldersFinite, LosesMember
  <2>4. NobodyAcquires' <=> NobodyAcquires
    BY <2>1 DEF NobodyAcquires
  <2>5. NoteClaim' = NoteClaim /\ NoteClaim \in Nat
    BY <2>1, <2>4, OneNat DEF NoteClaim, One
  <2>6. NoteCounted'
    BY <2>1, <2>3, <2>5, HoldersFinite DEF NoteCounted
  <2>7. noteCount \in Int /\ noteCount >= 1
    BY <2>1, NotifierHolds
  <2>8. CownCounted'
    BY <2>1, <2>7, ReleaseNoteCounts, TermsSame
  <2>9. QED BY <2>1, <2>6, <2>8
<1>8. QED BY <1>4, <1>5, <1>6, <1>7 DEF Notifier

(* The notification's steps keep the counts: a run that was not asked for  *)
(* again drops the run's count.                                            *)
LEMMA NotificationCounts ==
  ASSUME TypeOK, Ranked, CountInv, Notification
  PROVE  CountInv'
<1> USE DEF CountInv
<1>1. PICK R \in [Slots -> Int], lo \in Int : ChainInv(R, lo)
  BY DEF Ranked
<1>2. UNCHANGED pc /\ UNCHANGED fulfilled
  BY DEF Notification, SetRunning, NoteReset, FinishedRunning, NotifiedMeanwhile, Reschedule
<1>3. NoteHolders' = NoteHolders /\ (NobodyAcquires' <=> NobodyAcquires)
  BY <1>2 DEF NoteHolders, NobodyAcquires
<1>4. CASE SetRunning
  <2>1. UNCHANGED <<noteCount, last, call, count>> /\ run[note] = "body" /\ noteStatus' = "running"
        /\ run' = [run EXCEPT ![note] = "release"]
    BY <1>4 DEF SetRunning, Runs
  <2>2. noteStatus # "waiting"
    BY <1>1, <2>1 DEF ChainInv, NoteInv
  <2>3. NoteCounted'
    BY <1>3, <2>1, <2>2 DEF NoteCounted, NoteClaim, One
  <2>4. \A c \in Slots : run'[c] = "releaseChain" <=> run[c] = "releaseChain"
    BY <2>1, Names DEF TypeOK, ChainTypeOK
  <2>5. CownCounted'
    BY <1>2, <2>1, <2>4, TermsSame DEF CownCounted
  <2>6. QED BY <1>2, <2>3, <2>5
<1>5. CASE NoteReset \/ NotifiedMeanwhile
  <2>1. UNCHANGED <<noteCount, noteStatus, last, count>> /\ run[note] \in {"reset", "finish"}
        /\ \E l \in {"finish", "idle"} : run' = [run EXCEPT ![note] = l]
    BY <1>5 DEF NoteReset, NotifiedMeanwhile, Runs, NoteSame
  <2>2. \A c \in Slots : run'[c] = "releaseChain" <=> run[c] = "releaseChain"
    BY <2>1, Names DEF TypeOK, ChainTypeOK
  <2>3. NoCall(note)
    BY <1>1, <2>1, AfterRun, Names
  <2>4. call[note] = "done"
    BY <2>3, Names DEF NoCall
  <2>5. \A a \in Callers : call'[a] = "acquire" <=> call[a] = "acquire"
    BY <1>5, <2>4, Names DEF NoteReset, NotifiedMeanwhile, TypeOK, ChainTypeOK
  <2>6. CownCounted'
    BY <1>2, <2>1, <2>2, <2>5, TermsSame DEF CownCounted
  <2>7. QED BY <1>2, <2>1, <2>6, TermsSame
<1>6. CASE FinishedRunning
  <2>1. ReleaseNote /\ noteCount' = noteCount - 1 /\ noteStatus = "running" /\ noteStatus' = "waiting"
        /\ UNCHANGED <<last, call>>
        /\ run[note] = "finish" /\ run' = [run EXCEPT ![note] = "idle"]
    BY <1>6 DEF FinishedRunning, ReleaseNote, Runs
  <2>2. NobodyAcquires
    <3>1. ASSUME NEW n \in Notifiers, pc[n] = "acquire" PROVE FALSE
      BY <1>1, <2>1, <3>1 DEF ChainInv, NotifierInv, Busy
    <3>2. QED BY <3>1 DEF NobodyAcquires
  <2>3. NoteClaim = 1 /\ NoteClaim' = 0
    BY <2>1, <2>2 DEF NoteClaim, One
  <2>4. NoteCounted'
    BY <1>3, <2>1, <2>3, HoldersFinite DEF NoteCounted
  <2>5. noteCount \in Int /\ noteCount >= 1
    BY <2>3, HoldersFinite DEF NoteCounted
  <2>6. \A c \in Slots : run'[c] = "releaseChain" <=> run[c] = "releaseChain"
    BY <2>1, Names DEF TypeOK, ChainTypeOK
  <2>7. CownCounted'
    BY <1>2, <2>1, <2>5, <2>6, ReleaseNoteCounts, TermsSame
  <2>8. QED BY <1>2, <2>4, <2>7
<1>7. CASE Reschedule
  BY <1>7, ScheduleCounts, Names DEF Reschedule, NoteSame
<1>8. QED BY <1>4, <1>5, <1>6, <1>7 DEF Notification

(* The counts at the start.                                                *)
LEMMA CountInit == Init => CountInv
<1> SUFFICES ASSUME Init PROVE CountInv
  OBVIOUS
<1>1. pc["writer"] = "holds" /\ (\A n \in Notifiers : pc[n] = "holds") /\ \A r \in Readers : pc[r] = "holds"
  BY ActorNames DEF Init, Actors
<1>2. NoteHolders = Notifiers /\ ReaderEnds = Readers /\ Releasing = {}
  BY <1>1 DEF Init, NoteHolders, ReaderEnds, Releasing
<1>3. NoteClaim = 0 /\ WriterHolds = 1 /\ One(ChainAcquired) = 0
  BY <1>1 DEF Init, NoteClaim, WriterHolds, ChainAcquired, One
<1>4. Cardinality(Releasing) = 0
  BY <1>2, FS_EmptySet
<1>5. Cardinality(NoteHolders) \in Nat /\ Cardinality(ReaderEnds) \in Nat
  BY HoldersFinite
<1>6. noteCount = Cardinality(NoteHolders) /\ count = 2 + Cardinality(ReaderEnds)
  BY <1>2 DEF Init
<1>7. PICK n \in Notifiers : TRUE
  BY SignalNames
<1>8. Cardinality(NoteHolders) >= 1
  BY <1>2, <1>7, HoldersFinite, HasMember
<1>9. One(noteCount > 0) = 1
  BY <1>5, <1>6, <1>8 DEF One
<1>10. NoteCounted /\ CownCounted
  BY <1>3, <1>4, <1>5, <1>6, <1>9 DEF NoteCounted, CownCounted
<1>11. fulfilled = FALSE BY DEF Init
<1>12. QED BY <1>1, <1>10, <1>11 DEF CountInv

(* Every step keeps the counts.                                            *)
LEMMA CountStep ==
  ASSUME TypeOK, Ranked, CountInv, [Next]_vars
  PROVE  CountInv'
<1>1. CASE Writer BY <1>1, WriterCounts
<1>2. ASSUME NEW r \in Readers, Reader(r) PROVE CountInv' BY <1>2, ReaderCounts
<1>3. ASSUME NEW b \in Readers \cup {note}, Behaviour(b) PROVE CountInv'
  BY <1>3, BehaviourCounts DEF Behaviours
<1>4. ASSUME NEW n \in Notifiers, Notifier(n) PROVE CountInv' BY <1>4, NotifierCounts
<1>5. CASE Notification BY <1>5, NotificationCounts
<1>6. CASE Finished \/ UNCHANGED vars
  <2>0. UNCHANGED vars BY <1>6, Names DEF Finished
  <2>1. UNCHANGED <<pc, fulfilled, noteStatus, noteCount, last, call, run, count>>
    BY <2>0 DEF vars, chainVars
  <2>2. NoteCounted' BY <2>1, TermsSame DEF CountInv
  <2>3. CownCounted' BY <2>1, TermsSame DEF CountInv, CownCounted
  <2>4. QED BY <2>1, <2>2, <2>3 DEF CountInv
<1>7. QED BY <1>1, <1>2, <1>3, <1>4, <1>5, <1>6 DEF Next

(* The counts of the promise's cown and of the notification are exact: the *)
(* number of those that hold them (VCown and Shared counts, the slot's     *)
(* count and the chain's).                                                 *)
THEOREM CountsInvariance == Spec => []CountInv
<1>1. Init => CountInv BY CountInit
<1>2. TypeOK /\ Ranked /\ CountInv /\ [Next]_vars => CountInv' BY CountStep
<1>3. QED BY <1>1, <1>2, RankedInvariance, PTL DEF Spec

(* Whoever touches the promise holds one of its counts.                    *)
LEMMA PromiseHeld ==
  ASSUME TypeOK, Ranked, CountInv, TouchesPromise
  PROVE  count > 0
<1> USE DEF CountInv
<1>1. PICK R \in [Slots -> Int], lo \in Int : ChainInv(R, lo)
  BY DEF Ranked
<1>2. WriterHolds \in Nat /\ One(noteCount > 0) \in Nat /\ One(ChainAcquired) \in Nat
      /\ Cardinality(ReaderEnds) \in Nat /\ Cardinality(Releasing) \in Nat
  BY HoldersFinite, OneNat, WriterHoldsNat
<1>3. SUFFICES \/ WriterHolds >= 1 \/ One(noteCount > 0) >= 1 \/ One(ChainAcquired) >= 1
               \/ Cardinality(ReaderEnds) >= 1 \/ Cardinality(Releasing) >= 1
  BY <1>2 DEF CownCounted
<1>4. CASE pc["writer"] # "gone"
  <2>1. CASE pc["writer"] = "releaseSlot"
    BY <2>1, SlotIsCounted DEF ChainAcquired, One
  <2>2. CASE pc["writer"] # "releaseSlot"
    BY <1>4, <2>2 DEF WriterHolds, One, TypeOK, WriterPCs
  <2>3. QED BY <2>1, <2>2
<1>5. ASSUME NEW r \in Readers, pc[r] # "gone" PROVE Cardinality(ReaderEnds) >= 1
  <2>1. r \in ReaderEnds BY <1>5 DEF ReaderEnds
  <2>2. QED BY <2>1, HoldersFinite, HasMember
<1>6. ASSUME NEW a \in Callers, call[a] # "done"
      PROVE  One(noteCount > 0) >= 1 \/ Cardinality(ReaderEnds) >= 1
  <2>1. CASE a \in Readers
    <3>1. pc[a] = "then" BY <1>1, <1>6, <2>1 DEF ChainInv, ReaderInv
    <3>2. QED BY <1>5, <2>1, <3>1
  <2>2. CASE a \notin Readers
    <3>1. Beh(a) = note BY <2>2 DEF Beh
    <3>2. NoteClaim = 1
      BY <1>1, <1>6, <3>1, NoteBeingScheduled DEF NoteClaim, NobodyAcquires, One
    <3>3. noteCount > 0 BY <3>2, HoldersFinite DEF NoteCounted
    <3>4. QED BY <3>3 DEF One
  <2>3. QED BY <2>1, <2>2
<1>7. ASSUME NEW b \in Slots, run[b] \in {"body", "release"} PROVE One(ChainAcquired) >= 1
  <2>1. R[b] = lo /\ NoCall(b) /\ b # slot
    BY <1>1, <1>7 DEF ChainInv, Running, SlotFirst
  <2>2. ChainAcquired BY <1>1, <2>1, HeadIsCounted DEF ChainAcquired
  <2>3. QED BY <2>2 DEF One
<1>8. ASSUME NEW b \in Slots, run[b] = "releaseChain" PROVE Cardinality(Releasing) >= 1
  <2>1. b \in Releasing BY <1>8 DEF Releasing
  <2>2. QED BY <2>1, HoldersFinite, HasMember
<1>9. QED BY <1>4, <1>5, <1>6, <1>7, <1>8 DEF TouchesPromise

(* Whoever touches the notification holds one of its counts.               *)
LEMMA NoteHeld ==
  ASSUME TypeOK, Ranked, CountInv, TouchesNote
  PROVE  noteCount > 0
<1> USE DEF CountInv
<1>1. PICK R \in [Slots -> Int], lo \in Int : ChainInv(R, lo)
  BY DEF Ranked
<1>2. NoteInv(R, lo) /\ \A n \in Notifiers : NotifierInv(R, lo, n)
  BY <1>1 DEF ChainInv
<1>3. ASSUME NEW n \in Notifiers, pc[n] # "gone" PROVE noteCount > 0
  BY <1>3, NotifierHolds
<1>4. noteStatus # "waiting" => noteCount > 0
  <2>1. CASE NobodyAcquires /\ noteStatus # "waiting"
    <3>1. NoteClaim = 1 BY <2>1 DEF NoteClaim, One
    <3>2. QED BY <3>1, HoldersFinite DEF NoteCounted
  <2>2. CASE ~NobodyAcquires
    BY <1>3, <2>2 DEF NobodyAcquires
  <2>3. QED BY <2>1, <2>2
<1>5. run[note] # "idle" \/ call[note] # "done" => noteStatus # "waiting"
  BY <1>2 DEF NoteInv
<1>6. last = note => noteStatus # "waiting"
  <2>1. last = note => ~(R[note] < lo)
    BY <1>1, Names DEF ChainInv, Order
  <2>2. QED BY <1>2, <2>1 DEF NoteInv
<1>7. QED BY <1>3, <1>4, <1>5, <1>6 DEF TouchesNote

(* No thread touches the promise's cown or the notification once its count *)
(* is 0: not the ends of the promise, not a call of schedule in flight,    *)
(* not a behaviour that releases its slot (promise.h, notification.h).     *)
THEOREM NoUseAfterFreeHolds == Spec => []NoUseAfterFree
<1>1. TypeOK /\ Ranked /\ CountInv => NoUseAfterFree
  BY PromiseHeld, NoteHeld DEF NoUseAfterFree
<1>2. QED BY <1>1, RankedInvariance, CountsInvariance, PTL
=============================================================================
