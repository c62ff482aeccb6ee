-------------------------- MODULE ThreadPoolProofs --------------------------
(***************************************************************************)
(* Proofs about ThreadPool, for any ring of cores and any programs: each   *)
(* sleep gets one wake, the unpause epoch never goes back, no wake-up is   *)
(* lost, and the pool implements WorkPool.                                 *)
(*                                                                         *)
(* The invariant has three parts.  Where the work is: every item is in one *)
(* place, and a queue keeps an item that is not linked.  Who is woken: a   *)
(* thread that goes to sleep is on one list of sleepers or has one wake.   *)
(* And the epochs, which matter once every thread has announced a pause:   *)
(* as far as the thread that was last to advance pause_epoch has looked,   *)
(* no work is queued but that of outside threads about to unpause, or else *)
(* an unpause has come since.                                              *)
(*                                                                         *)
(* On it rests the refinement: active_threads counts the threads that are  *)
(* not gone to sleep, so the thread that tears down is alone; it has seen  *)
(* no work in any queue, and so all that was scheduled is finished.        *)
(***************************************************************************)
EXTENDS FiniteSetTheorems, TLAPS, ThreadPool

UnpausePCs == {"unpause", "compare", "slowUnpause", "slowPause", "catchUp", "ring"}
LockPCs == {"unlock", "unlockUnpause", "wake"}
InCallPCs == {"offer", "link"} \cup UnpausePCs \cup LockPCs
LookPCs == {"get", "fairSteal", "own", "firstSteal", "keep", "linkToken"}
RestPCs == {"steal", "stealNext", "tick", "announce", "loadBack", "loadFront", "decide",
            "sleep", "relock", "exit"}

(* Where threads are, and where their calls return to. *)
ThreadAt(p, r) ==
  /\ p \in LookPCs \cup RestPCs \cup InCallPCs \cup {"run", "token", "body"}
  /\ p \in {"offer", "link"} \cup UnpausePCs => r \in {"run", "body"}
  /\ p \in LockPCs => r \in {"run", "body", "steal", "sleep"}
  /\ p \notin InCallPCs => r = "get"
ExternalAt(p, r) ==
  /\ p \in {"off", "push"} \cup UnpausePCs \cup LockPCs
  /\ r = IF p \in {"off", "push"} THEN "get" ELSE "push"
PcOK ==
  /\ pc = [a \in Actors |-> pc[a]] /\ ret = [a \in Actors |-> ret[a]]
  /\ \A t \in Threads : ThreadAt(pc[t], ret[t])
  /\ \A x \in Externals : ExternalAt(pc[x], ret[x])

(* What a thread does: it looks for work, has fetched an item, runs one,   *)
(* puts back a token, or has nothing.                                      *)
Place(t) == IF pc[t] \in InCallPCs THEN ret[t] ELSE pc[t]
Looking(t) == Place(t) \in LookPCs
Fetched(t) == Place(t) = "run"
Running(t) == Place(t) = "body"
Resting(t) == Place(t) \in RestPCs

-----------------------------------------------------------------------------
(* Where the work is. *)
InQueue(x) == \E c \in Threads : On(queue[c], x)
Distinct(s) == \A i, j \in 1 .. Len(s) : s[i] = s[j] => i = j

QueuesOK ==
  /\ queue \in [Threads -> Seq(Items)]
  /\ \A c \in Threads :
       /\ queue[c] # <<>> /\ Distinct(queue[c]) /\ Back(c) \notin linked
       /\ \A x \in Items : On(queue[c], x) =>
            /\ \A d \in Threads : On(queue[d], x) => c = d
            /\ x \in Threads => x = c
            /\ x \in Works => x \in scheduled /\ x \notin started

(* The item an actor is about to link has one behind it. *)
LinksOK ==
  /\ toLink \in [Actors -> Items \cup {None}] /\ linked \subseteq Items
  /\ \A x \in linked : InQueue(x)
  /\ \A a \in Actors :
       /\ toLink[a] # None <=> pc[a] \in {"link", "linkToken"}
       /\ toLink[a] # None =>
            /\ toLink[a] \notin linked
            /\ \E c \in Threads : On(queue[c], toLink[a]) /\ toLink[a] # Back(c)
            /\ \A b \in Actors : toLink[b] = toLink[a] => a = b

HandsOK ==
  /\ cur \in [Threads -> Items \cup {None}] /\ nextWork \in [Threads -> Works \cup {None}]
  /\ \A t \in Threads :
       /\ Looking(t) \/ Resting(t) => cur[t] = None
       /\ Resting(t) => nextWork[t] = None
       /\ Fetched(t) => cur[t] \in Items
       /\ Fetched(t) /\ cur[t] \in Works => cur[t] \in scheduled /\ cur[t] \notin started
       /\ Running(t) => cur[t] \in Works /\ cur[t] \in started /\ cur[t] \notin finished
       /\ pc[t] = "token" => cur[t] \in Threads
       /\ pc[t] = "offer" => nextWork[t] # None
       /\ nextWork[t] # None => nextWork[t] \in scheduled /\ nextWork[t] \notin started /\ ~InQueue(nextWork[t])
       /\ cur[t] # None => ~InQueue(cur[t])
       /\ \A u \in Threads :
            /\ nextWork[t] # None /\ nextWork[u] = nextWork[t] => u = t
            /\ cur[t] # None /\ cur[u] = cur[t] => u = t
            /\ cur[t] # None => nextWork[u] # cur[t]

(* Nothing that was scheduled is lost, and no token. *)
Held(x) == \E t \in Threads : cur[t] = x \/ nextWork[t] = x
NothingLost ==
  /\ finished \subseteq started /\ started \subseteq scheduled /\ scheduled \subseteq Works
  /\ \A w \in scheduled : w \in finished \/ InQueue(w) \/ Held(w)
  /\ \A c \in Threads : InQueue(c) \/ Held(c)

(* What is left of the programs has not been done. *)
NotDone(s) == (s.op = "spawn" => s.w \notin scheduled) /\ (s.op = "start" => pc[s.x] = "off")
OnceSteps == {"spawn", "start"}
Once(s) == \A i, j \in 1 .. Len(s) : s[i] = s[j] /\ s[i].op \in OnceSteps => i = j
ScriptsOK ==
  /\ program \in Programs /\ todo = [a \in Actors |-> todo[a]]
  /\ \A t \in Threads :
       /\ todo[t] \in Seq(Steps) /\ Once(todo[t])
       /\ ~Running(t) => todo[t] = <<>>
       /\ \A s \in Steps : On(todo[t], s) => On(program.script[cur[t]], s) /\ NotDone(s)
  /\ \A v \in Works : v \notin started =>
       \A s \in Steps : On(program.script[v], s) => NotDone(s)
  /\ \A x \in Externals :
       /\ todo[x] \in Seq(Works) /\ Distinct(todo[x])
       /\ \A w \in Works : On(todo[x], w) => On(program.pushes[x], w) /\ w \notin scheduled

WorkInv == QueuesOK /\ LinksOK /\ HandsOK /\ NothingLost /\ ScriptsOK

-----------------------------------------------------------------------------
(* Who is woken. *)
BeingWoken(t) == \E a \in Actors : On(toWake[a], t)
SleepOK ==
  /\ waiters \in Seq(Threads) /\ toWake \in [Actors -> Seq(Threads)] /\ sem \in [Threads -> {0, 1}]
  /\ Distinct(waiters)
  /\ \A a \in Actors :
       /\ Distinct(toWake[a])
       /\ toWake[a] # <<>> => pc[a] \in {"unlockUnpause", "wake"}
  /\ \A t \in Threads :
       /\ Decided(t) <=> sem[t] = 1 \/ On(waiters, t) \/ BeingWoken(t)
       /\ sem[t] = 1 => ~On(waiters, t) /\ ~BeingWoken(t)
       /\ On(waiters, t) => ~BeingWoken(t)
       /\ \A a, b \in Actors : On(toWake[a], t) /\ On(toWake[b], t) => a = b

(* The scheduler lock has one holder, and nobody waits behind one that has *)
(* taken the waiters.                                                      *)
Holds(a) == pc[a] \in {"unlock", "unlockUnpause"}
LockOK ==
  /\ lock \in Locks
  /\ lock = "Unlocked" <=> \A a \in Actors : ~Holds(a)
  /\ \A a, b \in Actors : Holds(a) /\ Holds(b) => a = b
  /\ \A a \in Actors : pc[a] = "unlockUnpause" => waiters = <<>>

-----------------------------------------------------------------------------
(* The epochs. *)
ProbePCs == {"loadBack", "loadFront", "decide"}
AskedPCs == {"announce", "loadBack", "loadFront", "decide"}
EpochPCs == {"compare", "slowPause", "catchUp"} \cup AskedPCs
EpochsOK ==
  /\ pauseEpoch \in Nat /\ unpauseEpoch \in Nat /\ unpauseEpoch <= pauseEpoch
  /\ localPause \in [Actors -> Nat] /\ localUnpause \in [Actors -> Nat]
  /\ \A a \in Actors :
       /\ pc[a] = "compare" => localPause[a] <= pauseEpoch
       /\ pc[a] = "slowPause" => localUnpause[a] <= unpauseEpoch
       /\ pc[a] = "catchUp" => localUnpause[a] <= localPause[a] /\ localPause[a] <= pauseEpoch
       /\ pc[a] \in AskedPCs => localUnpause[a] <= unpauseEpoch

(* A thread that has announced a pause may have gone to sleep since.       *)
Announced(t) == pc[t] \in ProbePCs \/ Gone(t)

(* Actor a is about to find the epochs apart and to bring them level, or   *)
(* somebody else has done so since it asked.                               *)
Unpausing(a) ==
  \/ pc[a] \in {"unpause", "slowUnpause"}
  \/ pc[a] = "compare" /\ localPause[a] = pauseEpoch
  \/ pc[a] = "slowPause" /\ localUnpause[a] = unpauseEpoch
  \/ pc[a] = "catchUp" /\ localUnpause[a] = unpauseEpoch /\ localPause[a] = pauseEpoch

(* w came from outside, from a thread that is about to unpause.            *)
Fresh(w) == \E x \in Externals : Unpausing(x) /\ On(program.pushes[x], w)

(* z has looked at the cores of Seen and found no work.                    *)
Untouched(z, Seen) ==
  /\ \A c \in Seen, w \in Works : On(queue[c], w) => Fresh(w)
  /\ pc[z] = "loadFront" => localBack[z] = Back(probe[z])
WakesWaiters == lock = "LockedUnpauseNeeded" \/ \E a \in Actors : pc[a] = "ring"
PausingInv(z, Seen, snap) ==
  /\ snap < pauseEpoch /\ snap <= unpauseEpoch
  /\ pc[z] \in ProbePCs => localUnpause[z] = snap
  /\ First \in Seen \cup {probe[z]} /\ \A c \in Seen : NextCore[c] \in Seen \cup {probe[z]}
  /\ pc[z] = "decide" \/ Gone(z) => Seen = Threads
  /\ Gone(z) => \A t \in Threads : pc[t] \in ProbePCs => localUnpause[t] <= snap
  /\ unpauseEpoch > snap \/ Untouched(z, Seen)
  /\ Decided(z) /\ On(waiters, z) /\ unpauseEpoch > snap => WakesWaiters
AllAnnounced == \A t \in Threads : Announced(t)
LastPauser ==
  AllAnnounced => \E z \in Threads, Seen \in SUBSET Threads, snap \in Nat : PausingInv(z, Seen, snap)

SleepInv == SleepOK /\ LockOK
PauseInv == EpochsOK /\ LastPauser
RingOK ==
  /\ victim \in [Actors -> Threads] /\ probe \in [Threads -> Threads]
  /\ localBack = [t \in Threads |-> localBack[t]]
  /\ \A t \in Threads : pc[t] \notin {"loadBack", "loadFront"} => probe[t] = First
CoreInv == PcOK /\ WorkInv /\ SleepInv /\ RingOK

-----------------------------------------------------------------------------
(* Sequences. *)

(* Taking the head of a list without repetitions.                          *)
LEMMA TailOfList ==
  ASSUME NEW S, NEW s \in Seq(S), s # <<>>
  PROVE  /\ Tail(s) \in Seq(S) /\ s[1] \in S /\ On(s, s[1]) /\ Head(s) = s[1]
         /\ \A x : On(Tail(s), x) => On(s, x)
         /\ \A x : On(s, x) => x = s[1] \/ On(Tail(s), x)
         /\ Distinct(s) => Distinct(Tail(s)) /\ ~On(Tail(s), s[1])
         /\ Once(s) => Once(Tail(s)) /\ (s[1].op \in OnceSteps => ~On(Tail(s), s[1]))
         /\ s[1] # s[Len(s)] => Tail(s) # <<>> /\ Tail(s)[Len(Tail(s))] = s[Len(s)]
<1>0. Len(s) \in Nat /\ Len(s) # 0
  OBVIOUS
<1>00. PICK n \in Nat : Len(s) = n + 1
  <2>1. Len(s) - 1 \in Nat /\ Len(s) = (Len(s) - 1) + 1 BY <1>0
  <2>2. QED BY <2>1
<1>1. Len(s) \in Nat /\ Len(s) # 0 /\ n \in Nat /\ Len(s) = n + 1
  BY <1>0, <1>00
<1>2. Len(Tail(s)) = n /\ \A i \in 1 .. n : Tail(s)[i] = s[i + 1] /\ i + 1 \in 1 .. Len(s)
  BY <1>1
<1>3. Tail(s) \in Seq(S) /\ s[1] \in S /\ Head(s) = s[1] /\ 1 \in 1 .. Len(s)
  BY <1>1
<1>4. \A x : On(Tail(s), x) => On(s, x)
  BY <1>2 DEF On
<1>5. ASSUME NEW x, On(s, x) PROVE x = s[1] \/ On(Tail(s), x)
  <2>1. PICK i \in 1 .. Len(s) : s[i] = x BY <1>5 DEF On
  <2>2. CASE i = 1 BY <2>1, <2>2
  <2>3. CASE i # 1
    <3>1. i - 1 \in 1 .. n /\ i = (i - 1) + 1 BY <1>1, <2>3
    <3>2. Tail(s)[i - 1] = x BY <1>2, <2>1, <3>1
    <3>3. QED BY <1>2, <3>1, <3>2 DEF On
  <2>4. QED BY <2>2, <2>3
<1>6. ASSUME Distinct(s) PROVE Distinct(Tail(s)) /\ ~On(Tail(s), s[1])
  <2>1. Distinct(Tail(s)) BY <1>1, <1>2, <1>6 DEF Distinct
  <2>2. \A i \in 1 .. n : Tail(s)[i] # s[1] BY <1>1, <1>2, <1>3, <1>6 DEF Distinct
  <2>3. QED BY <1>2, <2>1, <2>2 DEF On
<1>7. ASSUME Once(s) PROVE Once(Tail(s)) /\ (s[1].op \in OnceSteps => ~On(Tail(s), s[1]))
  <2>1. Once(Tail(s)) BY <1>1, <1>2, <1>7 DEF Once
  <2>2. s[1].op \in OnceSteps => \A i \in 1 .. n : Tail(s)[i] # s[1] BY <1>1, <1>2, <1>3, <1>7 DEF Once
  <2>3. QED BY <1>2, <2>1, <2>2 DEF On
<1>8. ASSUME s[1] # s[Len(s)] PROVE Tail(s) # <<>> /\ Tail(s)[Len(Tail(s))] = s[Len(s)]
  <2>1. n # 0 BY <1>1, <1>8
  <2>2. n \in 1 .. n BY <1>1, <2>1
  <2>3. Tail(s)[n] = s[n + 1] BY <1>2, <2>2
  <2>4. n + 1 = Len(s) BY <1>1
  <2>5. QED BY <1>2, <2>1, <2>3, <2>4
<1>9. On(s, s[1])
  BY <1>3 DEF On
<1>10. QED BY <1>3, <1>4, <1>5, <1>6, <1>7, <1>8, <1>9

(* Adding at the back.                                                     *)
LEMMA AppendToList ==
  ASSUME NEW S, NEW s \in Seq(S), NEW y \in S
  PROVE  /\ Append(s, y) \in Seq(S) /\ Append(s, y) # <<>> /\ Append(s, y)[Len(Append(s, y))] = y
         /\ \A x : On(Append(s, y), x) <=> On(s, x) \/ x = y
         /\ Distinct(s) /\ ~On(s, y) => Distinct(Append(s, y))
         /\ s # <<>> => On(s, s[Len(s)]) /\ s[Len(s)] \in S
<1>1. Len(s) \in Nat /\ Append(s, y) \in Seq(S) /\ Len(Append(s, y)) = Len(s) + 1
  OBVIOUS
<1>2. \A i \in 1 .. Len(s) : Append(s, y)[i] = s[i]
  OBVIOUS
<1>3. Append(s, y)[Len(s) + 1] = y
  OBVIOUS
<1>4. \A i \in 1 .. (Len(s) + 1) : i \in 1 .. Len(s) \/ i = Len(s) + 1
  BY <1>1
<1>5. Len(s) + 1 \in 1 .. (Len(s) + 1) /\ \A i \in 1 .. Len(s) : i \in 1 .. (Len(s) + 1)
  BY <1>1
<1>6. \A x : On(Append(s, y), x) <=> On(s, x) \/ x = y
  BY <1>1, <1>2, <1>3, <1>4, <1>5 DEF On
<1>7. Distinct(s) /\ ~On(s, y) => Distinct(Append(s, y))
  BY <1>1, <1>2, <1>3, <1>4, <1>5 DEF On, Distinct
<1>8. s # <<>> => On(s, s[Len(s)]) /\ s[Len(s)] \in S
  BY <1>1 DEF On
<1>9. QED BY <1>1, <1>3, <1>6, <1>7, <1>8

(* Adding at the front.                                                    *)
LEMMA PushToList ==
  ASSUME NEW S, NEW s \in Seq(S), NEW y \in S
  PROVE  /\ <<y>> \o s \in Seq(S) /\ <<y>> \o s # <<>> /\ (<<y>> \o s)[1] = y
         /\ \A x : On(<<y>> \o s, x) <=> On(s, x) \/ x = y
         /\ Distinct(s) /\ ~On(s, y) => Distinct(<<y>> \o s)
         /\ s # <<>> => (<<y>> \o s)[Len(<<y>> \o s)] = s[Len(s)]
<1> DEFINE u == <<y>> \o s
<1>1. Len(s) \in Nat /\ u \in Seq(S) /\ Len(u) = Len(s) + 1 /\ u[1] = y
  OBVIOUS
<1>2. \A i \in 1 .. Len(s) : u[i + 1] = s[i] /\ i + 1 \in 1 .. Len(u)
  BY <1>1
<1>3. \A i \in 1 .. Len(u) : i = 1 \/ (i - 1 \in 1 .. Len(s) /\ u[i] = s[i - 1])
  <2>1. ASSUME NEW i \in 1 .. Len(u), i # 1 PROVE i - 1 \in 1 .. Len(s) /\ u[i] = s[i - 1]
    <3>1. i - 1 \in 1 .. Len(s) /\ (i - 1) + 1 = i BY <1>1, <2>1
    <3>2. QED BY <1>2, <3>1
  <2>2. QED BY <2>1
<1>4. 1 \in 1 .. Len(u) /\ u # <<>>
  BY <1>1
<1>5. \A x : On(u, x) <=> On(s, x) \/ x = y
  <2>1. ASSUME NEW x, On(u, x) PROVE On(s, x) \/ x = y BY <1>1, <1>3, <2>1 DEF On
  <2>2. ASSUME NEW x, On(s, x) PROVE On(u, x) BY <1>2, <2>2 DEF On
  <2>3. On(u, y) BY <1>1, <1>4 DEF On
  <2>4. QED BY <2>1, <2>2, <2>3
<1>6. ASSUME Distinct(s), ~On(s, y) PROVE Distinct(u)
  <2> SUFFICES ASSUME NEW i \in 1 .. Len(u), NEW j \in 1 .. Len(u), u[i] = u[j] PROVE i = j
    BY DEF Distinct
  <2>1. \A k \in 1 .. Len(s) : s[k] # y BY <1>6 DEF On
  <2>2. CASE i = 1 \/ j = 1 BY <1>1, <1>3, <2>1, <2>2
  <2>3. CASE i # 1 /\ j # 1
    <3>1. i - 1 \in 1 .. Len(s) /\ j - 1 \in 1 .. Len(s) /\ s[i - 1] = s[j - 1] BY <1>3, <2>3
    <3>2. i - 1 = j - 1 BY <1>6, <3>1 DEF Distinct
    <3>3. QED BY <1>1, <3>2
  <2>4. QED BY <2>2, <2>3
<1>7. ASSUME s # <<>> PROVE u[Len(u)] = s[Len(s)]
  <2>1. Len(s) \in 1 .. Len(s) BY <1>1, <1>7
  <2>2. QED BY <1>1, <1>2, <2>1
<1>8. QED BY <1>1, <1>4, <1>5, <1>6, <1>7

(* Nothing is on the empty list.                                           *)
LEMMA EmptyList ==
  /\ \A x : ~On(<<>>, x)
  /\ Distinct(<<>>) /\ Once(<<>>) /\ \A S : <<>> \in Seq(S)
BY DEF On, Distinct, Once

(* A list without repetitions whose ends are the same has one element.     *)
LEMMA OneElement ==
  ASSUME NEW S, NEW s \in Seq(S), s # <<>>, Distinct(s), s[1] = s[Len(s)]
  PROVE  Len(s) = 1
<1>1. PICK n \in Nat : n = Len(s) /\ n # 0
  OBVIOUS
<1>2. 1 \in 1 .. n /\ n \in 1 .. n
  BY <1>1
<1>3. QED BY <1>1, <1>2 DEF Distinct

-----------------------------------------------------------------------------
(* Places. *)

(* Actor a goes to p, to return to r, and nobody else moves.               *)
At(a, p, r) ==
  /\ pc'[a] = p /\ ret'[a] = r
  /\ \A b \in Actors : b # a => pc'[b] = pc[b] /\ ret'[b] = ret[b]
  /\ pc' = [b \in Actors |-> pc'[b]] /\ ret' = [b \in Actors |-> ret'[b]]

(* Going to another place leaves the return address alone.                 *)
LEMMA GotoAt ==
  ASSUME PcOK, NEW a \in Actors, NEW p, Goto(a, p), UNCHANGED ret
  PROVE  At(a, p, ret[a])
BY DEF PcOK, Goto, At

(* A call says where it returns to.                                        *)
LEMMA CallAt ==
  ASSUME PcOK, NEW a \in Actors, NEW p, NEW r, Call(a, p, r)
  PROVE  At(a, p, r)
BY DEF PcOK, Call, Goto, At

(* A return goes there.                                                    *)
LEMMA ReturnAt ==
  ASSUME PcOK, NEW a \in Actors, Return(a)
  PROVE  At(a, ret[a], "get")
BY CallAt DEF Return

(* A move between places that an actor of this kind has keeps PcOK.        *)
LEMMA PcKeeps ==
  ASSUME PcOK, NEW a \in Actors, NEW p, NEW r, At(a, p, r),
         a \in Threads => ThreadAt(p, r), a \in Externals => ExternalAt(p, r)
  PROVE  PcOK'
<1>1. \A t \in Threads : ThreadAt(pc'[t], ret'[t])
  BY DEF At, PcOK, Actors
<1>2. \A x \in Externals : ExternalAt(pc'[x], ret'[x])
  BY DEF At, PcOK, Actors
<1>3. QED BY <1>1, <1>2 DEF At, PcOK

(* A thread of the pool is not one from outside.                           *)
LEMMA Kinds ==
  /\ Threads \subseteq Actors /\ Externals \subseteq Actors
  /\ \A a \in Actors : a \in Threads <=> a \notin Externals
  /\ Works \subseteq Items /\ Threads \subseteq Items /\ None \notin Items
  /\ \A x \in Items : x \in Works <=> x \notin Threads
BY NamesAssumption DEF Actors, Items

(* The work is left alone, and a does what it did.                         *)
workVars == <<program, queue, linked, toLink, nextWork, cur, todo, scheduled, started, finished>>
MarkedPCs == {"token", "offer", "link", "linkToken", "off"}
SameKind(a, p, r) ==
  /\ At(a, p, r) /\ pc[a] \notin MarkedPCs /\ p \notin MarkedPCs
  /\ a \in Threads => (Looking(a)' <=> Looking(a)) /\ (Fetched(a)' <=> Fetched(a))
                       /\ (Running(a)' <=> Running(a)) /\ (Resting(a)' <=> Resting(a))

(* The steps of an unpause.                                                *)
LEMMA UnpauseAt ==
  ASSUME PcOK, NEW a \in Actors, Unpause(a)
  PROVE  PcOK' /\ UNCHANGED workVars /\ \E p, r : SameKind(a, p, r)
<1> USE DEF ThreadAt, ExternalAt, LookPCs, RestPCs, InCallPCs, UnpausePCs, LockPCs
<1>1. UNCHANGED workVars
  BY DEF Unpause, UnpauseLoadPause, UnpauseCompare, SlowLoadUnpause, SlowLoadPause, CatchUp,
         Ring, Unlock, UnlockUnpause, Wake, workVars, coreVars, localVars, history, TakeWaiters
<1>2. ASSUME NEW p, At(a, p, ret[a]), pc[a] \in UnpausePCs, p \in UnpausePCs \cup LockPCs
      PROVE  PcOK' /\ SameKind(a, p, ret[a])
  <2>1. PcOK'
    BY <1>2, PcKeeps, Kinds DEF PcOK
  <2>2. SameKind(a, p, ret[a])
    BY <1>2 DEF SameKind, At, MarkedPCs, Looking, Fetched, Running, Resting, Place
  <2>3. QED BY <2>1, <2>2
<1>3. ASSUME NEW p, At(a, p, ret[a]), pc[a] \in LockPCs, p \in LockPCs
      PROVE  PcOK' /\ SameKind(a, p, ret[a])
  <2>1. PcOK'
    BY <1>3, PcKeeps, Kinds DEF PcOK
  <2>2. SameKind(a, p, ret[a])
    BY <1>3 DEF SameKind, At, MarkedPCs, Looking, Fetched, Running, Resting, Place
  <2>3. QED BY <2>1, <2>2
<1>4. ASSUME Return(a), pc[a] \in UnpausePCs \cup LockPCs
      PROVE  PcOK' /\ SameKind(a, ret[a], "get")
  <2>1. At(a, ret[a], "get")
    BY <1>4, ReturnAt
  <2>2. a \in Threads => ret[a] \in {"run", "body", "steal", "sleep"}
    BY <1>4 DEF PcOK
  <2>3. a \in Externals => ret[a] = "push"
    BY <1>4 DEF PcOK
  <2>4. PcOK'
    BY <2>1, <2>2, <2>3, PcKeeps, Kinds
  <2>5. SameKind(a, ret[a], "get")
    <3>1. pc[a] \notin MarkedPCs /\ ret[a] \notin MarkedPCs
      BY <1>4, <2>2, <2>3, Kinds DEF MarkedPCs
    <3>2. a \in Threads => Place(a) = ret[a] /\ Place(a)' = ret[a]
      BY <1>4, <2>1, <2>2 DEF Place, At
    <3>3. QED BY <2>1, <3>1, <3>2 DEF SameKind, Looking, Fetched, Running, Resting
  <2>6. QED BY <2>1, <2>4, <2>5
<1>5. CASE UnpauseLoadPause(a)
  <2>1. At(a, "compare", ret[a]) /\ pc[a] = "unpause" BY <1>5, GotoAt DEF UnpauseLoadPause
  <2>2. QED BY <1>1, <1>2, <2>1
<1>6. CASE UnpauseCompare(a)
  <2>1. CASE unpauseEpoch = localPause[a]
    BY <1>1, <1>4, <1>6, <2>1 DEF UnpauseCompare
  <2>2. CASE unpauseEpoch # localPause[a]
    <3>1. At(a, "slowUnpause", ret[a]) /\ pc[a] = "compare" BY <1>6, <2>2, GotoAt DEF UnpauseCompare
    <3>2. QED BY <1>1, <1>2, <3>1
  <2>3. QED BY <2>1, <2>2
<1>7. CASE SlowLoadUnpause(a)
  <2>1. At(a, "slowPause", ret[a]) /\ pc[a] = "slowUnpause" BY <1>7, GotoAt DEF SlowLoadUnpause
  <2>2. QED BY <1>1, <1>2, <2>1
<1>8. CASE SlowLoadPause(a)
  <2>1. At(a, "catchUp", ret[a]) /\ pc[a] = "slowPause" BY <1>8, GotoAt DEF SlowLoadPause
  <2>2. QED BY <1>1, <1>2, <2>1
<1>9. CASE CatchUp(a)
  <2>1. CASE ~Wins(a)
    BY <1>1, <1>4, <1>9, <2>1 DEF CatchUp
  <2>2. CASE Wins(a)
    <3>1. At(a, "ring", ret[a]) /\ pc[a] = "catchUp" BY <1>9, <2>2, GotoAt DEF CatchUp
    <3>2. QED BY <1>1, <1>2, <3>1
  <2>3. QED BY <2>1, <2>2
<1>10. CASE Ring(a)
  <2>1. CASE lock # "Unlocked"
    BY <1>1, <1>4, <1>10, <2>1 DEF Ring
  <2>2. CASE lock = "Unlocked"
    <3>1. At(a, "unlock", ret[a]) /\ pc[a] = "ring" BY <1>10, <2>2, GotoAt DEF Ring
    <3>2. QED BY <1>1, <1>2, <3>1
  <2>3. QED BY <2>1, <2>2
<1>11. CASE Unlock(a)
  <2>1. CASE Releases
    BY <1>1, <1>4, <1>11, <2>1 DEF Unlock
  <2>2. CASE ~Releases
    <3>1. At(a, "unlockUnpause", ret[a]) /\ pc[a] = "unlock" BY <1>11, <2>2, GotoAt DEF Unlock
    <3>2. QED BY <1>1, <1>3, <3>1
  <2>3. QED BY <2>1, <2>2
<1>12. CASE UnlockUnpause(a)
  <2>1. At(a, "wake", ret[a]) /\ pc[a] = "unlockUnpause" BY <1>12, GotoAt DEF UnlockUnpause
  <2>2. QED BY <1>1, <1>3, <2>1
<1>13. CASE Wake(a)
  <2>1. CASE toWake[a] = <<>>
    BY <1>1, <1>4, <1>13, <2>1 DEF Wake
  <2>2. CASE toWake[a] # <<>>
    <3>1. UNCHANGED <<pc, ret>> /\ pc[a] = "wake" BY <1>13, <2>2 DEF Wake
    <3>2. At(a, "wake", ret[a]) BY <3>1 DEF At, PcOK
    <3>3. QED BY <1>1, <1>3, <3>1, <3>2
  <2>3. QED BY <2>1, <2>2
<1>14. QED BY <1>5, <1>6, <1>7, <1>8, <1>9, <1>10, <1>11, <1>12, <1>13 DEF Unpause

(* The steps of a pause, and of the timeout before it.                     *)
LEMMA PauseAt ==
  ASSUME PcOK, NEW t \in Threads, Pause(t) \/ TryAgain(t) \/ GiveUp(t)
  PROVE  PcOK' /\ UNCHANGED workVars /\ \E p, r : SameKind(t, p, r)
<1> USE DEF ThreadAt, LookPCs, RestPCs, InCallPCs, UnpausePCs, LockPCs
<1>1. UNCHANGED workVars
  BY DEF Pause, TryAgain, GiveUp, Announce, LoadBack, LoadFront, AbandonPause, JoinWaiters, Teardown,
         Sleep, Relock, workVars, coreVars, localVars, history, Futile
<1>2. t \in Actors /\ t \notin Externals
  BY Kinds
<1>3. ASSUME NEW p, NEW r, At(t, p, r), pc[t] \in RestPCs,
             \/ p \in RestPCs /\ r = "get"
             \/ p \in LockPCs /\ r \in {"steal", "sleep"}
      PROVE  PcOK' /\ SameKind(t, p, r)
  <2>1. PcOK'
    BY <1>2, <1>3, PcKeeps
  <2>2. SameKind(t, p, r)
    BY <1>3 DEF SameKind, At, MarkedPCs, Looking, Fetched, Running, Resting, Place
  <2>3. QED BY <2>1, <2>2
<1>4. pc[t] \in RestPCs => ret[t] = "get"
  BY DEF PcOK
<1>5. CASE TryAgain(t)
  <2>1. At(t, "steal", ret[t]) /\ pc[t] = "tick" BY <1>2, <1>5, GotoAt DEF TryAgain
  <2>2. QED BY <1>1, <1>3, <1>4, <2>1
<1>6. CASE GiveUp(t)
  <2>1. At(t, "announce", ret[t]) /\ pc[t] = "tick" BY <1>2, <1>6, GotoAt DEF GiveUp
  <2>2. QED BY <1>1, <1>3, <1>4, <2>1
<1>7. CASE Announce(t)
  <2>1. At(t, "loadBack", ret[t]) /\ pc[t] = "announce" BY <1>2, <1>7, GotoAt DEF Announce
  <2>2. QED BY <1>1, <1>3, <1>4, <2>1
<1>8. CASE LoadBack(t)
  <2>1. At(t, "loadFront", ret[t]) /\ pc[t] = "loadBack" BY <1>2, <1>8, GotoAt DEF LoadBack
  <2>2. QED BY <1>1, <1>3, <1>4, <2>1
<1>9. CASE LoadFront(t)
  <2>1. UNCHANGED ret /\ pc[t] = "loadFront"
    BY <1>9 DEF LoadFront
  <2>2. Goto(t, "steal") \/ Goto(t, "decide") \/ Goto(t, "loadBack")
    BY <1>9 DEF LoadFront
  <2>3. At(t, "steal", ret[t]) \/ At(t, "decide", ret[t]) \/ At(t, "loadBack", ret[t])
    BY <1>2, <2>1, <2>2, GotoAt
  <2>4. QED BY <1>1, <1>3, <1>4, <2>1, <2>3
<1>10. CASE AbandonPause(t)
  <2>1. At(t, "unlock", "steal") /\ pc[t] = "decide" BY <1>2, <1>10, CallAt DEF AbandonPause
  <2>2. QED BY <1>1, <1>3, <2>1
<1>11. CASE JoinWaiters(t)
  <2>1. At(t, "unlock", "sleep") /\ pc[t] = "decide" BY <1>2, <1>11, CallAt DEF JoinWaiters
  <2>2. QED BY <1>1, <1>3, <2>1
<1>12. CASE Teardown(t)
  <2>1. At(t, "unlock", "steal") /\ pc[t] = "decide" BY <1>2, <1>12, CallAt DEF Teardown
  <2>2. QED BY <1>1, <1>3, <2>1
<1>13. CASE Sleep(t)
  <2>1. At(t, "relock", ret[t]) /\ pc[t] = "sleep" BY <1>2, <1>13, GotoAt DEF Sleep
  <2>2. QED BY <1>1, <1>3, <1>4, <2>1
<1>14. CASE Relock(t)
  <2>1. At(t, "unlock", "steal") /\ pc[t] = "relock" BY <1>2, <1>14, CallAt DEF Relock
  <2>2. QED BY <1>1, <1>3, <2>1
<1>15. QED BY <1>5, <1>6, <1>7, <1>8, <1>9, <1>10, <1>11, <1>12, <1>13, <1>14 DEF Pause

(* A thread goes on while it does not pause.                               *)
AwakePCs == LookPCs \cup {"run", "token", "body", "offer", "link", "unpause", "steal", "stealNext", "tick", "exit"}
Awake(t, p, r) ==
  /\ At(t, p, r) /\ pc[t] \in AwakePCs /\ p \in AwakePCs
  /\ ret[t] \in {"get", "run", "body"} /\ r \in {"get", "run", "body"}

(* A thread that looks for work stays awake: it finds some, or looks on.   *)
LEMMA SearchAt ==
  ASSUME PcOK, NEW t \in Threads, Search(t)
  PROVE  PcOK' /\ \E p, r : Awake(t, p, r)
<1> USE DEF ThreadAt, LookPCs, RestPCs, InCallPCs, UnpausePCs, LockPCs
<1>1. t \in Actors /\ t \notin Externals
  BY Kinds
<1>2. ASSUME NEW p, NEW r, At(t, p, r), pc[t] \in LookPCs \cup {"steal", "stealNext"},
             \/ p \in LookPCs \cup {"steal", "stealNext", "tick", "exit", "run"} /\ r = "get"
             \/ p = "offer" /\ r = "run"
      PROVE  PcOK' /\ Awake(t, p, r)
  <2>1. PcOK'
    BY <1>1, <1>2, PcKeeps
  <2>2. ret[t] = "get"
    BY <1>2 DEF PcOK
  <2>3. QED BY <1>2, <2>1, <2>2 DEF Awake, AwakePCs
<1>3. pc[t] \in LookPCs \cup {"steal", "stealNext"} => ret[t] = "get"
  BY DEF PcOK
<1>4. ReturnNextWork(t) => At(t, "run", ret[t]) \/ At(t, "offer", "run")
  <2>1. CASE nextWork[t] = None BY <1>1, <2>1, GotoAt DEF ReturnNextWork
  <2>2. CASE nextWork[t] # None BY <1>1, <2>2, CallAt DEF ReturnNextWork
  <2>3. QED BY <2>1, <2>2
<1>5. CASE GetWork(t)
  <2>1. UNCHANGED ret /\ pc[t] = "get" BY <1>5 DEF GetWork
  <2>2. Goto(t, "run") \/ Goto(t, "fairSteal") \/ Goto(t, "own") BY <1>5 DEF GetWork
  <2>3. At(t, "run", ret[t]) \/ At(t, "fairSteal", ret[t]) \/ At(t, "own", ret[t])
    BY <1>1, <2>1, <2>2, GotoAt
  <2>4. QED BY <1>2, <1>3, <2>1, <2>3
<1>6. CASE FairSteal(t)
  <2>1. pc[t] = "fairSteal" BY <1>6 DEF FairSteal, TrySteal
  <2>2. ReturnNextWork(t) \/ (Goto(t, "own") /\ UNCHANGED ret) BY <1>6 DEF FairSteal, TrySteal
  <2>3. At(t, "run", ret[t]) \/ At(t, "offer", "run") \/ At(t, "own", ret[t])
    BY <1>1, <1>4, <2>2, GotoAt
  <2>4. QED BY <1>2, <1>3, <2>1, <2>3
<1>7. CASE FirstSteal(t)
  <2>1. pc[t] = "firstSteal" BY <1>7 DEF FirstSteal, TrySteal
  <2>2. ReturnNextWork(t) \/ (Goto(t, "keep") /\ UNCHANGED ret) BY <1>7 DEF FirstSteal, TrySteal
  <2>3. At(t, "run", ret[t]) \/ At(t, "offer", "run") \/ At(t, "keep", ret[t])
    BY <1>1, <1>4, <2>2, GotoAt
  <2>4. QED BY <1>2, <1>3, <2>1, <2>3
<1>8. CASE DequeueOwn(t)
  <2>1. pc[t] = "own" BY <1>8 DEF DequeueOwn
  <2>2. ReturnNextWork(t) \/ (Goto(t, "firstSteal") /\ UNCHANGED ret) BY <1>8 DEF DequeueOwn
  <2>3. At(t, "run", ret[t]) \/ At(t, "offer", "run") \/ At(t, "firstSteal", ret[t])
    BY <1>1, <1>4, <2>2, GotoAt
  <2>4. QED BY <1>2, <1>3, <2>1, <2>3
<1>9. CASE KeepNextWork(t)
  <2>1. pc[t] = "keep" /\ UNCHANGED ret BY <1>9 DEF KeepNextWork
  <2>2. Goto(t, "steal") \/ Goto(t, "run") BY <1>9 DEF KeepNextWork
  <2>3. At(t, "steal", ret[t]) \/ At(t, "run", ret[t])
    BY <1>1, <2>1, <2>2, GotoAt
  <2>4. QED BY <1>2, <1>3, <2>1, <2>3
<1>10. CASE StealOwn(t)
  <2>1. pc[t] = "steal" /\ UNCHANGED ret BY <1>10 DEF StealOwn
  <2>2. Goto(t, "exit") \/ Goto(t, "run") \/ Goto(t, "stealNext") BY <1>10 DEF StealOwn
  <2>3. At(t, "exit", ret[t]) \/ At(t, "run", ret[t]) \/ At(t, "stealNext", ret[t])
    BY <1>1, <2>1, <2>2, GotoAt
  <2>4. QED BY <1>2, <1>3, <2>1, <2>3
<1>11. CASE StealNext(t)
  <2>1. pc[t] = "stealNext" /\ UNCHANGED ret BY <1>11 DEF StealNext
  <2>2. Goto(t, "run") \/ Goto(t, "tick") BY <1>11 DEF StealNext
  <2>3. At(t, "run", ret[t]) \/ At(t, "tick", ret[t])
    BY <1>1, <2>1, <2>2, GotoAt
  <2>4. QED BY <1>2, <1>3, <2>1, <2>3
<1>12. QED BY <1>5, <1>6, <1>7, <1>8, <1>9, <1>10, <1>11 DEF Search

(* So does one that runs an item, but for what a body asks of the lock.    *)
LEMMA ExecuteAt ==
  ASSUME PcOK, NEW t \in Threads, Execute(t), ~ChangeSources(t), ~StartExternal(t)
  PROVE  PcOK' /\ \E p, r : Awake(t, p, r)
<1> USE DEF ThreadAt, LookPCs, RestPCs, InCallPCs, UnpausePCs, LockPCs
<1>1. t \in Actors /\ t \notin Externals
  BY Kinds
<1>2. ASSUME NEW p, NEW r, At(t, p, r), pc[t] \in {"run", "token", "linkToken", "body"},
             \/ p \in {"token", "linkToken", "body", "get"} /\ r = "get"
             \/ p = "offer" /\ r = "body"
      PROVE  PcOK' /\ Awake(t, p, r)
  <2>1. PcOK'
    BY <1>1, <1>2, PcKeeps
  <2>2. ret[t] = "get"
    BY <1>2 DEF PcOK
  <2>3. QED BY <1>2, <2>1, <2>2 DEF Awake, AwakePCs
<1>3. ASSUME NEW p, At(t, p, ret[t]), pc[t] \in {"offer", "link"}, p \in {"link", "unpause"}
      PROVE  PcOK' /\ Awake(t, p, ret[t])
  <2>1. ret[t] \in {"run", "body"}
    BY <1>3 DEF PcOK
  <2>2. PcOK'
    BY <1>1, <1>3, <2>1, PcKeeps
  <2>3. QED BY <1>3, <2>1, <2>2 DEF Awake, AwakePCs
<1>4. pc[t] \in {"run", "token", "linkToken", "body"} => ret[t] = "get"
  BY DEF PcOK
<1>5. CASE RunToken(t)
  <2>1. At(t, "token", ret[t]) /\ pc[t] = "run" BY <1>1, <1>5, GotoAt DEF RunToken
  <2>2. QED BY <1>2, <1>4, <2>1
<1>6. CASE TokenBack(t)
  <2>1. At(t, "linkToken", ret[t]) /\ pc[t] = "token" BY <1>1, <1>6, GotoAt DEF TokenBack
  <2>2. QED BY <1>2, <1>4, <2>1
<1>7. CASE LinkToken(t)
  <2>1. At(t, "get", ret[t]) /\ pc[t] = "linkToken" BY <1>1, <1>7, GotoAt DEF LinkToken
  <2>2. QED BY <1>2, <1>4, <2>1
<1>8. CASE RunWork(t)
  <2>1. At(t, "body", ret[t]) /\ pc[t] = "run" BY <1>1, <1>8, GotoAt DEF RunWork
  <2>2. QED BY <1>2, <1>4, <2>1
<1>9. CASE WorkReturns(t)
  <2>1. At(t, "get", ret[t]) /\ pc[t] = "body" BY <1>1, <1>9, GotoAt DEF WorkReturns
  <2>2. QED BY <1>2, <1>4, <2>1
<1>10. CASE Spawn(t)
  <2>1. pc[t] = "body" BY <1>10 DEF Spawn, Doing
  <2>2. CASE nextWork[t] # None
    <3>1. At(t, "offer", "body") BY <1>1, <1>10, <2>2, CallAt DEF Spawn
    <3>2. QED BY <1>2, <2>1, <3>1
  <2>3. CASE nextWork[t] = None
    <3>1. UNCHANGED <<pc, ret>> BY <1>10, <2>3 DEF Spawn
    <3>2. At(t, "body", ret[t]) BY <2>1, <3>1 DEF At, PcOK
    <3>3. QED BY <1>2, <1>4, <2>1, <3>2
  <2>4. QED BY <2>2, <2>3
<1>11. CASE Offer(t)
  <2>1. At(t, "link", ret[t]) /\ pc[t] = "offer" BY <1>1, <1>11, GotoAt DEF Offer
  <2>2. QED BY <1>3, <2>1
<1>12. CASE Link(t)
  <2>1. At(t, "unpause", ret[t]) /\ pc[t] = "link" BY <1>1, <1>12, GotoAt DEF Link
  <2>2. QED BY <1>3, <2>1
<1>13. QED BY <1>5, <1>6, <1>7, <1>8, <1>9, <1>10, <1>11, <1>12 DEF Execute

(* A step that leaves the work alone keeps it where it is.                 *)
LEMMA SameWork ==
  ASSUME PcOK, WorkInv, UNCHANGED workVars, NEW a \in Actors, NEW p, NEW r, SameKind(a, p, r)
  PROVE  WorkInv'
<1> USE DEF WorkInv
<1>1. UNCHANGED <<program, queue, linked, toLink, nextWork, cur, todo, scheduled, started, finished>>
  BY DEF workVars
<1>2. \A t \in Threads : /\ (Looking(t)' <=> Looking(t)) /\ (Fetched(t)' <=> Fetched(t))
                         /\ (Running(t)' <=> Running(t)) /\ (Resting(t)' <=> Resting(t))
  BY Kinds DEF SameKind, At, Looking, Fetched, Running, Resting, Place
<1>3. \A b \in Actors : \A l \in MarkedPCs : pc'[b] = l <=> pc[b] = l
  BY DEF SameKind, At
<1>4. QueuesOK'
  BY <1>1 DEF QueuesOK, Back
<1>5. LinksOK'
  BY <1>1, <1>3 DEF LinksOK, MarkedPCs, InQueue, Back
<1>6. HandsOK'
  BY <1>1, <1>2, <1>3, Kinds DEF HandsOK, MarkedPCs, InQueue
<1>7. NothingLost'
  BY <1>1 DEF NothingLost, Held, InQueue
<1>8. ScriptsOK'
  <2>1. \A s \in Steps : NotDone(s)' <=> NotDone(s)
    <3>1. \A s \in Steps : s.op = "start" => s.x \in Actors
      BY Kinds DEF Steps
    <3>2. \A s \in Steps : s.op = "start" => (pc'[s.x] = "off" <=> pc[s.x] = "off")
      BY <1>3, <3>1 DEF MarkedPCs
    <3>3. QED BY <1>1, <3>2 DEF NotDone
  <2>2. QED BY <1>1, <1>2, <2>1 DEF ScriptsOK
<1>9. QED BY <1>4, <1>5, <1>6, <1>7, <1>8

-----------------------------------------------------------------------------
(* The queues' operations. *)

(* A dequeue takes the front item of a queue that keeps another one.       *)
LEMMA DequeueLists ==
  ASSUME QueuesOK, NEW c \in Threads, CanDequeue(c), UNCHANGED <<scheduled, started>>,
         queue' = [queue EXCEPT ![c] = Tail(@)], linked' = linked \ {Front(c)}
  PROVE  /\ QueuesOK' /\ Front(c) \in Items /\ On(queue[c], Front(c))
         /\ \A d \in Threads : \A x : On(queue[d], x)' <=> On(queue[d], x) /\ x # Front(c)
         /\ \A x : InQueue(x)' <=> InQueue(x) /\ x # Front(c)
         /\ \A d \in Threads : Back(d)' = Back(d)
<1> DEFINE f == Front(c)
<1>1. queue[c] \in Seq(Items) /\ queue[c] # <<>> /\ Distinct(queue[c]) /\ Back(c) # f
  BY DEF QueuesOK, CanDequeue
<1>2. f \in Items /\ On(queue[c], f) /\ f = queue[c][1]
  BY <1>1, TailOfList DEF Front
<1>3. queue'[c] = Tail(queue[c]) /\ \A d \in Threads : d # c => queue'[d] = queue[d]
  BY DEF QueuesOK
<1>4. /\ queue'[c] \in Seq(Items) /\ Distinct(queue'[c]) /\ queue'[c] # <<>> /\ Back(c)' = Back(c)
      /\ \A x : On(queue'[c], x) <=> On(queue[c], x) /\ x # f
  BY <1>1, <1>2, <1>3, TailOfList DEF Back
<1>5. ASSUME NEW d \in Threads, d # c PROVE \A x : On(queue[d], x) => x # f
  BY <1>2, <1>5 DEF QueuesOK, On
<1>6. \A d \in Threads : \A x : On(queue'[d], x) <=> On(queue[d], x) /\ x # f
  BY <1>3, <1>4, <1>5
<1>7. \A d \in Threads : Back(d)' = Back(d)
  BY <1>3, <1>4 DEF Back
<1>8. \A x : InQueue(x)' <=> InQueue(x) /\ x # f
  BY <1>6 DEF InQueue
<1>9. QueuesOK'
  <2>1. queue' \in [Threads -> Seq(Items)]
    BY <1>3, <1>4 DEF QueuesOK
  <2>2. \A d \in Threads : queue'[d] # <<>> /\ Distinct(queue'[d]) /\ Back(d)' \notin linked'
    BY <1>3, <1>4, <1>7 DEF QueuesOK
  <2>3. QED BY <1>6, <2>1, <2>2 DEF QueuesOK
<1>10. QED BY <1>2, <1>6, <1>7, <1>8, <1>9

(* An item that is put in a queue, from where it is not in any.            *)
LEMMA EnqueueLists ==
  ASSUME QueuesOK, NEW c \in Threads, NEW x \in Items, ~InQueue(x), x \notin linked,
         x \in Threads => x = c, x \in Works => x \in scheduled /\ x \notin started,
         UNCHANGED <<scheduled, started, linked>>,
         queue' = [queue EXCEPT ![c] = Append(@, x)]
  PROVE  /\ QueuesOK' /\ On(queue[c], Back(c)) /\ Back(c) \in Items
         /\ \A d \in Threads : \A y : On(queue[d], y)' <=> On(queue[d], y) \/ (d = c /\ y = x)
         /\ \A y : InQueue(y)' <=> InQueue(y) \/ y = x
         /\ \A d \in Threads : Back(d)' = IF d = c THEN x ELSE Back(d)
<1>1. queue[c] \in Seq(Items) /\ queue[c] # <<>> /\ Distinct(queue[c]) /\ ~On(queue[c], x)
  BY DEF QueuesOK, InQueue
<1>2. queue'[c] = Append(queue[c], x) /\ \A d \in Threads : d # c => queue'[d] = queue[d]
  BY DEF QueuesOK
<1>3. /\ queue'[c] \in Seq(Items) /\ Distinct(queue'[c]) /\ queue'[c] # <<>> /\ Back(c)' = x
      /\ On(queue[c], Back(c)) /\ Back(c) \in Items
      /\ \A y : On(queue'[c], y) <=> On(queue[c], y) \/ y = x
  BY <1>1, <1>2, AppendToList DEF Back
<1>4. \A d \in Threads : \A y : On(queue'[d], y) <=> On(queue[d], y) \/ (d = c /\ y = x)
  BY <1>2, <1>3
<1>5. \A d \in Threads : Back(d)' = IF d = c THEN x ELSE Back(d)
  BY <1>2, <1>3 DEF Back
<1>6. \A y : InQueue(y)' <=> InQueue(y) \/ y = x
  BY <1>4 DEF InQueue
<1>7. QueuesOK'
  <2>1. queue' \in [Threads -> Seq(Items)]
    BY <1>2, <1>3 DEF QueuesOK
  <2>2. \A d \in Threads : queue'[d] # <<>> /\ Distinct(queue'[d]) /\ Back(d)' \notin linked'
    BY <1>2, <1>3, <1>5 DEF QueuesOK
  <2>3. \A d \in Threads : ~On(queue[d], x)
    BY DEF InQueue
  <2>4. ASSUME NEW d \in Threads, NEW y \in Items, On(queue'[d], y)
        PROVE  /\ \A e \in Threads : On(queue'[e], y) => d = e
               /\ y \in Threads => y = d
               /\ y \in Works => y \in scheduled' /\ y \notin started'
    BY <1>4, <2>3, <2>4 DEF QueuesOK
  <2>5. QED BY <2>1, <2>2, <2>4 DEF QueuesOK
<1>8. QED BY <1>3, <1>4, <1>5, <1>6, <1>7

(* What queue.enqueue_front does to the queues.                            *)
LEMMA PushLists ==
  ASSUME QueuesOK, NEW c \in Threads, NEW x \in Works, ~InQueue(x), x \notin scheduled, x \notin started,
         scheduled' = scheduled \cup {x}, linked' = linked \cup {x}, UNCHANGED started,
         queue' = [queue EXCEPT ![c] = <<x>> \o @]
  PROVE  /\ QueuesOK'
         /\ \A d \in Threads : \A y : On(queue[d], y)' <=> On(queue[d], y) \/ (d = c /\ y = x)
         /\ \A y : InQueue(y)' <=> InQueue(y) \/ y = x
         /\ \A d \in Threads : Back(d)' = Back(d)
<1>0. x \in Items /\ x \notin Threads
  BY Kinds
<1>1. queue[c] \in Seq(Items) /\ queue[c] # <<>> /\ Distinct(queue[c]) /\ ~On(queue[c], x)
  BY DEF QueuesOK, InQueue
<1>2. queue'[c] = <<x>> \o queue[c] /\ \A d \in Threads : d # c => queue'[d] = queue[d]
  BY DEF QueuesOK
<1>3. /\ queue'[c] \in Seq(Items) /\ Distinct(queue'[c]) /\ queue'[c] # <<>> /\ Back(c)' = Back(c)
      /\ \A y : On(queue'[c], y) <=> On(queue[c], y) \/ y = x
  BY <1>0, <1>1, <1>2, PushToList DEF Back
<1>4. \A d \in Threads : \A y : On(queue'[d], y) <=> On(queue[d], y) \/ (d = c /\ y = x)
  BY <1>2, <1>3
<1>5. \A d \in Threads : Back(d)' = Back(d) /\ Back(d) # x
  <2>1. \A d \in Threads : Back(d)' = Back(d) BY <1>2, <1>3 DEF Back
  <2>2. ASSUME NEW d \in Threads PROVE On(queue[d], Back(d))
    BY <1>0, AppendToList DEF QueuesOK, Back
  <2>3. QED BY <2>1, <2>2 DEF InQueue
<1>6. \A y : InQueue(y)' <=> InQueue(y) \/ y = x
  BY <1>4 DEF InQueue
<1>7. QueuesOK'
  <2>1. queue' \in [Threads -> Seq(Items)]
    BY <1>2, <1>3 DEF QueuesOK
  <2>2. \A d \in Threads : queue'[d] # <<>> /\ Distinct(queue'[d]) /\ Back(d)' \notin linked'
    BY <1>2, <1>3, <1>5 DEF QueuesOK
  <2>3. \A d \in Threads : ~On(queue[d], x)
    BY DEF InQueue
  <2>4. ASSUME NEW d \in Threads, NEW y \in Items, On(queue'[d], y)
        PROVE  /\ \A e \in Threads : On(queue'[e], y) => d = e
               /\ y \in Threads => y = d
               /\ y \in Works => y \in scheduled' /\ y \notin started'
    BY <1>0, <1>4, <2>3, <2>4 DEF QueuesOK
  <2>5. QED BY <2>1, <2>2, <2>4 DEF QueuesOK
<1>8. QED BY <1>4, <1>5, <1>6, <1>7

-----------------------------------------------------------------------------
(* Where the work is, step by step. *)

(* A thread moves on with the work where it is: it has nothing left to     *)
(* take, sees that its item is a token, or makes room in next_work.        *)
MovesOn(t, p, r) ==
  /\ At(t, p, r) /\ pc[t] \notin MarkedPCs /\ p \notin {"link", "linkToken", "off"}
  /\ (Looking(t) \/ Resting(t))' => Looking(t) \/ Resting(t)
  /\ Resting(t)' => Resting(t) \/ nextWork[t] = None
  /\ Fetched(t)' => Fetched(t)
  /\ Running(t)' <=> Running(t)
  /\ p = "token" => cur[t] \in Threads
  /\ p = "offer" => nextWork[t] # None

(* Such a step keeps the work.                                             *)
LEMMA MovesOnKeepsWork ==
  ASSUME PcOK, WorkInv, UNCHANGED workVars, NEW t \in Threads, NEW p, NEW r, MovesOn(t, p, r)
  PROVE  WorkInv'
<1> USE DEF WorkInv
<1>1. UNCHANGED <<program, queue, linked, toLink, nextWork, cur, todo, scheduled, started, finished>>
  BY DEF workVars
<1>2. t \in Actors /\ At(t, p, r)
  BY Kinds DEF MovesOn
<1>3. \A u \in Threads : u # t =>
        /\ (Looking(u)' <=> Looking(u)) /\ (Fetched(u)' <=> Fetched(u))
        /\ (Running(u)' <=> Running(u)) /\ (Resting(u)' <=> Resting(u)) /\ pc'[u] = pc[u]
  BY <1>2, Kinds DEF At, Looking, Fetched, Running, Resting, Place
<1>4. \A b \in Actors : \A l \in {"link", "linkToken", "off"} : pc'[b] = l <=> pc[b] = l
  BY <1>2 DEF MovesOn, At, MarkedPCs
<1>5. QueuesOK'
  BY <1>1 DEF QueuesOK, Back
<1>6. LinksOK'
  BY <1>1, <1>4 DEF LinksOK, InQueue, Back
<1>7. HandsOK'
  <2>1. /\ Looking(t)' \/ Resting(t)' => cur[t] = None
        /\ Resting(t)' => nextWork[t] = None
        /\ Fetched(t)' => cur[t] \in Items
        /\ Fetched(t)' /\ cur[t] \in Works => cur[t] \in scheduled /\ cur[t] \notin started
        /\ Running(t)' => cur[t] \in Works /\ cur[t] \in started /\ cur[t] \notin finished
        /\ pc'[t] = "token" => cur[t] \in Threads
        /\ pc'[t] = "offer" => nextWork[t] # None
    BY <1>2 DEF HandsOK, MovesOn, At
  <2>2. ASSUME NEW u \in Threads
        PROVE  /\ Looking(u)' \/ Resting(u)' => cur[u] = None
               /\ Resting(u)' => nextWork[u] = None
               /\ Fetched(u)' => cur[u] \in Items
               /\ Fetched(u)' /\ cur[u] \in Works => cur[u] \in scheduled /\ cur[u] \notin started
               /\ Running(u)' => cur[u] \in Works /\ cur[u] \in started /\ cur[u] \notin finished
               /\ pc'[u] = "token" => cur[u] \in Threads
               /\ pc'[u] = "offer" => nextWork[u] # None
    <3>1. CASE u = t BY <2>1, <3>1
    <3>2. CASE u # t BY <1>3, <3>2 DEF HandsOK
    <3>3. QED BY <3>1, <3>2
  <2>3. QED BY <1>1, <2>2 DEF HandsOK, InQueue
<1>8. NothingLost'
  BY <1>1 DEF NothingLost, Held, InQueue
<1>9. ScriptsOK'
  <2>1. \A s \in Steps : NotDone(s)' <=> NotDone(s)
    <3>1. \A s \in Steps : s.op = "start" => s.x \in Actors
      BY Kinds DEF Steps
    <3>2. QED BY <1>1, <1>4, <3>1 DEF NotDone
  <2>2. \A u \in Threads : Running(u)' <=> Running(u)
    BY <1>3 DEF MovesOn
  <2>3. QED BY <1>1, <2>1, <2>2 DEF ScriptsOK
<1>10. QED BY <1>5, <1>6, <1>7, <1>8, <1>9

(* The other threads do what they did.                                     *)
LEMMA OthersKeepPlace ==
  ASSUME NEW t \in Threads, NEW p, NEW r, At(t, p, r)
  PROVE  /\ \A u \in Threads : u # t =>
              /\ (Looking(u)' <=> Looking(u)) /\ (Fetched(u)' <=> Fetched(u))
              /\ (Running(u)' <=> Running(u)) /\ (Resting(u)' <=> Resting(u)) /\ pc'[u] = pc[u]
         /\ \A b \in Actors : b # t => pc'[b] = pc[b]
BY Kinds DEF At, Looking, Fetched, Running, Resting, Place

(* What is not done stays so, when nothing is scheduled and nobody starts. *)
LEMMA NotDoneKeeps ==
  ASSUME UNCHANGED scheduled, NEW a \in Actors, NEW p, NEW r, At(a, p, r),
         pc[a] # "off", p # "off"
  PROVE  \A s \in Steps : NotDone(s)' <=> NotDone(s)
<1>1. \A s \in Steps : s.op = "start" => s.x \in Actors
  BY Kinds DEF Steps
<1>2. \A b \in Actors : pc'[b] = "off" <=> pc[b] = "off"
  BY DEF At
<1>3. QED BY <1>1, <1>2 DEF NotDone

(* A thread takes the front item of a queue.                               *)
LEMMA TakeKeepsWork ==
  ASSUME PcOK, WorkInv, NEW t \in Threads, NEW c \in Threads, NEW p, NEW r, At(t, p, r),
         CanDequeue(c), Dequeue(t, c), Looking(t) \/ Resting(t), pc[t] \notin MarkedPCs,
         \/ p = "run" /\ r = "get"
         \/ p = "offer" /\ r = "run" /\ nextWork[t] # None,
         UNCHANGED <<program, toLink, nextWork, todo, scheduled, started, finished>>
  PROVE  WorkInv'
<1> USE DEF WorkInv
<1>0. PICK f \in Items : f = Front(c)
  <2>1. Front(c) \in Items BY DequeueLists DEF Dequeue
  <2>2. QED BY <2>1
<1>1. t \in Actors
  BY Kinds
<1>2. /\ QueuesOK' /\ f \in Items /\ On(queue[c], f)
      /\ \A d \in Threads : \A x : On(queue[d], x)' <=> On(queue[d], x) /\ x # f
      /\ \A x : InQueue(x)' <=> InQueue(x) /\ x # f
      /\ \A d \in Threads : Back(d)' = Back(d)
  BY <1>0, DequeueLists DEF Dequeue
<1>3. linked' = linked \ {f} /\ f \in linked /\ InQueue(f)
  BY <1>0, <1>2 DEF Dequeue, CanDequeue, InQueue
<1>4. /\ cur'[t] = f /\ \A u \in Threads : u # t => cur'[u] = cur[u]
      /\ cur' \in [Threads -> Items \cup {None}] /\ cur[t] = None
  BY <1>0, <1>2 DEF Dequeue, HandsOK
<1>5. \A a \in Actors : \A l \in {"link", "linkToken"} : pc'[a] = l <=> pc[a] = l
  BY <1>1 DEF At, MarkedPCs
<1>6. ~Looking(t)' /\ ~Resting(t)' /\ Fetched(t)' /\ ~Running(t)' /\ pc'[t] # "token"
  BY DEF At, Looking, Resting, Fetched, Running, Place, InCallPCs, UnpausePCs, LockPCs, LookPCs, RestPCs
<1>7. LinksOK'
  <2>1. \A a \in Actors : toLink[a] # None => toLink[a] # f
    BY <1>3 DEF LinksOK
  <2>2. \A x \in linked' : InQueue(x)'
    BY <1>2, <1>3 DEF LinksOK
  <2>3. ASSUME NEW a \in Actors, toLink[a] # None
        PROVE  \E d \in Threads : On(queue[d], toLink[a])' /\ toLink[a] # Back(d)'
    BY <1>2, <2>1, <2>3 DEF LinksOK
  <2>4. linked' \subseteq Items /\ \A x \in linked' : x \in linked
    BY <1>3 DEF LinksOK
  <2>5. QED BY <1>5, <2>1, <2>2, <2>3, <2>4 DEF LinksOK
<1>8. HandsOK'
  <2>1. /\ f \in Works => f \in scheduled /\ f \notin started
        /\ \A u \in Threads : cur[u] # f /\ nextWork[u] # f
    BY <1>2, <1>3, Kinds DEF QueuesOK, HandsOK
  <2>2. \A x : InQueue(x)' => InQueue(x)
    BY <1>2
  <2>3. \A u \in Threads : u # t =>
              /\ (Looking(u)' <=> Looking(u)) /\ (Fetched(u)' <=> Fetched(u))
              /\ (Running(u)' <=> Running(u)) /\ (Resting(u)' <=> Resting(u)) /\ pc'[u] = pc[u]
    BY OthersKeepPlace
  <2>4. ~InQueue(f)'
    BY <1>2
  <2>5. ASSUME NEW u \in Threads
        PROVE  /\ Looking(u)' \/ Resting(u)' => cur'[u] = None
               /\ Resting(u)' => nextWork[u] = None
               /\ Fetched(u)' => cur'[u] \in Items
               /\ Fetched(u)' /\ cur'[u] \in Works => cur'[u] \in scheduled /\ cur'[u] \notin started
               /\ Running(u)' => cur'[u] \in Works /\ cur'[u] \in started /\ cur'[u] \notin finished
               /\ pc'[u] = "token" => cur'[u] \in Threads
               /\ pc'[u] = "offer" => nextWork[u] # None
               /\ nextWork[u] # None => nextWork[u] \in scheduled /\ nextWork[u] \notin started /\ ~InQueue(nextWork[u])'
               /\ cur'[u] # None => ~InQueue(cur[u])'
    <3>1. CASE u = t
      <4>1. pc'[u] = "offer" => nextWork[u] # None
        BY <3>1 DEF At
      <4>2. nextWork[u] # None => nextWork[u] \in scheduled /\ nextWork[u] \notin started /\ ~InQueue(nextWork[u])'
        BY <2>2 DEF HandsOK
      <4>3. QED BY <1>2, <1>4, <1>6, <2>1, <2>4, <3>1, <4>1, <4>2
    <3>2. CASE u # t BY <1>4, <2>2, <2>3, <3>2 DEF HandsOK
    <3>3. QED BY <3>1, <3>2
  <2>6. ASSUME NEW v \in Threads, NEW u \in Threads
        PROVE  /\ nextWork[v] # None /\ nextWork[u] = nextWork[v] => u = v
               /\ cur'[v] # None /\ cur'[u] = cur'[v] => u = v
               /\ cur'[v] # None => nextWork[u] # cur'[v]
    BY <1>4, <2>1 DEF HandsOK
  <2>7. nextWork' = nextWork /\ scheduled' = scheduled /\ started' = started /\ finished' = finished
    OBVIOUS
  <2>8. nextWork \in [Threads -> Works \cup {None}]
    BY DEF HandsOK
  <2>9. QED BY <1>4, <2>5, <2>6, <2>7, <2>8 DEF HandsOK
<1>9. NothingLost'
  <2>1. \A x \in Items : Held(x) => Held(x)'
    BY <1>4, Kinds DEF Held
  <2>2. Held(f)'
    BY <1>4 DEF Held
  <2>3. \A x \in Items : InQueue(x) \/ Held(x) => InQueue(x)' \/ Held(x)'
    BY <1>2, <2>1, <2>2
  <2>4. QED BY <2>3, Kinds DEF NothingLost
<1>10. ScriptsOK'
  <2>1. \A s \in Steps : NotDone(s)' <=> NotDone(s)
    <3>1. p # "off" /\ pc[t] # "off" BY DEF MarkedPCs
    <3>2. QED BY <1>1, <3>1, NotDoneKeeps
  <2>2. \A u \in Threads : Running(u)' <=> Running(u)
    <3>1. ~Running(t)
      BY DEF Looking, Resting, Running, LookPCs, RestPCs
    <3>2. QED BY <1>6, <3>1, OthersKeepPlace
  <2>3. todo[t] = <<>>
    BY <1>6, <2>2 DEF ScriptsOK
  <2>4. ASSUME NEW u \in Threads, NEW s \in Steps, On(todo[u], s)
        PROVE  On(program.script[cur'[u]], s) /\ NotDone(s)'
    <3>1. u # t BY <2>3, <2>4, EmptyList
    <3>2. QED BY <1>4, <2>1, <2>4, <3>1 DEF ScriptsOK
  <2>5. QED BY <2>1, <2>2, <2>4 DEF ScriptsOK
<1>11. QED BY <1>2, <1>7, <1>8, <1>9, <1>10

(* A thread turns to its next_work.                                        *)
LEMMA UseNextKeepsWork ==
  ASSUME PcOK, WorkInv, NEW t \in Threads, At(t, "run", "get"), nextWork[t] # None,
         Looking(t), pc[t] \notin MarkedPCs,
         cur' = [cur EXCEPT ![t] = nextWork[t]], nextWork' = [nextWork EXCEPT ![t] = None],
         UNCHANGED <<program, queue, linked, toLink, todo, scheduled, started, finished>>
  PROVE  WorkInv'
<1> USE DEF WorkInv
<1>0. PICK f \in Works : f = nextWork[t]
  BY DEF HandsOK
<1>1. t \in Actors /\ f \in Items /\ f # None
  BY <1>0, Kinds
<1>2. /\ cur'[t] = f /\ \A u \in Threads : u # t => cur'[u] = cur[u] /\ nextWork'[u] = nextWork[u]
      /\ cur' \in [Threads -> Items \cup {None}] /\ cur[t] = None
      /\ nextWork'[t] = None /\ nextWork' \in [Threads -> Works \cup {None}]
  BY <1>0, <1>1 DEF HandsOK
<1>3. \A a \in Actors : \A l \in {"link", "linkToken"} : pc'[a] = l <=> pc[a] = l
  BY <1>1 DEF At, MarkedPCs
<1>4. ~Looking(t)' /\ ~Resting(t)' /\ Fetched(t)' /\ ~Running(t)' /\ pc'[t] = "run"
  BY DEF At, Looking, Resting, Fetched, Running, Place, InCallPCs, UnpausePCs, LockPCs, LookPCs, RestPCs
<1>5. QueuesOK' /\ \A x : InQueue(x)' <=> InQueue(x)
  BY DEF QueuesOK, Back, InQueue
<1>6. LinksOK'
  BY <1>3 DEF LinksOK, Back, InQueue
<1>7. HandsOK'
  <2>1. f \in scheduled /\ f \notin started /\ ~InQueue(f) /\ \A u \in Threads : cur[u] # f /\ (u # t => nextWork[u] # f)
    BY <1>0, <1>1, <1>2 DEF HandsOK
  <2>2. \A u \in Threads : u # t =>
              /\ (Looking(u)' <=> Looking(u)) /\ (Fetched(u)' <=> Fetched(u))
              /\ (Running(u)' <=> Running(u)) /\ (Resting(u)' <=> Resting(u)) /\ pc'[u] = pc[u]
    BY OthersKeepPlace
  <2>3. ASSUME NEW u \in Threads
        PROVE  /\ Looking(u)' \/ Resting(u)' => cur'[u] = None
               /\ Resting(u)' => nextWork'[u] = None
               /\ Fetched(u)' => cur'[u] \in Items
               /\ Fetched(u)' /\ cur'[u] \in Works => cur'[u] \in scheduled /\ cur'[u] \notin started
               /\ Running(u)' => cur'[u] \in Works /\ cur'[u] \in started /\ cur'[u] \notin finished
               /\ pc'[u] = "token" => cur'[u] \in Threads
               /\ pc'[u] = "offer" => nextWork'[u] # None
               /\ nextWork'[u] # None => nextWork'[u] \in scheduled /\ nextWork'[u] \notin started /\ ~InQueue(nextWork[u])'
               /\ cur'[u] # None => ~InQueue(cur[u])'
    <3>1. CASE u = t BY <1>1, <1>2, <1>4, <1>5, <2>1, <3>1
    <3>2. CASE u # t BY <1>2, <1>5, <2>2, <3>2 DEF HandsOK
    <3>3. QED BY <3>1, <3>2
  <2>4. ASSUME NEW v \in Threads, NEW u \in Threads
        PROVE  /\ nextWork'[v] # None /\ nextWork'[u] = nextWork'[v] => u = v
               /\ cur'[v] # None /\ cur'[u] = cur'[v] => u = v
               /\ cur'[v] # None => nextWork'[u] # cur'[v]
    BY <1>1, <1>2, <2>1 DEF HandsOK
  <2>5. scheduled' = scheduled /\ started' = started /\ finished' = finished
    OBVIOUS
  <2>6. QED BY <1>2, <2>3, <2>4, <2>5 DEF HandsOK
<1>8. NothingLost'
  <2>1. \A x \in Items : Held(x) => Held(x)'
    BY <1>0, <1>2, Kinds DEF Held
  <2>2. QED BY <1>5, <2>1, Kinds DEF NothingLost
<1>9. ScriptsOK'
  <2>1. \A s \in Steps : NotDone(s)' <=> NotDone(s)
    <3>1. pc[t] # "off" BY DEF MarkedPCs
    <3>2. QED BY <1>1, <3>1, NotDoneKeeps
  <2>2. \A u \in Threads : Running(u)' <=> Running(u)
    <3>1. ~Running(t)
      BY DEF Looking, Running, LookPCs
    <3>2. QED BY <1>4, <3>1, OthersKeepPlace
  <2>3. todo[t] = <<>>
    BY <1>4, <2>2 DEF ScriptsOK
  <2>4. ASSUME NEW u \in Threads, NEW s \in Steps, On(todo[u], s)
        PROVE  On(program.script[cur'[u]], s) /\ NotDone(s)'
    <3>1. u # t BY <2>3, <2>4, EmptyList
    <3>2. QED BY <1>2, <2>1, <2>4, <3>1 DEF ScriptsOK
  <2>5. QED BY <2>1, <2>2, <2>4 DEF ScriptsOK
<1>10. QED BY <1>5, <1>6, <1>7, <1>8, <1>9

(* An item is put at the back of a queue, not linked yet.                  *)
LEMMA EnqueueKeepsLinks ==
  ASSUME PcOK, WorkInv, NEW t \in Threads, NEW c \in Threads, NEW x \in Items, NEW r, NEW p \in {"link", "linkToken"},
         At(t, p, r), pc[t] \notin {"link", "linkToken"}, Enqueue(t, c, x), ~InQueue(x),
         x \in Threads => x = c, x \in Works => x \in scheduled /\ x \notin started,
         UNCHANGED <<scheduled, started>>
  PROVE  QueuesOK' /\ LinksOK' /\ (\A y : InQueue(y)' <=> InQueue(y) \/ y = x)
<1> USE DEF WorkInv
<1>1. t \in Actors /\ x \notin linked
  BY Kinds DEF LinksOK
<1>2. linked' = linked /\ queue' = [queue EXCEPT ![c] = Append(@, x)]
  BY DEF Enqueue
<1>3. /\ QueuesOK' /\ On(queue[c], Back(c)) /\ Back(c) \in Items
      /\ \A d \in Threads : \A y : On(queue[d], y)' <=> On(queue[d], y) \/ (d = c /\ y = x)
      /\ \A y : InQueue(y)' <=> InQueue(y) \/ y = x
      /\ \A d \in Threads : Back(d)' = IF d = c THEN x ELSE Back(d)
  BY <1>1, <1>2, EnqueueLists
<1>4. PICK b \in Items : b = Back(c) /\ On(queue[c], b) /\ b # None /\ b # x /\ b \notin linked
  BY <1>3, Kinds DEF InQueue, QueuesOK
<1>5. /\ toLink'[t] = b /\ \A a \in Actors : a # t => toLink'[a] = toLink[a]
      /\ toLink' \in [Actors -> Items \cup {None}]
  BY <1>1, <1>4 DEF Enqueue, LinksOK
<1>6. toLink[t] = None /\ \A a \in Actors : a # t => pc'[a] = pc[a]
  BY <1>1 DEF LinksOK, At
<1>7. \A a \in Actors : toLink[a] # b
  BY <1>4 DEF LinksOK, QueuesOK
<1>8. LinksOK'
  <2>1. \A y \in linked : InQueue(y)'
    BY <1>3 DEF LinksOK
  <2>2. ASSUME NEW a \in Actors
        PROVE  /\ toLink'[a] # None <=> pc'[a] \in {"link", "linkToken"}
               /\ toLink'[a] # None => toLink'[a] \notin linked
               /\ \A e \in Actors : toLink'[a] # None /\ toLink'[e] = toLink'[a] => a = e
    BY <1>1, <1>4, <1>5, <1>6, <1>7 DEF LinksOK, At
  <2>3. ASSUME NEW a \in Actors, toLink'[a] # None
        PROVE  \E d \in Threads : On(queue[d], toLink[a])' /\ toLink'[a] # Back(d)'
    <3>1. CASE a = t
      <4>1. On(queue[c], b)' /\ b # Back(c)' BY <1>3, <1>4
      <4>2. QED BY <1>5, <3>1, <4>1
    <3>2. CASE a # t
      <4>1. PICK y : y = toLink[a] OBVIOUS
      <4>2. toLink'[a] = y /\ y # None BY <1>5, <2>3, <3>2, <4>1
      <4>3. PICK d \in Threads : On(queue[d], y) /\ y # Back(d) BY <4>1, <4>2 DEF LinksOK
      <4>4. InQueue(y) /\ y # x BY <4>3 DEF InQueue
      <4>5. On(queue[d], y)' /\ y # Back(d)' BY <1>3, <4>3, <4>4
      <4>6. QED BY <4>2, <4>5
    <3>3. QED BY <3>1, <3>2
  <2>4. linked' \subseteq Items
    BY <1>2 DEF LinksOK
  <2>5. QED BY <1>2, <1>5, <2>1, <2>2, <2>3, <2>4 DEF LinksOK
<1>9. QED BY <1>3, <1>8

(* A token goes back to its queue.                                         *)
LEMMA TokenBackKeepsWork ==
  ASSUME PcOK, WorkInv, NEW t \in Threads, TokenBack(t)
  PROVE  WorkInv'
<1> USE DEF WorkInv
<1>0. pc[t] = "token" /\ t \in Actors /\ At(t, "linkToken", ret[t]) /\ ret[t] = "get"
  BY Kinds, GotoAt DEF TokenBack, PcOK, ThreadAt, InCallPCs, UnpausePCs, LockPCs
<1>1. PICK x \in Items : x = cur[t] /\ x \in Threads
  BY <1>0, Kinds DEF HandsOK
<1>2. UNCHANGED <<program, nextWork, todo, scheduled, started, finished>>
  BY DEF TokenBack, history
<1>3. x # None /\ ~InQueue(x) /\ x \notin Works /\ Enqueue(t, x, x)
  BY <1>1, Kinds DEF HandsOK, TokenBack
<1>4. QueuesOK' /\ LinksOK' /\ (\A y : InQueue(y)' <=> InQueue(y) \/ y = x)
  BY <1>0, <1>1, <1>2, <1>3, EnqueueKeepsLinks
<1>5. /\ cur'[t] = None /\ \A u \in Threads : u # t => cur'[u] = cur[u]
      /\ cur' \in [Threads -> Items \cup {None}]
  BY DEF TokenBack, HandsOK
<1>6. Looking(t)' /\ ~Resting(t)' /\ ~Fetched(t)' /\ ~Running(t)' /\ ~Running(t)
  BY <1>0 DEF At, Looking, Resting, Fetched, Running, Place, InCallPCs, UnpausePCs, LockPCs, LookPCs, RestPCs
<1>7. HandsOK'
  <2>1. \A u \in Threads : (u # t => cur[u] # x) /\ nextWork[u] # x
    BY <1>1, <1>3 DEF HandsOK
  <2>2. \A u \in Threads : u # t =>
              /\ (Looking(u)' <=> Looking(u)) /\ (Fetched(u)' <=> Fetched(u))
              /\ (Running(u)' <=> Running(u)) /\ (Resting(u)' <=> Resting(u)) /\ pc'[u] = pc[u]
    BY <1>0, OthersKeepPlace
  <2>3. ASSUME NEW u \in Threads, nextWork[u] # None
        PROVE nextWork[u] \in scheduled /\ nextWork[u] \notin started /\ ~InQueue(nextWork[u])'
    BY <1>2, <1>4, <2>1, <2>3 DEF HandsOK
  <2>4. ASSUME NEW u \in Threads
        PROVE  /\ Looking(u)' \/ Resting(u)' => cur'[u] = None
               /\ Resting(u)' => nextWork[u] = None
               /\ Fetched(u)' => cur'[u] \in Items
               /\ Fetched(u)' /\ cur'[u] \in Works => cur'[u] \in scheduled /\ cur'[u] \notin started
               /\ Running(u)' => cur'[u] \in Works /\ cur'[u] \in started /\ cur'[u] \notin finished
               /\ pc'[u] = "token" => cur'[u] \in Threads
               /\ pc'[u] = "offer" => nextWork[u] # None
               /\ cur'[u] # None => ~InQueue(cur[u])'
    <3>1. CASE u = t BY <1>0, <1>5, <1>6, <3>1 DEF At
    <3>2. CASE u # t BY <1>4, <1>5, <2>1, <2>2, <3>2 DEF HandsOK
    <3>3. QED BY <3>1, <3>2
  <2>5. ASSUME NEW v \in Threads, NEW u \in Threads
        PROVE  /\ nextWork[v] # None /\ nextWork[u] = nextWork[v] => u = v
               /\ cur'[v] # None /\ cur'[u] = cur'[v] => u = v
               /\ cur'[v] # None => nextWork[u] # cur'[v]
    BY <1>5 DEF HandsOK
  <2>6. nextWork \in [Threads -> Works \cup {None}]
    BY DEF HandsOK
  <2>7. QED BY <1>2, <1>5, <2>3, <2>4, <2>5, <2>6 DEF HandsOK
<1>8. NothingLost'
  <2>1. \A y \in Items : y # x => (Held(y) => Held(y)')
    BY <1>1, <1>2, <1>5 DEF Held
  <2>2. QED BY <1>2, <1>4, <2>1, Kinds DEF NothingLost
<1>9. ScriptsOK'
  <2>1. \A s \in Steps : NotDone(s)' <=> NotDone(s)
    BY <1>0, <1>2, NotDoneKeeps
  <2>2. \A u \in Threads : Running(u)' <=> Running(u)
    BY <1>0, <1>6, OthersKeepPlace
  <2>3. todo[t] = <<>>
    BY <1>6 DEF ScriptsOK
  <2>4. ASSUME NEW u \in Threads, NEW s \in Steps, On(todo[u], s)
        PROVE  On(program.script[cur'[u]], s) /\ NotDone(s)'
    <3>1. u # t BY <2>3, <2>4, EmptyList
    <3>2. QED BY <1>5, <2>1, <2>4, <3>1 DEF ScriptsOK
  <2>5. QED BY <1>2, <2>1, <2>2, <2>4 DEF ScriptsOK
<1>10. QED BY <1>4, <1>7, <1>8, <1>9

(* A thread offers its next_work to the others.                            *)
LEMMA OfferKeepsWork ==
  ASSUME PcOK, WorkInv, NEW t \in Threads, Offer(t)
  PROVE  WorkInv'
<1> USE DEF WorkInv
<1>0. pc[t] = "offer" /\ t \in Actors /\ At(t, "link", ret[t])
  BY Kinds, GotoAt DEF Offer
<1>1. PICK x \in Works : x = nextWork[t]
  BY <1>0 DEF HandsOK
<1>2. UNCHANGED <<program, cur, todo, scheduled, started, finished>>
  BY DEF Offer, history
<1>3. x \in Items /\ x # None /\ x \notin Threads /\ x \in scheduled /\ x \notin started /\ ~InQueue(x) /\ Enqueue(t, t, x)
  BY <1>1, Kinds DEF HandsOK, Offer
<1>4. QueuesOK' /\ LinksOK' /\ (\A y : InQueue(y)' <=> InQueue(y) \/ y = x)
  BY <1>0, <1>2, <1>3, EnqueueKeepsLinks
<1>5. /\ nextWork'[t] = None /\ \A u \in Threads : u # t => nextWork'[u] = nextWork[u]
      /\ nextWork' \in [Threads -> Works \cup {None}]
  BY DEF Offer, HandsOK
<1>6. \A u \in Threads :
              /\ (Looking(u)' <=> Looking(u)) /\ (Fetched(u)' <=> Fetched(u))
              /\ (Running(u)' <=> Running(u)) /\ (Resting(u)' <=> Resting(u)) /\ (u # t => pc'[u] = pc[u])
  <2>1. Place(t)' = Place(t)
    BY <1>0 DEF At, Place, InCallPCs
  <2>2. QED BY <1>0, <2>1, OthersKeepPlace DEF Looking, Resting, Fetched, Running
<1>7. HandsOK'
  <2>1. \A u \in Threads : cur[u] # x /\ (u # t => nextWork[u] # x)
    BY <1>1, <1>3 DEF HandsOK
  <2>2. ASSUME NEW u \in Threads, nextWork'[u] # None
        PROVE nextWork'[u] \in scheduled /\ nextWork'[u] \notin started /\ ~InQueue(nextWork[u])'
    BY <1>4, <1>5, <2>1, <2>2 DEF HandsOK
  <2>3. ASSUME NEW u \in Threads
        PROVE  /\ Looking(u)' \/ Resting(u)' => cur[u] = None
               /\ Resting(u)' => nextWork'[u] = None
               /\ Fetched(u)' => cur[u] \in Items
               /\ Fetched(u)' /\ cur[u] \in Works => cur[u] \in scheduled /\ cur[u] \notin started
               /\ Running(u)' => cur[u] \in Works /\ cur[u] \in started /\ cur[u] \notin finished
               /\ pc'[u] = "token" => cur[u] \in Threads
               /\ pc'[u] = "offer" => nextWork'[u] # None
               /\ cur[u] # None => ~InQueue(cur[u])'
    BY <1>0, <1>2, <1>4, <1>5, <1>6, <2>1 DEF HandsOK, At
  <2>4. ASSUME NEW v \in Threads, NEW u \in Threads
        PROVE  /\ nextWork'[v] # None /\ nextWork'[u] = nextWork'[v] => u = v
               /\ cur[v] # None /\ cur[u] = cur[v] => u = v
               /\ cur[v] # None => nextWork'[u] # cur[v]
    BY <1>5 DEF HandsOK
  <2>5. cur \in [Threads -> Items \cup {None}]
    BY DEF HandsOK
  <2>6. QED BY <1>2, <1>5, <2>2, <2>3, <2>4, <2>5 DEF HandsOK
<1>8. NothingLost'
  <2>1. \A y \in Items : y # x => (Held(y) => Held(y)')
    BY <1>1, <1>2, <1>5 DEF Held
  <2>2. QED BY <1>2, <1>4, <2>1, Kinds DEF NothingLost
<1>9. ScriptsOK'
  <2>1. \A s \in Steps : NotDone(s)' <=> NotDone(s)
    BY <1>0, <1>2, NotDoneKeeps
  <2>2. QED BY <1>2, <1>6, <2>1 DEF ScriptsOK
<1>10. QED BY <1>4, <1>7, <1>8, <1>9

(* The store that follows the exchange of `back`.                          *)
LEMMA LinkKeepsWork ==
  ASSUME PcOK, WorkInv, NEW t \in Threads, LinkToken(t) \/ Link(t)
  PROVE  WorkInv'
<1> USE DEF WorkInv
<1>0. t \in Actors /\ pc[t] \in {"linkToken", "link"} /\ LinkBack(t)
  BY Kinds DEF LinkToken, Link
<1>1. UNCHANGED <<program, queue, nextWork, cur, todo, scheduled, started, finished>>
  BY DEF LinkToken, Link, localVars, history
<1>2. \/ pc[t] = "linkToken" /\ ret[t] = "get" /\ At(t, "get", ret[t])
      \/ pc[t] = "link" /\ At(t, "unpause", ret[t])
  BY <1>0, GotoAt DEF LinkToken, Link, PcOK, ThreadAt, InCallPCs, UnpausePCs, LockPCs
<1>3. PICK x \in Items : x = toLink[t] /\ x # None /\ x \notin linked
  BY <1>0, Kinds DEF LinksOK
<1>4. PICK c \in Threads : On(queue[c], x) /\ x # Back(c)
  BY <1>0, <1>3 DEF LinksOK
<1>5. /\ linked' = linked \cup {x} /\ toLink'[t] = None /\ \A a \in Actors : a # t => toLink'[a] = toLink[a]
      /\ toLink' \in [Actors -> Items \cup {None}]
  BY <1>0, <1>3, Kinds DEF LinkBack, LinksOK
<1>6. \A u \in Threads :
              /\ (Looking(u)' <=> Looking(u)) /\ (Fetched(u)' <=> Fetched(u))
              /\ (Running(u)' <=> Running(u)) /\ (Resting(u)' <=> Resting(u)) /\ (u # t => pc'[u] = pc[u])
  <2>1. Looking(t)' <=> Looking(t)
    BY <1>2 DEF At, Looking, Place, InCallPCs, UnpausePCs, LockPCs, LookPCs
  <2>2. /\ (Fetched(t)' <=> Fetched(t)) /\ (Running(t)' <=> Running(t)) /\ (Resting(t)' <=> Resting(t))
    BY <1>2 DEF At, Fetched, Running, Resting, Place, InCallPCs, UnpausePCs, LockPCs, RestPCs
  <2>3. QED BY <1>2, <2>1, <2>2, OthersKeepPlace
<1>7. pc'[t] \notin {"link", "linkToken", "token", "offer", "off"} /\ \A a \in Actors : a # t => pc'[a] = pc[a]
  BY <1>2 DEF At
<1>8. QueuesOK'
  <2>1. ASSUME NEW d \in Threads PROVE Back(d) # x
    <3>1. On(queue[d], Back(d)) BY AppendToList, Kinds DEF QueuesOK, Back
    <3>2. QED BY <1>4, <3>1 DEF QueuesOK
  <2>2. QED BY <1>1, <1>5, <2>1 DEF QueuesOK, Back
<1>9. LinksOK'
  <2>1. \A y : InQueue(y)' <=> InQueue(y)
    BY <1>1 DEF InQueue
  <2>2. linked' \subseteq Items /\ \A y \in linked' : InQueue(y)
    BY <1>4, <1>5 DEF LinksOK, InQueue
  <2>3. ASSUME NEW a \in Actors
        PROVE  /\ toLink'[a] # None <=> pc'[a] \in {"link", "linkToken"}
               /\ toLink'[a] # None => toLink'[a] \notin linked'
               /\ \A e \in Actors : toLink'[a] # None /\ toLink'[e] = toLink'[a] => a = e
    BY <1>0, <1>3, <1>5, <1>7 DEF LinksOK
  <2>4. ASSUME NEW a \in Actors, toLink'[a] # None
        PROVE  \E d \in Threads : On(queue[d], toLink'[a]) /\ toLink'[a] # Back(d)
    BY <1>5, <2>4 DEF LinksOK
  <2>5. QED BY <1>1, <1>5, <2>1, <2>2, <2>3, <2>4 DEF LinksOK, Back
<1>10. HandsOK'
  BY <1>1, <1>6, <1>7 DEF HandsOK, InQueue
<1>11. NothingLost'
  BY <1>1 DEF NothingLost, Held, InQueue
<1>12. ScriptsOK'
  <2>1. \A s \in Steps : NotDone(s)' <=> NotDone(s)
    BY <1>0, <1>1, <1>2, NotDoneKeeps
  <2>2. QED BY <1>1, <1>6, <2>1 DEF ScriptsOK
<1>13. QED BY <1>8, <1>9, <1>10, <1>11, <1>12

(* Each step to spawn, start or push occurs once in the programs.          *)
LEMMA ProgramSteps ==
  ASSUME program \in Programs
  PROVE  /\ \A v \in Works : program.script[v] \in Seq(Steps) /\ Once(program.script[v])
         /\ \A v, w \in Works : \A s \in Steps :
              On(program.script[v], s) /\ On(program.script[w], s) /\ s.op \in OnceSteps => v = w
         /\ \A v \in Works : \A s \in Steps : On(program.script[v], s) /\ s.op = "spawn" =>
              s.w # Root /\ \A x \in Externals : ~On(program.pushes[x], s.w)
         /\ \A x \in Externals :
              /\ program.pushes[x] \in Seq(Works) /\ Distinct(program.pushes[x])
              /\ ~On(program.pushes[x], Root)
              /\ \A y \in Externals : \A w \in Works :
                   On(program.pushes[x], w) /\ On(program.pushes[y], w) => x = y
<1>2. /\ \A v \in Works : program.script[v] \in Seq(Steps)
      /\ \A x \in Externals : program.pushes[x] \in Seq(Works)
  BY WorkAssumption
<1>3. /\ \A v \in Works : DOMAIN program.script[v] = 1 .. Len(program.script[v])
      /\ \A x \in Externals : DOMAIN program.pushes[x] = 1 .. Len(program.pushes[x])
  BY <1>2
<1>4. /\ \A v, w \in Works : \A i \in 1 .. Len(program.script[v]), j \in 1 .. Len(program.script[w]) :
           program.script[v][i] = program.script[w][j] /\ program.script[v][i].op \in OnceSteps => v = w /\ i = j
      /\ \A x, y \in Externals : \A i \in 1 .. Len(program.pushes[x]), j \in 1 .. Len(program.pushes[y]) :
           program.pushes[x][i] = program.pushes[y][j] => x = y /\ i = j
      /\ \A v \in Works : \A i \in 1 .. Len(program.script[v]) : program.script[v][i].op = "spawn" =>
           /\ program.script[v][i].w # Root
           /\ \A x \in Externals : \A j \in 1 .. Len(program.pushes[x]) : program.pushes[x][j] # program.script[v][i].w
      /\ \A x \in Externals : \A j \in 1 .. Len(program.pushes[x]) : program.pushes[x][j] # Root
  BY <1>3, ProgramAssumption DEF OnceSteps
<1>5. \A v \in Works : Once(program.script[v])
  BY <1>4 DEF Once
<1>6. \A v, w \in Works : \A s \in Steps :
        On(program.script[v], s) /\ On(program.script[w], s) /\ s.op \in OnceSteps => v = w
  BY <1>4 DEF On
<1>7. \A v \in Works : \A s \in Steps : On(program.script[v], s) /\ s.op = "spawn" =>
        s.w # Root /\ \A x \in Externals : ~On(program.pushes[x], s.w)
  BY <1>4 DEF On
<1>8. \A x \in Externals : Distinct(program.pushes[x]) /\ ~On(program.pushes[x], Root)
  BY <1>4 DEF On, Distinct
<1>9. \A x, y \in Externals : \A w \in Works : On(program.pushes[x], w) /\ On(program.pushes[y], w) => x = y
  BY <1>4 DEF On
<1>10. QED BY <1>2, <1>5, <1>6, <1>7, <1>8, <1>9

(* What a thread has got was scheduled.                                    *)
LEMMA HandsScheduled ==
  ASSUME PcOK, HandsOK, NothingLost, NEW t \in Threads
  PROVE  /\ cur[t] \in Works => cur[t] \in scheduled
         /\ nextWork[t] # None => nextWork[t] \in scheduled
<1>1. cur[t] # None => Fetched(t) \/ Running(t) \/ pc[t] = "token"
  BY DEF PcOK, ThreadAt, HandsOK, Looking, Resting, Fetched, Running, Place, LookPCs, RestPCs,
         InCallPCs, UnpausePCs, LockPCs
<1>2. cur[t] \in Works => cur[t] # None /\ cur[t] \notin Threads
  BY Kinds
<1>3. QED BY <1>1, <1>2 DEF HandsOK, NothingLost

(* A thread takes a step off its program.                                  *)
LEMMA StepDoneKeepsScripts ==
  ASSUME ScriptsOK, HandsOK, NEW t \in Threads, Running(t), todo[t] # <<>>, StepDone(t),
         NEW h \in Steps, h = Head(todo[t]),
         \A s \in Steps : NotDone(s) /\ ~(s = h /\ s.op \in OnceSteps) => NotDone(s)',
         \A w \in scheduled' : w \in scheduled \/ (h.op = "spawn" /\ w = h.w),
         \A u \in Threads : Running(u)' <=> Running(u),
         UNCHANGED <<program, cur, started>>
  PROVE  ScriptsOK'
<1>1. todo[t] \in Seq(Steps) /\ h = todo[t][1] /\ On(todo[t], h)
  BY TailOfList DEF ScriptsOK
<1>2. /\ todo'[t] = Tail(todo[t]) /\ \A a \in Actors : a # t => todo'[a] = todo[a]
      /\ todo' = [a \in Actors |-> todo'[a]]
  BY Kinds DEF StepDone, ScriptsOK
<1>3. /\ todo'[t] \in Seq(Steps) /\ Once(todo'[t]) /\ \A s : On(todo'[t], s) => On(todo[t], s)
      /\ h.op \in OnceSteps => ~On(todo'[t], h)
  BY <1>1, <1>2, TailOfList DEF ScriptsOK
<1>4. On(program.script[cur[t]], h) /\ cur[t] \in Works /\ cur[t] \in started
  BY <1>1 DEF ScriptsOK, HandsOK
<1>5. ASSUME NEW u \in Threads
      PROVE  /\ todo'[u] \in Seq(Steps) /\ Once(todo'[u]) /\ (~Running(u) => todo'[u] = <<>>)
             /\ \A s \in Steps : On(todo'[u], s) => On(program.script[cur[u]], s) /\ NotDone(s)'
  <2>1. CASE u = t BY <1>3, <2>1 DEF ScriptsOK
  <2>2. CASE u # t
    <3>1. todo'[u] = todo[u] BY <1>2, <2>2, Kinds
    <3>2. ASSUME NEW s \in Steps, On(todo[u], s) PROVE ~(s = h /\ s.op \in OnceSteps)
      <4>1. Running(u) BY <3>2, EmptyList DEF ScriptsOK
      <4>2. cur[u] \in Works /\ cur[u] # cur[t] BY <2>2, <4>1, <1>4, Kinds DEF HandsOK
      <4>3. On(program.script[cur[u]], s) BY <3>2 DEF ScriptsOK
      <4>4. QED BY <1>4, <4>2, <4>3, ProgramSteps DEF ScriptsOK
    <3>3. QED BY <3>1, <3>2 DEF ScriptsOK
  <2>3. QED BY <2>1, <2>2
<1>6. ASSUME NEW v \in Works, v \notin started, NEW s \in Steps, On(program.script[v], s)
      PROVE  NotDone(s)'
  <2>1. ~(s = h /\ s.op \in OnceSteps) BY <1>4, <1>6, ProgramSteps DEF ScriptsOK
  <2>2. QED BY <1>6, <2>1 DEF ScriptsOK
<1>7. ASSUME NEW x \in Externals
      PROVE  /\ todo'[x] = todo[x]
             /\ \A w \in Works : On(todo[x], w) => w \notin scheduled'
  <2>1. todo'[x] = todo[x] BY <1>2, Kinds
  <2>2. ASSUME NEW w \in Works, On(todo[x], w), w \in scheduled' PROVE FALSE
    <3>1. On(program.pushes[x], w) /\ h.op = "spawn" /\ w = h.w BY <2>2 DEF ScriptsOK
    <3>2. QED BY <1>4, <3>1, ProgramSteps DEF ScriptsOK
  <2>3. QED BY <2>1, <2>2
<1>8. QED BY <1>2, <1>5, <1>6, <1>7 DEF ScriptsOK

(* A work item starts.                                                     *)
LEMMA RunWorkKeepsWork ==
  ASSUME PcOK, WorkInv, NEW t \in Threads, RunWork(t)
  PROVE  WorkInv'
<1> USE DEF WorkInv
<1>0. pc[t] = "run" /\ t \in Actors /\ At(t, "body", ret[t]) /\ ret[t] = "get"
  BY Kinds, GotoAt DEF RunWork, PcOK, ThreadAt, InCallPCs, UnpausePCs, LockPCs
<1>1. Fetched(t) /\ ~Running(t)
  BY <1>0 DEF Fetched, Running, Place, InCallPCs, UnpausePCs, LockPCs
<1>2. PICK w \in Works : w = cur[t] /\ w \in scheduled /\ w \notin started /\ ~InQueue(w) /\ w # None /\ w \notin Threads
  BY <1>1, Kinds DEF RunWork, HandsOK
<1>3. UNCHANGED <<program, queue, linked, toLink, nextWork, cur, scheduled, finished>> /\ started' = started \cup {w}
  BY <1>2 DEF RunWork, coreVars
<1>4. ~Looking(t)' /\ ~Resting(t)' /\ ~Fetched(t)' /\ Running(t)'
  BY <1>0 DEF At, Looking, Resting, Fetched, Running, Place, InCallPCs, UnpausePCs, LockPCs, LookPCs, RestPCs
<1>5. \A u \in Threads : u # t =>
              /\ (Looking(u)' <=> Looking(u)) /\ (Fetched(u)' <=> Fetched(u))
              /\ (Running(u)' <=> Running(u)) /\ (Resting(u)' <=> Resting(u)) /\ pc'[u] = pc[u]
  BY <1>0, OthersKeepPlace
<1>6. \A x : InQueue(x)' <=> InQueue(x)
  BY <1>3 DEF InQueue
<1>7. QueuesOK'
  BY <1>2, <1>3 DEF QueuesOK, Back, InQueue
<1>8. LinksOK'
  BY <1>0, <1>3 DEF LinksOK, InQueue, Back, At
<1>9. HandsOK'
  <2>1. \A u \in Threads : nextWork[u] # w /\ (u # t => cur[u] # w)
    BY <1>2 DEF HandsOK
  <2>2. w \notin finished
    BY <1>2 DEF NothingLost
  <2>3. ASSUME NEW u \in Threads
        PROVE  /\ Looking(u)' \/ Resting(u)' => cur[u] = None
               /\ Resting(u)' => nextWork[u] = None
               /\ Fetched(u)' => cur[u] \in Items
               /\ Fetched(u)' /\ cur[u] \in Works => cur[u] \in scheduled /\ cur[u] \notin started'
               /\ Running(u)' => cur[u] \in Works /\ cur[u] \in started' /\ cur[u] \notin finished
               /\ pc'[u] = "token" => cur[u] \in Threads
               /\ pc'[u] = "offer" => nextWork[u] # None
               /\ nextWork[u] # None => nextWork[u] \in scheduled /\ nextWork[u] \notin started' /\ ~InQueue(nextWork[u])
    <3>1. CASE u = t BY <1>0, <1>2, <1>3, <1>4, <2>1, <2>2, <3>1 DEF At, HandsOK
    <3>2. CASE u # t BY <1>3, <1>5, <2>1, <3>2 DEF HandsOK
    <3>3. QED BY <3>1, <3>2
  <2>4. QED BY <1>3, <1>6, <2>3 DEF HandsOK
<1>10. NothingLost'
  BY <1>2, <1>3, <1>6 DEF NothingLost, Held
<1>11. ScriptsOK'
  <2>1. \A s \in Steps : NotDone(s)' <=> NotDone(s)
    BY <1>0, <1>3, NotDoneKeeps
  <2>2. /\ todo'[t] = program.script[w] /\ \A a \in Actors : a # t => todo'[a] = todo[a]
        /\ todo' = [a \in Actors |-> todo'[a]]
    BY <1>0, <1>2 DEF RunWork, ScriptsOK
  <2>3. ASSUME NEW u \in Threads
        PROVE  /\ todo'[u] \in Seq(Steps) /\ Once(todo'[u]) /\ (~Running(u)' => todo'[u] = <<>>)
               /\ \A s \in Steps : On(todo'[u], s) => On(program.script[cur[u]], s) /\ NotDone(s)'
    <3>1. CASE u = t BY <1>2, <1>4, <2>1, <2>2, <3>1, ProgramSteps DEF ScriptsOK
    <3>2. CASE u # t BY <1>5, <2>1, <2>2, <3>2, Kinds DEF ScriptsOK
    <3>3. QED BY <3>1, <3>2
  <2>4. ASSUME NEW v \in Works, v \notin started', NEW s \in Steps, On(program.script[v], s)
        PROVE  NotDone(s)'
    BY <1>3, <2>1, <2>4 DEF ScriptsOK
  <2>5. \A x \in Externals : todo'[x] = todo[x]
    BY <2>2, Kinds
  <2>6. QED BY <1>3, <2>2, <2>3, <2>4, <2>5 DEF ScriptsOK
<1>12. QED BY <1>7, <1>8, <1>9, <1>10, <1>11

(* A work item is done.                                                    *)
LEMMA WorkReturnsKeepsWork ==
  ASSUME PcOK, WorkInv, NEW t \in Threads, WorkReturns(t)
  PROVE  WorkInv'
<1> USE DEF WorkInv
<1>0. pc[t] = "body" /\ t \in Actors /\ At(t, "get", ret[t]) /\ ret[t] = "get" /\ todo[t] = <<>>
  BY Kinds, GotoAt DEF WorkReturns, PcOK, ThreadAt, InCallPCs, UnpausePCs, LockPCs
<1>1. Running(t)
  BY <1>0 DEF Running, Place, InCallPCs, UnpausePCs, LockPCs
<1>2. PICK w \in Works : w = cur[t] /\ w \in started /\ w # None
  BY <1>1, Kinds DEF HandsOK
<1>3. UNCHANGED <<program, queue, linked, toLink, nextWork, todo, scheduled, started>> /\ finished' = finished \cup {w}
  BY <1>2 DEF WorkReturns, coreVars
<1>4. Looking(t)' /\ ~Resting(t)' /\ ~Fetched(t)' /\ ~Running(t)'
  BY <1>0 DEF At, Looking, Resting, Fetched, Running, Place, InCallPCs, UnpausePCs, LockPCs, LookPCs, RestPCs
<1>5. \A u \in Threads : u # t =>
              /\ (Looking(u)' <=> Looking(u)) /\ (Fetched(u)' <=> Fetched(u))
              /\ (Running(u)' <=> Running(u)) /\ (Resting(u)' <=> Resting(u)) /\ pc'[u] = pc[u]
  BY <1>0, OthersKeepPlace
<1>6. \A x : InQueue(x)' <=> InQueue(x)
  BY <1>3 DEF InQueue
<1>7. /\ cur'[t] = None /\ \A u \in Threads : u # t => cur'[u] = cur[u]
      /\ cur' \in [Threads -> Items \cup {None}]
  BY DEF WorkReturns, HandsOK
<1>8. QueuesOK'
  BY <1>3 DEF QueuesOK, Back
<1>9. LinksOK'
  BY <1>0, <1>3 DEF LinksOK, InQueue, Back, At
<1>10. HandsOK'
  <2>1. ASSUME NEW u \in Threads
        PROVE  /\ Looking(u)' \/ Resting(u)' => cur'[u] = None
               /\ Resting(u)' => nextWork[u] = None
               /\ Fetched(u)' => cur'[u] \in Items
               /\ Fetched(u)' /\ cur'[u] \in Works => cur'[u] \in scheduled /\ cur'[u] \notin started
               /\ Running(u)' => cur'[u] \in Works /\ cur'[u] \in started /\ cur'[u] \notin finished'
               /\ pc'[u] = "token" => cur'[u] \in Threads
               /\ pc'[u] = "offer" => nextWork[u] # None
               /\ cur'[u] # None => ~InQueue(cur[u])'
    <3>1. CASE u = t BY <1>0, <1>4, <1>7, <3>1 DEF At
    <3>2. CASE u # t
      <4>1. Running(u) => cur[u] # w BY <1>2, <3>2 DEF HandsOK
      <4>2. QED BY <1>3, <1>5, <1>6, <1>7, <3>2, <4>1 DEF HandsOK
    <3>3. QED BY <3>1, <3>2
  <2>2. ASSUME NEW v \in Threads, NEW u \in Threads
        PROVE  /\ cur'[v] # None /\ cur'[u] = cur'[v] => u = v
               /\ cur'[v] # None => nextWork[u] # cur'[v]
    BY <1>7 DEF HandsOK
  <2>3. nextWork \in [Threads -> Works \cup {None}] /\ \A v, u \in Threads : nextWork[v] # None /\ nextWork[u] = nextWork[v] => u = v
    BY DEF HandsOK
  <2>4. \A v \in Threads : nextWork[v] # None => nextWork[v] \in scheduled /\ nextWork[v] \notin started /\ ~InQueue(nextWork[v])
    BY DEF HandsOK
  <2>5. QED BY <1>3, <1>6, <1>7, <2>1, <2>2, <2>3, <2>4 DEF HandsOK
<1>11. NothingLost'
  <2>1. \A y \in Items : y # w => (Held(y) => Held(y)')
    BY <1>2, <1>3, <1>7 DEF Held
  <2>2. w \notin Threads
    BY Kinds
  <2>3. QED BY <1>2, <1>3, <1>6, <2>1, <2>2, Kinds DEF NothingLost
<1>12. ScriptsOK'
  <2>1. \A s \in Steps : NotDone(s)' <=> NotDone(s)
    BY <1>0, <1>3, NotDoneKeeps
  <2>2. ASSUME NEW u \in Threads
        PROVE  /\ (~Running(u)' => todo[u] = <<>>)
               /\ \A s \in Steps : On(todo[u], s) => On(program.script[cur'[u]], s) /\ NotDone(s)'
    <3>1. CASE u = t BY <1>0, <3>1, EmptyList
    <3>2. CASE u # t BY <1>5, <1>7, <2>1, <3>2 DEF ScriptsOK
    <3>3. QED BY <3>1, <3>2
  <2>3. QED BY <1>3, <2>1, <2>2 DEF ScriptsOK
<1>13. QED BY <1>8, <1>9, <1>10, <1>11, <1>12

(* The step a running item takes next.                                     *)
LEMMA NextStep ==
  ASSUME PcOK, ScriptsOK, HandsOK, NEW t \in Threads, NEW op, Doing(t, op)
  PROVE  /\ t \in Actors /\ Running(t) /\ pc[t] = "body" /\ ret[t] = "get" /\ todo[t] # <<>>
         /\ \E h \in Steps : /\ h = Head(todo[t]) /\ h.op = op /\ NotDone(h)
                              /\ On(program.script[cur[t]], h) /\ cur[t] \in Works
<1>1. t \in Actors /\ pc[t] = "body" /\ ret[t] = "get" /\ todo[t] # <<>>
  BY Kinds DEF Doing, PcOK, ThreadAt, InCallPCs, UnpausePCs, LockPCs
<1>2. Running(t)
  BY <1>1 DEF Running, Place, InCallPCs, UnpausePCs, LockPCs
<1>3. Head(todo[t]) \in Steps /\ On(todo[t], Head(todo[t]))
  <2>1. PICK s \in Seq(Steps) : s = todo[t] /\ s # <<>> BY <1>1 DEF ScriptsOK
  <2>2. Head(s) = s[1] /\ s[1] \in Steps /\ On(s, s[1]) BY <2>1, TailOfList
  <2>3. QED BY <2>1, <2>2
<1>4. Head(todo[t]).op = op
  BY DEF Doing
<1>5. PICK h \in Steps : h = Head(todo[t])
  BY <1>3
<1>6. On(program.script[cur[t]], h) /\ NotDone(h)
  BY <1>3, <1>5 DEF ScriptsOK
<1>7. cur[t] \in Works
  BY <1>2 DEF HandsOK
<1>8. QED BY <1>1, <1>2, <1>4, <1>5, <1>6, <1>7

(* A work item keeps a new one in next_work, or makes room for it.         *)
LEMMA SpawnKeepsWork ==
  ASSUME PcOK, WorkInv, NEW t \in Threads, Spawn(t)
  PROVE  WorkInv'
<1> USE DEF WorkInv
<1>0. t \in Actors /\ Running(t) /\ pc[t] = "body" /\ ret[t] = "get" /\ todo[t] # <<>>
  BY NextStep DEF Spawn
<1>1. PICK h \in Steps : /\ h = Head(todo[t]) /\ h.op = "spawn" /\ NotDone(h)
                         /\ On(program.script[cur[t]], h) /\ cur[t] \in Works
  BY NextStep DEF Spawn
<1>2. CASE nextWork[t] # None
  <2>1. At(t, "offer", "body") /\ UNCHANGED workVars
    BY <1>0, <1>2, CallAt DEF Spawn, workVars, coreVars
  <2>2. /\ Running(t)' /\ ~Fetched(t)' /\ ~Looking(t)' /\ ~Resting(t)'
    BY <2>1 DEF At, Looking, Resting, Fetched, Running, Place, InCallPCs, UnpausePCs, LockPCs, LookPCs, RestPCs
  <2>3. MovesOn(t, "offer", "body")
    BY <1>0, <1>2, <2>1, <2>2 DEF MovesOn, MarkedPCs
  <2>4. QED BY <2>1, <2>3, MovesOnKeepsWork
<1>3. CASE nextWork[t] = None
  <2>1. PICK w \in Works : w = h.w /\ w \notin scheduled /\ w \in Items /\ w # None /\ w \notin Threads
    BY <1>1, Kinds DEF NotDone, Steps
  <2>2. /\ UNCHANGED <<program, queue, linked, toLink, cur, started, finished, pc, ret>>
        /\ scheduled' = scheduled \cup {w} /\ StepDone(t)
        /\ nextWork' = [nextWork EXCEPT ![t] = w]
    BY <1>1, <1>3, <2>1 DEF Spawn, coreVars
  <2>3. /\ nextWork'[t] = w /\ \A u \in Threads : u # t => nextWork'[u] = nextWork[u]
        /\ nextWork' \in [Threads -> Works \cup {None}]
    BY <2>2 DEF HandsOK
  <2>4. \A u \in Threads :
              /\ (Looking(u)' <=> Looking(u)) /\ (Fetched(u)' <=> Fetched(u))
              /\ (Running(u)' <=> Running(u)) /\ (Resting(u)' <=> Resting(u))
    BY <2>2 DEF Looking, Resting, Fetched, Running, Place
  <2>5. \A x : InQueue(x)' <=> InQueue(x)
    BY <2>2 DEF InQueue
  <2>6. ~InQueue(w) /\ w \notin started /\ \A u \in Threads : cur[u] # w /\ nextWork[u] # w
    BY <2>1, HandsScheduled DEF InQueue, QueuesOK, NothingLost
  <2>7. QueuesOK'
    BY <2>2 DEF QueuesOK, Back
  <2>8. LinksOK'
    BY <2>2 DEF LinksOK, InQueue, Back
  <2>9. HandsOK'
    <3>1. ~Resting(t)
      BY <1>0 DEF Running, Resting, RestPCs
    <3>2. ASSUME NEW u \in Threads
          PROVE  /\ Resting(u)' => nextWork'[u] = None
                 /\ pc[u] = "offer" => nextWork'[u] # None
                 /\ nextWork'[u] # None => nextWork'[u] \in scheduled' /\ nextWork'[u] \notin started /\ ~InQueue(nextWork[u])'
      BY <1>0, <2>1, <2>2, <2>3, <2>4, <2>5, <2>6, <3>1 DEF HandsOK
    <3>3. ASSUME NEW v \in Threads, NEW u \in Threads
          PROVE  /\ nextWork'[v] # None /\ nextWork'[u] = nextWork'[v] => u = v
                 /\ cur[v] # None => nextWork'[u] # cur[v]
      BY <2>3, <2>6 DEF HandsOK
    <3>4. cur \in [Threads -> Items \cup {None}] /\ \A v, u \in Threads : cur[v] # None /\ cur[u] = cur[v] => u = v
      BY DEF HandsOK
    <3>5. \A u \in Threads :
                 /\ Looking(u) \/ Resting(u) => cur[u] = None
                 /\ Fetched(u) => cur[u] \in Items
                 /\ Fetched(u) /\ cur[u] \in Works => cur[u] \in scheduled' /\ cur[u] \notin started
                 /\ Running(u) => cur[u] \in Works /\ cur[u] \in started /\ cur[u] \notin finished
                 /\ pc[u] = "token" => cur[u] \in Threads
                 /\ cur[u] # None => ~InQueue(cur[u])
      BY <2>2 DEF HandsOK
    <3>6. QED BY <2>2, <2>3, <2>4, <2>5, <3>2, <3>3, <3>4, <3>5 DEF HandsOK
  <2>10. NothingLost'
    <3>1. \A y \in Items : Held(y) => Held(y)'
      BY <1>3, <2>2, <2>3, Kinds DEF Held
    <3>2. Held(w)'
      BY <2>3 DEF Held
    <3>3. QED BY <2>2, <2>5, <3>1, <3>2, Kinds DEF NothingLost
  <2>11. ScriptsOK'
    <3>1. ASSUME NEW s \in Steps, NotDone(s), ~(s = h /\ s.op \in OnceSteps) PROVE NotDone(s)'
      <4>1. CASE s.op = "spawn"
        <5>1. s = [op |-> "spawn", w |-> s.w] /\ h = [op |-> "spawn", w |-> h.w]
          BY <1>1, <4>1 DEF Steps
        <5>2. s.w # w BY <2>1, <3>1, <4>1, <5>1 DEF OnceSteps
        <5>3. QED BY <2>2, <3>1, <4>1, <5>2 DEF NotDone
      <4>2. CASE s.op # "spawn" BY <2>2, <3>1, <4>2 DEF NotDone
      <4>3. QED BY <4>1, <4>2
    <3>2. QED BY <1>0, <1>1, <2>1, <2>2, <2>4, <3>1, StepDoneKeepsScripts
  <2>12. QED BY <2>7, <2>8, <2>9, <2>10, <2>11
<1>4. QED BY <1>2, <1>3

(* A work item adds or removes an external event source.                   *)
LEMMA ChangeSourcesKeepsWork ==
  ASSUME PcOK, WorkInv, NEW t \in Threads, ChangeSources(t)
  PROVE  WorkInv' /\ PcOK' /\ At(t, "unlock", "body") /\ pc[t] = "body" /\ ret[t] = "get"
<1> USE DEF WorkInv
<1>0. t \in Actors /\ Running(t) /\ pc[t] = "body" /\ ret[t] = "get" /\ todo[t] # <<>>
  BY NextStep DEF ChangeSources, SourceAdded, SourceRemoved
<1>1. PICK h \in Steps : h = Head(todo[t]) /\ h.op \in {"add", "remove"}
  BY NextStep DEF ChangeSources, SourceAdded, SourceRemoved
<1>2. At(t, "unlock", "body")
  BY <1>0, CallAt DEF ChangeSources, SourceAdded, SourceRemoved
<1>3. PcOK'
  BY <1>0, <1>2, Kinds, PcKeeps DEF ThreadAt, InCallPCs, UnpausePCs, LockPCs
<1>4. UNCHANGED <<program, queue, linked, toLink, nextWork, cur, scheduled, started, finished>> /\ StepDone(t)
  BY DEF ChangeSources, SourceAdded, SourceRemoved, coreVars, history
<1>5. \A u \in Threads :
              /\ (Looking(u)' <=> Looking(u)) /\ (Fetched(u)' <=> Fetched(u))
              /\ (Running(u)' <=> Running(u)) /\ (Resting(u)' <=> Resting(u))
  <2>1. Place(t)' = Place(t)
    BY <1>0, <1>2 DEF At, Place, InCallPCs, UnpausePCs, LockPCs
  <2>2. QED BY <1>2, <2>1, OthersKeepPlace DEF Looking, Resting, Fetched, Running
<1>6. \A b \in Actors : \A l \in MarkedPCs : pc'[b] = l <=> pc[b] = l
  BY <1>0, <1>2 DEF At, MarkedPCs
<1>7. QueuesOK'
  BY <1>4 DEF QueuesOK, Back
<1>8. LinksOK'
  BY <1>4, <1>6 DEF LinksOK, InQueue, Back, MarkedPCs
<1>9. HandsOK'
  BY <1>4, <1>5, <1>6, Kinds DEF HandsOK, InQueue, MarkedPCs
<1>10. NothingLost'
  BY <1>4 DEF NothingLost, Held, InQueue
<1>11. ScriptsOK'
  <2>1. \A s \in Steps : NotDone(s)' <=> NotDone(s)
    BY <1>0, <1>2, <1>4, NotDoneKeeps
  <2>2. QED BY <1>0, <1>1, <1>4, <1>5, <2>1, StepDoneKeepsScripts
<1>12. QED BY <1>0, <1>2, <1>3, <1>7, <1>8, <1>9, <1>10, <1>11

(* A work item starts a thread outside the pool.                           *)
LEMMA StartExternalKeepsWork ==
  ASSUME PcOK, WorkInv, NEW t \in Threads, StartExternal(t)
  PROVE  WorkInv' /\ PcOK' /\ \E x \in Externals : At(x, "push", "get") /\ pc[x] = "off" /\ ret[x] = "get"
<1> USE DEF WorkInv
<1>0. t \in Actors /\ Running(t) /\ pc[t] = "body" /\ ret[t] = "get" /\ todo[t] # <<>>
  BY NextStep DEF StartExternal
<1>1. PICK h \in Steps : h = Head(todo[t]) /\ h.op = "start" /\ NotDone(h)
  BY NextStep DEF StartExternal
<1>2. PICK x \in Externals : x = h.x /\ pc[x] = "off" /\ x \in Actors /\ x \notin Threads
  BY <1>1, Kinds DEF NotDone, Steps
<1>3. ret[x] = "get"
  BY <1>2 DEF PcOK, ExternalAt
<1>4. At(x, "push", "get")
  BY <1>1, <1>2, <1>3 DEF StartExternal, At, PcOK
<1>5. PcOK'
  BY <1>2, <1>4, PcKeeps DEF ExternalAt
<1>6. UNCHANGED <<program, queue, linked, toLink, nextWork, cur, scheduled, started, finished>> /\ StepDone(t)
  BY DEF StartExternal, coreVars, history
<1>7. \A u \in Threads : pc'[u] = pc[u] /\ ret'[u] = ret[u]
  BY <1>2, <1>4, Kinds DEF At
<1>8. \A u \in Threads :
              /\ (Looking(u)' <=> Looking(u)) /\ (Fetched(u)' <=> Fetched(u))
              /\ (Running(u)' <=> Running(u)) /\ (Resting(u)' <=> Resting(u))
  BY <1>7 DEF Looking, Resting, Fetched, Running, Place
<1>9. \A b \in Actors : pc'[b] \in {"link", "linkToken"} <=> pc[b] \in {"link", "linkToken"}
  BY <1>2, <1>4 DEF At
<1>10. QueuesOK'
  BY <1>6 DEF QueuesOK, Back
<1>11. LinksOK'
  BY <1>6, <1>9 DEF LinksOK, InQueue, Back
<1>12. HandsOK'
  BY <1>6, <1>7, <1>8 DEF HandsOK, InQueue
<1>13. NothingLost'
  BY <1>6 DEF NothingLost, Held, InQueue
<1>14. ScriptsOK'
  <2>1. ASSUME NEW s \in Steps, NotDone(s), ~(s = h /\ s.op \in OnceSteps) PROVE NotDone(s)'
    <3>1. CASE s.op = "start"
      <4>1. s = [op |-> "start", x |-> s.x] /\ h = [op |-> "start", x |-> h.x] /\ s.x \in Actors
        BY <1>1, <3>1, Kinds DEF Steps
      <4>2. s.x # x BY <1>2, <2>1, <3>1, <4>1 DEF OnceSteps
      <4>3. pc'[s.x] = pc[s.x] BY <1>4, <4>1, <4>2 DEF At
      <4>4. QED BY <2>1, <3>1, <4>3 DEF NotDone
    <3>2. CASE s.op # "start" BY <1>6, <2>1, <3>2 DEF NotDone
    <3>3. QED BY <3>1, <3>2
  <2>2. QED BY <1>0, <1>1, <1>6, <1>8, <2>1, StepDoneKeepsScripts
<1>15. QED BY <1>2, <1>3, <1>4, <1>5, <1>10, <1>11, <1>12, <1>13, <1>14

(* A thread outside the pool schedules an item.                            *)
LEMMA PushKeepsWork ==
  ASSUME PcOK, WorkInv, NEW x \in Externals, Push(x), victim[x] \in Threads
  PROVE  /\ WorkInv' /\ PcOK' /\ At(x, "unpause", "push") /\ pc[x] = "push" /\ ret[x] = "get"
         /\ \A t \in Threads : pc'[t] = pc[t] /\ ret'[t] = ret[t]
<1> USE DEF WorkInv
<1>0. x \in Actors /\ x \notin Threads /\ pc[x] = "push" /\ ret[x] = "get" /\ todo[x] # <<>>
  BY Kinds DEF Push, PcOK, ExternalAt
<1>1. At(x, "unpause", "push")
  BY <1>0, CallAt DEF Push
<1>2. PcOK'
  BY <1>0, <1>1, PcKeeps DEF ExternalAt, UnpausePCs
<1>3. todo[x] \in Seq(Works) /\ On(todo[x], Head(todo[x])) /\ Head(todo[x]) \in Works
  <2>1. todo[x] \in Seq(Works) BY DEF ScriptsOK
  <2>2. QED BY <1>0, <2>1, TailOfList
<1>4. PICK w \in Works : /\ w = Head(todo[x]) /\ w \notin scheduled /\ On(program.pushes[x], w) /\ w \in Items
                         /\ w # None /\ w \notin Threads
  BY <1>3, Kinds DEF ScriptsOK
<1>5. PICK c \in Threads : c = victim[x]
  OBVIOUS
<1>6. /\ UNCHANGED <<program, toLink, nextWork, cur, started, finished>> /\ StepDone(x)
      /\ scheduled' = scheduled \cup {w} /\ linked' = linked \cup {w}
      /\ queue' = [queue EXCEPT ![c] = <<w>> \o @]
  BY <1>4, <1>5 DEF Push, EnqueueFront
<1>7. \A u \in Threads : pc'[u] = pc[u] /\ ret'[u] = ret[u]
  BY <1>0, <1>1, Kinds DEF At
<1>8. \A u \in Threads :
              /\ (Looking(u)' <=> Looking(u)) /\ (Fetched(u)' <=> Fetched(u))
              /\ (Running(u)' <=> Running(u)) /\ (Resting(u)' <=> Resting(u))
  BY <1>7 DEF Looking, Resting, Fetched, Running, Place
<1>9. ~InQueue(w) /\ w \notin started /\ \A u \in Threads : cur[u] # w /\ nextWork[u] # w
  BY <1>4, HandsScheduled DEF InQueue, QueuesOK, NothingLost
<1>10. /\ QueuesOK'
       /\ \A d \in Threads : \A y : On(queue[d], y)' <=> On(queue[d], y) \/ (d = c /\ y = w)
       /\ \A y : InQueue(y)' <=> InQueue(y) \/ y = w
       /\ \A d \in Threads : Back(d)' = Back(d)
  <2>1. QueuesOK /\ ~InQueue(w) /\ w \notin scheduled /\ w \notin started /\ UNCHANGED started
    BY <1>4, <1>6, <1>9
  <2>2. QED BY <1>6, <2>1, PushLists
<1>11. LinksOK'
  <2>1. \A a \in Actors : pc'[a] \in {"link", "linkToken"} <=> pc[a] \in {"link", "linkToken"}
    BY <1>0, <1>1 DEF At
  <2>2. \A a \in Actors : toLink[a] # None => toLink[a] # w
    BY <1>9 DEF LinksOK, InQueue
  <2>3. ASSUME NEW a \in Actors, toLink[a] # None
        PROVE  \E d \in Threads : On(queue[d], toLink[a])' /\ toLink[a] # Back(d)'
    <3>1. PICK y : y = toLink[a] OBVIOUS
    <3>2. PICK d \in Threads : On(queue[d], y) /\ y # Back(d) BY <2>3, <3>1 DEF LinksOK
    <3>3. On(queue[d], y)' /\ y # Back(d)' BY <1>10, <3>2
    <3>4. QED BY <1>6, <3>1, <3>3
  <2>4. linked' \subseteq Items /\ \A y \in linked' : InQueue(y)'
    BY <1>4, <1>6, <1>10 DEF LinksOK
  <2>5. QED BY <1>6, <2>1, <2>2, <2>3, <2>4 DEF LinksOK
<1>12. HandsOK'
  <2>1. ASSUME NEW u \in Threads
        PROVE  /\ nextWork[u] # None => nextWork[u] \in scheduled' /\ nextWork[u] \notin started /\ ~InQueue(nextWork[u])'
               /\ cur[u] # None => ~InQueue(cur[u])'
    <3>1. PICK y, z : y = nextWork[u] /\ z = cur[u] OBVIOUS
    <3>2. nextWork'[u] = y /\ cur'[u] = z BY <1>6, <3>1
    <3>3. (y # None => ~InQueue(y)') /\ (z # None => ~InQueue(z)')
      BY <1>9, <1>10, <3>1 DEF HandsOK
    <3>4. nextWork[u] # None => nextWork[u] \in scheduled' /\ nextWork[u] \notin started
      BY <1>6 DEF HandsOK
    <3>5. QED BY <3>1, <3>2, <3>3, <3>4
  <2>2. \A u \in Threads : cur[u] \in Works /\ Fetched(u) => cur[u] \in scheduled'
    BY <1>6 DEF HandsOK
  <2>3. QED BY <1>6, <1>7, <1>8, <2>1, <2>2 DEF HandsOK
<1>13. NothingLost'
  <2>1. \A y \in Items : Held(y) => Held(y)'
    BY <1>6 DEF Held
  <2>2. QED BY <1>6, <1>10, <2>1, Kinds DEF NothingLost
<1>14. ScriptsOK'
  <2>1. ASSUME NEW s \in Steps, NotDone(s), s.op = "spawn" => s.w # w PROVE NotDone(s)'
    <3>1. s.op = "start" => s.x \in Actors
      BY Kinds DEF Steps
    <3>2. s.op = "start" => pc'[s.x] = "off"
      <4>1. s.op = "start" => pc[s.x] = "off" BY <2>1 DEF NotDone
      <4>2. QED BY <1>0, <1>1, <3>1, <4>1 DEF At
    <3>3. QED BY <1>6, <2>1, <3>2 DEF NotDone
  <2>2. /\ todo'[x] = Tail(todo[x]) /\ \A a \in Actors : a # x => todo'[a] = todo[a]
        /\ todo' = [a \in Actors |-> todo'[a]]
    BY <1>0, <1>6 DEF StepDone, ScriptsOK
  <2>3. ASSUME NEW v \in Works, NEW s \in Steps, On(program.script[v], s), s.op = "spawn" PROVE s.w # w
    BY <1>4, <2>3, ProgramSteps DEF ScriptsOK
  <2>4. ASSUME NEW u \in Threads
        PROVE  /\ todo'[u] = todo[u] /\ todo[u] \in Seq(Steps) /\ Once(todo[u]) /\ (~Running(u) => todo[u] = <<>>)
               /\ \A s \in Steps : On(todo[u], s) => On(program.script[cur[u]], s) /\ NotDone(s)'
    <3>1. todo'[u] = todo[u] BY <1>0, <2>2, Kinds
    <3>2. ASSUME NEW s \in Steps, On(todo[u], s) PROVE On(program.script[cur[u]], s) /\ NotDone(s)'
      <4>1. On(program.script[cur[u]], s) /\ NotDone(s) /\ Running(u) BY <3>2, EmptyList DEF ScriptsOK
      <4>2. cur[u] \in Works BY <4>1 DEF HandsOK
      <4>3. QED BY <2>1, <2>3, <4>1, <4>2
    <3>3. QED BY <3>1, <3>2 DEF ScriptsOK
  <2>5. ASSUME NEW v \in Works, v \notin started, NEW s \in Steps, On(program.script[v], s) PROVE NotDone(s)'
    BY <2>1, <2>3, <2>5 DEF ScriptsOK
  <2>6. ASSUME NEW y \in Externals
        PROVE  /\ todo'[y] \in Seq(Works) /\ Distinct(todo'[y])
               /\ \A v \in Works : On(todo'[y], v) => On(program.pushes[y], v) /\ v \notin scheduled'
    <3>1. CASE y = x
      <4>1. /\ Tail(todo[x]) \in Seq(Works) /\ Distinct(Tail(todo[x])) /\ ~On(Tail(todo[x]), w)
            /\ \A v : On(Tail(todo[x]), v) => On(todo[x], v)
        BY <1>0, <1>3, <1>4, TailOfList DEF ScriptsOK
      <4>2. QED BY <1>6, <2>2, <3>1, <4>1 DEF ScriptsOK
    <3>2. CASE y # x
      <4>1. todo'[y] = todo[y] BY <2>2, <3>2, Kinds
      <4>2. ASSUME NEW v \in Works, On(todo[y], v) PROVE v # w
        <5>1. On(program.pushes[y], v) BY <4>2 DEF ScriptsOK
        <5>2. QED BY <1>4, <3>2, <5>1, ProgramSteps DEF ScriptsOK
      <4>3. QED BY <1>6, <4>1, <4>2 DEF ScriptsOK
    <3>3. QED BY <3>1, <3>2
  <2>7. QED BY <1>6, <1>8, <2>2, <2>4, <2>5, <2>6 DEF ScriptsOK
<1>15. QED BY <1>0, <1>1, <1>2, <1>7, <1>10, <1>11, <1>12, <1>13, <1>14

(* The steps of the search for work.                                       *)
LEMMA SearchKeepsWork ==
  ASSUME PcOK, WorkInv, NEW t \in Threads, Search(t), RingOK
  PROVE  WorkInv'
<1> USE DEF ThreadAt, LookPCs, RestPCs, InCallPCs, UnpausePCs, LockPCs
<1>1. t \in Actors /\ victim[t] \in Threads
  BY Kinds DEF RingOK
<1>2. pc[t] \in LookPCs \cup {"steal", "stealNext"} =>
        /\ ret[t] = "get" /\ (Looking(t) \/ Resting(t)) /\ ~Running(t) /\ ~Fetched(t)
        /\ (pc[t] \in LookPCs => Looking(t)) /\ (pc[t] \notin LookPCs => Resting(t))
  BY DEF PcOK, Looking, Resting, Running, Fetched, Place
<1>3. ASSUME NEW p, At(t, p, "get"), pc[t] \in LookPCs \cup {"steal", "stealNext"}, pc[t] # "linkToken",
             \/ p \in LookPCs \ {"linkToken"} /\ Looking(t)
             \/ p \in {"steal", "stealNext", "tick", "exit"} /\ (Resting(t) \/ nextWork[t] = None),
             UNCHANGED workVars
      PROVE  WorkInv'
  <2>1. /\ (Looking(t) \/ Resting(t))' /\ ~Fetched(t)' /\ ~Running(t)'
        /\ Resting(t)' => p \in {"steal", "stealNext", "tick", "exit"}
    BY <1>3 DEF At, Looking, Resting, Running, Fetched, Place
  <2>2. pc[t] \notin MarkedPCs /\ p \notin {"link", "linkToken", "off", "token", "offer"}
    BY <1>3 DEF MarkedPCs
  <2>3. p \in LookPCs \ {"linkToken"} => ~Resting(t)'
    BY <1>3 DEF At, Resting, Place
  <2>4. MovesOn(t, p, "get")
    BY <1>2, <1>3, <2>1, <2>2, <2>3 DEF MovesOn
  <2>5. QED BY <1>3, <2>4, MovesOnKeepsWork
<1>4. ASSUME NEW c \in Threads, CanDequeue(c), Dequeue(t, c), pc[t] \in LookPCs \cup {"steal", "stealNext"}, pc[t] # "linkToken",
             \/ At(t, "run", "get")
             \/ At(t, "offer", "run") /\ nextWork[t] # None,
             UNCHANGED <<program, toLink, nextWork, todo, scheduled, started, finished>>
      PROVE  WorkInv'
  <2>1. pc[t] \notin MarkedPCs /\ (Looking(t) \/ Resting(t))
    BY <1>2, <1>4 DEF MarkedPCs
  <2>2. QED BY <1>4, <2>1, TakeKeepsWork
<1>5. ASSUME ReturnNextWork(t), ret[t] = "get"
      PROVE  At(t, "run", "get") \/ (At(t, "offer", "run") /\ nextWork[t] # None)
  <2>1. CASE nextWork[t] = None
    <3>1. At(t, "run", ret[t]) BY <1>1, <1>5, <2>1, GotoAt DEF ReturnNextWork
    <3>2. QED BY <1>5, <3>1
  <2>2. CASE nextWork[t] # None BY <1>1, <1>5, <2>2, CallAt DEF ReturnNextWork
  <2>3. QED BY <2>1, <2>2
<1>6. CASE GetWork(t)
  <2>1. pc[t] = "get" /\ ret[t] = "get" /\ UNCHANGED ret /\ Looking(t) BY <1>2, <1>6 DEF GetWork
  <2>2. UNCHANGED <<program, queue, linked, toLink, todo, scheduled, started, finished>>
    BY <1>6 DEF GetWork, history
  <2>3. CASE UsesNextWork(t)
    <3>1. At(t, "run", ret[t]) BY <1>1, <1>6, <2>1, <2>3, GotoAt DEF GetWork
    <3>2. QED BY <1>6, <2>1, <2>2, <2>3, <3>1, UseNextKeepsWork DEF GetWork, UsesNextWork, MarkedPCs
  <2>4. CASE ~UsesNextWork(t)
    <3>1. Goto(t, "fairSteal") \/ Goto(t, "own") BY <1>6, <2>4 DEF GetWork
    <3>2. At(t, "fairSteal", ret[t]) \/ At(t, "own", ret[t]) BY <1>1, <2>1, <3>1, GotoAt
    <3>3. UNCHANGED workVars BY <1>6, <2>2, <2>4 DEF GetWork, workVars
    <3>4. QED BY <1>3, <2>1, <3>2, <3>3
  <2>5. QED BY <2>3, <2>4
<1>7. ASSUME NEW from \in {"fairSteal", "firstSteal"}, NEW miss \in {"own", "keep"}, TrySteal(t, from, miss)
      PROVE  WorkInv'
  <2>1. pc[t] \in {"fairSteal", "firstSteal"} /\ ret[t] = "get" /\ Looking(t) BY <1>2, <1>7 DEF TrySteal
  <2>2. UNCHANGED <<program, toLink, nextWork, todo, scheduled, started, finished>>
    BY <1>7 DEF TrySteal, history
  <2>3. CASE victim[t] # t /\ CanDequeue(victim[t])
    <3>1. Dequeue(t, victim[t]) /\ ReturnNextWork(t) BY <1>7, <2>3 DEF TrySteal
    <3>2. QED BY <1>1, <1>4, <1>5, <2>1, <2>2, <2>3, <3>1
  <2>4. CASE ~(victim[t] # t /\ CanDequeue(victim[t]))
    <3>1. At(t, miss, ret[t]) BY <1>1, <1>7, <2>4, GotoAt DEF TrySteal
    <3>2. UNCHANGED workVars BY <1>7, <2>2, <2>4 DEF TrySteal, workVars
    <3>3. QED BY <1>3, <2>1, <3>1, <3>2
  <2>5. QED BY <2>3, <2>4
<1>8. CASE FairSteal(t) BY <1>7, <1>8 DEF FairSteal
<1>9. CASE FirstSteal(t) BY <1>7, <1>9 DEF FirstSteal
<1>10. CASE DequeueOwn(t)
  <2>1. pc[t] = "own" /\ ret[t] = "get" /\ Looking(t) BY <1>2, <1>10 DEF DequeueOwn
  <2>2. UNCHANGED <<program, toLink, nextWork, todo, scheduled, started, finished>>
    BY <1>10 DEF DequeueOwn, history
  <2>3. CASE CanDequeue(t)
    <3>1. Dequeue(t, t) /\ ReturnNextWork(t) BY <1>10, <2>3 DEF DequeueOwn
    <3>2. QED BY <1>1, <1>4, <1>5, <2>1, <2>2, <2>3, <3>1
  <2>4. CASE ~CanDequeue(t)
    <3>1. At(t, "firstSteal", ret[t]) BY <1>1, <1>10, <2>4, GotoAt DEF DequeueOwn
    <3>2. UNCHANGED workVars BY <1>10, <2>2, <2>4 DEF DequeueOwn, workVars
    <3>3. QED BY <1>3, <2>1, <3>1, <3>2
  <2>5. QED BY <2>3, <2>4
<1>11. CASE KeepNextWork(t)
  <2>1. pc[t] = "keep" /\ ret[t] = "get" /\ Looking(t) /\ UNCHANGED ret BY <1>2, <1>11 DEF KeepNextWork
  <2>2. UNCHANGED <<program, queue, linked, toLink, todo, scheduled, started, finished>>
    BY <1>11 DEF KeepNextWork, coreVars, history
  <2>3. CASE nextWork[t] # None
    <3>1. At(t, "run", ret[t]) BY <1>1, <1>11, <2>1, <2>3, GotoAt DEF KeepNextWork
    <3>2. QED BY <1>11, <2>1, <2>2, <2>3, <3>1, UseNextKeepsWork DEF KeepNextWork, MarkedPCs
  <2>4. CASE nextWork[t] = None
    <3>1. At(t, "steal", ret[t]) BY <1>1, <1>11, <2>1, <2>4, GotoAt DEF KeepNextWork
    <3>2. cur[t] = None BY <2>1 DEF WorkInv, HandsOK
    <3>3. UNCHANGED <<cur, nextWork>> BY <1>11, <2>4, <3>2 DEF KeepNextWork, WorkInv, HandsOK
    <3>4. UNCHANGED workVars BY <2>2, <3>3 DEF workVars
    <3>5. QED BY <1>3, <2>1, <2>4, <3>1, <3>4
  <2>5. QED BY <2>3, <2>4
<1>12. CASE StealOwn(t)
  <2>1. pc[t] = "steal" /\ ret[t] = "get" /\ Resting(t) /\ UNCHANGED ret BY <1>2, <1>12 DEF StealOwn
  <2>2. UNCHANGED <<program, toLink, nextWork, todo, scheduled, started, finished>>
    BY <1>12 DEF StealOwn, history
  <2>3. CASE ~teardown /\ CanDequeue(t)
    <3>1. Dequeue(t, t) /\ Goto(t, "run") BY <1>12, <2>3 DEF StealOwn
    <3>2. At(t, "run", "get") BY <1>1, <2>1, <3>1, GotoAt
    <3>3. QED BY <1>1, <1>4, <2>1, <2>2, <2>3, <3>1, <3>2
  <2>4. CASE ~(~teardown /\ CanDequeue(t))
    <3>1. (Goto(t, "exit") \/ Goto(t, "stealNext")) /\ UNCHANGED <<cur, queue, linked>>
      BY <1>12, <2>4 DEF StealOwn
    <3>2. At(t, "exit", ret[t]) \/ At(t, "stealNext", ret[t]) BY <1>1, <2>1, <3>1, GotoAt
    <3>3. UNCHANGED workVars BY <2>2, <3>1 DEF workVars
    <3>4. QED BY <1>3, <2>1, <3>2, <3>3
  <2>5. QED BY <2>3, <2>4
<1>13. CASE StealNext(t)
  <2>1. pc[t] = "stealNext" /\ ret[t] = "get" /\ Resting(t) /\ UNCHANGED ret BY <1>2, <1>13 DEF StealNext
  <2>2. UNCHANGED <<program, toLink, nextWork, todo, scheduled, started, finished>>
    BY <1>13 DEF StealNext, history
  <2>3. CASE victim[t] # t /\ CanDequeue(victim[t])
    <3>1. Dequeue(t, victim[t]) /\ Goto(t, "run") BY <1>13, <2>3 DEF StealNext
    <3>2. At(t, "run", "get") BY <1>1, <2>1, <3>1, GotoAt
    <3>3. QED BY <1>1, <1>4, <2>1, <2>2, <2>3, <3>1, <3>2
  <2>4. CASE ~(victim[t] # t /\ CanDequeue(victim[t]))
    <3>1. Goto(t, "tick") /\ UNCHANGED <<cur, queue, linked>> BY <1>13, <2>4 DEF StealNext
    <3>2. At(t, "tick", ret[t]) BY <1>1, <2>1, <3>1, GotoAt
    <3>3. UNCHANGED workVars BY <2>2, <3>1 DEF workVars
    <3>4. QED BY <1>3, <2>1, <3>2, <3>3
  <2>5. QED BY <2>3, <2>4
<1>14. QED BY <1>6, <1>8, <1>9, <1>10, <1>11, <1>12, <1>13 DEF Search

-----------------------------------------------------------------------------
(* Who is woken, step by step. *)

(* A step that touches neither the lock nor the lists.                     *)
LEMMA CalmKeepsSleep ==
  ASSUME PcOK, SleepInv, UNCHANGED syncVars, NEW a \in Actors, NEW p, NEW r, At(a, p, r),
         pc[a] \notin LockPCs, p \notin LockPCs, a \in Threads => (Decided(a)' <=> Decided(a))
  PROVE  SleepInv'
<1> USE DEF SleepInv
<1>1. UNCHANGED <<lock, waiters, toWake, sem>>
  BY DEF syncVars
<1>2. \A t \in Threads : Decided(t)' <=> Decided(t)
  BY Kinds DEF At, Decided
<1>3. \A b \in Actors : \A l \in LockPCs : pc'[b] = l <=> pc[b] = l
  BY DEF At, LockPCs
<1>4. SleepOK'
  BY <1>1, <1>2, <1>3 DEF SleepOK, BeingWoken, LockPCs
<1>5. LockOK'
  BY <1>1, <1>3 DEF LockOK, Holds, LockPCs
<1>6. QED BY <1>4, <1>5

(* Taking the free lock.                                                   *)
LEMMA AcquireKeepsLock ==
  ASSUME LockOK, NEW a \in Actors, NEW r, At(a, "unlock", r), lock = "Unlocked",
         lock' \in {"Locked", "LockedUnpauseNeeded"}
  PROVE  LockOK'
<1>1. \A b \in Actors : ~Holds(b)
  BY DEF LockOK
<1>2. Holds(a)' /\ pc'[a] # "unlockUnpause" /\ \A b \in Actors : b # a => ~Holds(b)' /\ pc'[b] # "unlockUnpause"
  BY <1>1 DEF At, Holds
<1>3. QED BY <1>2 DEF LockOK, Locks

(* A thread takes the lock and leaves it to unlock; it does not sleep.     *)
LEMMA AcquireKeepsSleep ==
  ASSUME PcOK, SleepInv, NEW t \in Threads, NEW r, At(t, "unlock", r), r # "sleep", lock = "Unlocked",
         lock' \in {"Locked", "LockedUnpauseNeeded"}, UNCHANGED <<waiters, toWake, sem>>,
         pc[t] \notin LockPCs, ~Decided(t)
  PROVE  SleepInv'
<1> USE DEF SleepInv
<1>1. t \in Actors
  BY Kinds
<1>2. \A u \in Threads : Decided(u)' <=> Decided(u)
  BY <1>1, Kinds DEF At, Decided
<1>3. \A b \in Actors : pc'[b] \in {"unlockUnpause", "wake"} <=> pc[b] \in {"unlockUnpause", "wake"}
  BY <1>1 DEF At, LockPCs
<1>4. SleepOK'
  BY <1>2, <1>3 DEF SleepOK, BeingWoken
<1>5. QED BY <1>1, <1>4, AcquireKeepsLock

(* A thread joins the waiters.                                             *)
LEMMA JoinKeepsSleep ==
  ASSUME PcOK, SleepInv, NEW t \in Threads, JoinWaiters(t)
  PROVE  SleepInv'
<1> USE DEF SleepInv
<1>1. t \in Actors /\ pc[t] = "decide" /\ ret[t] = "get"
  BY Kinds DEF JoinWaiters, PcOK, ThreadAt, InCallPCs, UnpausePCs, LockPCs
<1>2. At(t, "unlock", "sleep") /\ lock = "Unlocked" /\ lock' = "Locked"
  BY <1>1, CallAt DEF JoinWaiters
<1>3. UNCHANGED <<toWake, sem>> /\ waiters' = <<t>> \o waiters
  BY DEF JoinWaiters
<1>4. ~Decided(t) /\ ~On(waiters, t) /\ waiters \in Seq(Threads) /\ Distinct(waiters)
  BY <1>1 DEF Decided, SleepOK
<1>5. /\ waiters' \in Seq(Threads) /\ Distinct(waiters')
      /\ \A u : On(waiters', u) <=> On(waiters, u) \/ u = t
  BY <1>3, <1>4, PushToList
<1>6. Decided(t)' /\ \A u \in Threads : u # t => (Decided(u)' <=> Decided(u))
  BY <1>2, Kinds DEF At, Decided
<1>7. \A b \in Actors : pc'[b] \in {"unlockUnpause", "wake"} <=> pc[b] \in {"unlockUnpause", "wake"}
  BY <1>1, <1>2 DEF At
<1>8. SleepOK'
  <2>1. ASSUME NEW u \in Threads
        PROVE  /\ Decided(u)' <=> sem[u] = 1 \/ On(waiters', u) \/ BeingWoken(u)
               /\ sem[u] = 1 => ~On(waiters', u) /\ ~BeingWoken(u)
               /\ On(waiters', u) => ~BeingWoken(u)
               /\ \A a, b \in Actors : On(toWake[a], u) /\ On(toWake[b], u) => a = b
    BY <1>4, <1>5, <1>6 DEF SleepOK
  <2>2. QED BY <1>3, <1>5, <1>7, <2>1 DEF SleepOK, BeingWoken
<1>9. LockOK'
  BY <1>1, <1>2, AcquireKeepsLock
<1>10. QED BY <1>8, <1>9

(* A thread is woken.                                                      *)
LEMMA SleepKeepsSleep ==
  ASSUME PcOK, SleepInv, NEW t \in Threads, Sleep(t)
  PROVE  SleepInv'
<1> USE DEF SleepInv
<1>1. t \in Actors /\ pc[t] = "sleep" /\ ret[t] = "get"
  BY Kinds DEF Sleep, PcOK, ThreadAt, InCallPCs, UnpausePCs, LockPCs
<1>2. At(t, "relock", "get") /\ sem[t] = 1
  <2>1. At(t, "relock", ret[t]) BY <1>1, GotoAt DEF Sleep
  <2>2. sem[t] \in {0, 1} /\ sem[t] > 0 BY DEF Sleep, SleepOK
  <2>3. QED BY <1>1, <2>1, <2>2
<1>3. UNCHANGED <<lock, toWake, waiters>> /\ sem'[t] = 0 /\ \A u \in Threads : u # t => sem'[u] = sem[u]
  BY <1>2 DEF Sleep, SleepOK
<1>4. sem' \in [Threads -> {0, 1}]
  BY <1>2 DEF Sleep, SleepOK
<1>5. ~Decided(t)' /\ \A u \in Threads : u # t => (Decided(u)' <=> Decided(u))
  BY <1>2, Kinds DEF At, Decided
<1>6. \A b \in Actors : \A l \in LockPCs : pc'[b] = l <=> pc[b] = l
  BY <1>1, <1>2 DEF At, LockPCs
<1>7. SleepOK'
  <2>1. ASSUME NEW u \in Threads
        PROVE  /\ Decided(u)' <=> sem'[u] = 1 \/ On(waiters, u) \/ BeingWoken(u)
               /\ sem'[u] = 1 => ~On(waiters, u) /\ ~BeingWoken(u)
               /\ On(waiters, u) => ~BeingWoken(u)
               /\ \A a, b \in Actors : On(toWake[a], u) /\ On(toWake[b], u) => a = b
    <3>1. CASE u = t BY <1>2, <1>3, <1>5, <3>1 DEF SleepOK
    <3>2. CASE u # t BY <1>3, <1>5, <3>2 DEF SleepOK
    <3>3. QED BY <3>1, <3>2
  <2>2. \A b \in Actors : toWake[b] # <<>> => pc'[b] \in {"unlockUnpause", "wake"}
    BY <1>6 DEF SleepOK, LockPCs
  <2>3. QED BY <1>3, <1>4, <2>1, <2>2 DEF SleepOK, BeingWoken
<1>8. LockOK'
  BY <1>3, <1>6 DEF LockOK, Holds, LockPCs
<1>9. QED BY <1>7, <1>8

(* The winner of an unpause.                                               *)
LEMMA RingKeepsSleep ==
  ASSUME PcOK, SleepInv, NEW a \in Actors, Ring(a)
  PROVE  SleepInv'
<1> USE DEF SleepInv
<1>1. pc[a] = "ring" /\ lock' = "LockedUnpauseNeeded" /\ UNCHANGED <<waiters, toWake, sem>> /\ ret[a] # "sleep"
  BY Kinds DEF Ring, PcOK, ThreadAt, ExternalAt, UnpausePCs, LockPCs
<1>2. CASE lock = "Unlocked"
  <2>1. At(a, "unlock", ret[a]) BY <1>1, <1>2, GotoAt DEF Ring
  <2>2. \A u \in Threads : Decided(u)' <=> Decided(u) BY <1>1, <2>1, Kinds DEF At, Decided
  <2>3. \A b \in Actors : pc'[b] \in {"unlockUnpause", "wake"} <=> pc[b] \in {"unlockUnpause", "wake"}
    BY <1>1, <2>1 DEF At
  <2>4. SleepOK' BY <1>1, <2>2, <2>3 DEF SleepOK, BeingWoken
  <2>5. QED BY <1>1, <1>2, <2>1, <2>4, AcquireKeepsLock
<1>3. CASE lock # "Unlocked"
  <2>1. At(a, ret[a], "get") BY <1>1, <1>3, ReturnAt DEF Ring
  <2>2. ret[a] \in {"run", "body", "push"} BY <1>1, Kinds DEF PcOK, ThreadAt, ExternalAt, UnpausePCs
  <2>3. \A u \in Threads : Decided(u)' <=> Decided(u) BY <1>1, <2>1, <2>2, Kinds DEF At, Decided
  <2>4. \A b \in Actors : \A l \in LockPCs : pc'[b] = l <=> pc[b] = l
    BY <1>1, <2>1, <2>2 DEF At, LockPCs
  <2>5. SleepOK' BY <1>1, <2>3, <2>4 DEF SleepOK, BeingWoken, LockPCs
  <2>6. LockOK' BY <1>1, <1>3, <2>4 DEF LockOK, Holds, LockPCs, Locks
  <2>7. QED BY <2>5, <2>6
<1>4. QED BY <1>2, <1>3

(* The lock is released, or its holder takes the waiters along.            *)
LEMMA UnlockKeepsSleep ==
  ASSUME PcOK, SleepInv, NEW a \in Actors, Unlock(a)
  PROVE  SleepInv'
<1> USE DEF SleepInv
<1>1. pc[a] = "unlock" /\ UNCHANGED sem /\ Holds(a) /\ \A b \in Actors : Holds(b) => b = a
  BY DEF Unlock, Holds, LockOK
<1>2. toWake[a] = <<>>
  BY <1>1 DEF SleepOK
<1>3. CASE Releases
  <2>1. At(a, ret[a], "get") /\ lock' = "Unlocked" /\ UNCHANGED <<waiters, toWake>>
    BY <1>3, ReturnAt DEF Unlock
  <2>2. ret[a] \in {"run", "body", "steal", "sleep", "push"} BY <1>1, Kinds DEF PcOK, ThreadAt, ExternalAt, LockPCs
  <2>3. \A u \in Threads : Decided(u)' <=> Decided(u) BY <1>1, <2>1, <2>2, Kinds DEF At, Decided
  <2>4. \A b \in Actors : (pc'[b] \in {"unlockUnpause", "wake"} <=> pc[b] \in {"unlockUnpause", "wake"}) /\ ~Holds(b)'
    BY <1>1, <2>1, <2>2 DEF At, Holds
  <2>5. SleepOK' BY <1>1, <2>1, <2>3, <2>4 DEF SleepOK, BeingWoken
  <2>6. LockOK' BY <2>1, <2>4 DEF LockOK, Holds, Locks
  <2>7. QED BY <2>5, <2>6
<1>4. CASE ~Releases
  <2>1. At(a, "unlockUnpause", ret[a]) /\ UNCHANGED lock /\ TakeWaiters(a)
    BY <1>4, GotoAt DEF Unlock
  <2>2. /\ waiters' = <<>> /\ toWake'[a] = waiters /\ toWake' \in [Actors -> Seq(Threads)]
        /\ \A b \in Actors : b # a => toWake'[b] = toWake[b]
    BY <2>1 DEF TakeWaiters, SleepOK
  <2>3. \A u \in Threads : Decided(u)' <=> Decided(u) BY <1>1, <2>1, Kinds DEF At, Decided
  <2>4. \A u \in Threads : BeingWoken(u)' <=> BeingWoken(u) \/ On(waiters, u)
    BY <1>2, <2>2, EmptyList DEF BeingWoken
  <2>5. \A u \in Threads : ~On(waiters', u) /\ Distinct(waiters') /\ waiters' \in Seq(Threads)
    BY <2>2, EmptyList
  <2>6. SleepOK'
    <3>1. ASSUME NEW u \in Threads
          PROVE  /\ Decided(u)' <=> sem[u] = 1 \/ On(waiters', u) \/ BeingWoken(u)'
                 /\ sem[u] = 1 => ~On(waiters', u) /\ ~BeingWoken(u)'
                 /\ On(waiters', u) => ~BeingWoken(u)'
      BY <2>3, <2>4, <2>5 DEF SleepOK
    <3>2. ASSUME NEW u \in Threads, NEW c \in Actors, NEW d \in Actors, On(toWake'[c], u), On(toWake'[d], u)
          PROVE  c = d
      <4>1. \A b \in Actors : b # a => (On(toWake'[b], u) => On(toWake[b], u) /\ BeingWoken(u)) BY <2>2 DEF BeingWoken
      <4>2. On(toWake'[a], u) => ~BeingWoken(u) BY <2>2 DEF SleepOK
      <4>3. QED BY <3>2, <4>1, <4>2 DEF SleepOK
    <3>3. ASSUME NEW b \in Actors
          PROVE  Distinct(toWake'[b]) /\ (toWake'[b] # <<>> => pc'[b] \in {"unlockUnpause", "wake"})
      BY <2>1, <2>2 DEF SleepOK, At
    <3>4. waiters' \in Seq(Threads) /\ Distinct(waiters') BY <2>2, EmptyList
    <3>5. QED BY <1>1, <2>2, <3>1, <3>2, <3>3, <3>4 DEF SleepOK
  <2>7. LockOK'
    <3>1. \A b \in Actors : (Holds(b)' <=> b = a) /\ (pc'[b] = "unlockUnpause" <=> b = a)
      BY <1>1, <2>1 DEF At, Holds
    <3>2. lock # "Unlocked" BY <1>1 DEF LockOK
    <3>3. QED BY <2>1, <2>2, <3>1, <3>2 DEF LockOK
  <2>8. QED BY <2>6, <2>7
<1>5. QED BY <1>3, <1>4

(* The lock is released before the sleepers are woken.                     *)
LEMMA UnlockUnpauseKeepsSleep ==
  ASSUME PcOK, SleepInv, NEW a \in Actors, UnlockUnpause(a)
  PROVE  SleepInv'
<1> USE DEF SleepInv
<1>1. pc[a] = "unlockUnpause" /\ UNCHANGED <<waiters, toWake, sem>> /\ lock' = "Unlocked" /\ Holds(a)
  BY DEF UnlockUnpause, Holds
<1>2. At(a, "wake", ret[a])
  BY GotoAt DEF UnlockUnpause
<1>3. \A u \in Threads : Decided(u)' <=> Decided(u)
  BY <1>1, <1>2, Kinds DEF At, Decided
<1>4. \A b \in Actors : ~Holds(b)' /\ pc'[b] # "unlockUnpause"
  BY <1>1, <1>2 DEF At, Holds, LockOK
<1>5. \A b \in Actors : pc'[b] \in {"unlockUnpause", "wake"} <=> pc[b] \in {"unlockUnpause", "wake"}
  BY <1>1, <1>2 DEF At
<1>6. SleepOK'
  BY <1>1, <1>3, <1>5 DEF SleepOK, BeingWoken
<1>7. LockOK'
  BY <1>1, <1>4 DEF LockOK, Locks
<1>8. QED BY <1>6, <1>7

(* A sleeper is woken, or all have been.                                   *)
LEMMA WakeKeepsSleep ==
  ASSUME PcOK, SleepInv, NEW a \in Actors, Wake(a)
  PROVE  SleepInv'
<1> USE DEF SleepInv
<1>1. pc[a] = "wake" /\ UNCHANGED <<lock, waiters>>
  BY DEF Wake
<1>2. CASE toWake[a] = <<>>
  <2>1. At(a, ret[a], "get") /\ UNCHANGED <<toWake, sem>> BY <1>2, ReturnAt DEF Wake
  <2>2. ret[a] \in {"run", "body", "steal", "sleep", "push"} BY <1>1, Kinds DEF PcOK, ThreadAt, ExternalAt, LockPCs
  <2>3. \A u \in Threads : Decided(u)' <=> Decided(u) BY <1>1, <2>1, <2>2, Kinds DEF At, Decided
  <2>4. \A b \in Actors : (Holds(b)' <=> Holds(b)) /\ (pc'[b] = "unlockUnpause" <=> pc[b] = "unlockUnpause")
    BY <1>1, <2>1, <2>2 DEF At, Holds
  <2>5. \A b \in Actors : toWake[b] # <<>> => pc'[b] \in {"unlockUnpause", "wake"}
    BY <1>2, <2>1 DEF At, SleepOK
  <2>6. SleepOK' BY <1>1, <2>1, <2>3, <2>5 DEF SleepOK, BeingWoken
  <2>7. LockOK' BY <1>1, <2>4 DEF LockOK
  <2>8. QED BY <2>6, <2>7
<1>3. CASE toWake[a] # <<>>
  <2>1. UNCHANGED <<pc, ret>> BY <1>3 DEF Wake
  <2>2. toWake[a] \in Seq(Threads) /\ Distinct(toWake[a]) BY DEF SleepOK
  <2>3. PICK h \in Threads : h = Head(toWake[a]) /\ On(toWake[a], h) /\ ~On(Tail(toWake[a]), h)
    BY <1>3, <2>2, TailOfList
  <2>4. BeingWoken(h) /\ sem[h] = 0 /\ ~On(waiters, h)
    BY <2>3 DEF SleepOK, BeingWoken
  <2>5. /\ sem' = [sem EXCEPT ![h] = @ + 1] /\ toWake' = [toWake EXCEPT ![a] = Tail(@)]
    BY <1>3, <2>3 DEF Wake
  <2>6. sem'[h] = 1 /\ (\A u \in Threads : u # h => sem'[u] = sem[u]) /\ sem' \in [Threads -> {0, 1}]
    BY <2>4, <2>5 DEF SleepOK
  <2>7. /\ toWake'[a] = Tail(toWake[a]) /\ \A b \in Actors : b # a => toWake'[b] = toWake[b]
        /\ toWake' \in [Actors -> Seq(Threads)]
    BY <1>3, <2>2, <2>5, TailOfList DEF SleepOK
  <2>8. Distinct(toWake'[a]) /\ \A u : On(toWake'[a], u) <=> On(toWake[a], u) /\ u # h
    BY <1>3, <2>2, <2>3, <2>7, TailOfList
  <2>9. \A b \in Actors : \A u : On(toWake'[b], u) <=> On(toWake[b], u) /\ u # h
    <3>1. \A b \in Actors : b # a => ~On(toWake[b], h) BY <2>3 DEF SleepOK
    <3>2. QED BY <2>7, <2>8, <3>1
  <2>10. \A u \in Threads : BeingWoken(u)' <=> BeingWoken(u) /\ u # h
    BY <2>9 DEF BeingWoken
  <2>11. \A u \in Threads : Decided(u)' <=> Decided(u) BY <2>1 DEF Decided
  <2>12. SleepOK'
    <3>1. ASSUME NEW u \in Threads
          PROVE  /\ Decided(u)' <=> sem'[u] = 1 \/ On(waiters, u) \/ BeingWoken(u)'
                 /\ sem'[u] = 1 => ~On(waiters, u) /\ ~BeingWoken(u)'
                 /\ On(waiters, u) => ~BeingWoken(u)'
                 /\ \A c, d \in Actors : On(toWake'[c], u) /\ On(toWake'[d], u) => c = d
      BY <2>4, <2>6, <2>9, <2>10, <2>11 DEF SleepOK
    <3>2. ASSUME NEW b \in Actors
          PROVE  Distinct(toWake'[b]) /\ (toWake'[b] # <<>> => pc[b] \in {"unlockUnpause", "wake"})
      BY <1>1, <2>7, <2>8 DEF SleepOK
    <3>3. QED BY <1>1, <2>1, <2>6, <2>7, <3>1, <3>2 DEF SleepOK
  <2>13. LockOK' BY <1>1, <2>1 DEF LockOK, Holds
  <2>14. QED BY <2>12, <2>13
<1>4. QED BY <1>2, <1>3

-----------------------------------------------------------------------------
(* Everything but the epochs, step by step. *)

(* The ring of cores leads from core to core, and a look at the cores      *)
(* starts at the first.                                                    *)
LEMMA RingStep ==
  ASSUME RingOK, NEW a \in Actors, NEW p, NEW r, At(a, p, r), UNCHANGED probe, localBack' = [t \in Threads |-> localBack'[t]],
         pc[a] \notin {"loadBack", "loadFront"} \/ p \in {"loadBack", "loadFront"},
         victim' = victim \/ victim' = [victim EXCEPT ![a] = NextCore[victim[a]]]
  PROVE  RingOK'
<1>1. \A b \in Actors : pc'[b] \notin {"loadBack", "loadFront"} => pc[b] \notin {"loadBack", "loadFront"}
  BY DEF At
<1>2. victim' \in [Actors -> Threads] /\ UNCHANGED probe
  BY RingAssumption DEF RingOK
<1>3. QED BY <1>1, <1>2, Kinds DEF RingOK

(* The search for work.                                                    *)
LEMMA SearchKeeps ==
  ASSUME CoreInv, NEW t \in Threads, Search(t)
  PROVE  CoreInv' /\ UNCHANGED <<epochVars, probeVars, syncVars>> /\ \E p, r : Awake(t, p, r)
<1> USE DEF CoreInv
<1>1. t \in Actors /\ t \notin Externals
  BY Kinds
<1>2. UNCHANGED <<epochVars, probeVars, syncVars>>
  BY DEF Search, GetWork, FairSteal, FirstSteal, TrySteal, DequeueOwn, KeepNextWork, StealOwn, StealNext
<1>3. PICK p, r : Awake(t, p, r)
  BY SearchAt
<1>4. SleepInv'
  BY <1>1, <1>2, <1>3, CalmKeepsSleep DEF Awake, AwakePCs, LookPCs, LockPCs, Decided, At
<1>5. victim' = victim \/ victim' = [victim EXCEPT ![t] = NextCore[victim[t]]]
  BY DEF Search, GetWork, FairSteal, FirstSteal, TrySteal, DequeueOwn, KeepNextWork, StealOwn, StealNext
<1>6. RingOK'
  BY <1>1, <1>2, <1>3, <1>5, RingStep DEF probeVars, RingOK, Awake, AwakePCs, LookPCs
<1>7. QED BY <1>2, <1>3, <1>4, <1>6, SearchAt, SearchKeepsWork

(* The running of work, but for its changes of sources and its starts.     *)
LEMMA ExecuteKeeps ==
  ASSUME CoreInv, NEW t \in Threads, Execute(t), ~ChangeSources(t), ~StartExternal(t)
  PROVE  CoreInv' /\ UNCHANGED <<epochVars, probeVars, syncVars>> /\ \E p, r : Awake(t, p, r)
<1> USE DEF CoreInv
<1>1. t \in Actors /\ t \notin Externals
  BY Kinds
<1>2. UNCHANGED <<epochVars, probeVars, syncVars, victim>>
  BY DEF Execute, RunToken, TokenBack, LinkToken, RunWork, WorkReturns, Spawn, Offer, Link, localVars
<1>3. PICK p, r : Awake(t, p, r)
  BY ExecuteAt
<1>4. SleepInv'
  BY <1>1, <1>2, <1>3, CalmKeepsSleep DEF Awake, AwakePCs, LookPCs, LockPCs, Decided, At
<1>5. RingOK'
  BY <1>1, <1>2, <1>3, RingStep DEF probeVars, RingOK, Awake, AwakePCs, LookPCs
<1>6. WorkInv'
  <2>1. CASE RunToken(t)
    <3>1. pc[t] = "run" /\ ret[t] = "get" /\ cur[t] \in Threads /\ At(t, "token", ret[t]) /\ UNCHANGED workVars
      BY <1>1, <2>1, GotoAt DEF RunToken, localVars, history, workVars, PcOK, ThreadAt, InCallPCs, UnpausePCs, LockPCs
    <3>2. /\ ~Looking(t)' /\ ~Resting(t)' /\ ~Fetched(t)' /\ ~Running(t)' /\ ~Running(t) /\ pc[t] \notin MarkedPCs
      BY <3>1 DEF At, Looking, Resting, Fetched, Running, Place, InCallPCs, UnpausePCs, LockPCs, LookPCs, RestPCs, MarkedPCs
    <3>3. MovesOn(t, "token", "get")
      BY <3>1, <3>2 DEF MovesOn
    <3>4. QED BY <3>1, <3>3, MovesOnKeepsWork
  <2>2. CASE TokenBack(t) BY <2>2, TokenBackKeepsWork
  <2>3. CASE LinkToken(t) BY <2>3, LinkKeepsWork
  <2>4. CASE RunWork(t) BY <2>4, RunWorkKeepsWork
  <2>5. CASE WorkReturns(t) BY <2>5, WorkReturnsKeepsWork
  <2>6. CASE Spawn(t) BY <2>6, SpawnKeepsWork
  <2>7. CASE Offer(t) BY <2>7, OfferKeepsWork
  <2>8. CASE Link(t) BY <2>8, LinkKeepsWork
  <2>9. QED BY <2>1, <2>2, <2>3, <2>4, <2>5, <2>6, <2>7, <2>8 DEF Execute
<1>7. QED BY <1>2, <1>3, <1>4, <1>5, <1>6, ExecuteAt

(* A change of sources.                                                    *)
LEMMA ChangeSourcesKeeps ==
  ASSUME CoreInv, NEW t \in Threads, ChangeSources(t)
  PROVE  /\ CoreInv' /\ UNCHANGED <<epochVars, probeVars, waiters, queue>>
         /\ At(t, "unlock", "body") /\ pc[t] = "body" /\ ret[t] = "get" /\ lock = "Unlocked" /\ lock' = "Locked"
<1> USE DEF CoreInv
<1>1. WorkInv' /\ PcOK' /\ At(t, "unlock", "body") /\ pc[t] = "body" /\ ret[t] = "get"
  BY ChangeSourcesKeepsWork
<1>2. UNCHANGED <<epochVars, probeVars, victim, waiters, toWake, sem, queue>> /\ lock = "Unlocked" /\ lock' = "Locked"
  BY DEF ChangeSources, SourceAdded, SourceRemoved, coreVars
<1>3. SleepInv'
  BY <1>1, <1>2, AcquireKeepsSleep DEF LockPCs, Decided
<1>4. RingOK'
  BY <1>1, <1>2, Kinds, RingStep DEF probeVars, RingOK
<1>5. QED BY <1>1, <1>2, <1>3, <1>4

(* The start of a thread outside the pool.                                 *)
LEMMA StartExternalKeeps ==
  ASSUME CoreInv, NEW t \in Threads, StartExternal(t)
  PROVE  /\ CoreInv' /\ UNCHANGED <<epochVars, probeVars, syncVars, queue>>
         /\ \E x \in Externals : At(x, "push", "get") /\ pc[x] = "off" /\ ret[x] = "get"
<1> USE DEF CoreInv
<1>1. WorkInv' /\ PcOK' /\ \E x \in Externals : At(x, "push", "get") /\ pc[x] = "off" /\ ret[x] = "get"
  BY StartExternalKeepsWork
<1>2. PICK x \in Externals : At(x, "push", "get") /\ pc[x] = "off"
  BY <1>1
<1>3. UNCHANGED <<epochVars, probeVars, victim, syncVars, queue>>
  BY DEF StartExternal, coreVars
<1>4. SleepInv'
  BY <1>2, <1>3, CalmKeepsSleep, Kinds DEF LockPCs
<1>5. RingOK'
  BY <1>2, <1>3, Kinds, RingStep DEF probeVars, RingOK
<1>6. QED BY <1>1, <1>3, <1>4, <1>5

(* The scheduling of an item from outside.                                 *)
LEMMA PushKeeps ==
  ASSUME CoreInv, NEW x \in Externals, Push(x)
  PROVE  CoreInv' /\ UNCHANGED <<epochVars, probeVars, syncVars>> /\ At(x, "unpause", "push") /\ pc[x] = "push" /\ ret[x] = "get"
<1> USE DEF CoreInv
<1>1. x \in Actors /\ x \notin Threads /\ victim[x] \in Threads
  BY Kinds DEF RingOK
<1>2. WorkInv' /\ PcOK' /\ At(x, "unpause", "push") /\ pc[x] = "push" /\ ret[x] = "get"
  BY <1>1, PushKeepsWork
<1>3. UNCHANGED <<epochVars, probeVars, syncVars>> /\ victim' = [victim EXCEPT ![x] = NextCore[victim[x]]]
  BY DEF Push
<1>4. SleepInv'
  BY <1>1, <1>2, <1>3, CalmKeepsSleep DEF LockPCs
<1>5. RingOK'
  BY <1>1, <1>2, <1>3, RingStep DEF probeVars, RingOK
<1>6. QED BY <1>2, <1>3, <1>4, <1>5

(* An unpause.                                                             *)
LEMMA UnpauseKeeps ==
  ASSUME CoreInv, NEW a \in Actors, Unpause(a)
  PROVE  CoreInv' /\ UNCHANGED <<workVars, probeVars>>
<1> USE DEF CoreInv
<1>1. PcOK' /\ WorkInv' /\ UNCHANGED workVars
  BY UnpauseAt, SameWork
<1>2. UNCHANGED <<probeVars, victim>>
  BY DEF Unpause, UnpauseLoadPause, UnpauseCompare, SlowLoadUnpause, SlowLoadPause, CatchUp, Ring, Unlock,
         UnlockUnpause, Wake, localVars
<1>3. RingOK'
  <2>1. PICK p, r : At(a, p, r) BY UnpauseAt DEF SameKind
  <2>2. pc[a] \notin {"loadBack", "loadFront"}
    BY DEF Unpause, UnpauseLoadPause, UnpauseCompare, SlowLoadUnpause, SlowLoadPause, CatchUp, Ring, Unlock,
         UnlockUnpause, Wake
  <2>3. QED BY <1>2, <2>1, <2>2, RingStep DEF probeVars, RingOK
<1>4. ASSUME UnpauseLoadPause(a) \/ UnpauseCompare(a) \/ SlowLoadUnpause(a) \/ SlowLoadPause(a) \/ CatchUp(a)
      PROVE  SleepInv'
  <2>1. pc[a] \in UnpausePCs /\ UNCHANGED syncVars
    BY <1>4 DEF UnpauseLoadPause, UnpauseCompare, SlowLoadUnpause, SlowLoadPause, CatchUp, UnpausePCs
  <2>2. /\ a \in Threads => ret[a] \in {"run", "body"}
        /\ a \in Externals => ret[a] = "push"
    BY <2>1 DEF PcOK, ThreadAt, ExternalAt, UnpausePCs
  <2>3. \/ \E p \in UnpausePCs : At(a, p, ret[a])
        \/ At(a, ret[a], "get")
    <3>1. Return(a) \/ (UNCHANGED ret /\ \E p \in UnpausePCs : Goto(a, p))
      BY <1>4 DEF UnpauseLoadPause, UnpauseCompare, SlowLoadUnpause, SlowLoadPause, CatchUp, UnpausePCs
    <3>2. QED BY <3>1, GotoAt, ReturnAt
  <2>4. QED BY <2>1, <2>2, <2>3, CalmKeepsSleep, Kinds DEF UnpausePCs, LockPCs, Decided, At
<1>5. SleepInv'
  BY <1>4, RingKeepsSleep, UnlockKeepsSleep, UnlockUnpauseKeepsSleep, WakeKeepsSleep DEF Unpause
<1>6. QED BY <1>1, <1>2, <1>3, <1>5

(* The steps to a pause that do not take the lock.                         *)
LEMMA QuietPauseAt ==
  ASSUME PcOK, NEW t \in Threads,
         TryAgain(t) \/ GiveUp(t) \/ Announce(t) \/ LoadBack(t) \/ LoadFront(t)
  PROVE  UNCHANGED syncVars /\
         \E p \in {"steal", "announce", "loadBack", "loadFront", "decide"} :
           At(t, p, "get") /\ pc[t] \in {"tick", "announce", "loadBack", "loadFront"} /\ ret[t] = "get"
<1>1. /\ pc[t] \in {"tick", "announce", "loadBack", "loadFront"} /\ UNCHANGED <<ret, syncVars>>
      /\ \E p \in {"steal", "announce", "loadBack", "loadFront", "decide"} : Goto(t, p)
  BY DEF TryAgain, GiveUp, Announce, LoadBack, LoadFront
<1>2. ret[t] = "get"
  BY <1>1 DEF PcOK, ThreadAt, InCallPCs, UnpausePCs, LockPCs
<1>3. QED BY <1>1, <1>2, GotoAt, Kinds

(* A pause.                                                                *)
LEMMA PauseKeeps ==
  ASSUME CoreInv, NEW t \in Threads, Pause(t) \/ TryAgain(t) \/ GiveUp(t)
  PROVE  CoreInv' /\ UNCHANGED workVars
<1> USE DEF CoreInv
<1>1. t \in Actors
  BY Kinds
<1>2. PcOK' /\ WorkInv' /\ UNCHANGED workVars
  BY <1>1, PauseAt, SameWork
<1>3. RingOK'
  <2>1. UNCHANGED victim
    BY DEF Pause, TryAgain, GiveUp, Announce, LoadBack, LoadFront, AbandonPause, JoinWaiters, Teardown, Sleep, Relock, localVars
  <2>2. PICK p, r : At(t, p, r) BY <1>1, PauseAt DEF SameKind
  <2>3. CASE LoadFront(t)
    <3>1. probe' \in [Threads -> Threads]
      BY <2>3, RingAssumption DEF RingOK, LoadFront
    <3>2. \A u \in Threads : u # t => probe'[u] = probe[u] /\ pc'[u] = pc[u]
      <4>1. \A u \in Threads : u # t => probe'[u] = probe[u] BY <2>3 DEF LoadFront, RingOK
      <4>2. QED BY <2>2, <4>1, Kinds DEF At
    <3>3. pc'[t] \notin {"loadBack", "loadFront"} => probe'[t] = First
      <4>1. CASE ~NothingOld(t) BY <2>3, <4>1 DEF LoadFront, RingOK
      <4>2. CASE NothingOld(t)
        <5>1. At(t, IF NextCore[probe[t]] = First THEN "decide" ELSE "loadBack", ret[t])
          BY <1>1, <2>3, <4>2, GotoAt DEF LoadFront
        <5>2. probe'[t] = NextCore[probe[t]] BY <2>3, <4>2 DEF LoadFront, RingOK
        <5>3. QED BY <5>1, <5>2 DEF At
      <4>3. QED BY <4>1, <4>2
    <3>4. localBack' = [u \in Threads |-> localBack'[u]] BY <2>3 DEF RingOK, LoadFront
    <3>5. QED BY <2>1, <3>1, <3>2, <3>3, <3>4 DEF RingOK
  <2>4. CASE LoadBack(t)
    <3>1. At(t, "loadFront", ret[t]) /\ UNCHANGED probe /\ localBack' = [u \in Threads |-> localBack'[u]]
      BY <1>1, <2>4, GotoAt DEF LoadBack, RingOK
    <3>2. QED BY <1>1, <2>1, <3>1, RingStep
  <2>5. CASE ~LoadFront(t) /\ ~LoadBack(t)
    <3>1. pc[t] \notin {"loadBack", "loadFront"} /\ UNCHANGED <<probe, localBack>>
      BY <2>5 DEF Pause, TryAgain, GiveUp, Announce, AbandonPause, JoinWaiters, Teardown, Sleep, Relock, probeVars
    <3>2. QED BY <1>1, <2>1, <2>2, <3>1, RingStep DEF RingOK
  <2>6. QED BY <2>3, <2>4, <2>5
<1>4. ASSUME TryAgain(t) \/ GiveUp(t) \/ Announce(t) \/ LoadBack(t) \/ LoadFront(t)
      PROVE  SleepInv'
  <2>1. /\ pc[t] \in {"tick", "announce", "loadBack", "loadFront"} /\ UNCHANGED syncVars
    BY <1>4, QuietPauseAt
  <2>2. PICK p \in {"steal", "announce", "loadBack", "loadFront", "decide"} : At(t, p, "get") /\ ret[t] = "get"
    BY <1>4, QuietPauseAt
  <2>3. QED BY <1>1, <2>1, <2>2, CalmKeepsSleep DEF LockPCs, Decided, At
<1>5. ASSUME AbandonPause(t) \/ Teardown(t) \/ Relock(t)
      PROVE  SleepInv'
  <2>1. /\ pc[t] \in {"decide", "relock"} /\ Call(t, "unlock", "steal") /\ lock = "Unlocked"
        /\ lock' \in {"Locked", "LockedUnpauseNeeded"} /\ UNCHANGED <<waiters, toWake, sem>>
    BY <1>5 DEF AbandonPause, Teardown, Relock
  <2>2. At(t, "unlock", "steal") /\ ret[t] = "get"
    BY <1>1, <2>1, CallAt DEF PcOK, ThreadAt, InCallPCs, UnpausePCs, LockPCs
  <2>3. QED BY <2>1, <2>2, AcquireKeepsSleep DEF LockPCs, Decided
<1>6. SleepInv'
  BY <1>4, <1>5, JoinKeepsSleep, SleepKeepsSleep DEF Pause
<1>7. QED BY <1>2, <1>3, <1>6

-----------------------------------------------------------------------------
(* The epochs, step by step. *)

(* Actor a moves, the unpause epoch does not go back, and a's copies fit.  *)
LEMMA EpochStep ==
  ASSUME EpochsOK, NEW a \in Actors, NEW p, NEW r, At(a, p, r),
         pauseEpoch' \in Nat, unpauseEpoch' \in Nat,
         pauseEpoch <= pauseEpoch', unpauseEpoch <= unpauseEpoch', unpauseEpoch' <= pauseEpoch',
         localPause' \in [Actors -> Nat], localUnpause' \in [Actors -> Nat],
         \A b \in Actors : b # a => localPause'[b] = localPause[b] /\ localUnpause'[b] = localUnpause[b],
         p = "compare" => localPause'[a] <= pauseEpoch',
         p = "slowPause" => localUnpause'[a] <= unpauseEpoch',
         p = "catchUp" => localUnpause'[a] <= localPause'[a] /\ localPause'[a] <= pauseEpoch',
         p \in AskedPCs => localUnpause'[a] <= unpauseEpoch'
  PROVE  EpochsOK'
<1>1. ASSUME NEW b \in Actors
      PROVE  /\ pc'[b] = "compare" => localPause'[b] <= pauseEpoch'
             /\ pc'[b] = "slowPause" => localUnpause'[b] <= unpauseEpoch'
             /\ pc'[b] = "catchUp" => localUnpause'[b] <= localPause'[b] /\ localPause'[b] <= pauseEpoch'
             /\ pc'[b] \in AskedPCs => localUnpause'[b] <= unpauseEpoch'
  <2>1. CASE b = a BY <2>1 DEF At
  <2>2. CASE b # a
    <3>1. pc'[b] = pc[b] /\ localPause'[b] = localPause[b] /\ localUnpause'[b] = localUnpause[b]
      BY <2>2 DEF At
    <3>2. localPause[b] \in Nat /\ localUnpause[b] \in Nat /\ pauseEpoch \in Nat /\ unpauseEpoch \in Nat
      BY DEF EpochsOK
    <3>3. /\ pc[b] = "compare" => localPause[b] <= pauseEpoch
          /\ pc[b] = "slowPause" => localUnpause[b] <= unpauseEpoch
          /\ pc[b] = "catchUp" => localUnpause[b] <= localPause[b] /\ localPause[b] <= pauseEpoch
          /\ pc[b] \in AskedPCs => localUnpause[b] <= unpauseEpoch
      BY DEF EpochsOK
    <3>4. QED BY <3>1, <3>2, <3>3
  <2>3. QED BY <2>1, <2>2
<1>2. QED BY <1>1 DEF EpochsOK

(* A step that reads and writes no epoch.                                  *)
LEMMA EpochCalm ==
  ASSUME EpochsOK, NEW a \in Actors, NEW p, NEW r, At(a, p, r), UNCHANGED epochVars,
         p \notin EpochPCs
  PROVE  EpochsOK' /\ unpauseEpoch' >= unpauseEpoch
<1>1. UNCHANGED <<pauseEpoch, unpauseEpoch, localPause, localUnpause>>
  BY DEF epochVars
<1>2. unpauseEpoch \in Nat /\ pauseEpoch \in Nat /\ unpauseEpoch <= pauseEpoch
      /\ localPause \in [Actors -> Nat] /\ localUnpause \in [Actors -> Nat]
  BY DEF EpochsOK
<1>3. unpauseEpoch <= unpauseEpoch' /\ pauseEpoch <= pauseEpoch'
  BY <1>1, <1>2
<1>4. QED BY <1>1, <1>2, <1>3, EpochStep DEF EpochPCs

(* The steps of an unpause.                                                *)
LEMMA UnpauseKeepsEpochs ==
  ASSUME PcOK, EpochsOK, NEW a \in Actors, Unpause(a)
  PROVE  /\ EpochsOK' /\ unpauseEpoch' >= unpauseEpoch /\ pauseEpoch' = pauseEpoch
         /\ \A b \in Actors : b # a => localPause'[b] = localPause[b] /\ localUnpause'[b] = localUnpause[b]
<1>1. /\ unpauseEpoch \in Nat /\ pauseEpoch \in Nat /\ unpauseEpoch <= pauseEpoch
      /\ localPause \in [Actors -> Nat] /\ localUnpause \in [Actors -> Nat]
      /\ localPause[a] \in Nat /\ localUnpause[a] \in Nat
  BY DEF EpochsOK
<1>2. ASSUME Return(a), pc[a] \in UnpausePCs \cup LockPCs
      PROVE  At(a, ret[a], "get") /\ ret[a] \notin EpochPCs
  BY <1>2, ReturnAt, Kinds DEF PcOK, ThreadAt, ExternalAt, UnpausePCs, LockPCs, EpochPCs, AskedPCs
<1> USE DEF EpochPCs, AskedPCs
<1>3. CASE UnpauseLoadPause(a)
  <2>1. At(a, "compare", ret[a]) BY <1>3, GotoAt DEF UnpauseLoadPause
  <2>2. /\ localPause' = [localPause EXCEPT ![a] = pauseEpoch] /\ UNCHANGED <<pauseEpoch, unpauseEpoch, localUnpause>>
    BY <1>3 DEF UnpauseLoadPause
  <2>3. /\ localPause' \in [Actors -> Nat] /\ localPause'[a] = pauseEpoch
        /\ \A b \in Actors : b # a => localPause'[b] = localPause[b]
    BY <1>1, <2>2
  <2>4. QED BY <1>1, <2>1, <2>2, <2>3, EpochStep
<1>4. CASE UnpauseCompare(a)
  <2>1. \E p, r : At(a, p, r) /\ p \notin EpochPCs
    <3>1. CASE unpauseEpoch = localPause[a]
      <4>1. Return(a) /\ pc[a] \in UnpausePCs BY <1>4, <3>1 DEF UnpauseCompare, UnpausePCs
      <4>2. QED BY <1>2, <4>1
    <3>2. CASE unpauseEpoch # localPause[a]
      <4>1. At(a, "slowUnpause", ret[a]) BY <1>4, <3>2, GotoAt DEF UnpauseCompare
      <4>2. QED BY <4>1
    <3>3. QED BY <3>1, <3>2
  <2>2. /\ localPause' = [localPause EXCEPT ![a] = 0] /\ UNCHANGED <<pauseEpoch, unpauseEpoch, localUnpause>>
    BY <1>4 DEF UnpauseCompare
  <2>3. /\ localPause' \in [Actors -> Nat]
        /\ \A b \in Actors : b # a => localPause'[b] = localPause[b]
    BY <1>1, <2>2
  <2>4. QED BY <1>1, <2>1, <2>2, <2>3, EpochStep
<1>5. CASE SlowLoadUnpause(a)
  <2>1. At(a, "slowPause", ret[a]) BY <1>5, GotoAt DEF SlowLoadUnpause
  <2>2. /\ localUnpause' = [localUnpause EXCEPT ![a] = unpauseEpoch] /\ UNCHANGED <<pauseEpoch, unpauseEpoch, localPause>>
    BY <1>5 DEF SlowLoadUnpause
  <2>3. /\ localUnpause' \in [Actors -> Nat] /\ localUnpause'[a] = unpauseEpoch
        /\ \A b \in Actors : b # a => localUnpause'[b] = localUnpause[b]
    BY <1>1, <2>2
  <2>4. QED BY <1>1, <2>1, <2>2, <2>3, EpochStep
<1>6. CASE SlowLoadPause(a)
  <2>1. At(a, "catchUp", ret[a]) BY <1>6, GotoAt DEF SlowLoadPause
  <2>2. /\ localPause' = [localPause EXCEPT ![a] = pauseEpoch] /\ UNCHANGED <<pauseEpoch, unpauseEpoch, localUnpause>>
    BY <1>6 DEF SlowLoadPause
  <2>3. /\ localPause' \in [Actors -> Nat] /\ localPause'[a] = pauseEpoch
        /\ \A b \in Actors : b # a => localPause'[b] = localPause[b]
    BY <1>1, <2>2
  <2>4. localUnpause[a] <= unpauseEpoch
    BY <1>6 DEF SlowLoadPause, EpochsOK
  <2>5. QED BY <1>1, <2>1, <2>2, <2>3, <2>4, EpochStep
<1>7. CASE CatchUp(a)
  <2>1. localUnpause[a] <= localPause[a] /\ localPause[a] <= pauseEpoch
    BY <1>7 DEF CatchUp, EpochsOK
  <2>2. \E p, r : At(a, p, r) /\ p \notin EpochPCs
    <3>1. CASE Wins(a)
      <4>1. At(a, "ring", ret[a]) BY <1>7, <3>1, GotoAt DEF CatchUp
      <4>2. QED BY <4>1
    <3>2. CASE ~Wins(a)
      <4>1. Return(a) /\ pc[a] \in UnpausePCs BY <1>7, <3>2 DEF CatchUp, UnpausePCs
      <4>2. QED BY <1>2, <4>1
    <3>3. QED BY <3>1, <3>2
  <2>3. unpauseEpoch' = IF Wins(a) THEN localPause[a] ELSE unpauseEpoch
    BY <1>7 DEF CatchUp
  <2>4. unpauseEpoch' \in Nat /\ unpauseEpoch <= unpauseEpoch' /\ unpauseEpoch' <= pauseEpoch
    BY <1>1, <2>1, <2>3 DEF Wins
  <2>5. /\ localPause' = [localPause EXCEPT ![a] = 0] /\ localUnpause' = [localUnpause EXCEPT ![a] = 0]
        /\ UNCHANGED pauseEpoch
    BY <1>7 DEF CatchUp
  <2>6. /\ localPause' \in [Actors -> Nat] /\ localUnpause' \in [Actors -> Nat]
        /\ \A b \in Actors : b # a => localPause'[b] = localPause[b] /\ localUnpause'[b] = localUnpause[b]
    BY <1>1, <2>5
  <2>7. QED BY <1>1, <2>2, <2>4, <2>5, <2>6, EpochStep
<1>8. CASE Ring(a) \/ Unlock(a) \/ UnlockUnpause(a) \/ Wake(a)
  <2>1. UNCHANGED epochVars
    BY <1>8 DEF Ring, Unlock, UnlockUnpause, Wake
  <2>2. \E p, r : At(a, p, r) /\ p \notin EpochPCs
    <3>1. pc[a] \in UnpausePCs \cup LockPCs
      BY <1>8 DEF Ring, Unlock, UnlockUnpause, Wake, UnpausePCs, LockPCs
    <3>2. \/ Return(a)
          \/ UNCHANGED ret /\ \E p \in {"unlock", "unlockUnpause", "wake"} : Goto(a, p)
          \/ pc[a] = "wake" /\ UNCHANGED <<pc, ret>>
      BY <1>8 DEF Ring, Unlock, UnlockUnpause, Wake
    <3>3. pc[a] = "wake" /\ UNCHANGED <<pc, ret>> => At(a, "wake", ret[a])
      BY DEF At, PcOK
    <3>4. QED BY <1>2, <3>1, <3>2, <3>3, GotoAt
  <2>3. QED BY <2>1, <2>2, EpochCalm DEF epochVars
<1>9. QED BY <1>3, <1>4, <1>5, <1>6, <1>7, <1>8 DEF Unpause

(* The steps of a pause.                                                   *)
LEMMA PauseKeepsEpochs ==
  ASSUME PcOK, EpochsOK, NEW t \in Threads, Pause(t) \/ TryAgain(t) \/ GiveUp(t)
  PROVE  EpochsOK' /\ unpauseEpoch' = unpauseEpoch
<1>1. /\ unpauseEpoch \in Nat /\ pauseEpoch \in Nat /\ unpauseEpoch <= pauseEpoch
      /\ localPause \in [Actors -> Nat] /\ localUnpause \in [Actors -> Nat]
      /\ localPause[t] \in Nat /\ localUnpause[t] \in Nat /\ t \in Actors
  BY Kinds DEF EpochsOK
<1>2. UNCHANGED <<unpauseEpoch, localPause>>
  BY DEF Pause, TryAgain, GiveUp, Announce, LoadBack, LoadFront, AbandonPause, JoinWaiters, Teardown, Sleep, Relock,
     epochVars
<1>3. PICK p, r : At(t, p, r)
  BY PauseAt DEF SameKind
<1>4. CASE GiveUp(t)
  <2>1. /\ localUnpause' = [localUnpause EXCEPT ![t] = unpauseEpoch] /\ UNCHANGED pauseEpoch /\ p \in AskedPCs /\ p = "announce"
    BY <1>1, <1>3, <1>4, GotoAt DEF GiveUp, At, AskedPCs
  <2>2. /\ localUnpause' \in [Actors -> Nat] /\ localUnpause'[t] = unpauseEpoch
        /\ \A b \in Actors : b # t => localUnpause'[b] = localUnpause[b]
    BY <1>1, <2>1
  <2>3. QED BY <1>1, <1>2, <1>3, <2>1, <2>2, EpochStep
<1>5. CASE ~GiveUp(t)
  <2>1. localUnpause' = localUnpause \/ Forget(t)
    BY <1>5 DEF Pause, TryAgain, Announce, LoadBack, LoadFront, AbandonPause, JoinWaiters, Teardown, Sleep, Relock,
       epochVars
  <2>2. /\ localUnpause' \in [Actors -> Nat]
        /\ \A b \in Actors : b # t => localUnpause'[b] = localUnpause[b]
    BY <1>1, <2>1 DEF Forget
  <2>3. pauseEpoch' = pauseEpoch \/ pauseEpoch' = pauseEpoch + 1
    BY <1>5 DEF Pause, TryAgain, Announce, LoadBack, LoadFront, AbandonPause, JoinWaiters, Teardown, Sleep, Relock,
       epochVars
  <2>4. \/ p \notin EpochPCs
        \/ p \in AskedPCs /\ pc[t] \in AskedPCs /\ localUnpause' = localUnpause
    <3>1. CASE TryAgain(t) \/ Sleep(t)
      <4>1. UNCHANGED ret /\ (Goto(t, "steal") \/ Goto(t, "relock"))
        BY <3>1 DEF TryAgain, Sleep
      <4>2. At(t, "steal", ret[t]) \/ At(t, "relock", ret[t])
        BY <1>1, <4>1, GotoAt
      <4>3. QED BY <1>3, <4>2 DEF At, EpochPCs, AskedPCs
    <3>2. CASE AbandonPause(t) \/ JoinWaiters(t) \/ Teardown(t) \/ Relock(t)
      <4>1. \E q : Call(t, "unlock", q)
        BY <3>2 DEF AbandonPause, JoinWaiters, Teardown, Relock
      <4>2. p = "unlock" BY <1>1, <1>3, <4>1, CallAt DEF At
      <4>3. QED BY <4>2 DEF EpochPCs, AskedPCs
    <3>3. CASE Announce(t) \/ LoadBack(t)
      <4>1. UNCHANGED <<ret, localUnpause>> /\ (Goto(t, "loadBack") \/ Goto(t, "loadFront"))
        BY <3>3 DEF Announce, LoadBack, epochVars
      <4>2. At(t, "loadBack", ret[t]) \/ At(t, "loadFront", ret[t])
        BY <1>1, <4>1, GotoAt
      <4>3. QED BY <1>3, <3>3, <4>1, <4>2 DEF At, AskedPCs, Announce, LoadBack
    <3>4. CASE LoadFront(t)
      <4>1. \/ Goto(t, "steal") /\ UNCHANGED ret
            \/ (Goto(t, "decide") \/ Goto(t, "loadBack")) /\ UNCHANGED <<ret, localUnpause>>
        BY <3>4 DEF LoadFront
      <4>2. \/ At(t, "steal", ret[t])
            \/ (At(t, "decide", ret[t]) \/ At(t, "loadBack", ret[t])) /\ UNCHANGED localUnpause
        BY <1>1, <4>1, GotoAt
      <4>3. QED BY <1>3, <3>4, <4>2 DEF At, AskedPCs, EpochPCs, LoadFront
    <3>5. QED BY <1>5, <3>1, <3>2, <3>3, <3>4 DEF Pause
  <2>5. pauseEpoch' \in Nat /\ pauseEpoch <= pauseEpoch' /\ unpauseEpoch <= pauseEpoch'
    BY <1>1, <2>3
  <2>6. p \in AskedPCs => localUnpause'[t] <= unpauseEpoch'
    BY <1>1, <1>2, <2>4 DEF EpochsOK, EpochPCs
  <2>7. p \notin {"compare", "slowPause", "catchUp"}
    BY <2>4 DEF EpochPCs, AskedPCs
  <2>8. QED BY <1>1, <1>2, <1>3, <2>2, <2>5, <2>6, <2>7, EpochStep
<1>6. QED BY <1>4, <1>5

-----------------------------------------------------------------------------
(* The last pauser, step by step. *)

(* A thread that is busy has not announced a pause.                        *)
LEMMA BusyThread ==
  ASSUME NEW t \in Threads, pc[t] \notin {"loadBack", "loadFront", "decide", "sleep", "relock"}, ret[t] # "sleep"
  PROVE  ~AllAnnounced
BY DEF AllAnnounced, Announced, Gone, Decided, ProbePCs

(* An unpause of somebody else, or an epoch that is level, stays so.       *)
LEMMA FreshStays ==
  ASSUME EpochsOK, NEW a \in Actors, NEW p, NEW r, At(a, p, r), NEW snap \in Nat, snap <= unpauseEpoch,
         unpauseEpoch' \in Nat, unpauseEpoch' >= unpauseEpoch, pauseEpoch' = pauseEpoch, program' = program,
         \A b \in Actors : b # a => localPause'[b] = localPause[b] /\ localUnpause'[b] = localUnpause[b],
         a \in Externals /\ Unpausing(a) => Unpausing(a)' \/ unpauseEpoch' > snap
  PROVE  unpauseEpoch' > snap \/ \A w : Fresh(w) => Fresh(w)'
<1>1. unpauseEpoch \in Nat
  BY DEF EpochsOK
<1> SUFFICES ASSUME ~(unpauseEpoch' > snap), NEW w, NEW x \in Externals, Unpausing(x), On(program.pushes[x], w)
             PROVE  Unpausing(x)'
  BY DEF Fresh
<1>2. unpauseEpoch' = unpauseEpoch
  BY <1>1
<1>3. CASE x = a
  BY <1>3
<1>4. CASE x # a
  <2>1. pc'[x] = pc[x] /\ localPause'[x] = localPause[x] /\ localUnpause'[x] = localUnpause[x]
    BY <1>4, Kinds DEF At
  <2>2. QED BY <1>2, <2>1 DEF Unpausing
<1>5. QED BY <1>3, <1>4

(* Somebody else moves, or z goes on deciding; no queue changes.           *)
LEMMA PausingStays ==
  ASSUME NEW z \in Threads, NEW Seen \in SUBSET Threads, NEW snap \in Nat, PausingInv(z, Seen, snap),
         UNCHANGED <<pauseEpoch, queue>>, probe'[z] = probe[z], localBack'[z] = localBack[z], snap <= unpauseEpoch',
         \A t \in Threads : pc'[t] \in ProbePCs => pc[t] \in ProbePCs /\ localUnpause'[t] = localUnpause[t],
         pc'[z] \in ProbePCs => pc'[z] = pc[z],
         Gone(z)' => Gone(z), unpauseEpoch > snap => unpauseEpoch' > snap,
         unpauseEpoch' > snap \/ \A w : Fresh(w) => Fresh(w)',
         Decided(z)' /\ On(waiters', z) /\ unpauseEpoch' > snap => WakesWaiters'
  PROVE  PausingInv(z, Seen, snap)'
<1>1. unpauseEpoch' > snap \/ Untouched(z, Seen)'
  <2>1. CASE unpauseEpoch > snap BY <2>1
  <2>2. CASE Untouched(z, Seen) /\ \A w : Fresh(w) => Fresh(w)'
    <3>1. pc'[z] = "loadFront" => pc[z] = "loadFront" BY DEF ProbePCs
    <3>2. QED BY <2>2, <3>1 DEF Untouched, Back
  <2>3. QED BY <2>1, <2>2 DEF PausingInv
<1>2. snap < pauseEpoch' /\ snap <= unpauseEpoch'
  BY DEF PausingInv
<1>3. pc'[z] \in ProbePCs => localUnpause'[z] = snap
  BY DEF PausingInv
<1>4. First \in Seen \cup {probe'[z]} /\ \A c \in Seen : NextCore[c] \in Seen \cup {probe'[z]}
  BY DEF PausingInv
<1>5. pc'[z] = "decide" \/ Gone(z)' => Seen = Threads
  BY DEF PausingInv, ProbePCs
<1>6. Gone(z)' => \A t \in Threads : pc'[t] \in ProbePCs => localUnpause'[t] <= snap
  BY DEF PausingInv
<1>7. QED BY <1>1, <1>2, <1>3, <1>4, <1>5, <1>6 DEF PausingInv

(* When all threads have announced a pause they have nothing: each core's  *)
(* token is in its queue, and all work is there or done.                   *)
LEMMA NothingHeld ==
  ASSUME PcOK, QueuesOK, HandsOK, NothingLost, AllAnnounced
  PROVE  /\ \A t \in Threads : cur[t] = None /\ nextWork[t] = None
         /\ \A c \in Threads : On(queue[c], c)
         /\ \A w \in scheduled : w \in finished \/ \E c \in Threads : On(queue[c], w)
<1>1. ASSUME NEW t \in Threads PROVE Resting(t)
  BY DEF AllAnnounced, Announced, Gone, Decided, ProbePCs, Resting, Place, RestPCs, InCallPCs, UnpausePCs, LockPCs,
         PcOK, ThreadAt, LookPCs
<1>2. \A t \in Threads : cur[t] = None /\ nextWork[t] = None
  BY <1>1 DEF HandsOK
<1>3. \A x \in Items : ~Held(x)
  BY <1>2, Kinds DEF Held
<1>4. ASSUME NEW c \in Threads PROVE On(queue[c], c)
  <2>1. c \in Items /\ InQueue(c) BY <1>3, Kinds DEF NothingLost
  <2>2. PICK d \in Threads : On(queue[d], c) BY <2>1 DEF InQueue
  <2>3. QED BY <2>1, <2>2 DEF QueuesOK
<1>5. \A w \in scheduled : w \in finished \/ \E c \in Threads : On(queue[c], w)
  BY <1>3, Kinds DEF NothingLost, InQueue
<1>6. QED BY <1>2, <1>4, <1>5

(* A thread announces its pause.                                           *)
LEMMA AnnounceKeepsLast ==
  ASSUME PcOK, RingOK, EpochsOK, NEW t \in Threads, Announce(t)
  PROVE  LastPauser'
<1>1. t \in Actors /\ pc[t] = "announce" /\ ret[t] = "get"
  BY Kinds DEF Announce, PcOK, ThreadAt, InCallPCs, UnpausePCs, LockPCs
<1>2. At(t, "loadBack", "get")
  BY <1>1, GotoAt DEF Announce
<1>3. pauseEpoch' = pauseEpoch + 1 /\ UNCHANGED <<unpauseEpoch, localUnpause, probe, queue>>
  BY DEF Announce, probeVars, coreVars
<1>4. PICK snap \in Nat : snap = localUnpause[t] /\ snap <= unpauseEpoch
  BY <1>1 DEF EpochsOK, AskedPCs
<1>5. PausingInv(t, {}, snap)'
  <2>1. pc'[t] = "loadBack" /\ ~Decided(t)' /\ ~Gone(t)' BY <1>2 DEF At, Decided, Gone
  <2>2. snap < pauseEpoch' /\ snap <= unpauseEpoch' BY <1>3, <1>4 DEF EpochsOK
  <2>3. probe'[t] = First BY <1>1, <1>3 DEF RingOK
  <2>4. Untouched(t, {})' BY <2>1 DEF Untouched
  <2>5. QED BY <1>3, <1>4, <2>1, <2>2, <2>3, <2>4 DEF PausingInv
<1>6. QED BY <1>5 DEF LastPauser

(* A thread reads the back of a queue, and the front: when they are the    *)
(* same, the queue holds its token alone.                                  *)
LEMMA LoadsKeepLast ==
  ASSUME PcOK, QueuesOK, HandsOK, NothingLost, RingOK, EpochsOK, LastPauser,
         NEW t \in Threads, LoadBack(t) \/ LoadFront(t)
  PROVE  LastPauser'
<1> SUFFICES ASSUME AllAnnounced' PROVE LastPauser'
  BY DEF LastPauser
<1>1. t \in Actors /\ pc[t] \in {"loadBack", "loadFront"} /\ ret[t] = "get"
  BY Kinds DEF LoadBack, LoadFront, PcOK, ThreadAt, InCallPCs, UnpausePCs, LockPCs
<1>2. UNCHANGED <<program, pauseEpoch, unpauseEpoch, localPause, queue, waiters, lock>>
  BY DEF LoadBack, LoadFront, coreVars, epochVars, syncVars
<1>3. LoadFront(t) => NothingOld(t)
  <2>1. SUFFICES ASSUME LoadFront(t), ~NothingOld(t) PROVE FALSE
    OBVIOUS
  <2>2. At(t, "steal", "get") BY <1>1, <2>1, GotoAt DEF LoadFront
  <2>3. ~AllAnnounced' BY <2>2, BusyThread DEF At, AllAnnounced, Announced, Gone, Decided, ProbePCs
  <2>4. QED BY <2>3
<1>4. UNCHANGED localUnpause
  BY <1>3 DEF LoadBack, LoadFront, epochVars
<1>5. PICK p \in {"loadBack", "loadFront", "decide"} : At(t, p, "get")
  <2>1. UNCHANGED ret /\ \E p \in {"loadBack", "loadFront", "decide"} : Goto(t, p)
    BY <1>3 DEF LoadBack, LoadFront
  <2>2. QED BY <1>1, <2>1, GotoAt
<1>6. \A u \in Threads : u # t =>
        pc'[u] = pc[u] /\ ret'[u] = ret[u] /\ (Decided(u)' <=> Decided(u)) /\ (Gone(u)' <=> Gone(u))
  BY <1>5, Kinds DEF At, Decided, Gone
<1>7. /\ ~Decided(t)' /\ ~Gone(t)' /\ ~Decided(t) /\ ~Gone(t)
      /\ pc[t] \in ProbePCs /\ pc'[t] \in ProbePCs /\ pc'[t] = p
  BY <1>1, <1>5 DEF At, Decided, Gone, ProbePCs
<1>8. AllAnnounced
  BY <1>6, <1>7 DEF AllAnnounced, Announced
<1>9. PICK z \in Threads, Seen \in SUBSET Threads, snap \in Nat : PausingInv(z, Seen, snap)
  BY <1>8 DEF LastPauser
<1>10. /\ \A w : Fresh(w)' <=> Fresh(w)
       /\ \A u \in Threads : pc'[u] \in ProbePCs => pc[u] \in ProbePCs /\ localUnpause'[u] = localUnpause[u]
       /\ WakesWaiters' <=> WakesWaiters
  <2>1. \A x \in Externals : pc'[x] = pc[x] BY <1>5, Kinds DEF At
  <2>2. \A w : Fresh(w)' <=> Fresh(w) BY <1>2, <1>4, <2>1 DEF Fresh, Unpausing
  <2>3. WakesWaiters' <=> WakesWaiters BY <1>1, <1>2, <1>5 DEF WakesWaiters, At
  <2>4. QED BY <1>4, <1>6, <1>7, <2>2, <2>3
<1>11. CASE z # t
  <2>1. probe'[z] = probe[z] /\ localBack'[z] = localBack[z]
    BY <1>11 DEF LoadBack, LoadFront, RingOK
  <2>2. snap <= unpauseEpoch' /\ (Decided(z)' /\ On(waiters', z) /\ unpauseEpoch' > snap => WakesWaiters')
    BY <1>2, <1>6, <1>9, <1>10, <1>11 DEF PausingInv
  <2>3. PausingInv(z, Seen, snap)'
    BY <1>2, <1>6, <1>9, <1>10, <1>11, <2>1, <2>2, PausingStays
  <2>4. QED BY <2>3 DEF LastPauser
<1>12. CASE z = t /\ LoadBack(t)
  <2>1. At(t, "loadFront", "get") /\ UNCHANGED probe BY <1>1, <1>12, GotoAt DEF LoadBack
  <2>2. localBack'[t] = Back(probe[t])' BY <1>2, <1>12, <2>1 DEF LoadBack, RingOK, Back
  <2>3. Untouched(z, Seen) => Untouched(z, Seen)'
    BY <1>2, <1>10, <1>12, <2>2 DEF Untouched
  <2>4. PausingInv(z, Seen, snap)'
    BY <1>2, <1>4, <1>7, <1>9, <1>12, <2>1, <2>3 DEF PausingInv, At
  <2>5. QED BY <2>4 DEF LastPauser
<1>13. CASE z = t /\ LoadFront(t)
  <2>1. PICK c \in Threads : c = probe[t] BY DEF RingOK
  <2>2. probe'[t] = NextCore[c] /\ NextCore[c] \in Threads
    BY <1>3, <1>13, <2>1, RingAssumption DEF LoadFront, RingOK
  <2>3. At(t, IF NextCore[c] = First THEN "decide" ELSE "loadBack", ret[t]) /\ pc[t] = "loadFront"
    BY <1>1, <1>3, <1>13, <2>1, GotoAt DEF LoadFront
  <2>4. (p = "decide" <=> NextCore[c] = First) /\ p \in {"loadBack", "decide"}
    BY <1>7, <2>3 DEF At
  <2>5. Untouched(z, Seen) => Untouched(z, Seen \cup {c})'
    <3>1. SUFFICES ASSUME Untouched(z, Seen) PROVE Untouched(z, Seen \cup {c})'
      OBVIOUS
    <3>2. queue[c] \in Seq(Items) /\ queue[c] # <<>> /\ Distinct(queue[c]) /\ On(queue[c], c)
      BY <1>8, NothingHeld DEF QueuesOK
    <3>3. queue[c][1] = Back(c)
      BY <1>3, <1>13, <2>1, <2>3, <3>1 DEF Untouched, NothingOld, Front
    <3>4. Len(queue[c]) = 1
      BY <3>2, <3>3, OneElement DEF Back
    <3>5. \A w \in Works : ~On(queue[c], w)
      BY <3>2, <3>4, Kinds DEF On
    <3>6. ~(pc'[z] = "loadFront") BY <1>7, <1>13, <2>4
    <3>7. \A d \in Seen \cup {c}, w \in Works : On(queue[d], w) => Fresh(w)
      BY <3>1, <3>5 DEF Untouched
    <3>8. QED BY <1>2, <1>10, <3>6, <3>7 DEF Untouched
  <2>6. /\ First \in Seen \cup {c} /\ \A d \in Seen \cup {c} : NextCore[d] \in (Seen \cup {c}) \cup {NextCore[c]}
        /\ snap < pauseEpoch /\ snap <= unpauseEpoch /\ localUnpause[t] = snap
        /\ unpauseEpoch > snap \/ Untouched(z, Seen)
    BY <1>7, <1>9, <1>13, <2>1 DEF PausingInv
  <2>7. p = "decide" => Seen \cup {c} = Threads
    <3>1. SUFFICES ASSUME NextCore[c] = First PROVE Seen \cup {c} = Threads
      BY <2>4
    <3>2. \A d \in Seen \cup {c} : NextCore[d] \in Seen \cup {c} BY <2>6, <3>1
    <3>3. Seen \cup {c} \in SUBSET Threads OBVIOUS
    <3>4. QED BY <2>6, <3>2, <3>3, RingAssumption
  <2>8. PausingInv(z, Seen \cup {c}, snap)'
    BY <1>2, <1>4, <1>7, <1>13, <2>2, <2>5, <2>6, <2>7 DEF PausingInv
  <2>9. Seen \cup {c} \in SUBSET Threads
    OBVIOUS
  <2>10. QED BY <2>8, <2>9 DEF LastPauser
<1>14. QED BY <1>11, <1>12, <1>13

(* A thread decides that no unpause came since it asked.                   *)
LEMMA JoinKeepsLast ==
  ASSUME PcOK, SleepInv, EpochsOK, LastPauser, NEW t \in Threads, JoinWaiters(t)
  PROVE  LastPauser'
<1> SUFFICES ASSUME AllAnnounced' PROVE LastPauser'
  BY DEF LastPauser
<1>1. t \in Actors /\ pc[t] = "decide" /\ ret[t] = "get" /\ localUnpause[t] = unpauseEpoch
  BY Kinds DEF JoinWaiters, Raced, PcOK, ThreadAt, InCallPCs, UnpausePCs, LockPCs
<1>2. At(t, "unlock", "sleep") /\ lock = "Unlocked"
  BY <1>1, CallAt DEF JoinWaiters
<1>3. /\ UNCHANGED <<program, pauseEpoch, unpauseEpoch, localPause, queue, probe, localBack>>
      /\ waiters' = <<t>> \o waiters
  BY DEF JoinWaiters, coreVars, probeVars
<1>4. \A a \in Actors : a # t => localUnpause'[a] = localUnpause[a] /\ pc'[a] = pc[a] /\ ret'[a] = ret[a]
  BY <1>2 DEF JoinWaiters, Forget, At, EpochsOK
<1>5. /\ \A u \in Threads : u # t => (Decided(u)' <=> Decided(u)) /\ (Gone(u)' <=> Gone(u))
      /\ \A u \in Threads : pc'[u] \in ProbePCs => u # t /\ pc[u] \in ProbePCs /\ localUnpause'[u] = localUnpause[u]
  BY <1>2, <1>4, Kinds DEF Decided, Gone, At, ProbePCs
<1>6. AllAnnounced
  BY <1>1, <1>4, <1>5, Kinds DEF AllAnnounced, Announced, ProbePCs
<1>7. PICK z \in Threads, Seen \in SUBSET Threads, snap \in Nat : PausingInv(z, Seen, snap)
  BY <1>6 DEF LastPauser
<1>8. \A w : Fresh(w) => Fresh(w)'
  <2>1. \A x \in Externals : x # t /\ x \in Actors BY Kinds
  <2>2. QED BY <1>3, <1>4, <2>1 DEF Fresh, Unpausing
<1>9. z \in Actors /\ snap <= unpauseEpoch
  BY <1>7, Kinds DEF PausingInv
<1>10. CASE z = t
  <2>1. snap = unpauseEpoch /\ Seen = Threads BY <1>1, <1>7, <1>10 DEF PausingInv, ProbePCs
  <2>2. ~(unpauseEpoch' > snap) BY <1>3, <2>1 DEF EpochsOK
  <2>3. pc'[z] = "unlock" BY <1>2, <1>10 DEF At
  <2>4. Untouched(z, Seen) => Untouched(z, Seen)' BY <1>3, <1>8, <2>3 DEF Untouched
  <2>5. \A u \in Threads : pc'[u] \in ProbePCs => localUnpause'[u] <= snap
    <3>1. \A u \in Threads : pc[u] \in ProbePCs => localUnpause[u] <= unpauseEpoch
      BY Kinds DEF EpochsOK, AskedPCs, ProbePCs
    <3>2. QED BY <1>5, <2>1, <3>1
  <2>6. pc'[z] \notin ProbePCs BY <2>3 DEF ProbePCs
  <2>7. PausingInv(z, Seen, snap)'
    BY <1>3, <1>7, <2>1, <2>2, <2>4, <2>5, <2>6 DEF PausingInv
  <2>8. QED BY <2>7 DEF LastPauser
<1>11. CASE z # t
  <2>1. On(waiters', z) => On(waiters, z)
    BY <1>3, <1>11, PushToList DEF SleepInv, SleepOK
  <2>2. WakesWaiters => WakesWaiters'
    <3>1. WakesWaiters => \E a \in Actors : pc[a] = "ring" /\ a # t BY <1>1, <1>2 DEF WakesWaiters
    <3>2. QED BY <1>4, <3>1 DEF WakesWaiters
  <2>3. (Decided(z)' => Decided(z)) /\ (Gone(z)' => Gone(z)) /\ pc'[z] = pc[z]
    BY <1>4, <1>5, <1>9, <1>11
  <2>4. Decided(z)' /\ On(waiters', z) /\ unpauseEpoch' > snap => WakesWaiters'
    BY <1>3, <1>7, <2>1, <2>2, <2>3 DEF PausingInv
  <2>5. PausingInv(z, Seen, snap)'
    BY <1>3, <1>5, <1>7, <1>8, <1>9, <2>3, <2>4, PausingStays
  <2>6. QED BY <2>5 DEF LastPauser
<1>12. QED BY <1>10, <1>11

(* A thread that was woken is still gone.                                  *)
LEMMA SleepKeepsLast ==
  ASSUME PcOK, EpochsOK, LastPauser, NEW t \in Threads, Sleep(t)
  PROVE  LastPauser'
<1> SUFFICES ASSUME AllAnnounced' PROVE LastPauser'
  BY DEF LastPauser
<1>1. t \in Actors /\ pc[t] = "sleep" /\ ret[t] = "get"
  BY Kinds DEF Sleep, PcOK, ThreadAt, InCallPCs, UnpausePCs, LockPCs
<1>2. At(t, "relock", "get")
  BY <1>1, GotoAt DEF Sleep
<1>3. UNCHANGED <<program, pauseEpoch, unpauseEpoch, localPause, localUnpause, queue, probe, localBack, waiters, lock>>
  BY DEF Sleep, coreVars, epochVars, probeVars
<1>4. \A a \in Actors : a # t => pc'[a] = pc[a] /\ ret'[a] = ret[a]
  BY <1>2 DEF At
<1>5. /\ \A u \in Threads : (Decided(u)' => Decided(u)) /\ (Gone(u)' <=> Gone(u))
      /\ \A u \in Threads : pc'[u] \in ProbePCs <=> pc[u] \in ProbePCs
      /\ \A u \in Threads : pc'[u] \in ProbePCs => pc'[u] = pc[u]
  BY <1>1, <1>2, <1>4, Kinds DEF Decided, Gone, At, ProbePCs
<1>6. AllAnnounced
  BY <1>5 DEF AllAnnounced, Announced
<1>7. PICK z \in Threads, Seen \in SUBSET Threads, snap \in Nat : PausingInv(z, Seen, snap)
  BY <1>6 DEF LastPauser
<1>8. \A w : Fresh(w) => Fresh(w)'
  BY <1>3, <1>4, Kinds DEF Fresh, Unpausing
<1>9. WakesWaiters => WakesWaiters'
  BY <1>1, <1>3, <1>4 DEF WakesWaiters
<1>10. snap <= unpauseEpoch' /\ (Decided(z)' /\ On(waiters', z) /\ unpauseEpoch' > snap => WakesWaiters')
  BY <1>3, <1>5, <1>7, <1>9 DEF PausingInv
<1>11. PausingInv(z, Seen, snap)'
  BY <1>3, <1>5, <1>7, <1>8, <1>10, PausingStays
<1>12. QED BY <1>11 DEF LastPauser

(* An item is scheduled from outside: an unpause is on its way.            *)
LEMMA PushKeepsLast ==
  ASSUME PcOK, QueuesOK, ScriptsOK, RingOK, EpochsOK, LastPauser, NEW x \in Externals, Push(x)
  PROVE  LastPauser'
<1> SUFFICES ASSUME AllAnnounced' PROVE LastPauser'
  BY DEF LastPauser
<1>1. x \in Actors /\ x \notin Threads /\ pc[x] = "push"
  BY Kinds DEF Push
<1>2. At(x, "unpause", "push")
  BY <1>1, CallAt DEF Push
<1>3. UNCHANGED <<program, pauseEpoch, unpauseEpoch, localPause, localUnpause, probe, localBack, waiters, lock>>
  BY DEF Push, epochVars, probeVars, syncVars
<1>4. \A u \in Threads : pc'[u] = pc[u] /\ ret'[u] = ret[u]
  BY <1>1, <1>2, Kinds DEF At
<1>5. AllAnnounced
  BY <1>4 DEF AllAnnounced, Announced, Gone, Decided
<1>6. PICK z \in Threads, Seen \in SUBSET Threads, snap \in Nat : PausingInv(z, Seen, snap)
  BY <1>5 DEF LastPauser
<1>7. PICK v : v = Head(todo[x]) /\ v \in Works /\ On(program.pushes[x], v)
  <2>1. todo[x] \in Seq(Works) /\ todo[x] # <<>> BY DEF ScriptsOK, Push
  <2>2. Head(todo[x]) \in Works /\ On(todo[x], Head(todo[x])) BY <2>1, TailOfList
  <2>3. QED BY <2>2 DEF ScriptsOK
<1>8. /\ \A c \in Threads : \A w : On(queue'[c], w) => On(queue[c], w) \/ w = v
      /\ \A c \in Threads : Back(c)' = Back(c)
  <2>1. PICK d \in Threads : d = victim[x] BY <1>1 DEF RingOK
  <2>2. queue' = [queue EXCEPT ![d] = <<v>> \o @] BY <1>7, <2>1 DEF Push, EnqueueFront
  <2>3. queue[d] \in Seq(Items) /\ queue[d] # <<>> /\ v \in Items BY <1>7, Kinds DEF QueuesOK
  <2>4. queue'[d] = <<v>> \o queue[d] /\ \A c \in Threads : c # d => queue'[c] = queue[c]
    BY <2>2 DEF QueuesOK
  <2>5. /\ \A w : On(<<v>> \o queue[d], w) <=> On(queue[d], w) \/ w = v
        /\ (<<v>> \o queue[d])[Len(<<v>> \o queue[d])] = queue[d][Len(queue[d])]
    BY <2>3, PushToList
  <2>6. QED BY <2>4, <2>5 DEF Back
<1>9. Fresh(v)' /\ \A w : Fresh(w) => Fresh(w)'
  <2>1. Unpausing(x)' BY <1>2 DEF At, Unpausing
  <2>2. \A y \in Externals : Unpausing(y) => Unpausing(y)'
    <3>1. \A y \in Externals : y # x => pc'[y] = pc[y] BY <1>2, Kinds DEF At
    <3>2. QED BY <1>3, <2>1, <3>1 DEF Unpausing
  <2>3. QED BY <1>3, <1>7, <2>1, <2>2 DEF Fresh
<1>10. Untouched(z, Seen) => Untouched(z, Seen)'
  <2>1. probe[z] \in Threads BY DEF RingOK
  <2>2. probe'[z] = probe[z] /\ localBack'[z] = localBack[z] /\ pc'[z] = pc[z] BY <1>3, <1>4
  <2>3. Back(probe[z])' = Back(probe[z]) BY <1>3, <1>8, <2>1
  <2>4. QED BY <1>8, <1>9, <2>2, <2>3 DEF Untouched
<1>11. WakesWaiters => WakesWaiters'
  BY <1>1, <1>2, <1>3 DEF WakesWaiters, At
<1>12. PausingInv(z, Seen, snap)'
  BY <1>3, <1>4, <1>6, <1>10, <1>11 DEF PausingInv, Gone, Decided
<1>13. QED BY <1>12 DEF LastPauser

(* An unpause keeps the last pauser covered until it is level.             *)
LEMMA UnpausingStays ==
  ASSUME PcOK, EpochsOK, NEW x \in Externals, Unpause(x), Unpausing(x), NEW snap \in Nat, snap < pauseEpoch
  PROVE  Unpausing(x)' \/ unpauseEpoch' > snap
<1>1. x \in Actors /\ pc[x] \in {"unpause", "compare", "slowUnpause", "slowPause", "catchUp"}
  BY Kinds DEF Unpausing
<1>2. /\ unpauseEpoch \in Nat /\ pauseEpoch \in Nat
      /\ localPause \in [Actors -> Nat] /\ localUnpause \in [Actors -> Nat]
  BY DEF EpochsOK
<1>3. CASE pc[x] = "unpause"
  <2>1. UnpauseLoadPause(x)
    BY <1>3 DEF Unpause, UnpauseLoadPause, UnpauseCompare, SlowLoadUnpause, SlowLoadPause, CatchUp, Ring, Unlock,
         UnlockUnpause, Wake
  <2>2. At(x, "compare", ret[x]) BY <1>1, <2>1, GotoAt DEF UnpauseLoadPause
  <2>3. localPause'[x] = pauseEpoch' BY <1>1, <1>2, <2>1 DEF UnpauseLoadPause
  <2>4. QED BY <2>2, <2>3 DEF Unpausing, At
<1>4. CASE pc[x] = "compare"
  <2>1. UnpauseCompare(x) /\ localPause[x] = pauseEpoch
    BY <1>4 DEF Unpause, UnpauseLoadPause, UnpauseCompare, SlowLoadUnpause, SlowLoadPause, CatchUp, Ring, Unlock,
         UnlockUnpause, Wake, Unpausing
  <2>2. CASE unpauseEpoch = localPause[x]
    BY <1>2, <2>1, <2>2 DEF UnpauseCompare
  <2>3. CASE unpauseEpoch # localPause[x]
    <3>1. At(x, "slowUnpause", ret[x]) BY <1>1, <2>1, <2>3, GotoAt DEF UnpauseCompare
    <3>2. QED BY <3>1 DEF Unpausing, At
  <2>4. QED BY <2>2, <2>3
<1>5. CASE pc[x] = "slowUnpause"
  <2>1. SlowLoadUnpause(x)
    BY <1>5 DEF Unpause, UnpauseLoadPause, UnpauseCompare, SlowLoadUnpause, SlowLoadPause, CatchUp, Ring, Unlock,
         UnlockUnpause, Wake
  <2>2. At(x, "slowPause", ret[x]) BY <1>1, <2>1, GotoAt DEF SlowLoadUnpause
  <2>3. localUnpause'[x] = unpauseEpoch' BY <1>1, <1>2, <2>1 DEF SlowLoadUnpause
  <2>4. QED BY <2>2, <2>3 DEF Unpausing, At
<1>6. CASE pc[x] = "slowPause"
  <2>1. SlowLoadPause(x) /\ localUnpause[x] = unpauseEpoch
    BY <1>6 DEF Unpause, UnpauseLoadPause, UnpauseCompare, SlowLoadUnpause, SlowLoadPause, CatchUp, Ring, Unlock,
         UnlockUnpause, Wake, Unpausing
  <2>2. At(x, "catchUp", ret[x]) BY <1>1, <2>1, GotoAt DEF SlowLoadPause
  <2>3. localPause'[x] = pauseEpoch' /\ localUnpause'[x] = unpauseEpoch'
    BY <1>1, <1>2, <2>1 DEF SlowLoadPause
  <2>4. QED BY <2>2, <2>3 DEF Unpausing, At
<1>7. CASE pc[x] = "catchUp"
  <2>1. CatchUp(x) /\ localUnpause[x] = unpauseEpoch /\ localPause[x] = pauseEpoch
    BY <1>7 DEF Unpause, UnpauseLoadPause, UnpauseCompare, SlowLoadUnpause, SlowLoadPause, CatchUp, Ring, Unlock,
         UnlockUnpause, Wake, Unpausing
  <2>2. unpauseEpoch' = pauseEpoch
    BY <2>1 DEF CatchUp, Wins
  <2>3. QED BY <1>2, <2>2
<1>8. QED BY <1>1, <1>3, <1>4, <1>5, <1>6, <1>7

(* What an unpause does to the wake-up of the waiters.                     *)
LEMMA UnpauseWakes ==
  ASSUME PcOK, SleepInv, EpochsOK, NEW a \in Actors, Unpause(a), NEW z \in Threads, On(waiters', z)
  PROVE  /\ On(waiters, z)
         /\ WakesWaiters \/ unpauseEpoch' # unpauseEpoch => WakesWaiters'
<1>1. CASE UnpauseLoadPause(a) \/ UnpauseCompare(a) \/ SlowLoadUnpause(a) \/ SlowLoadPause(a)
  <2>1. UNCHANGED <<waiters, lock, unpauseEpoch>> /\ pc[a] # "ring"
    BY <1>1 DEF UnpauseLoadPause, UnpauseCompare, SlowLoadUnpause, SlowLoadPause, syncVars
  <2>2. \E p, r : At(a, p, r)
    BY UnpauseAt DEF SameKind
  <2>3. QED BY <2>1, <2>2 DEF WakesWaiters, At
<1>2. CASE CatchUp(a)
  <2>1. UNCHANGED <<waiters, lock>> /\ pc[a] # "ring"
    BY <1>2 DEF CatchUp, syncVars
  <2>2. \E p, r : At(a, p, r)
    BY UnpauseAt DEF SameKind
  <2>3. CASE Wins(a)
    <3>1. At(a, "ring", ret[a]) BY <1>2, <2>3, GotoAt DEF CatchUp
    <3>2. QED BY <2>1, <3>1 DEF WakesWaiters, At
  <2>4. CASE ~Wins(a)
    <3>1. UNCHANGED unpauseEpoch BY <1>2, <2>4 DEF CatchUp
    <3>2. QED BY <2>1, <2>2, <3>1 DEF WakesWaiters, At
  <2>5. QED BY <2>3, <2>4
<1>3. CASE Ring(a)
  BY <1>3 DEF Ring, WakesWaiters
<1>4. CASE Unlock(a)
  <2>1. UNCHANGED unpauseEpoch /\ pc[a] = "unlock"
    BY <1>4 DEF Unlock, epochVars
  <2>2. CASE Releases
    <3>1. UNCHANGED waiters /\ At(a, ret[a], "get") BY <1>4, <2>2, ReturnAt DEF Unlock
    <3>2. WakesWaiters => \E b \in Actors : b # a /\ pc[b] = "ring"
      BY <2>1, <2>2 DEF WakesWaiters, Releases
    <3>3. QED BY <2>1, <3>1, <3>2 DEF WakesWaiters, At
  <2>3. CASE ~Releases
    <3>1. waiters' = <<>> BY <1>4, <2>3 DEF Unlock, TakeWaiters
    <3>2. QED BY <3>1, EmptyList
  <2>4. QED BY <2>2, <2>3
<1>5. CASE UnlockUnpause(a)
  <2>1. waiters' = <<>> BY <1>5 DEF UnlockUnpause, SleepInv, LockOK
  <2>2. QED BY <2>1, EmptyList
<1>6. CASE Wake(a)
  <2>1. UNCHANGED <<waiters, lock, unpauseEpoch>> /\ pc[a] # "ring"
    BY <1>6 DEF Wake, epochVars
  <2>2. \E p, r : At(a, p, r)
    BY UnpauseAt DEF SameKind
  <2>3. QED BY <2>1, <2>2 DEF WakesWaiters, At
<1>7. QED BY <1>1, <1>2, <1>3, <1>4, <1>5, <1>6 DEF Unpause

(* An unpause goes on.                                                     *)
LEMMA UnpauseKeepsLast ==
  ASSUME PcOK, SleepInv, EpochsOK, LastPauser, NEW a \in Actors, Unpause(a), UNCHANGED <<program, queue, probe, localBack>>
  PROVE  LastPauser'
<1> SUFFICES ASSUME AllAnnounced' PROVE LastPauser'
  BY DEF LastPauser
<1>1. PICK p, r : At(a, p, r)
  BY UnpauseAt DEF SameKind
<1>2. /\ EpochsOK' /\ unpauseEpoch' >= unpauseEpoch /\ pauseEpoch' = pauseEpoch
      /\ \A b \in Actors : b # a => localPause'[b] = localPause[b] /\ localUnpause'[b] = localUnpause[b]
  BY UnpauseKeepsEpochs
<1>3. pc[a] \in UnpausePCs \cup LockPCs
  BY DEF Unpause, UnpauseLoadPause, UnpauseCompare, SlowLoadUnpause, SlowLoadPause, CatchUp, Ring, Unlock,
         UnlockUnpause, Wake, UnpausePCs, LockPCs
<1>4. a \in Threads => ret[a] = "sleep"
  <2>1. SUFFICES ASSUME a \in Threads, ret[a] # "sleep" PROVE ~AllAnnounced'
    OBVIOUS
  <2>2. ret[a] \in {"run", "body", "steal"} BY <1>3, <2>1 DEF PcOK, ThreadAt, UnpausePCs, LockPCs
  <2>3. \/ \E q \in UnpausePCs \cup LockPCs : At(a, q, ret[a])
        \/ At(a, ret[a], "get")
    <3>1. \/ Return(a)
          \/ UNCHANGED ret /\ \E q \in UnpausePCs \cup LockPCs : Goto(a, q)
          \/ pc[a] = "wake" /\ UNCHANGED <<pc, ret>>
      BY DEF Unpause, UnpauseLoadPause, UnpauseCompare, SlowLoadUnpause, SlowLoadPause, CatchUp, Ring, Unlock,
         UnlockUnpause, Wake, UnpausePCs, LockPCs
    <3>2. pc[a] = "wake" /\ UNCHANGED <<pc, ret>> => At(a, "wake", ret[a])
      BY DEF At, PcOK
    <3>3. QED BY <3>1, <3>2, GotoAt, ReturnAt DEF LockPCs
  <2>4. ~Announced(a)' BY <2>2, <2>3 DEF At, Announced, Gone, Decided, ProbePCs, UnpausePCs, LockPCs
  <2>5. QED BY <2>1, <2>4 DEF AllAnnounced
<1>5. \A u \in Threads : Announced(u)' => Announced(u)
  <2>1. \A u \in Threads : u # a => pc'[u] = pc[u] /\ ret'[u] = ret[u] BY <1>1, Kinds DEF At
  <2>2. a \in Threads => Announced(a) BY <1>4 DEF Announced, Gone, Decided
  <2>3. QED BY <2>1, <2>2 DEF Announced, Gone, Decided
<1>6. AllAnnounced
  BY <1>5 DEF AllAnnounced
<1>7. PICK z \in Threads, Seen \in SUBSET Threads, snap \in Nat : PausingInv(z, Seen, snap)
  BY <1>6 DEF LastPauser
<1>8. unpauseEpoch' \in Nat /\ unpauseEpoch \in Nat /\ snap <= unpauseEpoch /\ snap < pauseEpoch /\ snap <= unpauseEpoch'
  BY <1>2, <1>7 DEF PausingInv, EpochsOK
<1>9. unpauseEpoch' > snap \/ \A w : Fresh(w) => Fresh(w)'
  <2>1. a \in Externals /\ Unpausing(a) => Unpausing(a)' \/ unpauseEpoch' > snap
    BY <1>8, UnpausingStays
  <2>2. QED BY <1>1, <1>2, <1>8, <2>1, FreshStays
<1>10. (Decided(z)' => Decided(z)) /\ (Gone(z)' => Gone(z))
  <2>1. z # a => pc'[z] = pc[z] /\ ret'[z] = ret[z] BY <1>1, Kinds DEF At
  <2>2. QED BY <1>4, <2>1 DEF Decided, Gone
<1>11. \A v \in Threads : pc'[v] \in ProbePCs => pc'[v] = pc[v] /\ localUnpause'[v] = localUnpause[v]
  <2>1. ASSUME a \in Threads PROVE pc'[a] \notin ProbePCs
    <3>1. pc[a] \in LockPCs BY <1>3, <1>4, <2>1 DEF PcOK, ThreadAt, UnpausePCs
    <3>2. At(a, ret[a], "get") \/ \E q \in LockPCs : At(a, q, ret[a])
      <4>1. \/ Return(a)
            \/ UNCHANGED ret /\ \E q \in LockPCs : Goto(a, q)
            \/ pc[a] = "wake" /\ UNCHANGED <<pc, ret>>
        BY <3>1 DEF Unpause, UnpauseLoadPause, UnpauseCompare, SlowLoadUnpause, SlowLoadPause, CatchUp, Ring, Unlock,
           UnlockUnpause, Wake, LockPCs
      <4>2. pc[a] = "wake" /\ UNCHANGED <<pc, ret>> => At(a, "wake", ret[a])
        BY DEF At, PcOK
      <4>3. QED BY <4>1, <4>2, GotoAt, ReturnAt DEF LockPCs
    <3>3. QED BY <1>4, <2>1, <3>2 DEF At, LockPCs, ProbePCs
  <2>2. \A v \in Threads : v # a => pc'[v] = pc[v] /\ localUnpause'[v] = localUnpause[v]
    BY <1>1, <1>2, Kinds DEF At
  <2>3. QED BY <2>1, <2>2
<1>12. Decided(z)' /\ On(waiters', z) /\ unpauseEpoch' > snap => WakesWaiters'
  <2>1. SUFFICES ASSUME Decided(z)', On(waiters', z), unpauseEpoch' > snap PROVE WakesWaiters'
    OBVIOUS
  <2>2. On(waiters, z) /\ (WakesWaiters \/ unpauseEpoch' # unpauseEpoch => WakesWaiters') BY <2>1, UnpauseWakes
  <2>3. CASE unpauseEpoch' = unpauseEpoch
    <3>1. WakesWaiters BY <1>7, <1>10, <2>1, <2>2, <2>3 DEF PausingInv
    <3>2. QED BY <2>2, <3>1
  <2>4. CASE unpauseEpoch' # unpauseEpoch BY <2>2, <2>4
  <2>5. QED BY <2>3, <2>4
<1>13. PausingInv(z, Seen, snap)'
  <2>1. unpauseEpoch > snap => unpauseEpoch' > snap BY <1>2, <1>8
  <2>2. QED BY <1>2, <1>7, <1>8, <1>9, <1>10, <1>11, <1>12, <2>1, PausingStays
<1>14. QED BY <1>13 DEF LastPauser

-----------------------------------------------------------------------------
(* The invariant. *)

PoolInv == CoreInv /\ PauseInv

(* The queues and the hands before the pool runs.                          *)
LEMMA InitWork ==
  ASSUME Init
  PROVE  CoreInv
<1> USE DEF Init
<1>1. First \in Threads /\ Root \in Works /\ Root \in Items /\ Root \notin Threads /\ Root # None
  BY Kinds, RingAssumption, WorkAssumption
<1>2. ASSUME NEW t \in Threads
      PROVE  pc[t] = "get" /\ ret[t] = "get" /\ todo[t] = <<>> /\ cur[t] = None /\ nextWork[t] = None
  BY Kinds
<1>3. ASSUME NEW x \in Externals
      PROVE  pc[x] = "off" /\ ret[x] = "get" /\ todo[x] = program.pushes[x]
  BY Kinds
<1>4. PcOK
  BY <1>2, <1>3 DEF PcOK, ThreadAt, ExternalAt, LookPCs, InCallPCs, UnpausePCs, LockPCs
<1>5. \A t \in Threads : Looking(t) /\ ~Fetched(t) /\ ~Running(t) /\ ~Resting(t) /\ ~Decided(t)
  BY <1>2 DEF Looking, Fetched, Running, Resting, Place, Decided, LookPCs, RestPCs, InCallPCs, UnpausePCs, LockPCs
<1>6. ASSUME NEW c \in Threads
      PROVE  /\ queue[c] \in Seq(Items) /\ queue[c] # <<>> /\ Distinct(queue[c]) /\ Back(c) = c
             /\ \A x : On(queue[c], x) <=> x = c \/ (c = First /\ x = Root)
  <2>1. c \in Items /\ c # Root BY <1>1, Kinds
  <2>2. CASE c = First
    <3>1. queue[c] = <<Root, c>> BY <2>2
    <3>2. /\ queue[c] \in Seq(Items) /\ Len(queue[c]) = 2 /\ queue[c][1] = Root /\ queue[c][2] = c
      BY <1>1, <2>1, <3>1
    <3>3. 1 .. Len(queue[c]) = {1, 2} BY <3>2
    <3>4. queue[c] # <<>> /\ Back(c) = c BY <3>1, <3>2 DEF Back
    <3>5. Distinct(queue[c]) BY <2>1, <3>2, <3>3 DEF Distinct
    <3>6. \A x : On(queue[c], x) <=> x = c \/ x = Root BY <3>2, <3>3 DEF On
    <3>7. QED BY <2>2, <3>2, <3>4, <3>5, <3>6
  <2>3. CASE c # First
    <3>1. queue[c] = <<c>> BY <2>3
    <3>2. /\ queue[c] \in Seq(Items) /\ Len(queue[c]) = 1 /\ queue[c][1] = c
      BY <2>1, <3>1
    <3>3. 1 .. Len(queue[c]) = {1} BY <3>2
    <3>4. queue[c] # <<>> /\ Back(c) = c BY <3>1, <3>2 DEF Back
    <3>5. Distinct(queue[c]) BY <3>3 DEF Distinct
    <3>6. \A x : On(queue[c], x) <=> x = c BY <3>2, <3>3 DEF On
    <3>7. QED BY <2>3, <3>2, <3>4, <3>5, <3>6
  <2>4. QED BY <2>2, <2>3
<1>7. QueuesOK
  <2>1. queue \in [Threads -> Seq(Items)]
    <3>1. queue = [c \in Threads |-> queue[c]] OBVIOUS
    <3>2. QED BY <1>6, <3>1
  <2>2. ASSUME NEW c \in Threads
        PROVE  queue[c] # <<>> /\ Distinct(queue[c]) /\ Back(c) \notin linked
    BY <1>1, <1>6
  <2>3. ASSUME NEW c \in Threads, NEW x \in Items, On(queue[c], x)
        PROVE  /\ \A d \in Threads : On(queue[d], x) => c = d
               /\ x \in Threads => x = c
               /\ x \in Works => x \in scheduled /\ x \notin started
    <3>1. x = c \/ (c = First /\ x = Root) BY <1>6, <2>3
    <3>2. CASE x = c
      <4>1. x \notin Works /\ x # Root BY <1>1, <3>2, Kinds
      <4>2. QED BY <1>6, <3>2, <4>1
    <3>3. CASE c = First /\ x = Root
      <4>1. ASSUME NEW d \in Threads, On(queue[d], x) PROVE d = First
        <5>1. x = d \/ (d = First /\ x = Root) BY <1>6, <4>1
        <5>2. QED BY <1>1, <3>3, <5>1
      <4>2. scheduled = {Root} /\ started = {} OBVIOUS
      <4>3. QED BY <1>1, <3>3, <4>1, <4>2
    <3>4. QED BY <3>1, <3>2, <3>3
  <2>4. QED BY <2>1, <2>2, <2>3 DEF QueuesOK
<1>8. \A c \in Threads : InQueue(c) /\ InQueue(Root)
  BY <1>1, <1>6 DEF InQueue
<1>9. LinksOK
  <2>1. \A a \in Actors : toLink[a] = None /\ pc[a] \notin {"link", "linkToken"}
    BY <1>2, <1>3, Kinds
  <2>2. QED BY <1>1, <1>8, <2>1 DEF LinksOK
<1>10. HandsOK
  <2>1. \A t \in Threads : pc[t] # "token" /\ pc[t] # "offer" BY <1>2
  <2>2. cur \in [Threads -> Items \cup {None}] /\ nextWork \in [Threads -> Works \cup {None}] OBVIOUS
  <2>3. QED BY <1>2, <1>5, <2>1, <2>2 DEF HandsOK
<1>11. NothingLost
  BY <1>1, <1>8 DEF NothingLost
<1>12. ScriptsOK
  <2>1. program \in Programs /\ todo = [a \in Actors |-> todo[a]]
    OBVIOUS
  <2>2. ASSUME NEW v \in Works, NEW s \in Steps, On(program.script[v], s) PROVE NotDone(s)
    <3>1. s.op = "spawn" => s.w \notin scheduled BY <2>1, <2>2, ProgramSteps
    <3>2. s.op = "start" => s.x \in Externals BY DEF Steps
    <3>3. QED BY <1>3, <3>1, <3>2 DEF NotDone
  <2>3. ASSUME NEW x \in Externals
        PROVE  /\ todo[x] \in Seq(Works) /\ Distinct(todo[x])
               /\ \A w \in Works : On(todo[x], w) => On(program.pushes[x], w) /\ w \notin scheduled
    BY <1>3, <2>1, ProgramSteps
  <2>4. ASSUME NEW t \in Threads
        PROVE  /\ todo[t] \in Seq(Steps) /\ Once(todo[t])
               /\ \A s \in Steps : ~On(todo[t], s)
    BY <1>2, EmptyList
  <2>5. QED BY <1>2, <2>1, <2>2, <2>3, <2>4 DEF ScriptsOK
<1>13. SleepInv
  <2>1. /\ waiters = <<>> /\ \A a \in Actors : toWake[a] = <<>> /\ ~Holds(a) /\ pc[a] # "unlockUnpause"
    BY <1>2, <1>3, Kinds DEF Holds
  <2>2. waiters \in Seq(Threads) /\ toWake \in [Actors -> Seq(Threads)] /\ sem \in [Threads -> {0, 1}]
    OBVIOUS
  <2>3. \A t \in Threads : ~On(waiters, t) /\ ~BeingWoken(t) /\ sem[t] = 0
    BY <2>1, EmptyList DEF BeingWoken
  <2>4. SleepOK BY <1>5, <2>1, <2>2, <2>3, EmptyList DEF SleepOK
  <2>5. LockOK BY <2>1 DEF LockOK, Locks
  <2>6. QED BY <2>4, <2>5 DEF SleepInv
<1>14. RingOK
  BY <1>1, RingAssumption DEF RingOK
<1>15. QED BY <1>4, <1>7, <1>9, <1>10, <1>11, <1>12, <1>13, <1>14 DEF CoreInv, WorkInv

(* At the start all threads are up.                                        *)
LEMMA InitPause ==
  ASSUME Init
  PROVE  PauseInv
<1>1. \A a \in Actors : pc[a] \in {"get", "off"}
  BY DEF Init
<1>2. EpochsOK
  BY <1>1 DEF Init, EpochsOK, AskedPCs
<1>3. First \in Threads /\ First \in Actors
  BY RingAssumption, Kinds
<1>4. pc[First] \notin {"loadBack", "loadFront", "decide", "sleep", "relock"} /\ ret[First] # "sleep"
  BY <1>3 DEF Init
<1>5. QED BY <1>2, <1>3, <1>4, BusyThread DEF PauseInv, LastPauser

(* A thread that is awake after the step has not announced a pause.        *)
LEMMA AwakeKeepsPause ==
  ASSUME EpochsOK, NEW t \in Threads, NEW p, NEW r, At(t, p, r), UNCHANGED epochVars,
         p \notin {"compare", "slowPause", "catchUp", "announce"},
         p \notin {"loadBack", "loadFront", "decide", "sleep", "relock"}, r # "sleep"
  PROVE  PauseInv' /\ unpauseEpoch' >= unpauseEpoch
<1>1. EpochsOK' /\ unpauseEpoch' >= unpauseEpoch
  BY EpochCalm, Kinds DEF EpochPCs, AskedPCs
<1>2. ~AllAnnounced'
  BY DEF At, AllAnnounced, Announced, Gone, Decided, ProbePCs
<1>3. QED BY <1>1, <1>2 DEF PauseInv, LastPauser

(* Each step keeps the invariant, and the unpause epoch does not go back.  *)
LEMMA StepKeeps ==
  ASSUME PoolInv, Next
  PROVE  PoolInv' /\ unpauseEpoch' >= unpauseEpoch
<1> USE DEF PoolInv
<1>1. unpauseEpoch \in Nat
  BY DEF PauseInv, EpochsOK
<1>2. ASSUME NEW t \in Threads, Search(t) \/ (Execute(t) /\ ~ChangeSources(t) /\ ~StartExternal(t))
      PROVE  PoolInv' /\ unpauseEpoch' >= unpauseEpoch
  <2>1. CoreInv' /\ UNCHANGED epochVars /\ \E p, r : Awake(t, p, r)
    BY <1>2, SearchKeeps, ExecuteKeeps
  <2>2. QED BY <2>1, AwakeKeepsPause DEF PauseInv, Awake, AwakePCs, LookPCs
<1>3. ASSUME NEW t \in Threads, ChangeSources(t)
      PROVE  PoolInv' /\ unpauseEpoch' >= unpauseEpoch
  <2>1. CoreInv' /\ UNCHANGED epochVars /\ At(t, "unlock", "body")
    BY <1>3, ChangeSourcesKeeps
  <2>2. QED BY <2>1, AwakeKeepsPause DEF PauseInv
<1>4. ASSUME NEW t \in Threads, StartExternal(t)
      PROVE  PoolInv' /\ unpauseEpoch' >= unpauseEpoch
  <2>1. CoreInv' /\ UNCHANGED epochVars
    BY <1>4, StartExternalKeeps
  <2>2. PICK x \in Externals : At(x, "push", "get") /\ pc[x] = "off"
    BY <1>4, StartExternalKeeps
  <2>3. x \in Actors /\ x # t
    BY Kinds
  <2>4. EpochsOK' /\ unpauseEpoch' >= unpauseEpoch
    BY <2>1, <2>2, <2>3, EpochCalm DEF PauseInv, EpochPCs, AskedPCs
  <2>5. pc[t] = "body" /\ ret[t] = "get"
    BY <1>4, NextStep DEF StartExternal, CoreInv, WorkInv
  <2>6. pc'[t] = "body" /\ ret'[t] = "get"
    BY <2>2, <2>3, <2>5, Kinds DEF At
  <2>7. ~AllAnnounced'
    BY <2>6 DEF AllAnnounced, Announced, Gone, Decided, ProbePCs
  <2>8. QED BY <2>1, <2>4, <2>7 DEF PauseInv, LastPauser
<1>5. ASSUME NEW t \in Threads, Pause(t) \/ TryAgain(t) \/ GiveUp(t)
      PROVE  PoolInv' /\ unpauseEpoch' >= unpauseEpoch
  <2>1. CoreInv' /\ EpochsOK' /\ unpauseEpoch' >= unpauseEpoch
    BY <1>1, <1>5, PauseKeeps, PauseKeepsEpochs DEF CoreInv, PauseInv
  <2>2. LastPauser'
    <3>1. CASE Announce(t)
      BY <3>1, AnnounceKeepsLast DEF CoreInv, PauseInv
    <3>2. CASE LoadBack(t) \/ LoadFront(t)
      BY <3>2, LoadsKeepLast DEF CoreInv, PauseInv, WorkInv
    <3>3. CASE JoinWaiters(t)
      BY <3>3, JoinKeepsLast DEF CoreInv, PauseInv
    <3>4. CASE TryAgain(t) \/ GiveUp(t)
      <4>1. At(t, "steal", "get") \/ At(t, "announce", "get")
        <5>1. pc[t] = "tick" /\ (Goto(t, "steal") \/ Goto(t, "announce")) /\ UNCHANGED ret
          BY <3>4 DEF TryAgain, GiveUp
        <5>2. ret[t] = "get" BY <5>1 DEF CoreInv, PcOK, ThreadAt, InCallPCs, UnpausePCs, LockPCs
        <5>3. QED BY <5>1, <5>2, GotoAt, Kinds DEF CoreInv
      <4>2. QED BY <4>1 DEF At, LastPauser, AllAnnounced, Announced, Gone, Decided, ProbePCs
    <3>5. CASE AbandonPause(t) \/ Teardown(t) \/ Relock(t)
      <4>1. Call(t, "unlock", "steal") BY <3>5 DEF AbandonPause, Teardown, Relock
      <4>2. At(t, "unlock", "steal") BY <4>1, CallAt, Kinds DEF CoreInv
      <4>3. QED BY <4>2 DEF At, LastPauser, AllAnnounced, Announced, Gone, Decided, ProbePCs
    <3>6. CASE Sleep(t)
      BY <3>6, SleepKeepsLast DEF CoreInv, PauseInv
    <3>7. QED BY <1>5, <3>1, <3>2, <3>3, <3>4, <3>5, <3>6 DEF Pause
  <2>3. QED BY <2>1, <2>2 DEF PauseInv
<1>6. ASSUME NEW x \in Externals, Push(x)
      PROVE  PoolInv' /\ unpauseEpoch' >= unpauseEpoch
  <2>1. CoreInv' /\ UNCHANGED epochVars /\ At(x, "unpause", "push")
    BY <1>6, PushKeeps
  <2>2. EpochsOK' /\ unpauseEpoch' >= unpauseEpoch
    BY <2>1, Kinds, EpochCalm DEF PauseInv, EpochPCs, AskedPCs
  <2>3. LastPauser'
    BY <1>6, PushKeepsLast DEF CoreInv, WorkInv, PauseInv
  <2>4. QED BY <2>1, <2>2, <2>3 DEF PauseInv
<1>7. ASSUME NEW a \in Actors, Unpause(a)
      PROVE  PoolInv' /\ unpauseEpoch' >= unpauseEpoch
  <2>1. CoreInv' /\ UNCHANGED <<workVars, probeVars>>
    BY <1>7, UnpauseKeeps
  <2>2. EpochsOK' /\ unpauseEpoch' >= unpauseEpoch
    BY <1>7, UnpauseKeepsEpochs DEF CoreInv, PauseInv
  <2>3. LastPauser'
    BY <1>7, <2>1, UnpauseKeepsLast DEF CoreInv, PauseInv, workVars, probeVars
  <2>4. QED BY <2>1, <2>2, <2>3 DEF PauseInv
<1>8. QED BY <1>2, <1>3, <1>4, <1>5, <1>6, <1>7 DEF Next

(* The invariant depends on the variables alone.                           *)
LEMMA StutterKeeps ==
  ASSUME PoolInv, UNCHANGED vars
  PROVE  PoolInv' /\ unpauseEpoch' = unpauseEpoch
<1>1. UNCHANGED <<program, queue, linked, toLink, nextWork, cur, todo, victim, pc, ret, pauseEpoch, unpauseEpoch,
                  localPause, localUnpause, probe, localBack, lock, waiters, toWake, sem, scheduled, started, finished>>
  BY DEF vars, coreVars, localVars, epochVars, probeVars, syncVars, history
<1>2. PcOK' /\ RingOK'
  BY <1>1 DEF PoolInv, CoreInv, PcOK, RingOK
<1>3. QueuesOK' /\ LinksOK'
  BY <1>1 DEF PoolInv, CoreInv, WorkInv, QueuesOK, LinksOK, InQueue, Back
<1>4. HandsOK'
  BY <1>1 DEF PoolInv, CoreInv, WorkInv, HandsOK, InQueue, Looking, Fetched, Running, Resting, Place
<1>5. NothingLost' /\ ScriptsOK'
  BY <1>1 DEF PoolInv, CoreInv, WorkInv, NothingLost, ScriptsOK, InQueue, Held, Running, Place, NotDone
<1>6. SleepOK' /\ LockOK'
  BY <1>1 DEF PoolInv, CoreInv, SleepInv, SleepOK, LockOK, Decided, BeingWoken, Holds
<1>7. EpochsOK'
  BY <1>1 DEF PoolInv, PauseInv, EpochsOK
<1>8. LastPauser'
  BY <1>1 DEF PoolInv, PauseInv, LastPauser, AllAnnounced, Announced, Decided, PausingInv, Fresh, Unpausing,
     Untouched, WakesWaiters, Gone, Back
<1>9. QED BY <1>1, <1>2, <1>3, <1>4, <1>5, <1>6, <1>7, <1>8 DEF PoolInv, CoreInv, WorkInv, SleepInv, PauseInv

(* The pool keeps its invariant.                                           *)
THEOREM PoolInvariance == Spec => []PoolInv
<1>1. Init => PoolInv
  BY InitWork, InitPause DEF PoolInv
<1>2. PoolInv /\ [Next]_vars => PoolInv'
  BY StepKeeps, StutterKeeps
<1>3. QED BY <1>1, <1>2, PTL DEF Spec

(* unpause_slow: the unpause epoch only grows, which is what makes the     *)
(* comparison in pause conclusive.                                         *)
THEOREM EpochsMonotoneHolds == Spec => EpochsMonotone
<1>1. PoolInv /\ [Next]_vars => [unpauseEpoch' >= unpauseEpoch]_vars
  BY StepKeeps
<1>2. QED BY <1>1, PoolInvariance, PTL DEF Spec, EpochsMonotone

(* A set whose elements are equal has one at most.                         *)
LEMMA AtMostOne ==
  ASSUME NEW S, \A x, y \in S : x = y
  PROVE  Cardinality(S) \in Nat /\ Cardinality(S) <= 1 /\ (S = {} => Cardinality(S) = 0)
<1>1. CASE S = {}
  BY <1>1, FS_EmptySet
<1>2. CASE S # {}
  <2>1. PICK x : S = {x} BY <1>2
  <2>2. QED BY <1>2, <2>1, FS_Singleton
<1>3. QED BY <1>1, <1>2

(* A thread that went to sleep is on the list of waiters, on one actor's   *)
(* list of threads to wake, or has one wake in its semaphore: unpause,     *)
(* unlock and teardown never wake it twice.                                *)
THEOREM OneWakePerSleepHolds == Spec => []OneWakePerSleep
<1>1. ASSUME PoolInv PROVE OneWakePerSleep
  <2>1. SleepOK BY <1>1 DEF PoolInv, CoreInv, SleepInv
  <2>2. ASSUME NEW t \in Threads
        PROVE  /\ sem[t] <= 1
               /\ sem[t] + Cardinality({a \in Actors : On(toWake[a], t)})
                    + (IF On(waiters, t) THEN 1 ELSE 0) <= 1
    <3>1. PICK S : S = {a \in Actors : On(toWake[a], t)} OBVIOUS
    <3>2. \A a, b \in S : a = b BY <2>1, <3>1 DEF SleepOK
    <3>3. Cardinality(S) \in Nat /\ Cardinality(S) <= 1 /\ (S = {} => Cardinality(S) = 0)
      BY <3>2, AtMostOne
    <3>4. BeingWoken(t) <=> S # {} BY <3>1 DEF BeingWoken
    <3>5. sem[t] \in {0, 1} BY <2>1 DEF SleepOK
    <3>6. /\ sem[t] = 1 => ~On(waiters, t) /\ S = {}
          /\ On(waiters, t) => S = {}
      BY <2>1, <3>4 DEF SleepOK
    <3>7. sem[t] + Cardinality(S) + (IF On(waiters, t) THEN 1 ELSE 0) <= 1
      BY <3>3, <3>5, <3>6
    <3>8. QED BY <3>1, <3>5, <3>7
  <2>3. QED BY <2>2 DEF OneWakePerSleep
<1>2. QED BY <1>1, PoolInvariance, PTL

(* No wake-up is lost: a pool whose threads all sleep, with no unpause on  *)
(* its way, has run all its work, and each core has its token.             *)
THEOREM NoLostWakeupHolds == Spec => []NoLostWakeup
<1>1. ASSUME PoolInv, \A t \in Threads : Asleep(t), \A x \in Externals : pc[x] \in {"off", "push"}
      PROVE  /\ \A c \in Threads : queue[c] = <<c>> /\ nextWork[c] = None
             /\ scheduled = finished
  <2>1. PcOK /\ QueuesOK /\ HandsOK /\ NothingLost /\ SleepOK /\ LockOK /\ LastPauser /\ EpochsOK
    BY <1>1 DEF PoolInv, CoreInv, WorkInv, SleepInv, PauseInv
  <2>2. \A t \in Threads : pc[t] = "sleep" /\ sem[t] = 0 /\ ~BeingWoken(t) /\ Decided(t) /\ On(waiters, t)
    BY <1>1, <2>1 DEF Asleep, BeingWoken, Decided, SleepOK
  <2>3. AllAnnounced
    BY <2>2 DEF AllAnnounced, Announced, Gone
  <2>4. PICK z \in Threads, Seen \in SUBSET Threads, snap \in Nat : PausingInv(z, Seen, snap)
    BY <2>1, <2>3 DEF LastPauser
  <2>5. \A a \in Actors : pc[a] \in {"sleep", "off", "push"}
    BY <1>1, <2>2, Kinds
  <2>6. ~WakesWaiters
    <3>1. lock = "Unlocked" BY <2>1, <2>5 DEF LockOK, Holds
    <3>2. QED BY <2>5, <3>1 DEF WakesWaiters
  <2>7. \A c \in Threads, w \in Works : ~On(queue[c], w)
    <3>1. ~(unpauseEpoch > snap) BY <2>2, <2>4, <2>6 DEF PausingInv
    <3>2. Seen = Threads /\ Untouched(z, Seen) BY <2>2, <2>4, <3>1 DEF PausingInv, Gone
    <3>3. \A w : ~Fresh(w) BY <1>1 DEF Unpausing, Fresh
    <3>4. QED BY <3>2, <3>3 DEF Untouched
  <2>8. /\ \A t \in Threads : cur[t] = None /\ nextWork[t] = None
        /\ \A c \in Threads : On(queue[c], c)
        /\ \A w \in scheduled : w \in finished \/ \E c \in Threads : On(queue[c], w)
    BY <2>1, <2>3, NothingHeld
  <2>9. ASSUME NEW c \in Threads PROVE queue[c] = <<c>>
    <3>1. queue[c] \in Seq(Items) /\ queue[c] # <<>> /\ Distinct(queue[c])
      BY <2>1 DEF QueuesOK
    <3>2. ASSUME NEW i \in 1 .. Len(queue[c]) PROVE queue[c][i] = c
      <4>1. queue[c][i] \in Items /\ On(queue[c], queue[c][i]) BY <3>1 DEF On
      <4>2. QED BY <2>1, <2>7, <4>1, Kinds DEF QueuesOK
    <3>3. Len(queue[c]) = 1
      <4>1. 1 \in 1 .. Len(queue[c]) /\ Len(queue[c]) \in 1 .. Len(queue[c]) BY <3>1
      <4>2. QED BY <3>1, <3>2, <4>1, OneElement
    <3>4. QED BY <3>1, <3>2, <3>3
  <2>10. scheduled = finished
    BY <2>1, <2>7, <2>8 DEF NothingLost
  <2>11. QED BY <2>8, <2>9, <2>10
<1>2. PoolInv => NoLostWakeup
  BY <1>1 DEF NoLostWakeup
<1>3. QED BY <1>2, PoolInvariance, PTL

-----------------------------------------------------------------------------
(* The count of active threads. *)

Counted == {t \in Threads : counted[t]}
ChargeInv ==
  /\ counted \in [Threads -> BOOLEAN]
  /\ active = Cardinality(Counted) /\ active >= 1
  /\ \A t \in Threads : counted[t] \/ Gone(t)
  /\ \A t, u \in Threads : counted[t] /\ Gone(t) /\ counted[u] /\ Gone(u) => t = u

(* A thread that is gone stays so until it takes the lock again.           *)
LEMMA GoneStays ==
  ASSUME CoreInv, NEW t \in Threads, Gone(t), Next, ~Relock(t)
  PROVE  Gone(t)'
<1>0. PcOK
  BY DEF CoreInv, WorkInv
<1> USE <1>0
<1>1. t \in Actors /\ t \notin Externals
  BY Kinds
<1>2. /\ pc[t] \in {"sleep", "relock"} \cup LockPCs
      /\ pc[t] \in LockPCs => ret[t] = "sleep"
      /\ pc[t] \notin LockPCs => ret[t] = "get"
  BY DEF Gone, Decided, PcOK, ThreadAt, InCallPCs, UnpausePCs, LockPCs, LookPCs, RestPCs
<1>3. ASSUME NEW a \in Actors, NEW p, NEW r, At(a, p, r), a # t
      PROVE  Gone(t)'
  BY <1>1, <1>3 DEF At, Gone, Decided
<1>4. ASSUME NEW u \in Threads, Search(u) \/ (Execute(u) /\ ~ChangeSources(u) /\ ~StartExternal(u))
      PROVE  Gone(t)'
  <2>1. PICK p, r : Awake(u, p, r) BY <1>4, SearchAt, ExecuteAt
  <2>2. u # t BY <1>2, <2>1 DEF Awake, AwakePCs, LookPCs, LockPCs
  <2>3. QED BY <1>3, <2>1, <2>2, Kinds DEF Awake
<1>5. ASSUME NEW u \in Threads, ChangeSources(u)
      PROVE  Gone(t)'
  <2>1. pc[u] = "body" /\ Call(u, "unlock", "body") BY <1>5 DEF ChangeSources, SourceAdded, SourceRemoved, Doing
  <2>2. At(u, "unlock", "body") /\ u # t BY <1>2, <2>1, CallAt, Kinds DEF LockPCs
  <2>3. QED BY <1>3, <2>2, Kinds
<1>6. ASSUME NEW u \in Threads, StartExternal(u)
      PROVE  Gone(t)'
  <2>1. PICK x \in Externals : At(x, "push", "get") BY <1>6, StartExternalKeeps
  <2>2. QED BY <1>1, <1>3, <2>1, Kinds
<1>7. ASSUME NEW u \in Threads, Pause(u) \/ TryAgain(u) \/ GiveUp(u)
      PROVE  Gone(t)'
  <2>1. PICK p, r : At(u, p, r) BY <1>7, PauseAt DEF SameKind
  <2>2. CASE u # t BY <1>3, <2>1, <2>2, Kinds
  <2>3. CASE u = t
    <3>1. Sleep(t)
      BY <1>2, <1>7, <2>3 DEF Pause, TryAgain, GiveUp, Announce, LoadBack, LoadFront, AbandonPause, JoinWaiters,
         Teardown, LockPCs
    <3>2. At(t, "relock", ret[t]) BY <1>1, <3>1, GotoAt DEF Sleep
    <3>3. QED BY <3>2 DEF At, Gone
  <2>4. QED BY <2>2, <2>3
<1>8. ASSUME NEW x \in Externals, Push(x)
      PROVE  Gone(t)'
  <2>1. x \in Actors /\ x # t BY <1>1, Kinds
  <2>2. At(x, "unpause", "push") BY <1>8, <2>1, CallAt DEF Push
  <2>3. QED BY <1>3, <2>1, <2>2
<1>9. ASSUME NEW a \in Actors, Unpause(a)
      PROVE  Gone(t)'
  <2>1. PICK p, r : At(a, p, r) BY <1>9, UnpauseAt DEF SameKind
  <2>2. CASE a # t BY <1>3, <2>1, <2>2
  <2>3. CASE a = t
    <3>1. pc[t] \in LockPCs /\ ret[t] = "sleep"
      BY <1>2, <1>9, <2>3 DEF Unpause, UnpauseLoadPause, UnpauseCompare, SlowLoadUnpause, SlowLoadPause, CatchUp,
         Ring, Unlock, UnlockUnpause, Wake, LockPCs
    <3>2. \/ Return(t)
          \/ UNCHANGED ret /\ \E q \in LockPCs : Goto(t, q)
          \/ UNCHANGED <<pc, ret>>
      BY <1>9, <2>3, <3>1 DEF Unpause, UnpauseLoadPause, UnpauseCompare, SlowLoadUnpause, SlowLoadPause, CatchUp,
         Ring, Unlock, UnlockUnpause, Wake, LockPCs
    <3>3. At(t, "sleep", "get") \/ ret'[t] = "sleep"
      BY <1>1, <3>1, <3>2, ReturnAt
    <3>4. QED BY <3>3 DEF At, Gone, Decided
  <2>4. QED BY <2>2, <2>3
<1>10. QED BY <1>4, <1>5, <1>6, <1>7, <1>8, <1>9 DEF Next

(* Only a thread that joins the waiters becomes one that is gone.          *)
LEMMA GoneComes ==
  ASSUME CoreInv, NEW t \in Threads, ~Gone(t), Next, ~JoinWaiters(t)
  PROVE  ~Gone(t)'
<1>0. PcOK
  BY DEF CoreInv, WorkInv
<1> USE <1>0
<1>1. t \in Actors /\ t \notin Externals
  BY Kinds
<1>2. /\ pc[t] \notin {"sleep", "relock"} /\ ret[t] # "sleep"
      /\ pc[t] \in LockPCs => ret[t] \in {"run", "body", "steal"}
      /\ pc[t] \in UnpausePCs => ret[t] \in {"run", "body"}
  BY DEF Gone, Decided, PcOK, ThreadAt
<1>3. ASSUME NEW a \in Actors, NEW p, NEW r, At(a, p, r), a # t
      PROVE  ~Gone(t)'
  BY <1>1, <1>2, <1>3 DEF At, Gone, Decided
<1>4. ASSUME NEW p, NEW r, At(t, p, r), p \notin {"sleep", "relock"}, r # "sleep"
      PROVE  ~Gone(t)'
  BY <1>1, <1>4 DEF At, Gone, Decided
<1>5. ASSUME NEW u \in Threads, Search(u) \/ (Execute(u) /\ ~ChangeSources(u) /\ ~StartExternal(u))
      PROVE  ~Gone(t)'
  <2>1. PICK p, r : Awake(u, p, r) BY <1>5, SearchAt, ExecuteAt
  <2>2. At(u, p, r) /\ p \notin {"sleep", "relock"} /\ r # "sleep"
    BY <2>1 DEF Awake, AwakePCs, LookPCs
  <2>3. QED BY <1>3, <1>4, <2>2, Kinds
<1>6. ASSUME NEW u \in Threads, ChangeSources(u)
      PROVE  ~Gone(t)'
  <2>1. At(u, "unlock", "body") BY <1>6, CallAt, Kinds DEF ChangeSources
  <2>2. QED BY <1>3, <1>4, <2>1, Kinds
<1>7. ASSUME NEW u \in Threads, StartExternal(u)
      PROVE  ~Gone(t)'
  <2>1. PICK x \in Externals : At(x, "push", "get") BY <1>7, StartExternalKeeps
  <2>2. QED BY <1>1, <1>3, <2>1, Kinds
<1>8. ASSUME NEW u \in Threads, Pause(u) \/ TryAgain(u) \/ GiveUp(u)
      PROVE  ~Gone(t)'
  <2>1. PICK p, r : At(u, p, r) BY <1>8, PauseAt DEF SameKind
  <2>2. CASE u # t BY <1>3, <2>1, <2>2, Kinds
  <2>3. CASE u = t
    <3>1. \/ Announce(t) \/ LoadBack(t) \/ LoadFront(t) \/ TryAgain(t) \/ GiveUp(t)
          \/ AbandonPause(t) \/ Teardown(t)
      BY <1>2, <1>8, <2>3 DEF Pause, Sleep, Relock
    <3>2. \/ \E q \in {"loadBack", "loadFront", "steal", "decide", "announce"} : Goto(t, q) /\ UNCHANGED ret
          \/ Call(t, "unlock", "steal")
      BY <3>1 DEF Announce, LoadBack, LoadFront, TryAgain, GiveUp, AbandonPause, Teardown
    <3>3. QED BY <1>1, <1>2, <1>4, <3>2, GotoAt, CallAt
  <2>4. QED BY <2>2, <2>3
<1>9. ASSUME NEW x \in Externals, Push(x)
      PROVE  ~Gone(t)'
  <2>1. x \in Actors /\ x # t BY <1>1, Kinds
  <2>2. At(x, "unpause", "push") BY <1>9, <2>1, CallAt DEF Push
  <2>3. QED BY <1>3, <2>1, <2>2
<1>10. ASSUME NEW a \in Actors, Unpause(a)
      PROVE  ~Gone(t)'
  <2>1. PICK p, r : At(a, p, r) BY <1>10, UnpauseAt DEF SameKind
  <2>2. CASE a # t BY <1>3, <2>1, <2>2
  <2>3. CASE a = t
    <3>1. ret[t] \in {"run", "body", "steal"}
      BY <1>2, <1>10, <2>3 DEF Unpause, UnpauseLoadPause, UnpauseCompare, SlowLoadUnpause, SlowLoadPause, CatchUp,
         Ring, Unlock, UnlockUnpause, Wake, LockPCs, UnpausePCs
    <3>2. \/ Return(t)
          \/ UNCHANGED ret /\ \E q \in UnpausePCs \cup LockPCs : Goto(t, q)
          \/ UNCHANGED <<pc, ret>>
      BY <1>10, <2>3 DEF Unpause, UnpauseLoadPause, UnpauseCompare, SlowLoadUnpause, SlowLoadPause, CatchUp,
         Ring, Unlock, UnlockUnpause, Wake, LockPCs, UnpausePCs
    <3>3. CASE Return(t)
      <4>1. At(t, ret[t], "get") BY <1>1, <3>3, ReturnAt
      <4>2. QED BY <1>4, <3>1, <4>1
    <3>4. CASE UNCHANGED ret /\ \E q \in UnpausePCs \cup LockPCs : Goto(t, q)
      <4>1. PICK q \in UnpausePCs \cup LockPCs : At(t, q, ret[t]) BY <1>1, <3>4, GotoAt
      <4>2. QED BY <1>4, <3>1, <4>1 DEF UnpausePCs, LockPCs
    <3>5. CASE UNCHANGED <<pc, ret>> BY <1>2, <3>5 DEF Gone, Decided
    <3>6. QED BY <3>2, <3>3, <3>4, <3>5
  <2>4. QED BY <2>2, <2>3
<1>11. QED BY <1>5, <1>6, <1>7, <1>8, <1>9, <1>10 DEF Next

(* Only a thread that falls asleep or is up again changes the count.       *)
LEMMA CountStays ==
  ASSUME Next, \A t \in Threads : ~JoinWaiters(t) /\ ~Relock(t)
  PROVE  UNCHANGED <<counted, active>>
<1>1. ASSUME NEW t \in Threads, Search(t) \/ Execute(t)
      PROVE  UNCHANGED <<counted, active>>
  BY <1>1 DEF Search, GetWork, FairSteal, FirstSteal, TrySteal, DequeueOwn, KeepNextWork, StealOwn, StealNext,
     Execute, RunToken, TokenBack, LinkToken, RunWork, WorkReturns, Spawn, ChangeSources, SourceAdded, SourceRemoved,
     StartExternal, Offer, Link, poolVars
<1>2. ASSUME NEW t \in Threads, Pause(t) \/ TryAgain(t) \/ GiveUp(t)
      PROVE  UNCHANGED <<counted, active>>
  BY <1>2 DEF Pause, TryAgain, GiveUp, Announce, LoadBack, LoadFront, AbandonPause, Teardown, Sleep, poolVars
<1>3. ASSUME NEW x \in Externals, Push(x)
      PROVE  UNCHANGED <<counted, active>>
  BY <1>3 DEF Push, poolVars
<1>4. ASSUME NEW a \in Actors, Unpause(a)
      PROVE  UNCHANGED <<counted, active>>
  BY <1>4 DEF Unpause, UnpauseLoadPause, UnpauseCompare, SlowLoadUnpause, SlowLoadPause, CatchUp, Ring, Unlock,
     UnlockUnpause, Wake, poolVars
<1>5. QED BY <1>1, <1>2, <1>3, <1>4 DEF Next

(* The count is of the threads that are not gone, and never zero.          *)
LEMMA ChargeKeeps ==
  ASSUME CoreInv, ChargeInv, Next
  PROVE  ChargeInv'
<1>0. PcOK
  BY DEF CoreInv, WorkInv
<1> USE <1>0
<1>1. IsFiniteSet(Counted) /\ active \in Nat
  <2>1. Counted \in SUBSET Threads BY DEF Counted
  <2>2. IsFiniteSet(Counted) BY <2>1, FS_Subset, RingAssumption
  <2>3. QED BY <2>2, FS_CardinalityType DEF ChargeInv
<1>2. CASE \A t \in Threads : ~JoinWaiters(t) /\ ~Relock(t)
  <2>1. UNCHANGED <<counted, active>> BY <1>2, CountStays
  <2>2. \A t \in Threads : Gone(t)' <=> Gone(t) BY <1>2, GoneStays, GoneComes
  <2>3. QED BY <2>1, <2>2 DEF ChargeInv, Counted
<1>3. ASSUME NEW t \in Threads, JoinWaiters(t)
      PROVE  ChargeInv'
  <2>1. t \in Actors /\ pc[t] = "decide" /\ ret[t] = "get"
    BY <1>3, Kinds DEF JoinWaiters, PcOK, ThreadAt, InCallPCs, UnpausePCs, LockPCs
  <2>2. At(t, "unlock", "sleep") BY <1>3, <2>1, CallAt DEF JoinWaiters
  <2>3. \A u \in Threads : u # t => (Gone(u) <=> Gone(u)') BY <2>2, Kinds DEF At, Gone, Decided
  <2>4. Gone(t)' BY <2>2 DEF At, Gone, Decided
  <2>5. counted[t] /\ t \in Counted BY <2>1 DEF ChargeInv, Gone, Decided, Counted
  <2>6. CASE OthersActive
    <3>1. active' = active - 1 /\ counted' = [counted EXCEPT ![t] = FALSE] /\ active > 1
      BY <1>3, <2>6 DEF JoinWaiters, OthersActive
    <3>2. Counted' = Counted \ {t} BY <3>1 DEF Counted, ChargeInv
    <3>3. Cardinality(Counted') = Cardinality(Counted) - 1 BY <1>1, <2>5, <3>2, FS_RemoveElement
    <3>4. active' = Cardinality(Counted') /\ active' >= 1 BY <1>1, <3>1, <3>3 DEF ChargeInv
    <3>5. counted' \in [Threads -> BOOLEAN] /\ \A u \in Threads : u # t => counted'[u] = counted[u]
      BY <3>1 DEF ChargeInv
    <3>6. \A u \in Threads : counted'[u] \/ Gone(u)' BY <2>3, <2>4, <3>5 DEF ChargeInv
    <3>7. ~counted'[t] BY <3>1 DEF ChargeInv
    <3>8. \A u, v \in Threads : counted'[u] /\ Gone(u)' /\ counted'[v] /\ Gone(v)' => u = v
      BY <2>3, <3>5, <3>7 DEF ChargeInv
    <3>9. QED BY <3>4, <3>5, <3>6, <3>8 DEF ChargeInv
  <2>7. CASE ~OthersActive
    <3>1. UNCHANGED <<active, counted>> BY <1>3, <2>7 DEF JoinWaiters
    <3>2. Cardinality(Counted) = 1 BY <1>1, <2>7 DEF ChargeInv, OthersActive
    <3>3. IsFiniteSet(Counted \ {t}) /\ Cardinality(Counted \ {t}) = 0 BY <1>1, <2>5, <3>2, FS_RemoveElement
    <3>4. \A u \in Threads : counted[u] => u = t BY <3>3, FS_EmptySet DEF Counted
    <3>5. QED BY <2>3, <2>4, <3>1, <3>4 DEF ChargeInv, Counted
  <2>8. QED BY <2>6, <2>7
<1>4. ASSUME NEW t \in Threads, Relock(t)
      PROVE  ChargeInv'
  <2>1. t \in Actors /\ At(t, "unlock", "steal") BY <1>4, CallAt, Kinds DEF Relock
  <2>2. \A u \in Threads : u # t => (Gone(u) <=> Gone(u)') BY <2>1, Kinds DEF At, Gone, Decided
  <2>3. ~Gone(t)' BY <2>1 DEF At, Gone, Decided
  <2>4. CASE counted[t]
    <3>1. UNCHANGED <<active, counted>> BY <1>4, <2>4 DEF Relock
    <3>2. \A u \in Threads : counted'[u] \/ Gone(u)' BY <2>2, <2>4, <3>1 DEF ChargeInv
    <3>3. \A u, v \in Threads : counted'[u] /\ Gone(u)' /\ counted'[v] /\ Gone(v)' => u = v
      BY <2>2, <2>3, <3>1 DEF ChargeInv
    <3>4. QED BY <3>1, <3>2, <3>3 DEF ChargeInv, Counted
  <2>5. CASE ~counted[t]
    <3>1. active' = active + 1 /\ counted' = [counted EXCEPT ![t] = TRUE]
      BY <1>4, <2>5 DEF Relock
    <3>2. Counted' = Counted \cup {t} /\ t \notin Counted BY <2>5, <3>1 DEF Counted, ChargeInv
    <3>3. Cardinality(Counted') = Cardinality(Counted) + 1 BY <1>1, <3>2, FS_AddElement
    <3>4. active' = Cardinality(Counted') /\ active' >= 1 BY <1>1, <3>1, <3>3 DEF ChargeInv
    <3>5. /\ counted' \in [Threads -> BOOLEAN] /\ counted'[t]
          /\ \A u \in Threads : u # t => counted'[u] = counted[u]
      BY <3>1 DEF ChargeInv
    <3>6. \A u \in Threads : counted'[u] \/ Gone(u)' BY <2>2, <3>5 DEF ChargeInv
    <3>7. \A u, v \in Threads : counted'[u] /\ Gone(u)' /\ counted'[v] /\ Gone(v)' => u = v
      BY <2>2, <2>3, <3>5 DEF ChargeInv
    <3>8. QED BY <3>4, <3>5, <3>6, <3>7 DEF ChargeInv
  <2>6. QED BY <2>4, <2>5
<1>5. QED BY <1>2, <1>3, <1>4

(* The count is exact.                                                     *)
LEMMA ChargeInvariance == Spec => []ChargeInv
<1>1. Init => ChargeInv
  <2>1. SUFFICES ASSUME Init PROVE ChargeInv
    OBVIOUS
  <2>2. counted = [t \in Threads |-> TRUE] /\ active = Cardinality(Threads) BY <2>1 DEF Init
  <2>3. Counted = Threads BY <2>2 DEF Counted
  <2>4. Cardinality(Threads) \in Nat /\ Cardinality(Threads) # 0
    BY RingAssumption, FS_CardinalityType, FS_EmptySet
  <2>5. \A t \in Threads : ~Gone(t) BY <2>1, Kinds DEF Init, Gone, Decided
  <2>6. QED BY <2>2, <2>3, <2>4, <2>5 DEF ChargeInv
<1>2. PoolInv /\ ChargeInv /\ [Next]_vars => ChargeInv'
  <2>1. ASSUME ChargeInv, UNCHANGED vars PROVE ChargeInv'
    BY <2>1 DEF ChargeInv, Counted, Gone, Decided, vars, poolVars
  <2>2. QED BY <2>1, ChargeKeeps DEF PoolInv, CoreInv
<1>3. QED BY <1>1, <1>2, PoolInvariance, PTL DEF Spec

(* active_threads counts each thread that is up, at most one that sleeps,  *)
(* and is never zero: threadsync.h lets the last thread sleep counted.     *)
THEOREM SomeoneInChargeHolds == Spec => []SomeoneInCharge
<1>1. ASSUME ChargeInv
      PROVE  SomeoneInCharge
  <2> DEFINE Up == {t \in Threads : ~Gone(t)}
             Extra == Counted \ Up
  <2>1. Counted \in SUBSET Threads /\ Up \subseteq Counted BY <1>1 DEF ChargeInv, Counted
  <2>2. IsFiniteSet(Counted) /\ IsFiniteSet(Up) /\ IsFiniteSet(Extra)
    BY <2>1, FS_Subset, FS_Difference, RingAssumption
  <2>3. Cardinality(Extra) \in Nat /\ Cardinality(Extra) <= 1
    <3>1. \A t, u \in Extra : t = u BY <1>1 DEF ChargeInv, Counted
    <3>2. CASE Extra = {} BY <3>2, FS_EmptySet
    <3>3. CASE Extra # {}
      <4>1. PICK t \in Extra : TRUE BY <3>3
      <4>2. Extra = {t} BY <3>1, <4>1
      <4>3. Cardinality(Extra) = 1 BY <4>2, FS_Singleton
      <4>4. QED BY <4>3
    <3>4. QED BY <3>2, <3>3
  <2>4. Counted = Up \cup Extra /\ Up \cap Extra = {} BY <2>1
  <2>5. Cardinality(Counted) = Cardinality(Up) + Cardinality(Extra)
    <3> HIDE DEF Up, Extra
    <3>1. Cardinality(Up \cap Extra) = 0 BY <2>4, FS_EmptySet
    <3>2. Cardinality(Up \cup Extra) = Cardinality(Up) + Cardinality(Extra) - Cardinality(Up \cap Extra)
      BY <2>2, FS_Union
    <3>3. Cardinality(Counted) = Cardinality(Up) + Cardinality(Extra) - 0 BY <2>4, <3>1, <3>2
    <3>4. Cardinality(Up) \in Nat BY <2>2, FS_CardinalityType
    <3>5. QED BY <2>3, <3>3, <3>4
  <2>6. Cardinality(Up) \in Nat BY <2>2, FS_CardinalityType
  <2>7. active >= 1 /\ active = Cardinality(Counted) BY <1>1 DEF ChargeInv
  <2>8. ASSUME NEW u \in Nat, NEW e \in Nat, u = Cardinality(Up), e = Cardinality(Extra)
        PROVE  SomeoneInCharge
    <3>1. active = u + e /\ e <= 1 /\ active >= 1 BY <2>3, <2>5, <2>7, <2>8
    <3>2. active >= 1 /\ u <= active /\ active <= u + 1 BY <3>1
    <3>3. QED BY <2>8, <3>2 DEF SomeoneInCharge
  <2>9. QED BY <2>3, <2>6, <2>8
<1>2. QED BY <1>1, ChargeInvariance, PTL

-----------------------------------------------------------------------------
(* The promise of WorkPool. *)

ClosedInv == teardown \in BOOLEAN /\ (teardown => scheduled = finished /\ external = 0)

(* A thread that tears the pool down is the last one: all others are gone, *)
(* no unpause came, and what the queues could still hold came from a       *)
(* thread whose source is registered.                                      *)
LEMMA TeardownDone ==
  ASSUME PoolInv, ChargeInv, SourcesCover, NEW t \in Threads, Teardown(t)
  PROVE  scheduled = finished /\ external = 0
<1>1. PcOK /\ QueuesOK /\ HandsOK /\ NothingLost /\ LastPauser /\ EpochsOK
  BY DEF PoolInv, CoreInv, WorkInv, PauseInv
<1>2. pc[t] = "decide" /\ ret[t] = "get" /\ localUnpause[t] = unpauseEpoch /\ ~(active > 1) /\ external = 0
  BY <1>1, Kinds DEF Teardown, Raced, MaySleep, OthersActive, PcOK, ThreadAt, InCallPCs, UnpausePCs, LockPCs
<1>3. \A u \in Threads : u # t => Gone(u)
  <2>1. t \in Counted /\ ~Gone(t) BY <1>2 DEF ChargeInv, Gone, Decided, Counted
  <2>2. Counted \in SUBSET Threads BY DEF Counted
  <2>3. IsFiniteSet(Counted) BY <2>2, FS_Subset, RingAssumption
  <2>4. Cardinality(Counted) = 1 BY <1>2, <2>3, FS_CardinalityType DEF ChargeInv
  <2>5. IsFiniteSet(Counted \ {t}) /\ Cardinality(Counted \ {t}) = 0 BY <2>1, <2>3, <2>4, FS_RemoveElement
  <2>6. Counted \ {t} = {} BY <2>5, FS_EmptySet
  <2>7. QED BY <2>6 DEF ChargeInv, Counted
<1>4. AllAnnounced
  BY <1>2, <1>3 DEF AllAnnounced, Announced, ProbePCs
<1>5. PICK z \in Threads, Seen \in SUBSET Threads, snap \in Nat : PausingInv(z, Seen, snap)
  BY <1>1, <1>4 DEF LastPauser
<1>6. Seen = Threads /\ localUnpause[t] <= snap
  BY <1>2, <1>3, <1>5 DEF PausingInv, ProbePCs
<1>7. Untouched(z, Threads)
  <2>1. ~(unpauseEpoch > snap) BY <1>1, <1>2, <1>6 DEF EpochsOK
  <2>2. QED BY <1>5, <1>6, <2>1 DEF PausingInv
<1>8. ASSUME NEW c \in Threads, NEW w \in Works, On(queue[c], w) PROVE FALSE
  <2>1. PICK x \in Externals : Unpausing(x) /\ On(program.pushes[x], w)
    BY <1>7, <1>8 DEF Untouched, Fresh
  <2>2. pc[x] # "off" /\ pc[x] # "push" BY <2>1 DEF Unpausing
  <2>3. w \in started BY <1>2, <2>1, <2>2 DEF SourcesCover
  <2>4. w \notin started BY <1>1, <1>8, Kinds DEF QueuesOK
  <2>5. QED BY <2>3, <2>4
<1>9. \A w \in scheduled : w \in Works /\ w \in finished
  BY <1>1, <1>4, <1>8, NothingHeld DEF NothingLost
<1>10. QED BY <1>1, <1>2, <1>9 DEF NothingLost

poolState == <<scheduled, started, finished, external, teardown>>

(* What runs has not finished: the pool is open.                           *)
LEMMA RunningOpen ==
  ASSUME PoolInv, ClosedInv, NEW t \in Threads, Running(t)
  PROVE  ~teardown /\ cur[t] \in Works /\ cur[t] \in started /\ cur[t] \notin finished
<1>1. HandsOK /\ NothingLost
  BY DEF PoolInv, CoreInv, WorkInv
<1>2. cur[t] \in Works /\ cur[t] \in started /\ cur[t] \notin finished
  BY <1>1 DEF HandsOK
<1>3. cur[t] \in scheduled
  BY <1>1, <1>2 DEF NothingLost
<1>4. QED BY <1>2, <1>3 DEF ClosedInv

(* The steps of work that the callers of schedule see.                     *)
LEMMA ExecuteRefines ==
  ASSUME PoolInv, ClosedInv, SourcesCover, NEW t \in Threads, Execute(t)
  PROVE  ClosedInv' /\ (Pool!Next \/ UNCHANGED poolState)
<1>1. PcOK /\ HandsOK /\ NothingLost /\ ScriptsOK
  BY DEF PoolInv, CoreInv, WorkInv
<1>2. CASE \/ RunToken(t) \/ TokenBack(t) \/ LinkToken(t) \/ StartExternal(t) \/ Offer(t) \/ Link(t)
  <2>1. UNCHANGED poolState
    BY <1>2 DEF RunToken, TokenBack, LinkToken, StartExternal, Offer, Link, poolState, poolVars, history
  <2>2. QED BY <2>1 DEF poolState, ClosedInv
<1>3. CASE RunWork(t)
  <2>1. pc[t] = "run" /\ cur[t] \in Works BY <1>3 DEF RunWork
  <2>2. Fetched(t) BY <2>1 DEF Fetched, Place, InCallPCs, UnpausePCs, LockPCs
  <2>3. PICK w \in Works : w = cur[t] /\ w \in scheduled /\ w \notin started /\ w \notin finished
    BY <1>1, <2>1, <2>2 DEF HandsOK, NothingLost
  <2>4. started' = started \cup {w} /\ UNCHANGED <<scheduled, finished, external, teardown>>
    BY <1>3, <2>3 DEF RunWork, poolVars
  <2>5. ~teardown BY <2>3 DEF ClosedInv
  <2>6. Pool!Start(w) BY <2>3, <2>4, <2>5 DEF Pool!Start
  <2>7. QED BY <2>4, <2>5, <2>6 DEF Pool!Next, ClosedInv
<1>4. CASE WorkReturns(t)
  <2>1. Running(t) BY <1>4 DEF WorkReturns, Running, Place, InCallPCs, UnpausePCs, LockPCs
  <2>2. PICK w \in Works : w = cur[t] /\ w \in started /\ w \notin finished /\ ~teardown
    BY <2>1, RunningOpen
  <2>3. finished' = finished \cup {w} /\ UNCHANGED <<scheduled, started, external, teardown>>
    BY <1>4, <2>2 DEF WorkReturns, poolVars
  <2>4. Pool!Finish(w) BY <2>2, <2>3 DEF Pool!Finish
  <2>5. QED BY <2>2, <2>3, <2>4 DEF Pool!Next, ClosedInv
<1>5. CASE Spawn(t)
  <2>1. Doing(t, "spawn") BY <1>5 DEF Spawn
  <2>2. PICK h \in Steps : Running(t) /\ h = Head(todo[t]) /\ h.op = "spawn" /\ NotDone(h)
    BY <1>1, <2>1, NextStep
  <2>3. ~teardown BY <2>2, RunningOpen
  <2>4. UNCHANGED <<started, finished, external, teardown>> BY <1>5 DEF Spawn, poolVars
  <2>5. CASE nextWork[t] # None
    <3>1. UNCHANGED poolState BY <1>5, <2>4, <2>5 DEF Spawn, poolState
    <3>2. QED BY <3>1 DEF poolState, ClosedInv
  <2>6. CASE nextWork[t] = None
    <3>1. h.w \in Works /\ h.w \notin scheduled BY <2>2 DEF Steps, NotDone
    <3>2. scheduled' = scheduled \cup {h.w} BY <1>5, <2>2, <2>6 DEF Spawn
    <3>3. Pool!Schedule(h.w) BY <2>3, <2>4, <3>1, <3>2 DEF Pool!Schedule
    <3>4. QED BY <2>3, <2>4, <3>1, <3>3 DEF Pool!Next, ClosedInv
  <2>7. QED BY <2>5, <2>6
<1>6. CASE ChangeSources(t)
  <2>1. PICK op \in {"add", "remove"} : Doing(t, op) BY <1>6 DEF ChangeSources, SourceAdded, SourceRemoved
  <2>2. Running(t) BY <1>1, <2>1, NextStep
  <2>3. ~teardown /\ started # finished BY <2>2, RunningOpen
  <2>4. UNCHANGED <<scheduled, started, finished, teardown>> BY <1>6 DEF ChangeSources, SourceAdded, SourceRemoved, history
  <2>5. external' = external + 1 => Pool!AddSource BY <2>3, <2>4 DEF Pool!AddSource
  <2>6. Doing(t, "remove") /\ external' = external - 1 => Pool!RemoveSource
    BY <2>3, <2>4 DEF Pool!RemoveSource, SourcesCover
  <2>7. Pool!Next BY <1>6, <2>5, <2>6 DEF Pool!Next, ChangeSources, SourceAdded, SourceRemoved
  <2>8. QED BY <2>3, <2>4, <2>7 DEF ClosedInv
<1>7. QED BY <1>2, <1>3, <1>4, <1>5, <1>6 DEF Execute

(* The pauses: only a teardown is seen.                                    *)
LEMMA PauseRefines ==
  ASSUME PoolInv, ChargeInv, ClosedInv, SourcesCover, NEW t \in Threads, Pause(t) \/ TryAgain(t) \/ GiveUp(t)
  PROVE  ClosedInv' /\ (Pool!Next \/ UNCHANGED poolState)
<1>1. CASE Teardown(t)
  <2>1. teardown' = TRUE /\ UNCHANGED <<scheduled, started, finished, external>>
    BY <1>1 DEF Teardown, history
  <2>2. scheduled = finished /\ external = 0 BY <1>1, TeardownDone
  <2>3. CASE teardown
    <3>1. UNCHANGED poolState BY <2>1, <2>3 DEF poolState, ClosedInv
    <3>2. QED BY <2>1, <2>2, <3>1 DEF ClosedInv
  <2>4. CASE ~teardown
    <3>1. Pool!Teardown BY <2>1, <2>2, <2>4 DEF Pool!Teardown
    <3>2. QED BY <2>1, <2>2, <3>1 DEF Pool!Next, ClosedInv
  <2>5. QED BY <2>3, <2>4
<1>2. CASE ~Teardown(t)
  <2>1. UNCHANGED poolState
    BY <1>2 DEF Pause, TryAgain, GiveUp, Announce, LoadBack, LoadFront, AbandonPause, JoinWaiters, Sleep, Relock,
       poolState, poolVars, history
  <2>2. QED BY <2>1 DEF poolState, ClosedInv
<1>3. QED BY <1>1, <1>2

(* An item from outside is scheduled while a source is registered.         *)
LEMMA PushRefines ==
  ASSUME PoolInv, ClosedInv, SourcesCover, NEW x \in Externals, Push(x)
  PROVE  ClosedInv' /\ Pool!Next
<1>1. ScriptsOK
  BY DEF PoolInv, CoreInv, WorkInv
<1>2. pc[x] = "push" /\ todo[x] # <<>> /\ todo[x] \in Seq(Works)
  BY <1>1 DEF Push, ScriptsOK
<1>3. PICK w \in Works : w = Head(todo[x]) /\ w \notin scheduled
  <2>1. Head(todo[x]) \in Works /\ On(todo[x], Head(todo[x])) BY <1>2, TailOfList
  <2>2. QED BY <1>1, <2>1 DEF ScriptsOK
<1>4. ~teardown
  BY <1>2 DEF SourcesCover, ClosedInv
<1>5. scheduled' = scheduled \cup {w} /\ UNCHANGED <<started, finished, external, teardown>>
  BY <1>3 DEF Push, poolVars
<1>6. Pool!Schedule(w)
  BY <1>3, <1>4, <1>5 DEF Pool!Schedule
<1>7. QED BY <1>4, <1>5, <1>6 DEF Pool!Next, ClosedInv

(* Each step is one of the work pool, or is not seen.                      *)
LEMMA StepRefines ==
  ASSUME PoolInv, ChargeInv, ClosedInv, SourcesCover, [Next]_vars
  PROVE  ClosedInv' /\ [Pool!Next]_(Pool!vars)
<1>1. UNCHANGED poolState => ClosedInv' /\ UNCHANGED Pool!vars
  BY DEF poolState, ClosedInv, Pool!vars
<1>2. ASSUME NEW t \in Threads, Search(t)
      PROVE  UNCHANGED poolState
  BY <1>2 DEF Search, GetWork, FairSteal, FirstSteal, TrySteal, DequeueOwn, KeepNextWork, StealOwn, StealNext,
     poolState, poolVars, history
<1>3. ASSUME NEW a \in Actors, Unpause(a)
      PROVE  UNCHANGED poolState
  BY <1>3 DEF Unpause, UnpauseLoadPause, UnpauseCompare, SlowLoadUnpause, SlowLoadPause, CatchUp, Ring, Unlock,
     UnlockUnpause, Wake, poolState, poolVars, history
<1>4. UNCHANGED vars => UNCHANGED poolState
  BY DEF vars, poolVars, history, poolState
<1>5. ClosedInv' /\ (Pool!Next \/ UNCHANGED poolState)
  <2>1. Next => ClosedInv' /\ (Pool!Next \/ UNCHANGED poolState)
    BY <1>1, <1>2, <1>3, ExecuteRefines, PauseRefines, PushRefines DEF Next
  <2>2. QED BY <1>1, <1>4, <2>1
<1>6. QED BY <1>1, <1>5

(* The pool runs what is scheduled once, and is only torn down when all of *)
(* it has finished and no source is left, if the program's sources cover   *)
(* what its outside threads do.                                            *)
THEOREM PoolImplementsWorkPool == Spec /\ []SourcesCover => ImplementsWorkPool
<1>1. Init => Pool!Init /\ ClosedInv
  <2>1. SUFFICES ASSUME Init PROVE Pool!Init /\ ClosedInv
    OBVIOUS
  <2>2. scheduled = {Root} /\ started = {} /\ finished = {} /\ external = 0 /\ teardown = FALSE
    BY <2>1 DEF Init
  <2>3. QED BY <2>2, WorkAssumption DEF Pool!Init, ClosedInv
<1>2. PoolInv /\ ChargeInv /\ ClosedInv /\ SourcesCover /\ [Next]_vars => ClosedInv' /\ [Pool!Next]_(Pool!vars)
  BY StepRefines
<1>3. QED BY <1>1, <1>2, PoolInvariance, ChargeInvariance, PTL DEF Spec, ImplementsWorkPool, Pool!Spec
=============================================================================
