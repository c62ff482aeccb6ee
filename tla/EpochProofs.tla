---------------------------- MODULE EpochProofs ----------------------------
(***************************************************************************)
(* The asserts of refresh and try_advance_global_epoch hold for any number *)
(* of threads and any bounds: a thread that uses its epoch is not ejected  *)
(* and at most one behind, and the global epoch goes up by one at a time.  *)
(*                                                                         *)
(* The argument has two parts.  The asymmetric lock excludes: once an      *)
(* ejector has made the owner's stores visible and sees the internal side  *)
(* free, the owner is not inside, and finds the external side taken if it  *)
(* comes back.  And a thread that is scanned stays accounted for: while it *)
(* is not ejected, it is not behind the epoch of a scan that passed it.    *)
(*                                                                         *)
(* On this rests that peek is safe: the board's count of an object is on   *)
(* the board, with its writer or in one slot, and no slot with an object   *)
(* that a reader still needs is flushed before the reader's epoch ends.    *)
(***************************************************************************)
EXTENDS FiniteSetTheorems, TLAPS, Epoch

-----------------------------------------------------------------------------
(* Where a thread is: outside its lock, or inside; scanning the others; at *)
(* work on another thread, whose external side it has.                     *)
Outside == {"idle", "put", "update", "acquire", "back off", "spin", "hand over"}
Ejecting == {"barrier", "eject", "ejected", "held"}
Scanning == {"scan at", "exchange"} \cup Ejecting
Labels == Outside \cup Scanning \cup
  {"check", "refresh", "refresh first", "refresh last", "publish", "rejoin", "rejoin again",
   "announce", "rejoined", "using", "incref", "used", "release", "scan", "advance"}
Inside(t) == pc[t] \notin Outside

TypeInv ==
  /\ global \in Nat /\ epoch \in [Threads -> Nat] /\ seen \in [Threads -> Nat]
  /\ ejected \in [Threads -> BOOLEAN] /\ pc \in [Threads -> Labels]
  /\ local \in [Threads -> Nat \cup {"using", "scan", "release"}]
  /\ internal \in [Threads -> {0, 1}] /\ external \in [Threads -> BOOLEAN]
  /\ buffer \in [Threads -> Seq({0, 1})]
LocalInv ==
  \A t \in Threads :
    /\ pc[t] = "publish" => local[t] \in {"using", "scan", "release"}
    /\ pc[t] \in Scanning => local[t] \in Threads

(* The owner's latest store says that it is inside.                        *)
OwnerInv ==
  \A t \in Threads : Inside(t) \/ pc[t] = "acquire" => Visible(t) = 1

(* The external side has one holder.  After its barrier an owner that is   *)
(* inside has been so since before, and shows it.                          *)
HolderInv ==
  \A s \in Threads : pc[s] \in Ejecting =>
    /\ external[local[s]] = TRUE /\ pc[local[s]] # "hand over"
    /\ \A r \in Threads : pc[r] \in Ejecting /\ local[r] = local[s] => r = s
BarrierInv ==
  \A s \in Threads :
    /\ pc[s] = "eject" /\ Inside(local[s])
         => internal[local[s]] = 1 /\ buffer[local[s]] = <<>>
    /\ pc[s] = "ejected" => ~Inside(local[s])
    /\ pc[s] = "hand over" => external[s] = TRUE

(* A thread that is not ejected; and one that has also read the global     *)
(* epoch again, if it had to rejoin.                                       *)
Announced(t) == ejected[t] = FALSE
Settled(t) == Announced(t) /\ pc[t] \notin {"rejoin again", "announce"}
EpochInv ==
  \A t \in Threads :
    /\ epoch[t] <= global /\ seen[t] <= global
    /\ Inside(t) /\ pc[t] \notin {"check", "rejoin"} => Announced(t)
    /\ pc[t] \in {"publish", "announce"} => epoch[t] <= seen[t]
    /\ pc[t] = "announce" => global <= seen[t] + 1
    /\ Settled(t) => global <= epoch[t] + 1

(* The scan of s is past u.                                                *)
Passed(s, u) ==
  \/ pc[s] \in Scanning /\ u < local[s]
  \/ pc[s] = "ejected" /\ u = local[s]
  \/ pc[s] = "advance"
PassedInv ==
  \A s, u \in Threads : Passed(s, u) =>
    /\ Settled(u) => epoch[s] <= epoch[u]
    /\ pc[u] = "announce" => epoch[s] <= seen[u]

LockInv == OwnerInv /\ HolderInv /\ BarrierInv
Inv == TypeInv /\ LocalInv /\ LockInv /\ EpochInv /\ PassedInv

-----------------------------------------------------------------------------
(* The last thread of the pool is followed by nobody.                      *)
LEMMA LastThread ==
  ASSUME NEW t \in Threads
  PROVE  /\ t \in Nat /\ t + 1 \in Nat
         /\ t + 1 \notin Threads => \A u \in Threads : u <= t
<1>1. Cardinality(Threads) \in Nat
  BY EpochAssumption, FS_CardinalityType
<1>2. PICK n \in Nat : Threads = 1..n
  BY <1>1, EpochAssumption
<1> QED BY <1>2

(* A scan begins with the first, before whom there is nobody.              *)
LEMMA FirstThread ==
  ASSUME NEW t \in Threads
  PROVE  1 \in Threads /\ \A u \in Threads : ~(u < 1)
<1>1. Cardinality(Threads) \in Nat
  BY EpochAssumption, FS_CardinalityType
<1>2. PICK n \in Nat : Threads = 1..n
  BY <1>1, EpochAssumption
<1> QED BY <1>2

(* Nobody is anywhere at first.                                            *)
LEMMA InitHolds == Init => Inv
<1> SUFFICES ASSUME Init PROVE Inv
  OBVIOUS
<1>1. TypeInv /\ LocalInv
  BY DEF Init, LockInit, TypeInv, LocalInv, Labels, Outside, Scanning, Ejecting
<1>2. LockInv
  BY DEF Init, LockInit, LockInv, OwnerInv, HolderInv, BarrierInv, Inside, Outside, Ejecting
<1>3. EpochInv
  <2>1. \A t \in Threads : /\ epoch[t] = 0 /\ seen[t] = 0 /\ global = 0
                         /\ ejected[t] = TRUE /\ pc[t] = "idle"
    BY DEF Init
  <2>2. \A t \in Threads : ~Settled(t)
    BY <2>1 DEF Settled, Announced
  <2>3. \A t \in Threads : ~Inside(t) /\ pc[t] \notin {"publish", "announce"}
    BY <2>1 DEF Inside, Outside
  <2> QED BY <2>1, <2>2, <2>3 DEF EpochInv
<1>4. PassedInv
  BY DEF Init, PassedInv, Passed, Scanning, Ejecting
<1> QED BY <1>1, <1>2, <1>3, <1>4 DEF Inv

(* A step of t, which is not at work on another thread, that leaves the    *)
(* locks alone.                                                            *)
LEMMA QuietLock ==
  ASSUME Inv, NEW t \in Threads, UNCHANGED lockVars,
         \A x \in Threads \ {t} : pc'[x] = pc[x] /\ local'[x] = local[x],
         pc[t] \notin Ejecting, pc'[t] \notin Ejecting \cup {"hand over", "acquire"},
         Inside(t)' => Inside(t) \/ (pc[t] = "acquire" /\ external[t] = FALSE)
  PROVE  LockInv'
<1> USE DEF lockVars
<1>1. OwnerInv'
  <2>1. \A x \in Threads : Visible(x)' = Visible(x)
    BY DEF Visible
  <2>2. \A x \in Threads \ {t} : Inside(x)' = Inside(x)
    BY DEF Inside
  <2> QED BY <2>1, <2>2 DEF Inv, LockInv, OwnerInv
<1>2. HolderInv'
  <2>1. \A s \in Threads : pc'[s] \in Ejecting =>
          /\ pc[s] \in Ejecting /\ local'[s] = local[s] /\ local[s] \in Threads
    BY DEF Inv, LocalInv, Scanning
  <2>2. \A x \in Threads : pc'[x] = "hand over" => pc[x] = "hand over"
    OBVIOUS
  <2>3. HolderInv
    BY DEF Inv, LockInv
  <2> SUFFICES ASSUME NEW s \in Threads, pc'[s] \in Ejecting
               PROVE  /\ external'[local'[s]] = TRUE /\ pc'[local'[s]] # "hand over"
                      /\ \A r \in Threads : pc'[r] \in Ejecting /\ local'[r] = local'[s] => r = s
    BY DEF HolderInv
  <2>4. /\ external[local[s]] = TRUE /\ pc[local[s]] # "hand over"
        /\ \A r \in Threads : pc[r] \in Ejecting /\ local[r] = local[s] => r = s
    BY <2>1, <2>3 DEF HolderInv
  <2>5. external'[local'[s]] = TRUE
    BY <2>1, <2>4
  <2> QED BY <2>1, <2>2, <2>4, <2>5
<1>3. BarrierInv'
  <2>1. ASSUME NEW s \in Threads \ {t}, pc[s] \in Ejecting, local[s] = t, Inside(t)'
        PROVE  Inside(t)
    BY <2>1 DEF Inv, LockInv, HolderInv
  <2>2. \A s \in Threads \ {t} : pc'[s] = pc[s] /\ local'[s] = local[s]
                                 /\ (pc[s] \in Ejecting => local[s] \in Threads)
    BY DEF Inv, LocalInv, Scanning
  <2>3. \A x \in Threads \ {t} : Inside(x)' = Inside(x)
    BY DEF Inside
  <2>4. pc'[t] \notin {"eject", "ejected", "hand over"}
    BY DEF Ejecting
  <2> QED BY <2>1, <2>2, <2>3, <2>4 DEF Inv, LockInv, BarrierInv, Ejecting
<1> QED BY <1>1, <1>2, <1>3 DEF LockInv

(* A step of t that leaves the epochs alone.                               *)
LEMMA QuietEpoch ==
  ASSUME Inv, NEW t \in Threads, UNCHANGED <<global, epoch, ejected>>,
         \A x \in Threads \ {t} :
           pc'[x] = pc[x] /\ local'[x] = local[x] /\ seen'[x] = seen[x],
         seen'[t] <= global,
         Inside(t)' /\ pc'[t] \notin {"check", "rejoin"} => Announced(t),
         pc'[t] \in {"publish", "announce"} => epoch[t] <= seen'[t],
         pc'[t] = "announce" => seen'[t] = global,
         Settled(t)' => Settled(t),
         \A u \in Threads :
           Passed(t, u)' => Passed(t, u) \/ ~Announced(u) \/ epoch[t] <= epoch[u]
  PROVE  EpochInv' /\ PassedInv'
<1>1. EpochInv'
  <2>1. ASSUME NEW x \in Threads \ {t}
        PROVE  /\ pc'[x] = pc[x] /\ seen'[x] = seen[x]
               /\ Inside(x)' = Inside(x) /\ Settled(x)' = Settled(x)
               /\ Announced(x)' = Announced(x)
    BY DEF Inside, Settled, Announced
  <2>2. Settled(t) => global <= epoch[t] + 1
    BY DEF Inv, EpochInv
  <2>3. epoch[t] <= global /\ global \in Nat
    BY DEF Inv, EpochInv, TypeInv
  <2>4. /\ epoch[t] <= global /\ seen'[t] <= global
        /\ Inside(t)' /\ pc'[t] \notin {"check", "rejoin"} => Announced(t)'
        /\ pc'[t] \in {"publish", "announce"} => epoch[t] <= seen'[t]
        /\ pc'[t] = "announce" => global <= seen'[t] + 1
        /\ Settled(t)' => global <= epoch[t] + 1
    <3>1. Announced(t)' = Announced(t)
      BY DEF Announced
    <3>2. pc'[t] = "announce" => global <= seen'[t] + 1
      BY <2>3
    <3> QED BY <2>2, <2>3, <3>1, <3>2
  <2>5. ASSUME NEW x \in Threads \ {t}
        PROVE  /\ epoch[x] <= global /\ seen'[x] <= global
               /\ Inside(x)' /\ pc'[x] \notin {"check", "rejoin"} => Announced(x)'
               /\ pc'[x] \in {"publish", "announce"} => epoch[x] <= seen'[x]
               /\ pc'[x] = "announce" => global <= seen'[x] + 1
               /\ Settled(x)' => global <= epoch[x] + 1
    BY <2>1 DEF Inv, EpochInv
  <2> QED BY <2>4, <2>5 DEF EpochInv
<1>2. PassedInv'
  <2> SUFFICES ASSUME NEW s \in Threads, NEW u \in Threads, Passed(s, u)'
               PROVE  /\ Settled(u)' => epoch[s] <= epoch[u]
                      /\ pc'[u] = "announce" => epoch[s] <= seen'[u]
    BY DEF PassedInv
  <2>1. epoch[s] \in Nat /\ epoch[u] \in Nat /\ epoch[s] <= global
    BY DEF Inv, TypeInv, EpochInv
  <2>2. Passed(s, u) \/ ~Announced(u) \/ epoch[s] <= epoch[u]
    <3>1. CASE s = t
      BY <3>1
    <3>2. CASE s # t
      BY <3>2 DEF Passed
    <3> QED BY <3>1, <3>2
  <2>3. Settled(u)' => epoch[s] <= epoch[u]
    <3>1. Settled(u)' => Settled(u)
      <4>1. CASE u = t
        BY <4>1
      <4>2. CASE u # t
        BY <4>2 DEF Settled, Announced
      <4> QED BY <4>1, <4>2
    <3>2. Settled(u) => Announced(u)
      BY DEF Settled
    <3>3. Passed(s, u) /\ Settled(u) => epoch[s] <= epoch[u]
      BY DEF Inv, PassedInv
    <3>4. CASE Passed(s, u)
      BY <3>1, <3>3, <3>4
    <3> QED BY <2>2, <3>1, <3>2, <3>4
  <2>4. ASSUME pc'[u] = "announce" PROVE epoch[s] <= seen'[u]
    <3>1. CASE u = t
      BY <2>1, <2>4, <3>1
    <3>2. CASE u # t
      <4>1. pc[u] = "announce" /\ seen'[u] = seen[u]
        BY <2>4, <3>2
      <4>2. Announced(u) /\ epoch[u] <= seen[u]
        BY <4>1 DEF Inv, EpochInv, Inside, Outside
      <4>3. seen[u] \in Nat
        BY DEF Inv, TypeInv
      <4>4. CASE Passed(s, u)
        BY <4>1, <4>4 DEF Inv, PassedInv
      <4>5. CASE epoch[s] <= epoch[u]
        BY <2>1, <4>1, <4>2, <4>3, <4>5
      <4> QED BY <2>2, <4>2, <4>4, <4>5
    <3> QED BY <3>1, <3>2
  <2> QED BY <2>3, <2>4
<1> QED BY <1>1, <1>2

(* The lock of t is emptied of waiting stores, and what the owner sees     *)
(* stays the same.                                                         *)
LEMMA DrainKeeps ==
  ASSUME Inv, NEW t \in Threads, DrainedSet({t})
  PROVE  /\ \A x \in Threads : Visible(x)' = Visible(x)
         /\ internal'[t] = Visible(t) /\ buffer'[t] = <<>>
         /\ \A x \in Threads \ {t} : internal'[x] = internal[x] /\ buffer'[x] = buffer[x]
<1>1. internal'[t] = Visible(t) /\ buffer'[t] = <<>>
  BY DEF DrainedSet
<1>2. \A x \in Threads \ {t} : internal'[x] = internal[x] /\ buffer'[x] = buffer[x]
  BY DEF DrainedSet
<1>3. Visible(t)' = Visible(t)
  BY <1>1 DEF Visible
<1>4. \A x \in Threads \ {t} : Visible(x)' = Visible(x)
  BY <1>2 DEF Visible
<1> QED BY <1>1, <1>2, <1>3, <1>4

(* The owner of t's lock, inside and not at work on another thread, stores *)
(* its epoch or takes a reference: its older stores become visible.        *)
LEMMA DrainLock ==
  ASSUME Inv, NEW t \in Threads, DrainedSet({t}), UNCHANGED external,
         \A x \in Threads \ {t} : pc'[x] = pc[x] /\ local'[x] = local[x],
         Inside(t), Inside(t)', pc[t] \notin Ejecting, pc'[t] \notin Ejecting
  PROVE  LockInv'
<1>1. /\ \A x \in Threads : Visible(x)' = Visible(x)
      /\ internal'[t] = Visible(t) /\ buffer'[t] = <<>>
      /\ \A x \in Threads \ {t} : internal'[x] = internal[x] /\ buffer'[x] = buffer[x]
  BY DrainKeeps
<1>2. \A x \in Threads : Inside(x)' = Inside(x)
  BY DEF Inside
<1>3. pc'[t] # "acquire" /\ pc'[t] # "hand over"
  BY DEF Inside, Outside
<1>4. \A s \in Threads : pc[s] \in Ejecting => local[s] \in Threads
  BY DEF Inv, LocalInv, Scanning
<1>5. OwnerInv'
  BY <1>1, <1>2, <1>3 DEF Inv, LockInv, OwnerInv
<1>6. HolderInv'
  BY <1>3, <1>4 DEF Inv, LockInv, HolderInv
<1>7. Visible(t) = 1
  BY DEF Inv, LockInv, OwnerInv
<1>8. BarrierInv'
  <2>1. ASSUME NEW s \in Threads, pc'[s] = "eject", pc'[local'[s]] \notin Outside
        PROVE  internal'[local'[s]] = 1 /\ buffer'[local'[s]] = <<>>
    <3>1. s \in Threads \ {t} /\ pc[s] = "eject" /\ local'[s] = local[s] /\ local[s] \in Threads
      BY <1>4, <2>1 DEF Ejecting
    <3>2. CASE local[s] = t
      BY <1>1, <1>7, <3>1, <3>2
    <3>3. CASE local[s] \in Threads \ {t}
      <4>1. pc[local[s]] \notin Outside
        BY <2>1, <3>1, <3>3
      <4>2. internal[local[s]] = 1 /\ buffer[local[s]] = <<>>
        BY <3>1, <4>1 DEF Inv, LockInv, BarrierInv, Inside
      <4> QED BY <1>1, <3>1, <3>3, <4>2
    <3> QED BY <3>1, <3>2, <3>3
  <2>2. ASSUME NEW s \in Threads, pc'[s] = "ejected" PROVE pc'[local'[s]] \in Outside
    <3>1. s \in Threads \ {t} /\ pc[s] = "ejected" /\ local'[s] = local[s] /\ local[s] \in Threads
      BY <1>4, <2>2 DEF Ejecting
    <3>2. pc[local[s]] \in Outside
      BY <3>1 DEF Inv, LockInv, BarrierInv, Inside
    <3> QED BY <3>1, <3>2 DEF Inside
  <2>3. ASSUME NEW s \in Threads, pc'[s] = "hand over" PROVE external'[s] = TRUE
    BY <1>3, <2>3 DEF Inv, LockInv, BarrierInv
  <2> QED BY <2>1, <2>2, <2>3 DEF BarrierInv, Inside
<1> QED BY <1>5, <1>6, <1>8 DEF LockInv

(* The processor of t makes a store visible: an owner that is inside, and  *)
(* whose lock an ejector has drained, has none left.                       *)
LEMMA StoreLock ==
  ASSUME Inv, NEW t \in Threads, StoreVisible(t), UNCHANGED <<pc, local>>
  PROVE  LockInv'
<1>1. /\ internal'[t] = Head(buffer[t]) /\ buffer'[t] = Tail(buffer[t])
      /\ buffer[t] # <<>> /\ buffer[t] \in Seq({0, 1}) /\ external' = external
      /\ \A x \in Threads \ {t} : internal'[x] = internal[x] /\ buffer'[x] = buffer[x]
  BY DEF StoreVisible, Inv, TypeInv
<1>2. Visible(t)' = Visible(t)
  <2>1. CASE Len(buffer[t]) = 1
    BY <1>1, <2>1 DEF Visible
  <2>2. CASE Len(buffer[t]) # 1
    BY <1>1, <2>2 DEF Visible
  <2> QED BY <2>1, <2>2
<1>3. \A x \in Threads : Visible(x)' = Visible(x)
  BY <1>1, <1>2 DEF Visible
<1>4. \A x \in Threads : Inside(x)' = Inside(x)
  BY DEF Inside
<1>5. OwnerInv'
  BY <1>3, <1>4 DEF Inv, LockInv, OwnerInv
<1>6. HolderInv'
  BY <1>1 DEF Inv, LockInv, HolderInv
<1>7. \A s \in Threads : pc[s] \in Ejecting => local[s] \in Threads
  BY DEF Inv, LocalInv, Scanning
<1>8. BarrierInv'
  <2>1. ASSUME NEW s \in Threads, pc[s] = "eject", pc[local[s]] \notin Outside
        PROVE  internal'[local[s]] = 1 /\ buffer'[local[s]] = <<>>
    <3>1. internal[local[s]] = 1 /\ buffer[local[s]] = <<>> /\ local[s] \in Threads
      BY <1>7, <2>1 DEF Inv, LockInv, BarrierInv, Ejecting, Inside
    <3> QED BY <1>1, <3>1
  <2> QED BY <1>1, <2>1 DEF Inv, LockInv, BarrierInv, Inside
<1> QED BY <1>5, <1>6, <1>8 DEF LockInv

(* What is appended is the last element.                                   *)
LEMMA AppendedLast ==
  ASSUME NEW S, NEW b \in Seq(S), NEW n \in S
  PROVE  /\ Append(b, n) # <<>> /\ Len(Append(b, n)) = Len(b) + 1
         /\ Append(b, n)[Len(b) + 1] = n
OBVIOUS

(* The owner of t's lock, on its way in or out, buffers a store.           *)
LEMMA BufferLock ==
  ASSUME Inv, NEW t \in Threads, NEW n \in {0, 1}, Buffered(t, n),
         \A x \in Threads \ {t} : pc'[x] = pc[x] /\ local'[x] = local[x],
         pc[t] \notin Ejecting, pc'[t] \in Outside \ {"hand over"},
         pc'[t] = "acquire" => n = 1
  PROVE  LockInv'
<1>1. /\ buffer'[t] = Append(buffer[t], n) /\ buffer[t] \in Seq({0, 1})
      /\ internal' = internal /\ external' = external
      /\ \A x \in Threads \ {t} : buffer'[x] = buffer[x]
  BY DEF Buffered, Inv, TypeInv
<1>2. Visible(t)' = n
  <2> DEFINE b == buffer[t]
  <2>1. b \in Seq({0, 1}) /\ buffer'[t] = Append(b, n)
    BY <1>1
  <2>2. /\ Append(b, n) # <<>> /\ Len(Append(b, n)) = Len(b) + 1
        /\ Append(b, n)[Len(b) + 1] = n
    BY <2>1, AppendedLast
  <2>3. Visible(t)' = Append(b, n)[Len(Append(b, n))]
    BY <2>1, <2>2 DEF Visible
  <2> QED BY <2>2, <2>3
<1>3. \A x \in Threads \ {t} : Visible(x)' = Visible(x) /\ Inside(x)' = Inside(x)
  BY <1>1 DEF Visible, Inside
<1>4. ~Inside(t)' /\ pc'[t] \notin Ejecting
  BY DEF Inside, Outside, Ejecting
<1>5. \A s \in Threads : pc[s] \in Ejecting => local[s] \in Threads
  BY DEF Inv, LocalInv, Scanning
<1>6. OwnerInv'
  BY <1>2, <1>3, <1>4 DEF Inv, LockInv, OwnerInv
<1>7. HolderInv'
  BY <1>1, <1>4, <1>5 DEF Inv, LockInv, HolderInv
<1>8. BarrierInv'
  <2>1. ASSUME NEW s \in Threads, pc'[s] = "eject", pc'[local'[s]] \notin Outside
        PROVE  internal'[local'[s]] = 1 /\ buffer'[local'[s]] = <<>>
    <3>1. pc[s] = "eject" /\ local'[s] = local[s] /\ local[s] \in Threads \ {t}
      BY <1>4, <1>5, <2>1 DEF Ejecting
    <3>2. pc[local[s]] \notin Outside
      BY <2>1, <3>1
    <3> QED BY <1>1, <3>1, <3>2 DEF Inv, LockInv, BarrierInv, Inside
  <2>2. ASSUME NEW s \in Threads, pc'[s] = "ejected" PROVE pc'[local'[s]] \in Outside
    <3>1. pc[s] = "ejected" /\ local'[s] = local[s] /\ local[s] \in Threads
      BY <1>4, <1>5, <2>2 DEF Ejecting
    <3>2. pc[local[s]] \in Outside
      BY <3>1 DEF Inv, LockInv, BarrierInv, Inside
    <3> QED BY <3>1, <3>2
  <2>3. ASSUME NEW s \in Threads, pc'[s] = "hand over" PROVE external'[s] = TRUE
    BY <1>1, <2>3 DEF Inv, LockInv, BarrierInv
  <2> QED BY <2>1, <2>2, <2>3 DEF BarrierInv, Inside
<1> QED BY <1>6, <1>7, <1>8 DEF LockInv

-----------------------------------------------------------------------------
(* A step moves one thread.                                                *)
LEMMA StepMoves ==
  ASSUME Inv, NEW t \in Threads, NEW from, NEW to, Step(t, from, to)
  PROVE  /\ pc[t] = from /\ pc'[t] = to /\ pc' = [pc EXCEPT ![t] = to]
         /\ \A x \in Threads \ {t} : pc'[x] = pc[x]
BY DEF Step, Inv, TypeInv

(* The thread that an ejector is at work on is one of the pool.            *)
LEMMA TargetIsThread ==
  ASSUME Inv, NEW s \in Threads, pc[s] \in Scanning
  PROVE  local[s] \in Threads
BY DEF Inv, LocalInv

(* An owner that waits for the external side takes it itself: no ejector   *)
(* has it.                                                                 *)
LEMMA SpinLock ==
  ASSUME Inv, NEW t \in Threads, Spin(t)
  PROVE  LockInv'
<1>1. /\ pc[t] = "spin" /\ pc'[t] = "hand over" /\ local' = local
      /\ \A x \in Threads \ {t} : pc'[x] = pc[x]
  BY StepMoves DEF Spin, LocalsSame
<1>2. /\ external[t] = FALSE /\ external'[t] = TRUE /\ DrainedSet({t})
      /\ \A x \in Threads \ {t} : external'[x] = external[x]
  BY DEF Spin, InternalSpin, Inv, TypeInv
<1>3. \A s \in Threads : pc[s] \in Ejecting => local[s] \in Threads \ {t}
  <2>1. ASSUME NEW s \in Threads, pc[s] \in Ejecting PROVE local[s] \in Threads \ {t}
    <3>1. local[s] \in Threads
      BY <2>1, TargetIsThread DEF Scanning
    <3>2. external[local[s]] = TRUE
      BY <2>1 DEF Inv, LockInv, HolderInv
    <3> QED BY <1>2, <3>1, <3>2
  <2> QED BY <2>1
<1>4. /\ \A x \in Threads : Visible(x)' = Visible(x)
      /\ \A x \in Threads \ {t} : internal'[x] = internal[x] /\ buffer'[x] = buffer[x]
  BY <1>2, DrainKeeps
<1>5. pc[t] \in Outside /\ pc'[t] \in Outside /\ pc'[t] \notin Ejecting
  BY <1>1 DEF Outside, Ejecting
<1>6. OwnerInv'
  BY <1>1, <1>4, <1>5 DEF Inv, LockInv, OwnerInv, Inside
<1>7. HolderInv'
  BY <1>1, <1>2, <1>3, <1>5 DEF Inv, LockInv, HolderInv
<1>8. \A s \in Threads : pc'[s] \in Ejecting =>
        /\ s \in Threads \ {t} /\ pc'[s] = pc[s] /\ local[s] \in Threads \ {t}
        /\ pc'[local[s]] = pc[local[s]]
  BY <1>1, <1>3, <1>5
<1>9. BarrierInv'
  <2>1. ASSUME NEW s \in Threads, pc'[s] = "eject", pc'[local[s]] \notin Outside
        PROVE  internal'[local[s]] = 1 /\ buffer'[local[s]] = <<>>
    <3>1. /\ pc[s] = "eject" /\ pc[local[s]] \notin Outside /\ local[s] \in Threads \ {t}
      BY <1>8, <2>1 DEF Ejecting
    <3> QED BY <1>4, <3>1 DEF Inv, LockInv, BarrierInv, Inside
  <2>2. ASSUME NEW s \in Threads, pc'[s] = "ejected" PROVE pc'[local[s]] \in Outside
    BY <1>8, <2>2 DEF Inv, LockInv, BarrierInv, Inside, Ejecting
  <2>3. ASSUME NEW s \in Threads, pc'[s] = "hand over" PROVE external'[s] = TRUE
    BY <1>1, <1>2, <2>3 DEF Inv, LockInv, BarrierInv
  <2> QED BY <1>1, <2>1, <2>2, <2>3 DEF BarrierInv, Inside
<1> QED BY <1>6, <1>7, <1>9 DEF LockInv

(* It hands the external side over to the internal one: it is inside, and  *)
(* shows it.                                                               *)
LEMMA HandOverLock ==
  ASSUME Inv, NEW t \in Threads, HandOver(t)
  PROVE  LockInv'
<1>1. /\ pc[t] = "hand over" /\ pc'[t] = "check" /\ local' = local
      /\ \A x \in Threads \ {t} : pc'[x] = pc[x]
  BY StepMoves DEF HandOver, LocalsSame
<1>2. /\ internal'[t] = 1 /\ buffer'[t] = <<>> /\ external'[t] = FALSE
      /\ \A x \in Threads \ {t} :
           internal'[x] = internal[x] /\ buffer'[x] = buffer[x] /\ external'[x] = external[x]
  BY DEF HandOver, InternalHandOver, Inv, TypeInv
<1>3. \A s \in Threads : pc[s] \in Ejecting => local[s] \in Threads \ {t}
  BY <1>1, TargetIsThread DEF Inv, LockInv, HolderInv, Scanning
<1>4. \A x \in Threads \ {t} : Visible(x)' = Visible(x)
  BY <1>2 DEF Visible
<1>5. Visible(t)' = 1
  BY <1>2 DEF Visible
<1>6. pc'[t] \notin Ejecting /\ pc'[t] # "hand over"
  BY <1>1 DEF Ejecting
<1>7. OwnerInv'
  BY <1>1, <1>4, <1>5 DEF Inv, LockInv, OwnerInv, Inside
<1>8. \A s \in Threads : pc'[s] \in Ejecting =>
        /\ s \in Threads \ {t} /\ pc'[s] = pc[s] /\ local[s] \in Threads \ {t}
        /\ pc'[local[s]] = pc[local[s]]
  BY <1>1, <1>3, <1>6
<1>9. HolderInv'
  <2> SUFFICES ASSUME NEW s \in Threads, pc'[s] \in Ejecting
               PROVE  /\ external'[local[s]] = TRUE /\ pc'[local[s]] # "hand over"
                      /\ \A r \in Threads : pc'[r] \in Ejecting /\ local[r] = local[s] => r = s
    BY <1>1 DEF HolderInv
  <2>1. /\ pc[s] \in Ejecting /\ local[s] \in Threads \ {t} /\ pc'[local[s]] = pc[local[s]]
    BY <1>8
  <2>2. /\ external[local[s]] = TRUE /\ pc[local[s]] # "hand over"
        /\ \A r \in Threads : pc[r] \in Ejecting /\ local[r] = local[s] => r = s
    BY <2>1 DEF Inv, LockInv, HolderInv
  <2>3. external'[local[s]] = TRUE
    BY <1>2, <2>1, <2>2
  <2> QED BY <1>8, <2>1, <2>2, <2>3
<1>10. BarrierInv'
  <2>1. ASSUME NEW s \in Threads, pc'[s] = "eject", pc'[local[s]] \notin Outside
        PROVE  internal'[local[s]] = 1 /\ buffer'[local[s]] = <<>>
    <3>1. /\ pc[s] = "eject" /\ pc[local[s]] \notin Outside /\ local[s] \in Threads \ {t}
      BY <1>8, <2>1 DEF Ejecting
    <3> QED BY <1>2, <3>1 DEF Inv, LockInv, BarrierInv, Inside
  <2>2. ASSUME NEW s \in Threads, pc'[s] = "ejected" PROVE pc'[local[s]] \in Outside
    BY <1>8, <2>2 DEF Inv, LockInv, BarrierInv, Inside, Ejecting
  <2>3. ASSUME NEW s \in Threads, pc'[s] = "hand over" PROVE external'[s] = TRUE
    BY <1>1, <1>2, <1>6, <2>3 DEF Inv, LockInv, BarrierInv
  <2> QED BY <1>1, <2>1, <2>2, <2>3 DEF BarrierInv, Inside
<1> QED BY <1>7, <1>9, <1>10 DEF LockInv

(* An ejector gives up its scan.                                           *)
LEMMA GiveUpMoves ==
  ASSUME Inv, NEW t \in Threads, NEW from, GiveUp(t, from)
  PROVE  /\ pc[t] = from /\ pc'[t] = "release" /\ local'[t] = 0
         /\ pc' = [pc EXCEPT ![t] = "release"] /\ local' = [local EXCEPT ![t] = 0]
         /\ \A x \in Threads \ {t} : pc'[x] = pc[x] /\ local'[x] = local[x]
<1>1. Step(t, from, "release") /\ local' = [local EXCEPT ![t] = 0]
  BY DEF GiveUp
<1>2. local'[t] = 0 /\ \A x \in Threads \ {t} : local'[x] = local[x]
  BY <1>1 DEF Inv, TypeInv
<1> QED BY <1>1, <1>2, StepMoves

(* It goes on with the next thread, or it is through.                      *)
LEMMA NextThreadMoves ==
  ASSUME Inv, NEW t \in Threads, NEW from, NextThread(t, from), from \in Scanning
  PROVE  /\ pc[t] = from /\ pc'[t] \in {"scan at", "advance"} /\ pc' \in [Threads -> Labels]
         /\ local' \in [Threads -> Nat \cup {"using", "scan", "release"}]
         /\ pc'[t] = "scan at" => local'[t] \in Threads /\ local'[t] = local[t] + 1
         /\ pc'[t] = "advance" => local[t] + 1 \notin Threads
         /\ \A x \in Threads \ {t} : pc'[x] = pc[x] /\ local'[x] = local[x]
<1>1. pc[t] = from
      /\ pc' = [pc EXCEPT ![t] = IF local[t] + 1 \in Threads THEN "scan at" ELSE "advance"]
  BY DEF NextThread, Step
<1>2. local' = [local EXCEPT ![t] = IF local[t] + 1 \in Threads THEN local[t] + 1 ELSE 0]
  BY DEF NextThread
<1>3. local[t] \in Threads /\ local[t] + 1 \in Nat
  BY <1>1, TargetIsThread, LastThread
<1>4. pc \in [Threads -> Labels] /\ local \in [Threads -> Nat \cup {"using", "scan", "release"}]
  BY DEF Inv, TypeInv
<1>5. "scan at" \in Labels /\ "advance" \in Labels
  BY DEF Labels, Scanning
<1> QED BY <1>1, <1>2, <1>3, <1>4, <1>5

(* An ejector that wins the exchange has the external side for itself: the *)
(* owner does not have it, nor another ejector.                            *)
LEMMA ExchangeLock ==
  ASSUME Inv, NEW t \in Threads, Exchange(t)
  PROVE  LockInv'
<1> DEFINE u == local[t]
<1>1. /\ pc[t] = "exchange" /\ u \in Threads
      /\ external' = [external EXCEPT ![u] = TRUE] /\ internal' = internal /\ buffer' = buffer
  BY TargetIsThread DEF Exchange, ExternalExchange, Scanning
<1>2. CASE external[u] = TRUE
  <2>1. GiveUp(t, "exchange")
    BY <1>2 DEF Exchange
  <2>2. UNCHANGED lockVars
    BY <1>1, <1>2 DEF lockVars, Inv, TypeInv
  <2>3. /\ pc[t] \notin Ejecting /\ Inside(t) /\ pc'[t] \notin Ejecting \cup {"hand over", "acquire"}
        /\ \A x \in Threads \ {t} : pc'[x] = pc[x] /\ local'[x] = local[x]
    BY <1>1, <2>1, GiveUpMoves DEF Ejecting, Inside, Outside
  <2> QED BY <2>2, <2>3, QuietLock
<1>3. CASE external[u] = FALSE
  <2>1. /\ pc'[t] = "barrier" /\ local' = local
        /\ \A x \in Threads \ {t} : pc'[x] = pc[x]
    BY <1>3, StepMoves DEF Exchange
  <2>2. external'[u] = TRUE /\ \A x \in Threads : external[x] = TRUE => external'[x] = TRUE
    BY <1>1 DEF Inv, TypeInv
  <2>3. pc[u] # "hand over" /\ \A s \in Threads : pc[s] \in Ejecting => local[s] # u
    BY <1>1, <1>3 DEF Inv, LockInv, HolderInv, BarrierInv
  <2>4. \A x \in Threads : /\ Inside(x)' = Inside(x) /\ Visible(x)' = Visible(x)
                           /\ (pc'[x] = "acquire" <=> pc[x] = "acquire")
                           /\ (pc'[x] = "hand over" <=> pc[x] = "hand over")
    BY <1>1, <2>1 DEF Inside, Outside, Visible
  <2>5. OwnerInv'
    BY <2>4 DEF Inv, LockInv, OwnerInv
  <2>6. HolderInv'
    <3> SUFFICES ASSUME NEW s \in Threads, pc'[s] \in Ejecting
                 PROVE  /\ external'[local[s]] = TRUE /\ pc'[local[s]] # "hand over"
                        /\ \A r \in Threads : pc'[r] \in Ejecting /\ local[r] = local[s] => r = s
      BY <2>1 DEF HolderInv
    <3>1. CASE s = t
      BY <1>1, <2>1, <2>2, <2>3, <2>4, <3>1
    <3>2. CASE s \in Threads \ {t}
      <4>1. pc[s] \in Ejecting /\ local[s] \in Threads
        BY <2>1, <3>2, TargetIsThread DEF Scanning
      <4>2. /\ external[local[s]] = TRUE /\ pc[local[s]] # "hand over"
            /\ \A r \in Threads : pc[r] \in Ejecting /\ local[r] = local[s] => r = s
        BY <4>1 DEF Inv, LockInv, HolderInv
      <4>3. \A r \in Threads : pc'[r] \in Ejecting /\ local[r] = local[s] => pc[r] \in Ejecting
        BY <2>1, <2>3, <4>1
      <4> QED BY <2>2, <2>4, <4>1, <4>2, <4>3
    <3> QED BY <3>1, <3>2
  <2>7. BarrierInv'
    <3>1. \A s \in Threads : pc'[s] \in {"eject", "ejected"} =>
            pc'[s] = pc[s] /\ local[s] \in Threads
      BY <2>1, TargetIsThread DEF Scanning, Ejecting
    <3>2. ASSUME NEW s \in Threads, pc'[s] = "eject", pc'[local[s]] \notin Outside
          PROVE  internal[local[s]] = 1 /\ buffer[local[s]] = <<>>
      BY <2>4, <3>1, <3>2 DEF Inv, LockInv, BarrierInv, Inside
    <3>3. ASSUME NEW s \in Threads, pc'[s] = "ejected" PROVE pc'[local[s]] \in Outside
      BY <2>4, <3>1, <3>3 DEF Inv, LockInv, BarrierInv, Inside
    <3>4. ASSUME NEW s \in Threads, pc'[s] = "hand over" PROVE external'[s] = TRUE
      BY <2>2, <2>4, <3>4 DEF Inv, LockInv, BarrierInv
    <3> QED BY <1>1, <2>1, <3>2, <3>3, <3>4 DEF BarrierInv, Inside
  <2> QED BY <2>5, <2>6, <2>7 DEF LockInv
<1> QED BY <1>1, <1>2, <1>3 DEF Inv, TypeInv

(* The barrier shows the ejector an owner that is inside.                  *)
LEMMA BarrierLock ==
  ASSUME Inv, NEW t \in Threads, BarrierStep(t)
  PROVE  LockInv'
<1> DEFINE u == local[t]
<1>1. /\ pc[t] = "barrier" /\ pc'[t] = "eject" /\ local' = local /\ external' = external
      /\ DrainedSet({u}) /\ \A x \in Threads \ {t} : pc'[x] = pc[x]
  BY StepMoves DEF BarrierStep, Barrier, LocalsSame
<1>2. u \in Threads
  BY <1>1, TargetIsThread DEF Scanning, Ejecting
<1>3. /\ \A x \in Threads : Visible(x)' = Visible(x)
      /\ internal'[u] = Visible(u) /\ buffer'[u] = <<>>
      /\ \A x \in Threads \ {u} : internal'[x] = internal[x] /\ buffer'[x] = buffer[x]
  BY <1>1, <1>2, DrainKeeps
<1>4. \A x \in Threads : /\ Inside(x)' = Inside(x)
                         /\ (pc'[x] = "acquire" <=> pc[x] = "acquire")
                         /\ (pc'[x] = "hand over" <=> pc[x] = "hand over")
                         /\ (pc'[x] \in Ejecting <=> pc[x] \in Ejecting)
  BY <1>1 DEF Inside, Outside, Ejecting
<1>5. \A s \in Threads : pc[s] \in Ejecting => local[s] \in Threads
  BY TargetIsThread DEF Scanning
<1>6. OwnerInv'
  BY <1>3, <1>4 DEF Inv, LockInv, OwnerInv
<1>7. HolderInv'
  BY <1>1, <1>4, <1>5 DEF Inv, LockInv, HolderInv
<1>8. BarrierInv'
  <2>1. ASSUME NEW s \in Threads, pc'[s] = "eject", pc'[local[s]] \notin Outside
        PROVE  internal'[local[s]] = 1 /\ buffer'[local[s]] = <<>>
    <3>1. local[s] \in Threads /\ Inside(local[s])
      BY <1>4, <1>5, <2>1 DEF Ejecting, Inside
    <3>2. CASE local[s] = u
      <4>1. Visible(u) = 1
        BY <3>1, <3>2 DEF Inv, LockInv, OwnerInv
      <4> QED BY <1>3, <3>2, <4>1
    <3>3. CASE local[s] # u
      <4>1. pc[s] = "eject"
        BY <1>1, <2>1, <3>3
      <4>2. internal[local[s]] = 1 /\ buffer[local[s]] = <<>>
        BY <3>1, <4>1 DEF Inv, LockInv, BarrierInv
      <4> QED BY <1>3, <3>1, <3>3, <4>2
    <3> QED BY <3>2, <3>3
  <2>2. ASSUME NEW s \in Threads, pc'[s] = "ejected" PROVE pc'[local[s]] \in Outside
    <3>1. pc[s] = "ejected" /\ local[s] \in Threads
      BY <1>1, <1>5, <2>2 DEF Ejecting
    <3> QED BY <1>4, <3>1 DEF Inv, LockInv, BarrierInv, Inside
  <2>3. ASSUME NEW s \in Threads, pc'[s] = "hand over" PROVE external'[s] = TRUE
    BY <1>1, <1>4, <2>3 DEF Inv, LockInv, BarrierInv
  <2> QED BY <1>1, <2>1, <2>2, <2>3 DEF BarrierInv, Inside
<1> QED BY <1>6, <1>7, <1>8 DEF LockInv

(* An ejector that sees the internal side free after its barrier knows the *)
(* owner to be outside.                                                    *)
LEMMA SeemsFreeIsOutside ==
  ASSUME Inv, NEW t \in Threads, pc[t] = "eject", SeemsFree(local[t])
  PROVE  ~Inside(local[t])
<1>1. Inside(local[t]) => internal[local[t]] = 1
  BY DEF Inv, LockInv, BarrierInv
<1>2. internal[local[t]] = 0
  BY DEF SeemsFree
<1> QED BY <1>1, <1>2

(* The ejector looks at the internal side, and ejects or not.              *)
LEMMA EjectLock ==
  ASSUME Inv, NEW t \in Threads, Eject(t)
  PROVE  LockInv'
<1>1. /\ pc[t] = "eject" /\ UNCHANGED <<local, internal, buffer, external>>
      /\ SeemsFree(local[t]) \/ pc'[t] = "held"
      /\ pc'[t] \in {"ejected", "held"}
      /\ \A x \in Threads \ {t} : pc'[x] = pc[x]
  BY StepMoves DEF Eject, LocalsSame, lockVars
<1>2. \A x \in Threads : /\ Inside(x)' = Inside(x) /\ Visible(x)' = Visible(x)
                         /\ (pc'[x] = "acquire" <=> pc[x] = "acquire")
                         /\ (pc'[x] = "hand over" <=> pc[x] = "hand over")
                         /\ (pc'[x] \in Ejecting <=> pc[x] \in Ejecting)
                         /\ (pc'[x] = "eject" => pc[x] = "eject")
  BY <1>1 DEF Inside, Outside, Ejecting, Visible
<1>3. \A s \in Threads : pc[s] \in Ejecting => local[s] \in Threads
  BY TargetIsThread DEF Scanning
<1>4. OwnerInv'
  BY <1>2 DEF Inv, LockInv, OwnerInv
<1>5. HolderInv'
  BY <1>1, <1>2, <1>3 DEF Inv, LockInv, HolderInv
<1>6. BarrierInv'
  <2>1. ASSUME NEW s \in Threads, pc'[s] = "eject", pc'[local[s]] \notin Outside
        PROVE  internal[local[s]] = 1 /\ buffer[local[s]] = <<>>
    <3>1. pc[s] = "eject" /\ local[s] \in Threads
      BY <1>2, <1>3, <2>1 DEF Ejecting
    <3> QED BY <1>2, <2>1, <3>1 DEF Inv, LockInv, BarrierInv, Inside
  <2>2. ASSUME NEW s \in Threads, pc'[s] = "ejected" PROVE pc'[local[s]] \in Outside
    <3>1. local[s] \in Threads
      BY <1>2, <1>3, <2>2 DEF Ejecting
    <3>2. ~Inside(local[s])
      <4>1. CASE s = t
        BY <1>1, <2>2, <4>1, SeemsFreeIsOutside
      <4>2. CASE s # t
        BY <1>1, <2>2, <4>2 DEF Inv, LockInv, BarrierInv
      <4> QED BY <4>1, <4>2
    <3> QED BY <1>2, <3>1, <3>2 DEF Inside
  <2>3. ASSUME NEW s \in Threads, pc'[s] = "hand over" PROVE external[s] = TRUE
    BY <1>2, <2>3 DEF Inv, LockInv, BarrierInv
  <2> QED BY <1>1, <2>1, <2>2, <2>3 DEF BarrierInv, Inside
<1> QED BY <1>4, <1>5, <1>6 DEF LockInv

(* An ejector gives the external side back: nobody else relies on it.      *)
LEMMA LetGoLock ==
  ASSUME Inv, NEW t \in Threads, pc[t] \in {"ejected", "held"}, ExternalRelease(local[t]),
         pc'[t] \in {"scan at", "advance", "release"},
         \A x \in Threads \ {t} : pc'[x] = pc[x] /\ local'[x] = local[x]
  PROVE  LockInv'
<1> DEFINE u == local[t]
<1>1. /\ u \in Threads /\ pc[t] \in Ejecting /\ pc'[t] \notin Ejecting
      /\ pc[u] # "hand over" /\ \A s \in Threads : pc[s] \in Ejecting /\ local[s] = u => s = t
  BY TargetIsThread DEF Scanning, Ejecting, Inv, LockInv, HolderInv
<1>2. /\ internal' = internal /\ buffer' = buffer
      /\ \A x \in Threads \ {u} : external'[x] = external[x]
  BY <1>1 DEF ExternalRelease, Inv, TypeInv
<1>3. \A x \in Threads : /\ Inside(x)' = Inside(x) /\ Visible(x)' = Visible(x)
                         /\ (pc'[x] = "acquire" <=> pc[x] = "acquire")
                         /\ (pc'[x] = "hand over" <=> pc[x] = "hand over")
  BY <1>2 DEF Inside, Outside, Visible
<1>4. \A s \in Threads : pc'[s] \in Ejecting =>
        /\ pc[s] \in Ejecting /\ pc'[s] = pc[s] /\ local'[s] = local[s] /\ local[s] \in Threads \ {u}
  BY <1>1, TargetIsThread DEF Scanning
<1>5. OwnerInv'
  BY <1>3 DEF Inv, LockInv, OwnerInv
<1>6. HolderInv'
  <2> SUFFICES ASSUME NEW s \in Threads, pc'[s] \in Ejecting
               PROVE  /\ external'[local'[s]] = TRUE /\ pc'[local'[s]] # "hand over"
                      /\ \A r \in Threads : pc'[r] \in Ejecting /\ local'[r] = local'[s] => r = s
    BY DEF HolderInv
  <2>1. /\ external[local[s]] = TRUE /\ pc[local[s]] # "hand over"
        /\ \A r \in Threads : pc[r] \in Ejecting /\ local[r] = local[s] => r = s
    BY <1>4 DEF Inv, LockInv, HolderInv
  <2> QED BY <1>2, <1>3, <1>4, <2>1
<1>7. BarrierInv'
  <2>1. ASSUME NEW s \in Threads, pc'[s] = "eject", pc'[local'[s]] \notin Outside
        PROVE  internal[local'[s]] = 1 /\ buffer[local'[s]] = <<>>
    <3>1. pc[s] = "eject" /\ local[s] \in Threads /\ local'[s] = local[s]
      BY <1>4, <2>1 DEF Ejecting
    <3> QED BY <1>3, <2>1, <3>1 DEF Inv, LockInv, BarrierInv, Inside
  <2>2. ASSUME NEW s \in Threads, pc'[s] = "ejected" PROVE pc'[local'[s]] \in Outside
    <3>1. pc[s] = "ejected" /\ local[s] \in Threads /\ local'[s] = local[s]
      BY <1>4, <2>2 DEF Ejecting
    <3> QED BY <1>3, <3>1 DEF Inv, LockInv, BarrierInv, Inside
  <2>3. ASSUME NEW s \in Threads, pc'[s] = "hand over" PROVE external'[s] = TRUE
    <3>1. pc[s] = "hand over" /\ s \in Threads \ {u}
      BY <1>1, <1>3, <2>3
    <3> QED BY <1>2, <3>1 DEF Inv, LockInv, BarrierInv
  <2> QED BY <1>2, <2>1, <2>2, <2>3 DEF BarrierInv, Inside
<1> QED BY <1>5, <1>6, <1>7 DEF LockInv

-----------------------------------------------------------------------------
(* A thread announces the epoch that it read.  Unless it is going to read  *)
(* the global one again, that must be recent, and no scan that passed the  *)
(* thread may be ahead of it.                                              *)
LEMMA SetEpochKeeps ==
  ASSUME Inv, NEW t \in Threads, SetEpoch(t), UNCHANGED <<global, seen>>,
         \A x \in Threads \ {t} : pc'[x] = pc[x] /\ local'[x] = local[x],
         pc'[t] \notin Scanning \cup {"advance", "publish", "announce"},
         pc'[t] = "rejoin again" \/ global <= seen[t] + 1,
         \A s \in Threads :
           Passed(s, t) => pc'[t] = "rejoin again" \/ epoch[s] <= seen[t]
  PROVE  EpochInv' /\ PassedInv'
<1>1. /\ epoch'[t] = seen[t] /\ ejected'[t] = FALSE
      /\ \A x \in Threads \ {t} : epoch'[x] = epoch[x] /\ ejected'[x] = ejected[x]
  BY DEF SetEpoch, Inv, TypeInv
<1>2. EpochInv'
  <2>1. ASSUME NEW x \in Threads \ {t}
        PROVE  /\ pc'[x] = pc[x] /\ Inside(x)' = Inside(x) /\ Settled(x)' = Settled(x)
               /\ Announced(x)' = Announced(x) /\ epoch'[x] = epoch[x]
    BY <1>1 DEF Inside, Settled, Announced
  <2>2. ASSUME NEW x \in Threads \ {t}
        PROVE  /\ epoch'[x] <= global /\ seen[x] <= global
               /\ Inside(x)' /\ pc'[x] \notin {"check", "rejoin"} => Announced(x)'
               /\ pc'[x] \in {"publish", "announce"} => epoch'[x] <= seen[x]
               /\ pc'[x] = "announce" => global <= seen[x] + 1
               /\ Settled(x)' => global <= epoch'[x] + 1
    BY <2>1 DEF Inv, EpochInv
  <2>3. /\ epoch'[t] <= global /\ seen[t] <= global
        /\ Announced(t)'
        /\ Settled(t)' => global <= epoch'[t] + 1
    BY <1>1 DEF Inv, EpochInv, Announced, Settled
  <2> QED BY <2>2, <2>3 DEF EpochInv
<1>3. PassedInv'
  <2> SUFFICES ASSUME NEW s \in Threads, NEW u \in Threads, Passed(s, u)'
               PROVE  /\ Settled(u)' => epoch'[s] <= epoch'[u]
                      /\ pc'[u] = "announce" => epoch'[s] <= seen[u]
    BY DEF PassedInv
  <2>1. s \in Threads \ {t}
    BY DEF Passed, Scanning, Ejecting
  <2>2. Passed(s, u) /\ epoch'[s] = epoch[s]
    BY <1>1, <2>1 DEF Passed
  <2>3. CASE u = t
    BY <1>1, <2>2, <2>3 DEF Settled
  <2>4. CASE u \in Threads \ {t}
    <3>1. Settled(u)' = Settled(u) /\ pc'[u] = pc[u] /\ epoch'[u] = epoch[u]
      BY <1>1, <2>4 DEF Settled, Announced
    <3> QED BY <2>2, <3>1 DEF Inv, PassedInv
  <2> QED BY <2>3, <2>4
<1> QED BY <1>2, <1>3

(* Only a thread that is outside gets ejected.                             *)
LEMMA EjectKeeps ==
  ASSUME Inv, NEW t \in Threads, Eject(t)
  PROVE  EpochInv' /\ PassedInv'
<1> DEFINE u == local[t]
<1>1. /\ pc[t] = "eject" /\ u \in Threads /\ pc'[t] \in {"ejected", "held"}
      /\ UNCHANGED <<global, epoch, seen, local>>
      /\ \A x \in Threads \ {t} : pc'[x] = pc[x]
  <2>1. pc[t] = "eject" /\ UNCHANGED <<global, epoch, seen, local>>
    BY DEF Eject, LocalsSame
  <2>2. u \in Threads
    BY <2>1, TargetIsThread DEF Scanning, Ejecting
  <2>3. Step(t, "eject", "ejected") \/ Step(t, "eject", "held")
    BY DEF Eject
  <2>4. pc'[t] \in {"ejected", "held"} /\ \A x \in Threads \ {t} : pc'[x] = pc[x]
    BY <2>3, StepMoves
  <2> QED BY <2>1, <2>2, <2>4
<1>2. \A x \in Threads : ejected'[x] = FALSE => ejected[x] = FALSE
  <2>1. CASE SeemsFree(u)
    <3>1. ejected' = [ejected EXCEPT ![u] = ejected[u] \/ epoch[u] # epoch[t]]
      BY <2>1 DEF Eject
    <3>2. \A x \in Threads \ {u} : ejected'[x] = ejected[x]
      BY <3>1 DEF Inv, TypeInv
    <3>3. ejected[u] = TRUE => ejected'[u] = TRUE
      BY <1>1, <3>1 DEF Inv, TypeInv
    <3>4. ejected[u] = TRUE \/ ejected[u] = FALSE
      BY <1>1 DEF Inv, TypeInv
    <3> QED BY <3>2, <3>3, <3>4
  <2>2. CASE ~SeemsFree(u)
    BY <2>2 DEF Eject
  <2> QED BY <2>1, <2>2
<1>3. \A x \in Threads : Inside(x) => ejected'[x] = ejected[x]
  <2>1. CASE SeemsFree(u)
    <3>1. ~Inside(u)
      BY <1>1, <2>1, SeemsFreeIsOutside
    <3>2. ejected' = [ejected EXCEPT ![u] = ejected[u] \/ epoch[u] # epoch[t]]
      BY <2>1 DEF Eject
    <3> QED BY <3>1, <3>2 DEF Inv, TypeInv
  <2>2. CASE ~SeemsFree(u)
    BY <2>2 DEF Eject
  <2> QED BY <2>1, <2>2
<1>4. \A x \in Threads : /\ Inside(x)' = Inside(x) /\ (Settled(x)' => Settled(x))
                         /\ (pc'[x] = "announce" <=> pc[x] = "announce")
                         /\ (pc'[x] = "publish" <=> pc[x] = "publish")
                         /\ (pc'[x] \in {"check", "rejoin"} <=> pc[x] \in {"check", "rejoin"})
  BY <1>1, <1>2 DEF Inside, Outside, Settled, Announced
<1>5. EpochInv'
  <2> SUFFICES ASSUME NEW x \in Threads
               PROVE  /\ epoch[x] <= global /\ seen[x] <= global
                      /\ Inside(x)' /\ pc'[x] \notin {"check", "rejoin"} => Announced(x)'
                      /\ pc'[x] \in {"publish", "announce"} => epoch[x] <= seen[x]
                      /\ pc'[x] = "announce" => global <= seen[x] + 1
                      /\ Settled(x)' => global <= epoch[x] + 1
    BY <1>1 DEF EpochInv
  <2>1. Inside(x)' /\ pc'[x] \notin {"check", "rejoin"} => Announced(x)'
    BY <1>3, <1>4 DEF Inv, EpochInv, Announced
  <2> QED BY <1>4, <2>1 DEF Inv, EpochInv
<1>6. PassedInv'
  <2> SUFFICES ASSUME NEW s \in Threads, NEW x \in Threads, Passed(s, x)'
               PROVE  /\ Settled(x)' => epoch[s] <= epoch[x]
                      /\ pc'[x] = "announce" => epoch[s] <= seen[x]
    BY <1>1 DEF PassedInv
  <2>1. CASE Passed(s, x)
    BY <1>4, <2>1 DEF Inv, PassedInv
  <2>2. CASE ~Passed(s, x)
    <3>1. s = t /\ pc'[t] = "ejected" /\ x = u
      BY <1>1, <2>2 DEF Passed, Scanning, Ejecting
    <3>2. SeemsFree(u) /\ ejected' = [ejected EXCEPT ![u] = ejected[u] \/ epoch[u] # epoch[t]]
      BY <3>1, StepMoves DEF Eject
    <3>3. pc'[x] # "announce"
      BY <1>1, <1>4, <3>1, <3>2, SeemsFreeIsOutside DEF Inside, Outside
    <3>4. ejected'[x] = FALSE => epoch[s] = epoch[x]
      BY <3>1, <3>2 DEF Inv, TypeInv
    <3>5. epoch[x] <= epoch[x]
      BY DEF Inv, TypeInv
    <3>6. ejected'[x] = FALSE => epoch[s] <= epoch[x]
      BY <3>4, <3>5, Zenon
    <3>7. Settled(x)' => ejected'[x] = FALSE
      BY DEF Settled, Announced
    <3> QED BY <3>3, <3>6, <3>7
  <2> QED BY <2>1, <2>2
<1> QED BY <1>5, <1>6

(* A thread that exits is ejected, outside.                                *)
LEMMA ExitKeeps ==
  ASSUME Inv, NEW t \in Threads, Exit(t)
  PROVE  EpochInv' /\ PassedInv'
<1>1. /\ pc[t] = "idle" /\ UNCHANGED <<global, epoch, seen, local, pc>>
      /\ ejected'[t] = TRUE /\ \A x \in Threads \ {t} : ejected'[x] = ejected[x]
  BY DEF Exit, LocalsSame, Inv, TypeInv
<1>2. ~Inside(t) /\ ~Settled(t)'
  BY <1>1 DEF Inside, Outside, Settled, Announced
<1>3. \A x \in Threads : /\ Inside(x)' = Inside(x) /\ (Settled(x)' => Settled(x))
                         /\ (Inside(x) => Announced(x)' = Announced(x))
  BY <1>1, <1>2 DEF Inside, Settled, Announced
<1>4. EpochInv'
  BY <1>1, <1>3 DEF Inv, EpochInv
<1>5. PassedInv'
  <2>1. \A s, u \in Threads : Passed(s, u)' = Passed(s, u)
    BY <1>1 DEF Passed
  <2> QED BY <1>1, <1>3, <2>1 DEF Inv, PassedInv
<1> QED BY <1>4, <1>5

(* A thread that has scanned all the others may advance: the global epoch  *)
(* stays or goes up by one, and nobody is more than one behind it.         *)
LEMMA AdvanceByOne ==
  ASSUME Inv, NEW t \in Threads, Advance(t)
  PROVE  /\ pc[t] = "advance" /\ global' = epoch[t] + 1
         /\ epoch[t] <= global /\ global <= epoch[t] + 1
         /\ global' \in Nat /\ global <= global' /\ global' \in {global, global + 1}
<1>1. pc[t] = "advance" /\ global' = epoch[t] + 1
  BY DEF Advance, Step
<1>2. Settled(t)
  BY <1>1 DEF Inv, EpochInv, Inside, Outside, Settled
<1>3. epoch[t] <= global /\ global <= epoch[t] + 1 /\ epoch[t] \in Nat /\ global \in Nat
  BY <1>2 DEF Inv, EpochInv, TypeInv
<1>4. ASSUME NEW e \in Nat, NEW g \in Nat, e <= g, g <= e + 1
      PROVE  e + 1 \in Nat /\ g <= e + 1 /\ e + 1 \in {g, g + 1}
  BY <1>4
<1>5. epoch[t] + 1 \in Nat /\ global <= epoch[t] + 1 /\ epoch[t] + 1 \in {global, global + 1}
  BY <1>3, <1>4
<1> QED BY <1>1, <1>3, <1>5

(* The scan passed everybody, so nobody is left more than one behind.      *)
LEMMA AdvanceKeeps ==
  ASSUME Inv, NEW t \in Threads, Advance(t)
  PROVE  EpochInv' /\ PassedInv'
<1>1. /\ pc[t] = "advance" /\ pc'[t] = "refresh last"
      /\ \A x \in Threads \ {t} : pc'[x] = pc[x]
      /\ UNCHANGED <<epoch, ejected, seen, local>>
  BY StepMoves DEF Advance, LocalsSame
<1>2. \A x \in Threads : /\ Inside(x)' = Inside(x) /\ Settled(x)' = Settled(x)
                         /\ Announced(x)' = Announced(x)
                         /\ (pc'[x] = "announce" <=> pc[x] = "announce")
                         /\ (pc'[x] = "publish" <=> pc[x] = "publish")
                         /\ (pc'[x] \in {"check", "rejoin"} <=> pc[x] \in {"check", "rejoin"})
  BY <1>1 DEF Inside, Outside, Settled, Announced
<1>3. EpochInv'
  <2> SUFFICES ASSUME NEW x \in Threads
               PROVE  /\ epoch[x] <= global' /\ seen[x] <= global'
                      /\ Inside(x)' /\ pc'[x] \notin {"check", "rejoin"} => Announced(x)'
                      /\ pc'[x] \in {"publish", "announce"} => epoch[x] <= seen[x]
                      /\ pc'[x] = "announce" => global' <= seen[x] + 1
                      /\ Settled(x)' => global' <= epoch[x] + 1
    BY <1>1 DEF EpochInv
  <2>1. epoch[x] \in Nat /\ seen[x] \in Nat /\ global \in Nat /\ global' \in Nat /\ epoch[t] \in Nat
    BY AdvanceByOne DEF Inv, TypeInv
  <2>2. epoch[x] <= global /\ seen[x] <= global /\ global <= global' /\ global' = epoch[t] + 1
    BY AdvanceByOne DEF Inv, EpochInv
  <2>3. epoch[x] <= global' /\ seen[x] <= global'
    BY <2>1, <2>2
  <2>4. Passed(t, x)
    BY <1>1 DEF Passed
  <2>5. /\ Settled(x) => epoch[t] <= epoch[x]
        /\ pc[x] = "announce" => epoch[t] <= seen[x]
    BY <2>4 DEF Inv, PassedInv
  <2>6. /\ epoch[t] <= epoch[x] => epoch[t] + 1 <= epoch[x] + 1
        /\ epoch[t] <= seen[x] => epoch[t] + 1 <= seen[x] + 1
    BY <2>1
  <2>7. /\ pc'[x] = "announce" => global' <= seen[x] + 1
        /\ Settled(x)' => global' <= epoch[x] + 1
    BY <1>2, <2>2, <2>5, <2>6
  <2> QED BY <1>2, <2>3, <2>7 DEF Inv, EpochInv
<1>4. PassedInv'
  <2>1. \A s, u \in Threads : Passed(s, u)' => Passed(s, u)
    <3>1. ASSUME NEW s \in Threads, NEW u \in Threads, Passed(s, u)' PROVE Passed(s, u)
      BY <1>1, <3>1 DEF Passed, Scanning, Ejecting
    <3> QED BY <3>1
  <2> QED BY <1>1, <1>2, <2>1 DEF Inv, PassedInv
<1> QED BY <1>3, <1>4

-----------------------------------------------------------------------------
(* The types, and what a thread keeps in its local.                        *)
LEMMA LocalsKeep ==
  ASSUME Inv, NEW t \in Threads,
         pc' \in [Threads -> Labels],
         local' \in [Threads -> Nat \cup {"using", "scan", "release"}],
         \A x \in Threads \ {t} : pc'[x] = pc[x] /\ local'[x] = local[x],
         pc'[t] = "publish" => local'[t] \in {"using", "scan", "release"},
         pc'[t] \in Scanning => local'[t] \in Threads
  PROVE  LocalInv'
BY DEF Inv, LocalInv

(* A step that only moves the thread.                                      *)
LEMMA PlainStep ==
  ASSUME Inv, NEW t \in Threads, NEW from, NEW to, Step(t, from, to),
         UNCHANGED <<global, epoch, ejected, seen, local, lockVars>>,
         \/ <<from, to>> \in {<<"idle", "put">>, <<"put", "update">>}
         \/ from = "acquire" /\ to = "back off"
         \/ from = "acquire" /\ to = "check" /\ external[t] = FALSE
         \/ from = "using" /\ to \in {"incref", "used"}
         \/ from = "used" /\ to \in {"refresh first", "release"}
         \/ from = "scan at" /\ to = "exchange"
  PROVE  Inv'
<1>1. /\ pc[t] = from /\ pc'[t] = to /\ pc' = [pc EXCEPT ![t] = to]
      /\ \A x \in Threads \ {t} : pc'[x] = pc[x]
  BY StepMoves
<1>2. TypeInv'
  <2>1. to \in Labels
    BY DEF Labels, Outside, Scanning
  <2> QED BY <1>1, <2>1 DEF Inv, TypeInv, lockVars
<1>3. LocalInv'
  <2>1. to \in Scanning => from \in Scanning
    BY DEF Scanning, Ejecting
  <2> QED BY <1>1, <1>2, <2>1, TargetIsThread, LocalsKeep DEF TypeInv
<1>4. LockInv'
  <2>1. /\ from \notin Ejecting /\ to \notin Ejecting \cup {"hand over", "acquire"}
        /\ Inside(t)' => Inside(t) \/ (pc[t] = "acquire" /\ external[t] = FALSE)
    BY <1>1 DEF Ejecting, Inside, Outside
  <2> QED BY <1>1, <2>1, QuietLock
<1>5. EpochInv' /\ PassedInv'
  <2>1. seen[t] <= global
    BY DEF Inv, EpochInv
  <2>2. Inside(t)' /\ pc'[t] \notin {"check", "rejoin"} => Announced(t)
    BY <1>1 DEF Inv, EpochInv, Inside, Outside
  <2>3. to \notin {"publish", "announce"} /\ from \notin {"rejoin again", "announce"}
    OBVIOUS
  <2>4. Settled(t)' => Settled(t)
    BY <1>1, <2>3 DEF Settled, Announced
  <2>5. \A u \in Threads : Passed(t, u)' => Passed(t, u)
    BY <1>1 DEF Passed, Scanning, Ejecting
  <2> QED BY <1>1, <2>1, <2>2, <2>3, <2>4, <2>5, QuietEpoch
<1> QED BY <1>2, <1>3, <1>4, <1>5 DEF Inv

(* What a thread has just read is the global epoch.                        *)
LEMMA SeeIsRecent ==
  ASSUME Inv, NEW t \in Threads, See(t)
  PROVE  /\ seen'[t] = global /\ seen'[t] <= global /\ seen' \in [Threads -> Nat]
         /\ \A x \in Threads \ {t} : seen'[x] = seen[x]
<1>1. /\ seen'[t] = global /\ seen' \in [Threads -> Nat]
      /\ \A x \in Threads \ {t} : seen'[x] = seen[x]
  BY DEF See, Inv, TypeInv
<1>2. global <= global
  BY DEF Inv, TypeInv
<1>3. seen'[t] <= global
  BY <1>1, <1>2, Zenon
<1> QED BY <1>1, <1>3

(* The owner, inside, reads the global epoch, or goes on to use its own.   *)
LEMMA InsideStep ==
  ASSUME Inv, NEW t \in Threads, NEW from, NEW to, Step(t, from, to),
         UNCHANGED <<global, epoch, ejected, lockVars>>,
         seen' = seen \/ See(t),
         NEW l \in Nat \cup {"using", "scan", "release"}, local' = [local EXCEPT ![t] = l],
         Inside(t), from \notin Ejecting,
         \/ to = "rejoin" /\ from = "check"
         \/ to = "announce" /\ from = "rejoin again" /\ See(t)
         \/ to = "publish" /\ See(t) /\ l \in {"using", "scan", "release"}
         \/ to \in {"refresh", "using", "scan", "release"}
         \/ to = "scan at" /\ l = 1,
         from = "check" => to = "rejoin" \/ Announced(t),
         from = "rejoin again" => to = "announce",
         from \notin {"rejoin", "announce"}
  PROVE  Inv'
<1>1. /\ pc[t] = from /\ pc'[t] = to /\ pc' = [pc EXCEPT ![t] = to]
      /\ \A x \in Threads \ {t} : pc'[x] = pc[x]
  BY StepMoves
<1>2. /\ local'[t] = l /\ local' \in [Threads -> Nat \cup {"using", "scan", "release"}]
      /\ \A x \in Threads \ {t} : local'[x] = local[x]
  BY DEF Inv, TypeInv
<1>3. /\ seen'[t] <= global /\ seen' \in [Threads -> Nat]
      /\ See(t) => seen'[t] = global
      /\ \A x \in Threads \ {t} : seen'[x] = seen[x]
  <2>1. CASE seen' = seen
    BY <2>1 DEF Inv, TypeInv, EpochInv, See
  <2>2. CASE See(t)
    BY <2>2, SeeIsRecent
  <2> QED BY <2>1, <2>2
<1>4. to \in Labels /\ (to \in Scanning => to = "scan at") /\ to \notin Ejecting
      /\ Inside(t)' /\ to # "advance"
  BY <1>1 DEF Labels, Scanning, Ejecting, Inside, Outside
<1>5. TypeInv'
  <2>1. pc' \in [Threads -> Labels]
    BY <1>1, <1>4 DEF Inv, TypeInv
  <2> QED BY <1>2, <1>3, <2>1 DEF Inv, TypeInv, lockVars
<1>6. LocalInv'
  <2>1. 1 \in Threads
    BY FirstThread
  <2>2. to = "scan at" => l = 1
    OBVIOUS
  <2>3. to = "publish" => l \in {"using", "scan", "release"}
    OBVIOUS
  <2> QED BY <1>1, <1>2, <1>4, <1>5, <2>1, <2>2, <2>3, LocalsKeep DEF TypeInv
<1>7. LockInv'
  <2>1. from \notin Ejecting /\ to \notin Ejecting \cup {"hand over", "acquire"}
    BY <1>4
  <2> QED BY <1>1, <1>2, <2>1, QuietLock
<1>8. EpochInv' /\ PassedInv'
  <2>1. to \notin {"check", "rejoin"} => Announced(t)
    BY <1>1 DEF Inv, EpochInv
  <2>2. to \in {"publish", "announce"} => epoch[t] <= seen'[t]
    BY <1>3 DEF Inv, EpochInv
  <2>3. to = "announce" => seen'[t] = global
    BY <1>3
  <2>4. Settled(t)' => Settled(t)
    BY <1>1 DEF Settled, Announced
  <2>5. \A u \in Threads : ~Passed(t, u)'
    <3>1. ASSUME NEW u \in Threads, Passed(t, u)' PROVE FALSE
      <4>1. to = "scan at" /\ u < l
        BY <1>1, <1>2, <1>4, <3>1 DEF Passed, Ejecting
      <4>2. u < 1
        BY <4>1
      <4> QED BY <4>2, FirstThread
    <3> QED BY <3>1
  <2> QED BY <1>1, <1>2, <1>3, <2>1, <2>2, <2>3, <2>4, <2>5, QuietEpoch
<1> QED BY <1>5, <1>6, <1>7, <1>8 DEF Inv

(* use_epoch goes on to refresh, to rejoin or to the use.                  *)
LEMMA CheckKeeps ==
  ASSUME Inv, NEW t \in Threads, Check(t)
  PROVE  Inv'
<1> DEFINE to == IF ejected[t] THEN "rejoin" ELSE IF epoch[t] # global THEN "refresh" ELSE "using"
<1>1. /\ Step(t, "check", to) /\ See(t)
      /\ UNCHANGED <<global, epoch, ejected, local, lockVars>>
  BY DEF Check, EpochsSame
<1>2. /\ to = "rejoin" \/ (to \in {"refresh", "using"} /\ Announced(t))
      /\ Inside(t) /\ "check" \notin Ejecting
  BY <1>1 DEF Announced, Inside, Outside, Ejecting, Step, Inv, TypeInv
<1>3. local[t] \in Nat \cup {"using", "scan", "release"} /\ local' = [local EXCEPT ![t] = local[t]]
  BY <1>1 DEF Inv, TypeInv
<1> HIDE DEF to
<1> QED BY <1>1, <1>2, <1>3, InsideStep

(* refresh: the epoch is the global one, or will be published.             *)
LEMMA RefreshKeeps ==
  ASSUME Inv, NEW t \in Threads, Refresh(t)
  PROVE  Inv'
<1>1. /\ pc[t] \in {"refresh", "refresh first", "refresh last"} /\ See(t)
      /\ UNCHANGED <<global, epoch, ejected, lockVars>>
  BY DEF Refresh
<1>2. /\ AfterRefresh(pc[t]) \in {"using", "scan", "release"} /\ Inside(t)
      /\ pc[t] \notin Ejecting /\ pc[t] \notin {"check", "rejoin again", "rejoin", "announce"}
  BY <1>1 DEF AfterRefresh, Inside, Outside, Ejecting
<1>3. CASE Step(t, pc[t], AfterRefresh(pc[t])) /\ UNCHANGED local
  <2>1. local[t] \in Nat \cup {"using", "scan", "release"} /\ local' = [local EXCEPT ![t] = local[t]]
    BY <1>3 DEF Inv, TypeInv
  <2> QED BY <1>1, <1>2, <1>3, <2>1, InsideStep
<1>4. CASE Step(t, pc[t], "publish") /\ local' = [local EXCEPT ![t] = AfterRefresh(pc[t])]
  <2> DEFINE l == AfterRefresh(pc[t])
  <2>1. /\ l \in Nat \cup {"using", "scan", "release"} /\ l \in {"using", "scan", "release"}
        /\ local' = [local EXCEPT ![t] = l]
    BY <1>2, <1>4
  <2> HIDE DEF l
  <2> QED BY <1>1, <1>2, <1>4, <2>1, InsideStep
<1> QED BY <1>3, <1>4 DEF Refresh

(* The second read of a thread that rejoins.                               *)
LEMMA RejoinAgainKeeps ==
  ASSUME Inv, NEW t \in Threads, RejoinAgain(t)
  PROVE  Inv'
<1>1. /\ Step(t, "rejoin again", "announce") /\ See(t)
      /\ UNCHANGED <<global, epoch, ejected, local, lockVars>>
  BY DEF RejoinAgain, EpochsSame
<1>2. Inside(t) /\ "rejoin again" \notin Ejecting
  BY <1>1 DEF Inside, Outside, Ejecting, Step
<1>3. local[t] \in Nat \cup {"using", "scan", "release"} /\ local' = [local EXCEPT ![t] = local[t]]
  BY <1>1 DEF Inv, TypeInv
<1> QED BY <1>1, <1>2, <1>3, InsideStep

(* The flush after rejoining leaves the epochs alone.                      *)
LEMMA RejoinedKeeps ==
  ASSUME Inv, NEW t \in Threads, Rejoined(t)
  PROVE  Inv'
<1>1. /\ Step(t, "rejoined", "using") /\ local' = [local EXCEPT ![t] = 0]
      /\ UNCHANGED <<global, epoch, ejected, seen, lockVars>>
  BY DEF Rejoined
<1>2. Inside(t) /\ "rejoined" \notin Ejecting /\ 0 \in Nat \cup {"using", "scan", "release"}
  BY <1>1 DEF Inside, Outside, Ejecting, Step
<1> QED BY <1>1, <1>2, InsideStep

(* A scan begins with nobody passed.                                       *)
LEMMA ScanKeeps ==
  ASSUME Inv, NEW t \in Threads, Scan(t)
  PROVE  Inv'
<1>1. /\ Step(t, "scan", "scan at") /\ local' = [local EXCEPT ![t] = 1]
      /\ UNCHANGED <<global, epoch, ejected, seen, lockVars>>
  BY DEF Scan, EpochsSame
<1>2. Inside(t) /\ "scan" \notin Ejecting /\ 1 \in Nat \cup {"using", "scan", "release"}
  BY <1>1 DEF Inside, Outside, Ejecting, Step
<1> QED BY <1>1, <1>2, InsideStep

(* A scan ends at a thread in another epoch.                               *)
LEMMA ScanFailsKeeps ==
  ASSUME Inv, NEW t \in Threads, ScanFails(t)
  PROVE  Inv'
<1>1. /\ Step(t, "scan at", "release") /\ local' = [local EXCEPT ![t] = 0]
      /\ UNCHANGED <<global, epoch, ejected, seen, lockVars>>
  BY DEF ScanFails, GiveUp, EpochsSame
<1>2. Inside(t) /\ "scan at" \notin Ejecting /\ 0 \in Nat \cup {"using", "scan", "release"}
  BY <1>1 DEF Inside, Outside, Ejecting, Step
<1> QED BY <1>1, <1>2, InsideStep

(* A thread is up to another when it comes before the next, and then it is *)
(* that one or before it.                                                  *)
LEMMA UpTo ==
  ASSUME NEW u \in Nat, NEW v \in Nat
  PROVE  (u < v + 1 => u <= v) /\ (u <= v => u < v \/ u = v)
OBVIOUS

(* The scan goes on past a thread that is ejected or in the scan's epoch.  *)
LEMMA NextThreadEpochs ==
  ASSUME Inv, NEW t \in Threads, NEW from, NextThread(t, from), from \in {"scan at", "ejected"},
         UNCHANGED <<global, epoch, ejected, seen>>,
         Passed(t, local[t]) \/ ejected[local[t]] = TRUE \/ epoch[t] <= epoch[local[t]]
  PROVE  EpochInv' /\ PassedInv'
<1>1. /\ pc[t] = from /\ pc'[t] \in {"scan at", "advance"} /\ from \in Scanning
      /\ pc'[t] = "scan at" => local'[t] \in Threads /\ local'[t] = local[t] + 1
      /\ pc'[t] = "advance" => local[t] + 1 \notin Threads
      /\ \A x \in Threads \ {t} : pc'[x] = pc[x] /\ local'[x] = local[x]
  <2>1. from \in Scanning
    BY DEF Scanning, Ejecting
  <2> QED BY <2>1, NextThreadMoves
<1>2. local[t] \in Threads
  BY <1>1, TargetIsThread
<1>3. /\ Inside(t) /\ Settled(t)' = Settled(t)
      /\ pc'[t] \notin {"publish", "announce"} /\ pc[t] \notin {"check", "rejoin"}
  BY <1>1 DEF Inside, Outside, Settled, Announced
<1>4. Announced(t) /\ seen[t] <= global
  BY <1>3 DEF Inv, EpochInv
<1>5. ASSUME NEW u \in Threads, Passed(t, u)' PROVE u <= local[t]
  <2>1. CASE pc'[t] = "advance"
    BY <1>1, <1>2, <2>1, LastThread
  <2>2. CASE pc'[t] = "scan at"
    <3>1. u < local[t] + 1
      BY <1>1, <1>5, <2>2 DEF Passed
    <3>2. u \in Nat /\ local[t] \in Nat
      BY <1>2, LastThread
    <3> QED BY <3>1, <3>2, UpTo
  <2> QED BY <1>1, <2>1, <2>2
<1>6. ASSUME NEW u \in Threads, Passed(t, u)'
      PROVE  Passed(t, u) \/ ~Announced(u) \/ epoch[t] <= epoch[u]
  <2>1. u < local[t] \/ u = local[t]
    <3>1. u \in Nat /\ local[t] \in Nat /\ u <= local[t]
      BY <1>2, <1>5, <1>6, LastThread
    <3> QED BY <3>1, UpTo
  <2>2. CASE u < local[t]
    BY <1>1, <2>2 DEF Passed
  <2>3. CASE u = local[t]
    BY <2>3, Zenon DEF Announced
  <2> QED BY <2>1, <2>2, <2>3
<1> QED BY <1>1, <1>3, <1>4, <1>6, QuietEpoch

(* A scan passes a thread in its epoch.                                    *)
LEMMA ScanInEpochKeeps ==
  ASSUME Inv, NEW t \in Threads, ScanInEpoch(t)
  PROVE  Inv'
<1>1. /\ NextThread(t, "scan at") /\ InEpoch(local[t], epoch[t])
      /\ UNCHANGED <<global, epoch, ejected, seen, lockVars>>
  BY DEF ScanInEpoch, EpochsSame
<1>2. /\ pc[t] = "scan at" /\ pc'[t] \in {"scan at", "advance"} /\ pc' \in [Threads -> Labels]
      /\ local' \in [Threads -> Nat \cup {"using", "scan", "release"}]
      /\ pc'[t] = "scan at" => local'[t] \in Threads
      /\ \A x \in Threads \ {t} : pc'[x] = pc[x] /\ local'[x] = local[x]
  <2>1. "scan at" \in Scanning
    BY DEF Scanning
  <2> QED BY <1>1, <2>1, NextThreadMoves
<1>3. local[t] \in Threads
  BY <1>2, TargetIsThread DEF Scanning
<1>4. ejected[local[t]] = TRUE \/ epoch[t] <= epoch[local[t]]
  <2>1. ejected[local[t]] = TRUE \/ epoch[local[t]] = epoch[t]
    BY <1>1, <1>3 DEF InEpoch, Inv, TypeInv
  <2>2. epoch[t] <= epoch[t]
    BY DEF Inv, TypeInv
  <2> QED BY <2>1, <2>2, Zenon
<1>5. EpochInv' /\ PassedInv'
  BY <1>1, <1>4, NextThreadEpochs
<1>6. TypeInv'
  BY <1>1, <1>2 DEF Inv, TypeInv, lockVars
<1>7. LocalInv'
  <2>1. pc'[t] \in Scanning => pc'[t] = "scan at"
    BY <1>2 DEF Scanning, Ejecting
  <2> QED BY <1>2, <2>1, LocalsKeep
<1>8. LockInv'
  <2>1. /\ pc[t] \notin Ejecting /\ pc'[t] \notin Ejecting \cup {"hand over", "acquire"}
        /\ Inside(t)
    BY <1>2 DEF Ejecting, Inside, Outside
  <2> QED BY <1>1, <1>2, <2>1, QuietLock
<1> QED BY <1>5, <1>6, <1>7, <1>8 DEF Inv

(* A reader's own reference is no business of the epochs.                  *)
LEMMA DropKeeps ==
  ASSUME Inv, NEW t \in Threads, Drop(t)
  PROVE  Inv'
BY DEF Drop, EpochsSame, LocalsSame, lockVars, Inv, TypeInv, LocalInv, LockInv, OwnerInv,
       HolderInv, BarrierInv, EpochInv, PassedInv, Visible, Inside, Settled, Announced, Passed

-----------------------------------------------------------------------------
(* The lock's values.                                                      *)
LEMMA LastStored ==
  ASSUME Inv, NEW t \in Threads
  PROVE  Visible(t) \in {0, 1}
<1>1. buffer[t] \in Seq({0, 1}) /\ internal[t] \in {0, 1}
  BY DEF Inv, TypeInv
<1>2. ASSUME NEW b \in Seq({0, 1}), b # <<>> PROVE b[Len(b)] \in {0, 1}
  BY <1>2
<1> QED BY <1>1, <1>2 DEF Visible

(* Draining a buffer, ...                                                  *)
LEMMA DrainTypes ==
  ASSUME Inv, NEW t \in Threads, DrainedSet({t})
  PROVE  internal' \in [Threads -> {0, 1}] /\ buffer' \in [Threads -> Seq({0, 1})]
<1>1. \A x \in Threads : /\ Visible(x) \in {0, 1} /\ internal[x] \in {0, 1}
                         /\ buffer[x] \in Seq({0, 1}) /\ <<>> \in Seq({0, 1})
  BY LastStored DEF Inv, TypeInv
<1> QED BY <1>1 DEF DrainedSet

(* ... buffering a store ...                                               *)
LEMMA BufferTypes ==
  ASSUME Inv, NEW t \in Threads, NEW n \in {0, 1}, Buffered(t, n)
  PROVE  /\ internal' \in [Threads -> {0, 1}] /\ external' \in [Threads -> BOOLEAN]
         /\ buffer' \in [Threads -> Seq({0, 1})]
<1>1. Append(buffer[t], n) \in Seq({0, 1})
  BY DEF Inv, TypeInv
<1> QED BY <1>1 DEF Buffered, Inv, TypeInv

(* ... and making one visible keep the values of the lock in range.        *)
LEMMA StoreTypes ==
  ASSUME Inv, NEW t \in Threads, StoreVisible(t)
  PROVE  /\ internal' \in [Threads -> {0, 1}] /\ external' \in [Threads -> BOOLEAN]
         /\ buffer' \in [Threads -> Seq({0, 1})]
<1>1. buffer[t] \in Seq({0, 1}) /\ buffer[t] # <<>>
  BY DEF StoreVisible, Inv, TypeInv
<1>2. Head(buffer[t]) \in {0, 1} /\ Tail(buffer[t]) \in Seq({0, 1})
  BY <1>1
<1> QED BY <1>2 DEF StoreVisible, Inv, TypeInv

(* A step of t that is neither in nor out of the epochs' business.         *)
LEMMA MoveEpoch ==
  ASSUME Inv, NEW t \in Threads, UNCHANGED <<global, epoch, ejected, seen>>,
         \A x \in Threads \ {t} : pc'[x] = pc[x] /\ local'[x] = local[x],
         pc[t] \notin {"check", "rejoin", "rejoin again", "announce"},
         pc'[t] \notin {"publish", "announce", "advance", "ejected"},
         Inside(t)' => Inside(t) \/ pc'[t] = "check",
         pc'[t] \in Scanning => pc[t] \in Scanning /\ local'[t] = local[t]
  PROVE  EpochInv' /\ PassedInv'
<1>1. seen[t] <= global
  BY DEF Inv, EpochInv
<1>2. Inside(t)' /\ pc'[t] \notin {"check", "rejoin"} => Announced(t)
  BY DEF Inv, EpochInv
<1>3. Settled(t)' => Settled(t)
  BY DEF Settled, Announced
<1>4. \A u \in Threads : Passed(t, u)' => Passed(t, u)
  BY DEF Passed
<1> QED BY <1>1, <1>2, <1>3, <1>4, QuietEpoch

(* The owner on its way in, with one thread moving and the epochs alone.   *)
LEMMA OuterTypes ==
  ASSUME Inv, NEW t \in Threads, NEW from, NEW to, Step(t, from, to),
         UNCHANGED <<global, epoch, ejected, seen, local>>,
         to \in Outside \cup {"check", "used"},
         /\ internal' \in [Threads -> {0, 1}] /\ external' \in [Threads -> BOOLEAN]
         /\ buffer' \in [Threads -> Seq({0, 1})]
  PROVE  TypeInv' /\ LocalInv'
<1>1. pc' \in [Threads -> Labels] /\ pc'[t] = to /\ \A x \in Threads \ {t} : pc'[x] = pc[x]
  <2>1. to \in Labels /\ pc \in [Threads -> Labels]
    BY DEF Labels, Inv, TypeInv
  <2>2. pc' = [pc EXCEPT ![t] = to] /\ pc'[t] = to /\ \A x \in Threads \ {t} : pc'[x] = pc[x]
    BY StepMoves
  <2> QED BY <2>1, <2>2
<1>2. TypeInv'
  BY <1>1 DEF Inv, TypeInv
<1>3. to \notin Scanning /\ to # "publish"
  BY DEF Outside, Scanning, Ejecting
<1> QED BY <1>1, <1>2, <1>3, LocalsKeep DEF TypeInv

(* The owner's plain stores on its way in and out.                         *)
LEMMA BufferKeeps ==
  ASSUME Inv, NEW t \in Threads, NEW from, NEW to, NEW n \in {0, 1},
         Step(t, from, to), Buffered(t, n),
         UNCHANGED <<global, epoch, ejected, seen, local>>,
         \/ from \in {"idle", "update"} /\ to = "acquire" /\ n = 1
         \/ from = "back off" /\ to = "spin"
         \/ from = "release" /\ to = "idle"
  PROVE  Inv'
<1>1. /\ pc[t] = from /\ pc'[t] = to /\ \A x \in Threads \ {t} : pc'[x] = pc[x]
  BY StepMoves
<1>2. to \in Outside \ {"hand over"} /\ to \in Outside \cup {"check", "used"}
      /\ from \notin Ejecting /\ to \notin Scanning
  BY DEF Outside, Ejecting, Scanning
<1>3. TypeInv' /\ LocalInv'
  BY <1>2, BufferTypes, OuterTypes
<1>4. LockInv'
  BY <1>1, <1>2, BufferLock
<1>5. EpochInv' /\ PassedInv'
  <2>1. ~Inside(t)'
    BY <1>1, <1>2 DEF Inside
  <2> QED BY <1>1, <1>2, <2>1, MoveEpoch
<1> QED BY <1>3, <1>4, <1>5 DEF Inv

(* The owner takes the external side, ...                                  *)
LEMMA SpinKeeps ==
  ASSUME Inv, NEW t \in Threads, Spin(t)
  PROVE  Inv'
<1>1. /\ Step(t, "spin", "hand over") /\ UNCHANGED <<global, epoch, ejected, seen, local>>
      /\ DrainedSet({t}) /\ external' = [external EXCEPT ![t] = TRUE]
  BY DEF Spin, InternalSpin, EpochsSame, LocalsSame
<1>2. pc[t] = "spin" /\ pc'[t] = "hand over" /\ \A x \in Threads \ {t} : pc'[x] = pc[x]
  BY <1>1, StepMoves
<1>3. "hand over" \in Outside \cup {"check", "used"} /\ ~Inside(t)' /\ "hand over" \notin Scanning
  BY <1>2 DEF Inside, Outside, Scanning, Ejecting
<1>4. external' \in [Threads -> BOOLEAN]
  BY <1>1 DEF Inv, TypeInv
<1>5. TypeInv' /\ LocalInv'
  BY <1>1, <1>3, <1>4, DrainTypes, OuterTypes
<1>6. EpochInv' /\ PassedInv'
  BY <1>1, <1>2, <1>3, MoveEpoch
<1> QED BY <1>5, <1>6, SpinLock DEF Inv

(* ... and is inside.                                                      *)
LEMMA HandOverKeeps ==
  ASSUME Inv, NEW t \in Threads, HandOver(t)
  PROVE  Inv'
<1>1. /\ Step(t, "hand over", "check") /\ UNCHANGED <<global, epoch, ejected, seen, local>>
      /\ internal' = [internal EXCEPT ![t] = 1] /\ buffer' = [buffer EXCEPT ![t] = <<>>]
      /\ external' = [external EXCEPT ![t] = FALSE]
  BY DEF HandOver, InternalHandOver, EpochsSame, LocalsSame
<1>2. pc[t] = "hand over" /\ pc'[t] = "check" /\ \A x \in Threads \ {t} : pc'[x] = pc[x]
  BY <1>1, StepMoves
<1>3. "check" \in Outside \cup {"check", "used"} /\ "check" \notin Scanning
  BY DEF Scanning, Ejecting
<1>4. /\ internal' \in [Threads -> {0, 1}] /\ external' \in [Threads -> BOOLEAN]
      /\ buffer' \in [Threads -> Seq({0, 1})]
  <2>1. internal' \in [Threads -> {0, 1}]
    BY <1>1 DEF Inv, TypeInv
  <2>2. external' \in [Threads -> BOOLEAN]
    BY <1>1 DEF Inv, TypeInv
  <2>3. <<>> \in Seq({0, 1}) /\ buffer \in [Threads -> Seq({0, 1})]
    BY DEF Inv, TypeInv
  <2>4. buffer' \in [Threads -> Seq({0, 1})]
    BY <1>1, <2>3
  <2> QED BY <2>1, <2>2, <2>4
<1>5. TypeInv' /\ LocalInv'
  BY <1>1, <1>3, <1>4, OuterTypes
<1>6. EpochInv' /\ PassedInv'
  BY <1>1, <1>2, <1>3, MoveEpoch
<1> QED BY <1>5, <1>6, HandOverLock DEF Inv

(* The reference a reader takes is an atomic step of its processor.        *)
LEMMA ReadIncrefKeeps ==
  ASSUME Inv, NEW t \in Threads, ReadIncref(t)
  PROVE  Inv'
<1>1. /\ Step(t, "incref", "used") /\ UNCHANGED <<global, epoch, ejected, seen, local, external>>
      /\ DrainedSet({t})
  BY DEF ReadIncref, EpochsSame, LocalsSame
<1>2. pc[t] = "incref" /\ pc'[t] = "used" /\ \A x \in Threads \ {t} : pc'[x] = pc[x]
  BY <1>1, StepMoves
<1>3. /\ Inside(t) /\ Inside(t)' /\ "incref" \notin Ejecting /\ "used" \notin Scanning
      /\ "used" \notin Ejecting
  BY <1>2 DEF Inside, Outside, Scanning, Ejecting
<1>4. external' \in [Threads -> BOOLEAN]
  BY <1>1 DEF Inv, TypeInv
<1>5. TypeInv' /\ LocalInv'
  BY <1>1, <1>4, DrainTypes, OuterTypes
<1>6. LockInv'
  BY <1>1, <1>2, <1>3, DrainLock
<1>7. EpochInv' /\ PassedInv'
  BY <1>1, <1>2, <1>3, MoveEpoch
<1> QED BY <1>5, <1>6, <1>7 DEF Inv

(* A store of the owner becomes visible.                                   *)
LEMMA OwnerStoreVisibleKeeps ==
  ASSUME Inv, NEW t \in Threads, OwnerStoreVisible(t)
  PROVE  Inv'
<1>1. StoreVisible(t) /\ UNCHANGED <<global, epoch, ejected, seen, local, pc>>
  BY DEF OwnerStoreVisible, EpochsSame, LocalsSame
<1>2. TypeInv' /\ LocalInv'
  BY <1>1, StoreTypes DEF Inv, TypeInv, LocalInv
<1>3. LockInv'
  BY <1>1, StoreLock
<1>4. EpochInv' /\ PassedInv'
  BY <1>1 DEF Inv, EpochInv, PassedInv, Inside, Settled, Announced, Passed
<1> QED BY <1>2, <1>3, <1>4 DEF Inv

-----------------------------------------------------------------------------
(* The types when a thread announces an epoch.                             *)
LEMMA SetEpochTypes ==
  ASSUME Inv, NEW t \in Threads, NEW from, NEW to, Step(t, from, to), SetEpoch(t),
         UNCHANGED <<global, seen>>, to \in {"using", "scan", "release", "rejoin again", "rejoined"},
         NEW l \in Nat \cup {"using", "scan", "release"}, local' = [local EXCEPT ![t] = l]
  PROVE  /\ TypeInv' /\ LocalInv'
         /\ \A x \in Threads \ {t} : pc'[x] = pc[x] /\ local'[x] = local[x]
<1>1. to \in Labels /\ to \notin Scanning /\ to # "publish"
  BY DEF Labels, Scanning, Ejecting
<1>2. /\ pc' = [pc EXCEPT ![t] = to] /\ pc'[t] = to
      /\ \A x \in Threads \ {t} : pc'[x] = pc[x]
  BY StepMoves
<1>3. /\ local' \in [Threads -> Nat \cup {"using", "scan", "release"}]
      /\ \A x \in Threads \ {t} : local'[x] = local[x]
  BY DEF Inv, TypeInv
<1>4. pc' \in [Threads -> Labels]
  BY <1>1, <1>2 DEF Inv, TypeInv
<1>5. /\ epoch' \in [Threads -> Nat] /\ ejected' \in [Threads -> BOOLEAN]
      /\ external' = external
  BY DEF SetEpoch, Inv, TypeInv
<1>6. internal' \in [Threads -> {0, 1}] /\ buffer' \in [Threads -> Seq({0, 1})]
  BY DrainTypes DEF SetEpoch
<1>7. TypeInv'
  BY <1>3, <1>4, <1>5, <1>6 DEF Inv, TypeInv
<1>8. LocalInv'
  BY <1>1, <1>2, <1>3, <1>4, LocalsKeep
<1> QED BY <1>2, <1>3, <1>7, <1>8

(* What a thread publishes is at least its epoch, which is settled.        *)
LEMMA PublishKeeps ==
  ASSUME Inv, NEW t \in Threads, Publish(t)
  PROVE  Inv'
<1> DEFINE to == local[t]
<1>1. /\ Step(t, "publish", to) /\ SetEpoch(t) /\ UNCHANGED <<global, seen>>
      /\ local' = [local EXCEPT ![t] = 0]
  BY DEF Publish
<1>2. pc[t] = "publish" /\ pc'[t] = to /\ to \in {"using", "scan", "release"}
  BY <1>1, StepMoves DEF Inv, LocalInv
<1> HIDE DEF to
<1>3. /\ TypeInv' /\ LocalInv'
      /\ \A x \in Threads \ {t} : pc'[x] = pc[x] /\ local'[x] = local[x]
  BY <1>1, <1>2, SetEpochTypes
<1>4. /\ Inside(t) /\ Inside(t)' /\ pc[t] \notin Ejecting /\ pc'[t] \notin Ejecting
      /\ pc'[t] \notin Scanning \cup {"advance", "publish", "announce"}
      /\ pc[t] \notin {"check", "rejoin", "rejoin again", "announce"}
  BY <1>2 DEF Inside, Outside, Scanning, Ejecting
<1>5. LockInv'
  BY <1>1, <1>3, <1>4, DrainLock DEF SetEpoch
<1>6. Settled(t) /\ epoch[t] <= seen[t]
  BY <1>2, <1>4 DEF Inv, EpochInv, Settled
<1>7. global <= epoch[t] + 1 /\ epoch[t] \in Nat /\ seen[t] \in Nat /\ global \in Nat
  BY <1>6 DEF Inv, EpochInv, TypeInv
<1>8. global <= seen[t] + 1
  BY <1>6, <1>7
<1>9. \A s \in Threads : Passed(s, t) => epoch[s] <= seen[t]
  <2>1. ASSUME NEW s \in Threads, Passed(s, t) PROVE epoch[s] <= seen[t]
    <3>1. epoch[s] <= epoch[t] /\ epoch[s] \in Nat
      BY <1>6, <2>1 DEF Inv, PassedInv, TypeInv
    <3> QED BY <1>6, <1>7, <3>1
  <2> QED BY <2>1
<1>10. EpochInv' /\ PassedInv'
  BY <1>1, <1>3, <1>4, <1>8, <1>9, SetEpochKeeps
<1> QED BY <1>3, <1>5, <1>10 DEF Inv

(* The first announcement of a thread that rejoins may be of any age.      *)
LEMMA RejoinKeeps ==
  ASSUME Inv, NEW t \in Threads, Rejoin(t)
  PROVE  Inv'
<1>1. /\ Step(t, "rejoin", "rejoin again") /\ SetEpoch(t) /\ UNCHANGED <<global, seen>>
      /\ local' = [local EXCEPT ![t] = epoch[t]] /\ epoch[t] \in Nat
  BY DEF Rejoin, Inv, TypeInv
<1>2. pc[t] = "rejoin" /\ pc'[t] = "rejoin again"
  BY <1>1, StepMoves
<1>3. /\ TypeInv' /\ LocalInv'
      /\ \A x \in Threads \ {t} : pc'[x] = pc[x] /\ local'[x] = local[x]
  BY <1>1, SetEpochTypes
<1>4. /\ Inside(t) /\ Inside(t)' /\ pc[t] \notin Ejecting /\ pc'[t] \notin Ejecting
      /\ pc'[t] \notin Scanning \cup {"advance", "publish", "announce"}
  BY <1>2 DEF Inside, Outside, Scanning, Ejecting
<1>5. LockInv'
  BY <1>1, <1>3, <1>4, DrainLock DEF SetEpoch
<1>6. EpochInv' /\ PassedInv'
  BY <1>1, <1>2, <1>3, <1>4, SetEpochKeeps
<1> QED BY <1>3, <1>5, <1>6 DEF Inv

(* A thread announces the epoch that it read again while nobody could      *)
(* leave it more than one behind.                                          *)
LEMMA AnnounceKeeps ==
  ASSUME Inv, NEW t \in Threads, Announce(t)
  PROVE  Inv'
<1>1. /\ Step(t, "announce", "rejoined") /\ SetEpoch(t) /\ UNCHANGED <<global, seen, local>>
  BY DEF Announce, LocalsSame
<1>2. pc[t] = "announce" /\ pc'[t] = "rejoined"
  BY <1>1, StepMoves
<1>3. /\ TypeInv' /\ LocalInv'
      /\ \A x \in Threads \ {t} : pc'[x] = pc[x] /\ local'[x] = local[x]
  <2>1. local[t] \in Nat \cup {"using", "scan", "release"} /\ local' = [local EXCEPT ![t] = local[t]]
    BY <1>1 DEF Inv, TypeInv
  <2> QED BY <1>1, <2>1, SetEpochTypes
<1>4. /\ Inside(t) /\ Inside(t)' /\ pc[t] \notin Ejecting /\ pc'[t] \notin Ejecting
      /\ pc'[t] \notin Scanning \cup {"advance", "publish", "announce"}
  BY <1>2 DEF Inside, Outside, Scanning, Ejecting
<1>5. LockInv'
  BY <1>1, <1>3, <1>4, DrainLock DEF SetEpoch
<1>6. /\ global <= seen[t] + 1
      /\ \A s \in Threads : Passed(s, t) => epoch[s] <= seen[t]
  BY <1>2 DEF Inv, EpochInv, PassedInv
<1>7. EpochInv' /\ PassedInv'
  BY <1>1, <1>3, <1>4, <1>6, SetEpochKeeps
<1> QED BY <1>3, <1>5, <1>7 DEF Inv

-----------------------------------------------------------------------------
(* The steps of an ejector.                                                *)
LEMMA GiveUpKeeps ==
  ASSUME Inv, NEW t \in Threads, NEW from, GiveUp(t, from), from \in {"exchange", "held"},
         UNCHANGED <<global, epoch, ejected, seen, internal, buffer>>,
         external' \in [Threads -> BOOLEAN]
  PROVE  TypeInv' /\ LocalInv' /\ EpochInv' /\ PassedInv'
<1>1. /\ pc[t] = from /\ pc'[t] = "release" /\ local'[t] = 0
      /\ pc' = [pc EXCEPT ![t] = "release"] /\ local' = [local EXCEPT ![t] = 0]
      /\ \A x \in Threads \ {t} : pc'[x] = pc[x] /\ local'[x] = local[x]
  BY GiveUpMoves
<1>2. "release" \in Labels /\ "release" \notin Scanning
  BY DEF Labels, Scanning, Ejecting
<1>3. TypeInv'
  BY <1>1, <1>2 DEF Inv, TypeInv
<1>4. LocalInv'
  BY <1>1, <1>2, <1>3, LocalsKeep DEF TypeInv
<1>5. Inside(t)
  BY <1>1 DEF Inside, Outside
<1>6. EpochInv' /\ PassedInv'
  BY <1>1, <1>2, <1>5, MoveEpoch
<1> QED BY <1>3, <1>4, <1>6

(* The exchange on the external side is won or lost.                       *)
LEMMA ExchangeKeeps ==
  ASSUME Inv, NEW t \in Threads, Exchange(t)
  PROVE  Inv'
<1>1. /\ pc[t] = "exchange" /\ external' \in [Threads -> BOOLEAN]
      /\ UNCHANGED <<global, epoch, ejected, seen, internal, buffer>>
  BY DEF Exchange, ExternalExchange, EpochsSame, Inv, TypeInv
<1>2. CASE GiveUp(t, "exchange")
  BY <1>1, <1>2, GiveUpKeeps, ExchangeLock DEF Inv
<1>3. CASE Step(t, "exchange", "barrier") /\ UNCHANGED local
  <2>1. /\ pc'[t] = "barrier" /\ pc' = [pc EXCEPT ![t] = "barrier"]
        /\ \A x \in Threads \ {t} : pc'[x] = pc[x]
    BY <1>3, StepMoves
  <2>2. "barrier" \in Labels /\ "exchange" \in Scanning /\ Inside(t)
    BY <1>1 DEF Labels, Scanning, Ejecting, Inside, Outside
  <2>3. TypeInv'
    BY <1>1, <1>3, <2>1, <2>2 DEF Inv, TypeInv
  <2>4. LocalInv'
    <3>1. local[t] \in Threads /\ local'[t] = local[t]
      BY <1>1, <1>3, <2>2, TargetIsThread
    <3>2. /\ pc' \in [Threads -> Labels]
          /\ local' \in [Threads -> Nat \cup {"using", "scan", "release"}]
      BY <2>3 DEF TypeInv
    <3>3. \A x \in Threads \ {t} : pc'[x] = pc[x] /\ local'[x] = local[x]
      BY <1>3, <2>1
    <3>4. pc'[t] # "publish"
      BY <2>1
    <3> QED BY <3>1, <3>2, <3>3, <3>4, LocalsKeep
  <2>5. EpochInv' /\ PassedInv'
    BY <1>1, <1>3, <2>1, <2>2, MoveEpoch
  <2> QED BY <2>3, <2>4, <2>5, ExchangeLock DEF Inv
<1> QED BY <1>2, <1>3 DEF Exchange

(* The barrier.                                                            *)
LEMMA BarrierStepKeeps ==
  ASSUME Inv, NEW t \in Threads, BarrierStep(t)
  PROVE  Inv'
<1>1. /\ Step(t, "barrier", "eject") /\ DrainedSet({local[t]})
      /\ UNCHANGED <<global, epoch, ejected, seen, local, external>>
  BY DEF BarrierStep, Barrier, EpochsSame, LocalsSame
<1>2. /\ pc[t] = "barrier" /\ pc'[t] = "eject" /\ pc' = [pc EXCEPT ![t] = "eject"]
      /\ \A x \in Threads \ {t} : pc'[x] = pc[x]
  BY <1>1, StepMoves
<1>3. "eject" \in Labels /\ "barrier" \in Scanning /\ Inside(t)
  BY <1>2 DEF Labels, Scanning, Ejecting, Inside, Outside
<1>4. local[t] \in Threads
  BY <1>2, <1>3, TargetIsThread
<1>5. internal' \in [Threads -> {0, 1}] /\ buffer' \in [Threads -> Seq({0, 1})]
  BY <1>1, <1>4, DrainTypes
<1>6. TypeInv'
  BY <1>1, <1>2, <1>3, <1>5 DEF Inv, TypeInv
<1>7. LocalInv'
  BY <1>1, <1>2, <1>4, <1>6, LocalsKeep DEF TypeInv
<1>8. EpochInv' /\ PassedInv'
  BY <1>1, <1>2, <1>3, MoveEpoch
<1> QED BY <1>6, <1>7, <1>8, BarrierLock DEF Inv

(* The look at the internal side behind it.                                *)
LEMMA EjectStepKeeps ==
  ASSUME Inv, NEW t \in Threads, Eject(t)
  PROVE  Inv'
<1>1. /\ pc[t] = "eject" /\ pc'[t] \in {"ejected", "held"}
      /\ pc' \in [Threads -> {pc[x] : x \in Threads} \cup {"ejected", "held"}]
      /\ \A x \in Threads \ {t} : pc'[x] = pc[x]
      /\ UNCHANGED <<global, epoch, seen, local, internal, buffer, external>>
  BY StepMoves DEF Eject, LocalsSame, lockVars, Step, Inv, TypeInv
<1>2. pc' \in [Threads -> Labels]
  BY <1>1 DEF Labels, Scanning, Ejecting, Inv, TypeInv
<1>3. ejected' \in [Threads -> BOOLEAN]
  BY DEF Eject, Inv, TypeInv
<1>4. TypeInv'
  BY <1>1, <1>2, <1>3 DEF Inv, TypeInv
<1>5. local[t] \in Threads
  BY <1>1, TargetIsThread DEF Scanning, Ejecting
<1>6. LocalInv'
  BY <1>1, <1>2, <1>4, <1>5, LocalsKeep DEF TypeInv
<1> QED BY <1>4, <1>6, EjectLock, EjectKeeps DEF Inv

(* The ejector lets go of a thread that it passes.                         *)
LEMMA EjectedKeeps ==
  ASSUME Inv, NEW t \in Threads, Ejected(t)
  PROVE  Inv'
<1>1. /\ NextThread(t, "ejected") /\ ExternalRelease(local[t])
      /\ UNCHANGED <<global, epoch, ejected, seen>>
  BY DEF Ejected, EpochsSame
<1>2. /\ pc[t] = "ejected" /\ pc'[t] \in {"scan at", "advance"} /\ pc' \in [Threads -> Labels]
      /\ local' \in [Threads -> Nat \cup {"using", "scan", "release"}]
      /\ pc'[t] = "scan at" => local'[t] \in Threads
      /\ \A x \in Threads \ {t} : pc'[x] = pc[x] /\ local'[x] = local[x]
  <2>1. "ejected" \in Scanning
    BY DEF Scanning, Ejecting
  <2> QED BY <1>1, <2>1, NextThreadMoves
<1>3. /\ external' \in [Threads -> BOOLEAN] /\ UNCHANGED <<internal, buffer>>
  BY <1>1 DEF ExternalRelease, Inv, TypeInv
<1>4. TypeInv'
  BY <1>1, <1>2, <1>3 DEF Inv, TypeInv
<1>5. LocalInv'
  <2>1. pc'[t] \in Scanning => pc'[t] = "scan at"
    BY <1>2 DEF Scanning, Ejecting
  <2> QED BY <1>2, <2>1, LocalsKeep
<1>6. LockInv'
  BY <1>1, <1>2, LetGoLock
<1>7. Passed(t, local[t])
  BY <1>2 DEF Passed
<1>8. EpochInv' /\ PassedInv'
  BY <1>1, <1>7, NextThreadEpochs
<1> QED BY <1>4, <1>5, <1>6, <1>8 DEF Inv

(* It lets go of a thread that is inside and gives up.                     *)
LEMMA HeldByOwnerKeeps ==
  ASSUME Inv, NEW t \in Threads, HeldByOwner(t)
  PROVE  Inv'
<1>1. /\ GiveUp(t, "held") /\ ExternalRelease(local[t])
      /\ UNCHANGED <<global, epoch, ejected, seen>>
  BY DEF HeldByOwner, EpochsSame
<1>2. external' \in [Threads -> BOOLEAN] /\ UNCHANGED <<internal, buffer>>
  BY <1>1 DEF ExternalRelease, Inv, TypeInv
<1>3. /\ pc[t] = "held" /\ pc'[t] = "release"
      /\ \A x \in Threads \ {t} : pc'[x] = pc[x] /\ local'[x] = local[x]
  BY <1>1, GiveUpMoves
<1>4. LockInv'
  BY <1>1, <1>3, LetGoLock
<1> QED BY <1>1, <1>2, <1>4, GiveUpKeeps DEF Inv

(* The global epoch is stored.                                             *)
LEMMA AdvanceStepKeeps ==
  ASSUME Inv, NEW t \in Threads, Advance(t)
  PROVE  Inv'
<1>1. /\ Step(t, "advance", "refresh last")
      /\ UNCHANGED <<epoch, ejected, seen, local, lockVars>>
  BY DEF Advance, LocalsSame
<1>2. /\ pc[t] = "advance" /\ pc'[t] = "refresh last" /\ pc' = [pc EXCEPT ![t] = "refresh last"]
      /\ \A x \in Threads \ {t} : pc'[x] = pc[x]
  BY <1>1, StepMoves
<1>3. /\ "refresh last" \in Labels /\ "refresh last" \notin Scanning /\ Inside(t)
      /\ "advance" \notin Ejecting /\ "refresh last" \notin Ejecting
  BY <1>2 DEF Labels, Scanning, Ejecting, Inside, Outside
<1>4. TypeInv'
  BY <1>1, <1>2, <1>3, AdvanceByOne DEF Inv, TypeInv, lockVars
<1>5. LocalInv'
  BY <1>1, <1>2, <1>3, <1>4, LocalsKeep DEF TypeInv
<1>6. LockInv'
  BY <1>1, <1>2, <1>3, QuietLock
<1> QED BY <1>4, <1>5, <1>6, AdvanceKeeps DEF Inv

(* A thread leaves.                                                        *)
LEMMA ExitStepKeeps ==
  ASSUME Inv, NEW t \in Threads, Exit(t)
  PROVE  Inv'
<1>1. UNCHANGED <<global, epoch, seen, local, pc, lockVars>> /\ ejected' \in [Threads -> BOOLEAN]
  BY DEF Exit, LocalsSame, Inv, TypeInv
<1>2. TypeInv' /\ LocalInv'
  BY <1>1 DEF Inv, TypeInv, LocalInv, lockVars
<1>3. LockInv'
  BY <1>1 DEF Inv, LockInv, OwnerInv, HolderInv, BarrierInv, Visible, Inside, lockVars
<1> QED BY <1>2, <1>3, ExitKeeps DEF Inv

-----------------------------------------------------------------------------
(* Every action keeps the invariant.                                       *)
LEMMA StepKeeps ==
  ASSUME Inv, Next
  PROVE  Inv'
<1> SUFFICES ASSUME NEW x \in Threads,
                    \/ Peek(x) \/ Update(x) \/ \E o \in Objs : Put(x, o)
                    \/ UpdateEpoch(x) \/ Acquire(x) \/ BackOff(x) \/ Spin(x) \/ HandOver(x)
                    \/ Check(x) \/ Refresh(x) \/ Publish(x) \/ Rejoin(x) \/ RejoinAgain(x)
                    \/ Announce(x) \/ Rejoined(x) \/ Read(x) \/ ReadIncref(x) \/ DecInEpoch(x)
                    \/ AdvanceIsSensible(x) \/ NotSensible(x) \/ Release(x) \/ Scan(x)
                    \/ ScanInEpoch(x) \/ ScanFails(x) \/ ScanEject(x) \/ Exchange(x)
                    \/ BarrierStep(x) \/ Eject(x) \/ Ejected(x) \/ HeldByOwner(x) \/ Advance(x)
                    \/ Drop(x) \/ Exit(x) \/ OwnerStoreVisible(x)
             PROVE  Inv'
  BY DEF Next
<1> USE DEF EpochsSame, LocalsSame
<1>1. CASE Peek(x) \/ UpdateEpoch(x) \/ BackOff(x) \/ Release(x)
  BY <1>1, BufferKeeps DEF Peek, UpdateEpoch, BackOff, Release, InternalStore, InternalRelease
<1>2. CASE Update(x) \/ \E o \in Objs : Put(x, o)
  BY <1>2, PlainStep DEF Update, Put
<1>3. CASE Acquire(x)
  <2>1. CASE external[x]
    BY <1>3, <2>1, PlainStep DEF Acquire
  <2>2. CASE ~external[x]
    <3>1. external[x] = FALSE
      BY <2>2 DEF Inv, TypeInv
    <3> QED BY <1>3, <2>2, <3>1, PlainStep DEF Acquire
  <2> QED BY <2>1, <2>2
<1>4. CASE Read(x) \/ DecInEpoch(x)
  BY <1>4, PlainStep DEF Read, DecInEpoch
<1>5. CASE AdvanceIsSensible(x) \/ NotSensible(x) \/ ScanEject(x)
  BY <1>5, PlainStep DEF AdvanceIsSensible, NotSensible, ScanEject
<1>6. CASE Check(x) \/ Refresh(x) \/ RejoinAgain(x) \/ Rejoined(x)
  BY <1>6, CheckKeeps, RefreshKeeps, RejoinAgainKeeps, RejoinedKeeps
<1>7. CASE Scan(x) \/ ScanInEpoch(x) \/ ScanFails(x)
  BY <1>7, ScanKeeps, ScanInEpochKeeps, ScanFailsKeeps
<1>8. CASE Spin(x) \/ HandOver(x) \/ ReadIncref(x) \/ OwnerStoreVisible(x) \/ Drop(x)
  BY <1>8, SpinKeeps, HandOverKeeps, ReadIncrefKeeps, OwnerStoreVisibleKeeps, DropKeeps
<1>9. CASE Publish(x) \/ Rejoin(x) \/ Announce(x)
  BY <1>9, PublishKeeps, RejoinKeeps, AnnounceKeeps
<1>10. CASE Exchange(x) \/ BarrierStep(x) \/ Eject(x) \/ Ejected(x) \/ HeldByOwner(x)
  BY <1>10, ExchangeKeeps, BarrierStepKeeps, EjectStepKeeps, EjectedKeeps, HeldByOwnerKeeps
<1>11. CASE Advance(x) \/ Exit(x)
  BY <1>11, AdvanceStepKeeps, ExitStepKeeps
<1> QED BY <1>1, <1>2, <1>3, <1>4, <1>5, <1>6, <1>7, <1>8, <1>9, <1>10, <1>11

(* So does a step of something else.                                       *)
LEMMA StutterKeeps ==
  ASSUME Inv, UNCHANGED vars
  PROVE  Inv'
BY DEF vars, lockVars, Inv, TypeInv, LocalInv, LockInv, OwnerInv, HolderInv, BarrierInv,
       EpochInv, PassedInv, Visible, Inside, Settled, Announced, Passed

(* Only an advance changes the global epoch.                               *)
LEMMA GlobalStep ==
  ASSUME Inv, [Next]_vars
  PROVE  global' \in {global, global + 1}
<1>1. CASE \E t \in Threads : Advance(t)
  BY <1>1, AdvanceByOne
<1>2. CASE UNCHANGED global
  BY <1>2
<1>3. (\E t \in Threads : Advance(t)) \/ UNCHANGED global
  BY Zenon DEF Next, vars, EpochsSame, Peek, Update, Put, UpdateEpoch, Acquire, BackOff, Spin, HandOver,
     Check, Refresh, Publish, Rejoin, RejoinAgain, Announce, Rejoined, Read, ReadIncref,
     DecInEpoch, AdvanceIsSensible, NotSensible, Release, Scan, ScanInEpoch, ScanFails, ScanEject,
     Exchange, BarrierStep, Eject, Ejected, HeldByOwner, Drop, Exit, OwnerStoreVisible
<1> QED BY <1>1, <1>2, <1>3

(* A thread that uses its epoch is not ejected and at most one behind.     *)
LEMMA UsingIsOneBehind ==
  ASSUME Inv, NEW t \in Threads, pc[t] \in Using
  PROVE  ~ejected[t] /\ global - epoch[t] \in {0, 1}
<1>1. Announced(t) /\ Settled(t)
  BY DEF Using, Inv, EpochInv, Inside, Outside, Settled
<1>2. /\ epoch[t] \in Nat /\ global \in Nat
      /\ epoch[t] <= global /\ global <= epoch[t] + 1
  BY <1>1 DEF Inv, TypeInv, EpochInv
<1>3. global - epoch[t] \in {0, 1}
  BY <1>2
<1>4. ejected[t] = FALSE
  BY <1>1 DEF Announced
<1> QED BY <1>3, <1>4

-----------------------------------------------------------------------------
(* The asymmetric lock excludes an ejector from an owner that is inside,   *)
(* and every thread that is not ejected stays accounted for by the scans   *)
(* that passed it (use_epoch, eject and try_advance_global_epoch of        *)
(* epoch.h on the lock of asymlock.h).                                     *)
THEOREM EpochInvariance == Spec => []Inv
<1>1. Inv /\ [Next]_vars => Inv'
  <2> SUFFICES ASSUME Inv, [Next]_vars PROVE Inv'
    OBVIOUS
  <2>1. CASE Next
    BY <2>1, StepKeeps DEF Next
  <2>2. CASE UNCHANGED vars
    BY <2>2, StutterKeeps
  <2> QED BY <2>1, <2>2
<1> QED BY InitHolds, <1>1, PTL DEF Spec

(* The asserts of refresh (epoch.h) and try_advance_global_epoch hold: a   *)
(* thread that uses its epoch is in the global epoch or one behind, and    *)
(* the global epoch goes up by one at a time.                              *)
THEOREM OneBehindHolds == Spec => OneBehind
<1>1. Inv => \A t \in Threads : pc[t] \in Using => ~ejected[t] /\ global - epoch[t] \in {0, 1}
  BY UsingIsOneBehind
<1>2. Inv /\ [Next]_vars => [global' \in {global, global + 1}]_vars
  BY GlobalStep
<1> QED BY EpochInvariance, <1>1, <1>2, PTL DEF Spec, OneBehind

-----------------------------------------------------------------------------
(* What PeekSafe needs of the threads: one with delayed decrements that    *)
(* was ejected, or has exited, does not come back to the epoch it left.    *)
Slots == 1 .. 4
Delaying(t) == \E i \in Slots : todec[t][i] # {}
ReturnsLater == \A t \in Threads : pc[t] = "rejoined" /\ Delaying(t) => local[t] # seen[t]

(* A thread on its way into its epoch with an object has taken it off the  *)
(* board; one that has used the epoch has a reference.                     *)
EntryPCs == {"update", "acquire", "back off", "spin", "hand over", "check", "refresh",
             "rejoin", "rejoin again", "announce", "rejoined", "using"}
Entering(t) == pc[t] \in EntryPCs \/ (pc[t] = "publish" /\ local[t] = "using")
Retiring(t, o) == obj[t] = o /\ Entering(t)
Holding(t, o) == obj[t] = o /\ ~Entering(t) /\ pc[t] \notin {"put", "incref"}
Holders(o) == {t \in Threads : Holding(t, o)}

(* The board's count of an object is in one place: on the board, with the  *)
(* thread that took it off, or delayed in a slot.                          *)
Delayed(o) == \E t \in Threads, i \in Slots : o \in todec[t][i]
Owned(o) == board = o \/ (\E t \in Threads : Retiring(t, o)) \/ Delayed(o)
OwnedOnce(o) ==
  /\ board = o => ~Delayed(o) /\ \A t \in Threads : ~Retiring(t, o)
  /\ \A t, u \in Threads : Retiring(t, o) => ~Delayed(o) /\ (Retiring(u, o) => u = t)
  /\ \A t, u \in Threads : \A i, j \in Slots :
       o \in todec[t][i] /\ o \in todec[u][j] => t = u /\ i = j
BoardTypes ==
  /\ board \in Objs /\ obj \in [Threads -> Objs \cup {None}] /\ rc \in [Objs -> Int]
  /\ todec \in [Threads -> [Slots -> SUBSET Objs]]
CountInv ==
  \A o \in Objs : OwnedOnce(o) /\ rc[o] = (IF Owned(o) THEN 1 ELSE 0) + Cardinality(Holders(o))
HandInv ==
  \A t \in Threads :
    /\ pc[t] \in {"put", "update", "incref"} => obj[t] # None
    /\ pc[t] = "put" => obj[t] = board /\ \A u \in Threads : pc[u] = "put" => u = t

(* A thread that comes back does not come back to an earlier epoch.        *)
Rejoining == {"rejoin again", "announce", "rejoined"}
Away(t) ==
  /\ pc[t] = "rejoin" => epoch[t] <= seen[t]
  /\ pc[t] \in Rejoining => local[t] \in Nat /\ local[t] <= seen[t]
  /\ pc[t] = "rejoined" => epoch[t] = seen[t]
AwayInv == \A t \in Threads : Away(t)

(* The epoch that a thread's slots are counted from, and what a reader     *)
(* relies on: its object has the board's count, and if this is delayed,    *)
(* the slot is not due before two epochs after the reader's.               *)
Flushed(t) ==
  IF pc[t] = "publish" THEN seen[t] ELSE IF pc[t] \in Rejoining THEN local[t] ELSE epoch[t]
ReadInv ==
  \A t \in Threads : pc[t] = "incref" =>
    /\ Owned(obj[t])
    /\ \A u \in Threads, i \in Slots : obj[t] \in todec[u][i] => epoch[t] + 2 <= Flushed(u) + i
PeekInv == BoardTypes /\ CountInv /\ HandInv /\ AwayInv /\ ReadInv

-----------------------------------------------------------------------------
(* Objects that keep their place keep their counts.                        *)
LEMMA CalmCounts ==
  ASSUME BoardTypes, CountInv, UNCHANGED <<board, obj, rc, todec>>,
         \A x \in Threads : obj[x] # None =>
           (Entering(x)' <=> Entering(x)) /\ (pc'[x] \in {"put", "incref"} <=> pc[x] \in {"put", "incref"})
  PROVE  BoardTypes' /\ CountInv' /\ \A o \in Objs : Owned(o)' <=> Owned(o)
<1>1. ASSUME NEW o \in Objs, NEW x \in Threads
      PROVE  (Retiring(x, o)' <=> Retiring(x, o)) /\ (Holding(x, o)' <=> Holding(x, o))
  BY EpochAssumption DEF Retiring, Holding
<1>2. ASSUME NEW o \in Objs
      PROVE  /\ Owned(o)' <=> Owned(o)
             /\ OwnedOnce(o)' <=> OwnedOnce(o)
             /\ Holders(o)' = Holders(o)
  <2>1. Delayed(o)' <=> Delayed(o) BY DEF Delayed
  <2>2. QED BY <1>1, <2>1 DEF Owned, OwnedOnce, Holders
<1>3. BoardTypes'
  BY DEF BoardTypes
<1>4. ASSUME NEW o \in Objs
      PROVE  (OwnedOnce(o) /\ rc[o] = (IF Owned(o) THEN 1 ELSE 0) + Cardinality(Holders(o)))'
  <2>1. PICK b : b = Owned(o) OBVIOUS
  <2>2. PICK n : n = Cardinality(Holders(o)) OBVIOUS
  <2>3. OwnedOnce(o) /\ rc[o] = (IF Owned(o) THEN 1 ELSE 0) + n BY <2>2 DEF CountInv
  <2>4. Cardinality(Holders(o))' = n BY <1>2, <2>2
  <2>5. QED BY <1>2, <2>3, <2>4
<1>5. QED BY <1>2, <1>3, <1>4 DEF CountInv

(* What the other threads have to themselves.                              *)
Alone(t) ==
  \A x \in Threads \ {t} :
    pc'[x] = pc[x] /\ local'[x] = local[x] /\ seen'[x] = seen[x] /\ epoch'[x] = epoch[x]

(* The others come back no earlier than they did.                          *)
LEMMA AwaysKeep ==
  ASSUME AwayInv, NEW t \in Threads, Alone(t), Away(t)'
  PROVE  AwayInv'
<1> SUFFICES ASSUME NEW x \in Threads \ {t} PROVE Away(x)'
  BY DEF AwayInv
<1>1. /\ pc'[x] = pc[x] /\ local'[x] = local[x] /\ seen'[x] = seen[x] /\ epoch'[x] = epoch[x]
      /\ Away(x)
  BY DEF Alone, AwayInv
<1>2. QED BY <1>1 DEF Away

(* So does a thread that does not come back from an ejection.              *)
LEMMA StaysAway ==
  ASSUME NEW t \in Threads, pc'[t] \notin {"rejoin"} \cup Rejoining
  PROVE  Away(t)'
BY DEF Away, Rejoining

(* A step of t that leaves the objects where they are.                     *)
LEMMA CalmKeeps ==
  ASSUME PeekInv, NEW t \in Threads, UNCHANGED <<board, obj, rc, todec>>, Alone(t),
         obj[t] # None => (Entering(t)' <=> Entering(t)) /\ (pc'[t] = "incref" <=> pc[t] = "incref"),
         obj[t] = None => pc'[t] \notin {"update", "incref"},
         pc'[t] = "put" <=> pc[t] = "put",
         Delaying(t) => Flushed(t)' = Flushed(t),
         pc'[t] = "incref" => epoch'[t] = epoch[t]
  PROVE  BoardTypes' /\ CountInv' /\ HandInv' /\ ReadInv'
<1>1. \A x \in Threads \ {t} : /\ Entering(x)' <=> Entering(x)
                               /\ pc'[x] = pc[x] /\ epoch'[x] = epoch[x]
                               /\ Flushed(x)' = Flushed(x)
  BY DEF Entering, Flushed, Alone
<1>2. BoardTypes' /\ CountInv' /\ \A o \in Objs : Owned(o)' <=> Owned(o)
  BY <1>1, CalmCounts DEF PeekInv
<1>3. HandInv'
  BY <1>1 DEF PeekInv, HandInv
<1>4. ReadInv'
  <2> SUFFICES ASSUME NEW x \in Threads, pc'[x] = "incref"
               PROVE  /\ Owned(obj[x])'
                      /\ \A u \in Threads, i \in Slots : obj[x] \in todec[u][i] => epoch'[x] + 2 <= Flushed(u)' + i
    BY DEF ReadInv
  <2>1. pc[x] = "incref" /\ obj[x] \in Objs /\ epoch'[x] = epoch[x]
    <3>1. x = t => obj[t] # None OBVIOUS
    <3>2. pc[x] = "incref" /\ epoch'[x] = epoch[x] BY <1>1, <3>1
    <3>3. QED BY <3>2 DEF PeekInv, HandInv, BoardTypes
  <2>2. Owned(obj[x])' BY <1>2, <2>1 DEF PeekInv, ReadInv
  <2>3. ASSUME NEW u \in Threads, NEW i \in Slots, obj[x] \in todec[u][i]
        PROVE  epoch'[x] + 2 <= Flushed(u)' + i
    <3>1. Delaying(u) BY <2>3 DEF Delaying
    <3>2. Flushed(u)' = Flushed(u) BY <1>1, <3>1
    <3>3. epoch[x] + 2 <= Flushed(u) + i BY <2>1, <2>3 DEF PeekInv, ReadInv
    <3>4. QED BY <2>1, <3>2, <3>3
  <2>4. QED BY <2>2, <2>3
<1>5. QED BY <1>2, <1>3, <1>4

(* A thread changes what is its own.                                       *)
LEMMA OthersAlone ==
  ASSUME Inv, NEW t \in Threads,
         \/ Peek(t) \/ UpdateEpoch(t) \/ Acquire(t) \/ BackOff(t) \/ Spin(t) \/ HandOver(t)
         \/ Check(t) \/ Refresh(t) \/ Publish(t) \/ Rejoin(t) \/ RejoinAgain(t) \/ Announce(t)
         \/ Rejoined(t) \/ Read(t) \/ ReadIncref(t) \/ DecInEpoch(t) \/ Update(t) \/ (\E o \in Objs : Put(t, o))
         \/ AdvanceIsSensible(t) \/ NotSensible(t) \/ Release(t) \/ Scan(t) \/ ScanInEpoch(t)
         \/ ScanFails(t) \/ ScanEject(t) \/ Exchange(t) \/ BarrierStep(t) \/ Eject(t)
         \/ Ejected(t) \/ HeldByOwner(t) \/ Advance(t) \/ Drop(t) \/ Exit(t) \/ OwnerStoreVisible(t)
  PROVE  Alone(t)
<1> USE DEF Inv, TypeInv, EpochsSame, LocalsSame, Step, See, SetEpoch, NextThread, GiveUp
<1>1. \A x \in Threads \ {t} : pc'[x] = pc[x]
  BY DEF Peek, UpdateEpoch, Acquire, BackOff, Spin, HandOver, Check, Refresh, Publish, Rejoin,
     RejoinAgain, Announce, Rejoined, Read, ReadIncref, DecInEpoch, Update, Put, AdvanceIsSensible,
     NotSensible, Release, Scan, ScanInEpoch, ScanFails, ScanEject, Exchange, BarrierStep, Eject,
     Ejected, HeldByOwner, Advance, Drop, Exit, OwnerStoreVisible
<1>2. \A x \in Threads \ {t} : local'[x] = local[x] /\ seen'[x] = seen[x]
  BY DEF Peek, UpdateEpoch, Acquire, BackOff, Spin, HandOver, Check, Refresh, Publish, Rejoin,
     RejoinAgain, Announce, Rejoined, Read, ReadIncref, DecInEpoch, Update, Put, AdvanceIsSensible,
     NotSensible, Release, Scan, ScanInEpoch, ScanFails, ScanEject, Exchange, BarrierStep, Eject,
     Ejected, HeldByOwner, Advance, Drop, Exit, OwnerStoreVisible
<1>3. \A x \in Threads \ {t} : epoch'[x] = epoch[x]
  BY DEF Peek, UpdateEpoch, Acquire, BackOff, Spin, HandOver, Check, Refresh, Publish, Rejoin,
     RejoinAgain, Announce, Rejoined, Read, ReadIncref, DecInEpoch, Update, Put, AdvanceIsSensible,
     NotSensible, Release, Scan, ScanInEpoch, ScanFails, ScanEject, Exchange, BarrierStep, Eject,
     Ejected, HeldByOwner, Advance, Drop, Exit, OwnerStoreVisible
<1>4. QED BY <1>1, <1>2, <1>3 DEF Alone

(* A step from one place to the next that leaves objects and epochs alone. *)
LEMMA PlainMove ==
  ASSUME Inv, Inv', PeekInv, NEW t \in Threads, Alone(t),
         UNCHANGED <<board, obj, rc, todec, epoch>>,
         pc[t] \notin Rejoining \cup {"publish", "put", "incref"},
         pc'[t] \notin Rejoining \cup {"publish", "put", "incref", "update", "rejoin"},
         obj[t] # None => (pc'[t] \in EntryPCs <=> pc[t] \in EntryPCs)
  PROVE  PeekInv'
<1>1. Flushed(t)' = Flushed(t)
  BY DEF Flushed
<1>2. obj[t] # None => (Entering(t)' <=> Entering(t)) /\ (pc'[t] = "incref" <=> pc[t] = "incref")
  BY DEF Entering
<1>3. BoardTypes' /\ CountInv' /\ HandInv' /\ ReadInv'
  BY <1>1, <1>2, CalmKeeps
<1>4. AwayInv'
  BY StaysAway, AwaysKeep DEF PeekInv
<1>5. QED BY <1>3, <1>4 DEF PeekInv

(* On the way into the epoch, and out of it.                               *)
LEMMA EntryKeeps ==
  ASSUME Inv, Inv', PeekInv, NEW t \in Threads,
         \/ Peek(t) \/ UpdateEpoch(t) \/ Acquire(t) \/ BackOff(t) \/ Spin(t) \/ HandOver(t)
         \/ NotSensible(t) \/ Release(t)
  PROVE  PeekInv'
<1>1. UNCHANGED <<board, obj, rc, todec, epoch, ejected, global>>
  BY DEF EpochsSame, BoardSame, Peek, UpdateEpoch, Acquire, BackOff, Spin, HandOver, NotSensible, Release
<1>2. /\ pc[t] \in {"idle", "update", "acquire", "back off", "spin", "hand over", "used", "release"}
      /\ pc'[t] \in {"acquire", "back off", "check", "spin", "hand over", "release", "idle"}
      /\ obj[t] # None => (pc'[t] \in EntryPCs <=> pc[t] \in EntryPCs)
  BY DEF Inv, TypeInv, Step, Peek, UpdateEpoch, Acquire, BackOff, Spin, HandOver, NotSensible, Release,
     EntryPCs
<1>3. /\ pc'[t] \notin Rejoining \cup {"publish", "put", "incref", "update", "rejoin"}
      /\ pc[t] \notin Rejoining \cup {"publish", "put", "incref"}
  BY <1>2 DEF Rejoining
<1>4. Alone(t) BY OthersAlone
<1>5. QED BY <1>1, <1>2, <1>3, <1>4, PlainMove

(* Scanning the other threads, ejecting one, and advancing.                *)
ScanPCs == {"refresh first", "refresh last", "scan", "advance"} \cup Scanning
LEMMA ScanningKeeps ==
  ASSUME Inv, Inv', PeekInv, NEW t \in Threads,
         \/ AdvanceIsSensible(t) \/ Scan(t) \/ ScanInEpoch(t) \/ ScanFails(t) \/ ScanEject(t)
         \/ Exchange(t) \/ BarrierStep(t) \/ Eject(t) \/ Ejected(t) \/ HeldByOwner(t) \/ Advance(t)
  PROVE  PeekInv'
<1> USE DEF EpochsSame, BoardSame, AdvanceIsSensible, Scan, ScanInEpoch, ScanFails, ScanEject,
            Exchange, BarrierStep, Eject, Ejected, HeldByOwner, Advance, NextThread, GiveUp, Step
<1>1. UNCHANGED <<board, obj, rc, todec, epoch>>
  OBVIOUS
<1>2. pc[t] \in {"used"} \cup ScanPCs /\ pc'[t] \in {"release"} \cup ScanPCs
  <2> USE DEF Inv, TypeInv
  <2>1. CASE AdvanceIsSensible(t) \/ Advance(t)
    BY <2>1 DEF ScanPCs
  <2>2. CASE Scan(t) \/ ScanEject(t) \/ BarrierStep(t) \/ Eject(t)
    BY <2>2 DEF ScanPCs, Scanning, Ejecting
  <2>3. CASE ScanInEpoch(t) \/ Ejected(t)
    <3>1. pc[t] \in {"scan at", "ejected"} /\ pc'[t] \in {"scan at", "advance"}
      BY <2>3
    <3>2. QED BY <3>1 DEF ScanPCs, Scanning, Ejecting
  <2>4. CASE ScanFails(t) \/ Exchange(t) \/ HeldByOwner(t)
    <3>1. pc[t] \in {"scan at", "exchange", "held"} /\ pc'[t] \in {"barrier", "release"}
      BY <2>4
    <3>2. QED BY <3>1 DEF ScanPCs, Scanning, Ejecting
  <2>5. QED BY <2>1, <2>2, <2>3, <2>4
<1>3. /\ pc[t] \notin Rejoining \cup {"publish", "put", "incref"} \cup EntryPCs
      /\ pc'[t] \notin Rejoining \cup {"publish", "put", "incref", "update", "rejoin"} \cup EntryPCs
  BY <1>2 DEF ScanPCs, Scanning, Ejecting, Rejoining, EntryPCs
<1>4. Alone(t) BY OthersAlone
<1>5. QED BY <1>1, <1>3, <1>4, PlainMove

(* A store becomes visible, or an idle thread exits.                       *)
LEMMA VisiblePeek ==
  ASSUME Inv, Inv', PeekInv, NEW t \in Threads, OwnerStoreVisible(t) \/ Exit(t)
  PROVE  PeekInv'
<1>1. UNCHANGED <<board, obj, rc, todec, epoch, pc, seen, local>>
  BY DEF OwnerStoreVisible, Exit, EpochsSame, BoardSame, LocalsSame
<1>2. Alone(t) BY <1>1 DEF Alone
<1>3. AwayInv' BY <1>1 DEF PeekInv, AwayInv, Away
<1>4. (Entering(t)' <=> Entering(t)) /\ Flushed(t)' = Flushed(t) BY <1>1 DEF Entering, Flushed
<1>5. obj[t] = None => pc'[t] \notin {"update", "incref"} BY <1>1 DEF PeekInv, HandInv
<1>6. BoardTypes' /\ CountInv' /\ HandInv' /\ ReadInv' BY <1>1, <1>2, <1>4, <1>5, CalmKeeps
<1>7. QED BY <1>3, <1>6 DEF PeekInv

(* A thread looks at the global epoch before its use.                      *)
LEMMA CheckPeek ==
  ASSUME Inv, Inv', PeekInv, NEW t \in Threads, Check(t)
  PROVE  PeekInv'
<1>1. /\ UNCHANGED <<board, obj, rc, todec, epoch>>
      /\ pc[t] = "check" /\ pc'[t] \in {"rejoin", "refresh", "using"}
  BY DEF Check, EpochsSame, BoardSame, Step, Inv, TypeInv
<1>2. seen'[t] = global BY SeeIsRecent DEF Check
<1>3. Alone(t) BY OthersAlone
<1>4. CASE pc'[t] # "rejoin"
  BY <1>1, <1>3, <1>4, PlainMove DEF Rejoining, EntryPCs
<1>5. CASE pc'[t] = "rejoin"
  <2>1. epoch[t] <= global BY DEF Inv, EpochInv
  <2>2. Away(t)' BY <1>1, <1>2, <1>5, <2>1 DEF Away, Rejoining
  <2>3. AwayInv' BY <1>3, <2>2, AwaysKeep DEF PeekInv
  <2>4. Flushed(t)' = Flushed(t) BY <1>1, <1>5 DEF Flushed, Rejoining
  <2>5. Entering(t)' /\ Entering(t) BY <1>1, <1>5 DEF Entering, EntryPCs
  <2>6. BoardTypes' /\ CountInv' /\ HandInv' /\ ReadInv' BY <1>1, <1>3, <1>5, <2>4, <2>5, CalmKeeps
  <2>7. QED BY <2>3, <2>6 DEF PeekInv
<1>6. QED BY <1>4, <1>5

(* A step of a thread on its epoch.                                        *)
LEMMA EpochMove ==
  ASSUME PeekInv, NEW t \in Threads, Alone(t), Away(t)',
         UNCHANGED <<board, obj, rc, todec>>,
         Entering(t)' <=> Entering(t), Delaying(t) => Flushed(t)' = Flushed(t),
         pc[t] \notin {"put", "incref"}, pc'[t] \notin {"put", "update", "incref"}
  PROVE  PeekInv'
<1>1. BoardTypes' /\ CountInv' /\ HandInv' /\ ReadInv'
  BY CalmKeeps
<1>2. AwayInv'
  BY AwaysKeep DEF PeekInv
<1>3. QED BY <1>1, <1>2 DEF PeekInv

(* A thread stores the epoch that it last read.                            *)
LEMMA SetEpochMoves ==
  ASSUME Inv, NEW t \in Threads, SetEpoch(t)
  PROVE  epoch'[t] = seen[t]
BY DEF SetEpoch, Inv, TypeInv

(* After a refresh: the slots were flushed for the epoch now published.    *)
LEMMA PublishPeek ==
  ASSUME Inv, Inv', PeekInv, NEW t \in Threads, Publish(t)
  PROVE  PeekInv'
<1>1. /\ pc[t] = "publish" /\ pc'[t] = local[t]
      /\ UNCHANGED <<board, obj, rc, todec>>
  BY StepMoves DEF Publish, BoardSame
<1>2. local[t] \in {"using", "scan", "release"}
  BY <1>1 DEF Inv, LocalInv
<1>3. epoch'[t] = seen[t]
  BY SetEpochMoves DEF Publish
<1>4. Alone(t) BY OthersAlone
<1>5. Away(t)'
  BY <1>1, <1>2, StaysAway DEF Rejoining
<1>6. Entering(t)' <=> Entering(t)
  BY <1>1, <1>2 DEF Entering, EntryPCs
<1>7. Flushed(t)' = Flushed(t)
  BY <1>1, <1>2, <1>3 DEF Flushed, Rejoining
<1>8. QED BY <1>1, <1>2, <1>4, <1>5, <1>6, <1>7, EpochMove

(* The first steps of rejoining leave the slots for the last one.          *)
LEMMA RejoiningPeek ==
  ASSUME Inv, Inv', PeekInv, NEW t \in Threads, Rejoin(t) \/ RejoinAgain(t) \/ Announce(t)
  PROVE  PeekInv'
<1>1. /\ pc[t] \in {"rejoin", "rejoin again", "announce"} /\ pc'[t] \in Rejoining
      /\ UNCHANGED <<board, obj, rc, todec>>
  BY StepMoves DEF Rejoin, RejoinAgain, Announce, BoardSame, EpochsSame, Rejoining
<1>2. Alone(t) BY OthersAlone
<1>3. Entering(t)' /\ Entering(t) BY <1>1 DEF Entering, EntryPCs, Rejoining
<1>4. Away(t) /\ seen[t] <= global /\ seen[t] \in Nat /\ global \in Nat /\ epoch[t] \in Nat
  BY DEF PeekInv, AwayInv, Inv, EpochInv, TypeInv
<1>5. pc[t] \notin {"put", "incref"} /\ pc'[t] \notin {"put", "update", "incref"}
  BY <1>1 DEF Rejoining
<1>6. CASE Rejoin(t)
  <2>1. /\ pc[t] = "rejoin" /\ pc'[t] = "rejoin again" /\ seen' = seen /\ local'[t] = epoch[t]
    BY <1>6, StepMoves DEF Rejoin, Inv, TypeInv
  <2>2. Away(t)' BY <1>4, <2>1 DEF Away
  <2>3. Flushed(t)' = Flushed(t) BY <2>1 DEF Flushed, Rejoining
  <2>4. QED BY <1>1, <1>2, <1>3, <1>5, <2>2, <2>3, EpochMove
<1>7. CASE RejoinAgain(t)
  <2>1. pc[t] = "rejoin again" /\ pc'[t] = "announce" /\ seen'[t] = global /\ local' = local
    BY <1>7, StepMoves, SeeIsRecent DEF RejoinAgain
  <2>2. local[t] \in Nat /\ local[t] <= seen'[t]
    <3>1. local[t] \in Nat /\ local[t] <= seen[t] BY <1>4, <2>1 DEF Away, Rejoining
    <3>2. ASSUME NEW l \in Nat, l <= seen[t] PROVE l <= global BY <1>4, <3>2
    <3>3. QED BY <2>1, <3>1, <3>2
  <2>3. Away(t)' BY <2>1, <2>2 DEF Away
  <2>4. Flushed(t)' = Flushed(t) BY <2>1 DEF Flushed, Rejoining
  <2>5. QED BY <1>1, <1>2, <1>3, <1>5, <2>3, <2>4, EpochMove
<1>8. CASE Announce(t)
  <2>1. pc[t] = "announce" /\ pc'[t] = "rejoined" /\ seen' = seen /\ local' = local
    BY <1>8, StepMoves DEF Announce, LocalsSame
  <2>2. epoch'[t] = seen[t]
    BY <1>8, SetEpochMoves DEF Announce
  <2>3. Away(t)' BY <1>4, <2>1, <2>2 DEF Away, Rejoining
  <2>4. Flushed(t)' = Flushed(t) BY <2>1 DEF Flushed, Rejoining
  <2>5. QED BY <1>1, <1>2, <1>3, <1>5, <2>3, <2>4, EpochMove
<1>9. QED BY <1>6, <1>7, <1>8

-----------------------------------------------------------------------------
(* The n oldest slots are flushed: their objects lose the board's count.   *)
LEMMA FlushMoves ==
  ASSUME BoardTypes, NEW t \in Threads, NEW n \in 1 .. 4, Flush(t, n)
  PROVE  /\ todec' \in [Threads -> [Slots -> SUBSET Objs]] /\ rc' \in [Objs -> Int]
         /\ \A u \in Threads \ {t} : todec'[u] = todec[u]
         /\ \A i \in Slots : i + n \in Slots => todec'[t][i] = todec[t][i + n]
         /\ \A i \in Slots : i + n \notin Slots => todec'[t][i] = {}
         /\ \A o \in Objs :
              rc'[o] = IF \E i \in Slots : i <= n /\ o \in todec[t][i] THEN rc[o] - 1 ELSE rc[o]
<1> DEFINE Slot(i) == IF i <= 4 THEN todec[t][i] ELSE {}
           due == UNION {Slot(i) : i \in 1 .. n}
<1>1. /\ todec' = [todec EXCEPT ![t] = [i \in 1 .. 4 |-> Slot(i + n)]]
      /\ rc' = [o \in Objs |-> IF o \in due THEN rc[o] - 1 ELSE rc[o]]
  BY DEF Flush
<1>2. \A i \in Slots : Slot(i) = todec[t][i] /\ Slot(i) \in SUBSET Objs
  BY DEF BoardTypes, Slots
<1>3. \A o : o \in due <=> \E i \in Slots : i <= n /\ o \in todec[t][i]
  <2>1. \A i \in 1 .. n : i \in Slots /\ i <= n BY DEF Slots
  <2>2. \A i \in Slots : i <= n => i \in 1 .. n BY DEF Slots
  <2>3. QED BY <1>2, <2>1, <2>2
<1>4. \A i \in Slots : Slot(i + n) \in SUBSET Objs
  BY DEF BoardTypes, Slots
<1>5. [i \in 1 .. 4 |-> Slot(i + n)] \in [Slots -> SUBSET Objs]
  BY <1>4 DEF Slots
<1>6. todec'[t] = [i \in 1 .. 4 |-> Slot(i + n)] /\ \A u \in Threads \ {t} : todec'[u] = todec[u]
  BY <1>1 DEF BoardTypes
<1>7. todec' \in [Threads -> [Slots -> SUBSET Objs]]
  BY <1>1, <1>5 DEF BoardTypes
<1>8. rc' \in [Objs -> Int]
  BY <1>1 DEF BoardTypes
<1>9. \A i \in Slots : i + n \in Slots => todec'[t][i] = todec[t][i + n]
  BY <1>6 DEF Slots
<1>10. \A i \in Slots : i + n \notin Slots => todec'[t][i] = {}
  BY <1>6 DEF Slots
<1>11. ASSUME NEW o \in Objs
       PROVE  rc'[o] = IF \E i \in Slots : i <= n /\ o \in todec[t][i] THEN rc[o] - 1 ELSE rc[o]
  <2>1. rc'[o] = IF o \in due THEN rc[o] - 1 ELSE rc[o] BY <1>1
  <2>2. QED BY <1>3, <2>1
<1>12. QED BY <1>6, <1>7, <1>8, <1>9, <1>10, <1>11

(* A flush keeps the counts, and what is not due where it was.             *)
LEMMA FlushCounts ==
  ASSUME BoardTypes, CountInv, NEW t \in Threads, NEW n \in 1 .. 4, Flush(t, n),
         UNCHANGED <<board, obj>>,
         \A x \in Threads : (Entering(x)' <=> Entering(x)) /\ (pc'[x] \in {"put", "incref"} <=> pc[x] \in {"put", "incref"})
  PROVE  /\ BoardTypes' /\ CountInv'
         /\ \A o \in Objs : Owned(o) /\ (\A i \in Slots : i <= n => o \notin todec[t][i]) => Owned(o)'
<1>1. /\ todec' \in [Threads -> [Slots -> SUBSET Objs]] /\ rc' \in [Objs -> Int]
      /\ \A u \in Threads \ {t} : todec'[u] = todec[u]
      /\ \A i \in Slots : i + n \in Slots => todec'[t][i] = todec[t][i + n]
      /\ \A i \in Slots : i + n \notin Slots => todec'[t][i] = {}
      /\ \A o \in Objs :
           rc'[o] = IF \E i \in Slots : i <= n /\ o \in todec[t][i] THEN rc[o] - 1 ELSE rc[o]
  BY FlushMoves
<1>2. BoardTypes' BY <1>1 DEF BoardTypes
<1>3. ASSUME NEW o \in Objs, NEW x \in Threads
      PROVE  (Retiring(x, o)' <=> Retiring(x, o)) /\ (Holding(x, o)' <=> Holding(x, o))
  BY DEF Retiring, Holding
<1>4. ASSUME NEW o \in Objs, NEW u \in Threads, NEW i \in Slots, o \in todec'[u][i]
      PROVE  \E j \in Slots : o \in todec[u][j] /\ j = IF u = t THEN i + n ELSE i
  BY <1>1, <1>4
<1>5. ASSUME NEW o \in Objs PROVE OwnedOnce(o)' /\ (Delayed(o)' => Delayed(o))
  <2>1. OwnedOnce(o) BY DEF CountInv
  <2>2. Delayed(o)' => Delayed(o) BY <1>4 DEF Delayed
  <2>3. ASSUME NEW u \in Threads, NEW v \in Threads, NEW i \in Slots, NEW j \in Slots,
               o \in todec'[u][i], o \in todec'[v][j]
        PROVE  u = v /\ i = j
    <3>1. PICK k \in Slots : o \in todec[u][k] /\ k = IF u = t THEN i + n ELSE i BY <1>4, <2>3
    <3>2. PICK l \in Slots : o \in todec[v][l] /\ l = IF v = t THEN j + n ELSE j BY <1>4, <2>3
    <3>3. u = v /\ k = l BY <2>1, <3>1, <3>2 DEF OwnedOnce
    <3>4. i \in Int /\ j \in Int /\ n \in Int BY DEF Slots
    <3>5. QED BY <3>1, <3>2, <3>3, <3>4
  <2>4. QED BY <1>3, <2>1, <2>2, <2>3 DEF OwnedOnce
<1>6. ASSUME NEW o \in Objs
      PROVE  /\ rc'[o] = (IF Owned(o)' THEN 1 ELSE 0) + Cardinality(Holders(o))
             /\ Owned(o) /\ (\A i \in Slots : i <= n => o \notin todec[t][i]) => Owned(o)'
  <2>1. OwnedOnce(o) /\ rc[o] = (IF Owned(o) THEN 1 ELSE 0) + Cardinality(Holders(o)) BY DEF CountInv
  <2>2. CASE \E i \in Slots : i <= n /\ o \in todec[t][i]
    <3>1. PICK i \in Slots : i <= n /\ o \in todec[t][i] BY <2>2
    <3>2. Delayed(o) /\ Owned(o) BY <3>1 DEF Delayed, Owned
    <3>3. ~Delayed(o)'
      <4> SUFFICES ASSUME NEW u \in Threads, NEW j \in Slots, o \in todec'[u][j] PROVE FALSE
        BY DEF Delayed
      <4>1. PICK k \in Slots : o \in todec[u][k] /\ k = IF u = t THEN j + n ELSE j BY <1>4
      <4>2. u = t /\ k = i BY <2>1, <3>1, <4>1 DEF OwnedOnce
      <4>3. j \in 1 .. 4 /\ i \in 1 .. 4 BY DEF Slots
      <4>4. QED BY <3>1, <4>1, <4>2, <4>3
    <3>4. ~Owned(o)' BY <1>3, <2>1, <3>2, <3>3 DEF Owned, OwnedOnce
    <3>5. rc'[o] = rc[o] - 1 BY <1>1, <2>2
    <3>6. rc[o] = 1 + Cardinality(Holders(o)) BY <2>1, <3>2
    <3>7. PICK m : m = Cardinality(Holders(o)) OBVIOUS
    <3>8. rc[o] \in Int BY DEF BoardTypes
    <3>9. m = rc[o] - 1
      <4>1. Holders(o) \subseteq Threads BY DEF Holders
      <4>2. Cardinality(Holders(o)) \in Nat BY <4>1, EpochAssumption, FS_Subset, FS_CardinalityType
      <4>3. QED BY <3>6, <3>7, <3>8, <4>2
    <3>10. QED BY <2>2, <3>4, <3>5, <3>7, <3>9
  <2>3. CASE ~\E i \in Slots : i <= n /\ o \in todec[t][i]
    <3>1. Delayed(o) => Delayed(o)'
      <4> SUFFICES ASSUME NEW u \in Threads, NEW i \in Slots, o \in todec[u][i] PROVE Delayed(o)'
        BY DEF Delayed
      <4>1. CASE u # t BY <1>1, <4>1 DEF Delayed
      <4>2. CASE u = t
        <5>1. ~(i <= n) BY <2>3, <4>2
        <5>2. i - n \in Slots /\ (i - n) + n = i BY <5>1 DEF Slots
        <5>3. o \in todec'[t][i - n] BY <1>1, <4>2, <5>2
        <5>4. QED BY <5>2, <5>3 DEF Delayed
      <4>3. QED BY <4>1, <4>2
    <3>2. Owned(o)' <=> Owned(o) BY <1>3, <1>5, <3>1 DEF Owned
    <3>3. rc'[o] = rc[o] BY <1>1, <2>3
    <3>4. QED BY <2>1, <3>2, <3>3
  <2>4. QED BY <2>2, <2>3
<1>7. \A o \in Objs : Holders(o)' = Holders(o) BY <1>3 DEF Holders
<1>8. \A o \in Objs : (rc[o] = (IF Owned(o) THEN 1 ELSE 0) + Cardinality(Holders(o)))'
  <2> TAKE o \in Objs
  <2>1. Holders(o)' = Holders(o) BY <1>7
  <2>2. rc'[o] = (IF Owned(o)' THEN 1 ELSE 0) + Cardinality(Holders(o)) BY <1>6
  <2>3. QED BY <2>1, <2>2
<1>9. QED BY <1>2, <1>5, <1>6, <1>8 DEF CountInv

(* A thread flushes what is due by the global epoch: nothing that a reader *)
(* is about to take a reference to.                                        *)
LEMMA FlushKeeps ==
  ASSUME Inv, Inv', PeekInv, NEW t \in Threads, NEW n \in 1 .. 4, Flush(t, n), Alone(t),
         UNCHANGED <<board, obj, global, epoch>>,
         Entering(t)' <=> Entering(t), pc[t] \notin {"put", "incref"},
         pc'[t] \notin {"put", "incref", "update", "rejoin"} \cup Rejoining,
         Delaying(t) => /\ Flushed(t) \in Nat /\ Flushed(t) + n <= global
                        /\ Flushed(t)' = Flushed(t) + n \/ n = 4
  PROVE  PeekInv'
<1>1. /\ \A u \in Threads \ {t} : todec'[u] = todec[u]
      /\ \A i \in Slots : i + n \in Slots => todec'[t][i] = todec[t][i + n]
      /\ \A i \in Slots : i + n \notin Slots => todec'[t][i] = {}
  BY FlushMoves DEF PeekInv
<1>2. \A x \in Threads \ {t} : /\ Entering(x)' <=> Entering(x)
                               /\ pc'[x] = pc[x] /\ Flushed(x)' = Flushed(x)
  BY DEF Entering, Flushed, Alone
<1>3. \A x \in Threads : (Entering(x)' <=> Entering(x)) /\ (pc'[x] \in {"put", "incref"} <=> pc[x] \in {"put", "incref"})
  BY <1>2
<1>4. /\ BoardTypes' /\ CountInv'
      /\ \A o \in Objs : Owned(o) /\ (\A i \in Slots : i <= n => o \notin todec[t][i]) => Owned(o)'
  BY <1>3, FlushCounts DEF PeekInv
<1>5. HandInv'
  BY <1>2 DEF PeekInv, HandInv
<1>6. AwayInv'
  BY StaysAway, AwaysKeep DEF PeekInv
<1>7. ReadInv'
  <2> SUFFICES ASSUME NEW x \in Threads, pc'[x] = "incref"
               PROVE  /\ Owned(obj[x])'
                      /\ \A u \in Threads, i \in Slots : obj[x] \in todec'[u][i] => epoch[x] + 2 <= Flushed(u)' + i
    BY DEF ReadInv
  <2>1. x # t /\ pc[x] = "incref" BY <1>2
  <2>2. obj[x] \in Objs BY <2>1 DEF PeekInv, HandInv, BoardTypes
  <2>3. /\ Owned(obj[x])
        /\ \A u \in Threads, i \in Slots : obj[x] \in todec[u][i] => epoch[x] + 2 <= Flushed(u) + i
    BY <2>1 DEF PeekInv, ReadInv
  <2>4. global \in Nat /\ epoch[x] \in Nat /\ global <= epoch[x] + 1
    <3>1. global - epoch[x] \in {0, 1} BY <2>1, UsingIsOneBehind DEF Using
    <3>2. global \in Nat /\ epoch[x] \in Nat BY DEF Inv, TypeInv
    <3>3. QED BY <3>1, <3>2
  <2>5. ASSUME NEW i \in Slots, i <= n, obj[x] \in todec[t][i] PROVE FALSE
    <3>1. Delaying(t) BY <2>5 DEF Delaying
    <3>2. PICK f \in Nat : f = Flushed(t) BY <3>1
    <3>3. f + n <= global /\ epoch[x] + 2 <= f + i BY <2>3, <2>5, <3>1, <3>2
    <3>4. QED BY <2>4, <2>5, <3>3 DEF Slots
  <2>6. Owned(obj[x])' BY <1>4, <2>2, <2>3, <2>5
  <2>7. ASSUME NEW u \in Threads, NEW i \in Slots, obj[x] \in todec'[u][i]
        PROVE  epoch[x] + 2 <= Flushed(u)' + i
    <3>1. CASE u # t BY <1>1, <1>2, <2>3, <2>7, <3>1
    <3>2. CASE u = t
      <4>1. i + n \in Slots /\ obj[x] \in todec[t][i + n] BY <1>1, <2>7, <3>2
      <4>2. Delaying(t) BY <4>1 DEF Delaying
      <4>3. PICK f \in Nat : f = Flushed(t) BY <4>2
      <4>4. epoch[x] + 2 <= f + (i + n) BY <2>3, <4>1, <4>3
      <4>5. n # 4 BY <4>1 DEF Slots
      <4>6. Flushed(t)' = f + n BY <4>2, <4>3, <4>5
      <4>7. QED BY <2>4, <3>2, <4>4, <4>6 DEF Slots
    <3>3. QED BY <3>1, <3>2
  <2>8. QED BY <2>6, <2>7
<1>8. QED BY <1>4, <1>5, <1>6, <1>7 DEF PeekInv

(* A refresh flushes one slot if the epoch has advanced.                   *)
LEMMA RefreshPeek ==
  ASSUME Inv, Inv', PeekInv, NEW t \in Threads, Refresh(t)
  PROVE  PeekInv'
<1>1. /\ pc[t] \in {"refresh", "refresh first", "refresh last"}
      /\ UNCHANGED <<global, epoch, ejected, obj, board>> /\ seen'[t] = global
  BY SeeIsRecent DEF Refresh
<1>2. Alone(t) BY OthersAlone
<1>3. AfterRefresh(pc[t]) = IF pc[t] = "refresh" THEN "using"
                            ELSE IF pc[t] = "refresh first" THEN "scan" ELSE "release"
  BY <1>1 DEF AfterRefresh
<1>4. CASE epoch[t] = global
  <2>1. pc'[t] = AfterRefresh(pc[t]) /\ UNCHANGED <<todec, rc>>
    BY <1>4, StepMoves DEF Refresh
  <2>2. /\ pc[t] \notin Rejoining \cup {"publish", "put", "incref"}
        /\ pc'[t] \notin Rejoining \cup {"publish", "put", "incref", "update", "rejoin"}
        /\ pc'[t] \in EntryPCs <=> pc[t] \in EntryPCs
    BY <1>1, <1>3, <2>1 DEF Rejoining, EntryPCs
  <2>3. QED BY <1>1, <1>2, <2>1, <2>2, PlainMove
<1>5. CASE epoch[t] # global
  <2>1. /\ pc'[t] = "publish" /\ Flush(t, 1) /\ local'[t] = AfterRefresh(pc[t])
    <3>1. /\ Step(t, pc[t], "publish") /\ Flush(t, 1)
          /\ local' = [local EXCEPT ![t] = AfterRefresh(pc[t])]
      BY <1>5 DEF Refresh
    <3>2. pc'[t] = "publish" BY <3>1, StepMoves
    <3>3. local'[t] = AfterRefresh(pc[t]) BY <3>1 DEF Inv, TypeInv
    <3>4. QED BY <3>1, <3>2, <3>3
  <2>2. Entering(t)' <=> Entering(t)
    BY <1>1, <1>3, <2>1 DEF Entering, EntryPCs
  <2>3. epoch[t] \in Nat /\ global \in Nat /\ global = epoch[t] + 1
    <3>1. Settled(t) BY <1>1 DEF Inv, EpochInv, Inside, Outside, Settled
    <3>2. epoch[t] <= global /\ global <= epoch[t] + 1 BY <3>1 DEF Inv, EpochInv
    <3>3. epoch[t] \in Nat /\ global \in Nat BY DEF Inv, TypeInv
    <3>4. QED BY <1>5, <3>2, <3>3
  <2>4. Flushed(t) = epoch[t] /\ Flushed(t)' = global
    BY <1>1, <2>1 DEF Flushed, Rejoining
  <2>5. Flushed(t) \in Nat /\ Flushed(t) + 1 <= global /\ Flushed(t)' = Flushed(t) + 1
    BY <2>3, <2>4
  <2>6. pc'[t] \notin {"put", "incref", "update", "rejoin"} \cup Rejoining /\ pc[t] \notin {"put", "incref"}
    BY <1>1, <2>1 DEF Rejoining
  <2>7. 1 \in 1 .. 4 OBVIOUS
  <2>8. QED BY <1>1, <1>2, <2>1, <2>2, <2>5, <2>6, <2>7, FlushKeeps
<1>6. QED BY <1>4, <1>5

(* A thread that comes back flushes a slot for each epoch it missed.       *)
LEMMA RejoinedPeek ==
  ASSUME Inv, Inv', PeekInv, ReturnsLater, NEW t \in Threads, Rejoined(t)
  PROVE  PeekInv'
<1>1. /\ pc[t] = "rejoined" /\ pc'[t] = "using" /\ Flush(t, Missed(local[t], seen[t]))
      /\ UNCHANGED <<global, epoch, obj, board>>
  BY StepMoves DEF Rejoined
<1>2. Alone(t) BY OthersAlone
<1>3. seen[t] \in Nat /\ global \in Nat /\ seen[t] <= global
  BY DEF Inv, TypeInv, EpochInv
<1>4. local[t] \in Nat /\ local[t] <= seen[t] /\ epoch[t] = seen[t]
  BY <1>1 DEF PeekInv, AwayInv, Away, Rejoining
<1>5. Delaying(t) => local[t] < seen[t]
  <2>1. Delaying(t) => local[t] # seen[t] BY <1>1 DEF ReturnsLater
  <2>2. ASSUME NEW l \in Nat, l <= seen[t], l # seen[t] PROVE l < seen[t] BY <1>3, <2>2
  <2>3. QED BY <1>4, <2>1, <2>2
<1>6. PICK n : n = Missed(local[t], seen[t]) OBVIOUS
<1>7. /\ n \in 1 .. 4
      /\ local[t] < seen[t] => local[t] + n <= seen[t] /\ (seen[t] = local[t] + n \/ n = 4)
  <2>1. ASSUME NEW l \in Nat, NEW s \in Nat, n = IF l < s /\ s - l < 4 THEN s - l ELSE 4
        PROVE  n \in 1 .. 4 /\ (l < s => l + n <= s /\ (s = l + n \/ n = 4))
    BY <2>1
  <2>2. QED BY <1>3, <1>4, <1>6, <2>1 DEF Missed
<1>8. Flushed(t) = local[t] /\ Flushed(t)' = seen[t]
  BY <1>1, <1>4 DEF Flushed, Rejoining
<1>9. Delaying(t) => /\ Flushed(t) \in Nat /\ Flushed(t) + n <= global
                     /\ Flushed(t)' = Flushed(t) + n \/ n = 4
  BY <1>3, <1>4, <1>5, <1>7, <1>8
<1>10. Entering(t)' /\ Entering(t) BY <1>1 DEF Entering, EntryPCs
<1>11. pc'[t] \notin {"put", "incref", "update", "rejoin"} \cup Rejoining /\ pc[t] \notin {"put", "incref"}
  BY <1>1 DEF Rejoining
<1>12. Flush(t, n) BY <1>1, <1>6
<1>13. QED BY <1>1, <1>2, <1>7, <1>9, <1>10, <1>11, <1>12, FlushKeeps

-----------------------------------------------------------------------------
(* The steps that move an object.                                          *)
LEMMA HoldersFinite ==
  ASSUME NEW o
  PROVE  /\ IsFiniteSet(Holders(o)) /\ Cardinality(Holders(o)) \in Nat
         /\ Cardinality(Holders(o)) = 0 <=> Holders(o) = {}
<1>1. Holders(o) \subseteq Threads BY DEF Holders
<1>2. IsFiniteSet(Holders(o)) BY <1>1, EpochAssumption, FS_Subset
<1>3. QED BY <1>2, FS_CardinalityType, FS_EmptySet

(* A reader of another object, or of one that keeps its count, is safe.    *)
LEMMA ReadKeeps ==
  ASSUME PeekInv, NEW t \in Threads, Alone(t), todec' = todec,
         \A o \in Objs : Owned(o) => Owned(o)',
         pc'[t] # "incref", Flushed(t)' = Flushed(t), \A x \in Threads \ {t} : obj'[x] = obj[x]
  PROVE  ReadInv'
<1> SUFFICES ASSUME NEW x \in Threads, pc'[x] = "incref"
             PROVE  /\ Owned(obj[x])'
                    /\ \A u \in Threads, i \in Slots : obj'[x] \in todec'[u][i] => epoch'[x] + 2 <= Flushed(u)' + i
  BY DEF ReadInv
<1>1. x # t /\ pc[x] = "incref" /\ obj'[x] = obj[x] /\ epoch'[x] = epoch[x]
  BY DEF Alone
<1>2. obj[x] \in Objs
  BY <1>1 DEF PeekInv, HandInv, BoardTypes
<1>3. \A u \in Threads : Flushed(u)' = Flushed(u)
  BY DEF Flushed, Alone
<1>4. /\ Owned(obj[x])
      /\ \A u \in Threads, i \in Slots : obj[x] \in todec[u][i] => epoch[x] + 2 <= Flushed(u) + i
  BY <1>1 DEF PeekInv, ReadInv
<1>5. PICK p \in Objs : p = obj[x] BY <1>2
<1>6. Owned(p)' BY <1>4, <1>5
<1>7. obj'[x] = p BY <1>1, <1>5
<1>8. Owned(obj[x])' BY <1>6, <1>7 DEF Owned, Retiring, Delayed
<1>9. QED BY <1>1, <1>3, <1>4, <1>8

(* The writer reads the board.                                             *)
LEMMA UpdatePeek ==
  ASSUME Inv, Inv', PeekInv, NEW t \in Threads, Update(t)
  PROVE  PeekInv'
<1> DEFINE b == board
<1>1. /\ obj[t] = None /\ pc[t] = "idle" /\ pc'[t] = "put" /\ obj' = [obj EXCEPT ![t] = board]
      /\ UNCHANGED <<epoch, todec, board, rc>> /\ \A x \in Threads \ {t} : pc'[x] = pc[x]
      /\ \A x \in Threads : pc[x] # "put"
  BY StepMoves DEF Update, EpochsSame
<1>2. Alone(t) BY OthersAlone
<1>3. BoardTypes /\ b \in Objs /\ None \notin Objs
  BY EpochAssumption DEF PeekInv, BoardTypes
<1>4. obj'[t] = b /\ \A x \in Threads \ {t} : obj'[x] = obj[x]
  BY <1>1, <1>3 DEF BoardTypes
<1>5. ~Entering(t)' /\ \A x \in Threads \ {t} : Entering(x)' <=> Entering(x)
  BY <1>1, <1>2 DEF Alone, Entering, EntryPCs
<1>6. ASSUME NEW p \in Objs, NEW x \in Threads
      PROVE  (Retiring(x, p)' <=> Retiring(x, p)) /\ (Holding(x, p)' <=> Holding(x, p))
  <2>1. CASE x = t BY <1>1, <1>3, <1>5, <2>1 DEF Retiring, Holding
  <2>2. CASE x # t BY <1>1, <1>4, <1>5, <2>2 DEF Retiring, Holding
  <2>3. QED BY <2>1, <2>2
<1>7. \A p \in Objs : (Delayed(p)' <=> Delayed(p)) /\ Holders(p)' = Holders(p)
  BY <1>1, <1>6 DEF Delayed, Holders
<1>8. \A p \in Objs : (Owned(p)' <=> Owned(p)) /\ (OwnedOnce(p)' <=> OwnedOnce(p))
  BY <1>1, <1>6, <1>7 DEF Owned, OwnedOnce
<1>9. BoardTypes' BY <1>1, <1>3 DEF BoardTypes
<1>10. ASSUME NEW p \in Objs
       PROVE  (OwnedOnce(p) /\ rc[p] = (IF Owned(p) THEN 1 ELSE 0) + Cardinality(Holders(p)))'
  <2>1. OwnedOnce(p) /\ rc[p] = (IF Owned(p) THEN 1 ELSE 0) + Cardinality(Holders(p))
    BY DEF PeekInv, CountInv
  <2>2. Holders(p)' = Holders(p) BY <1>7
  <2>3. QED BY <1>1, <1>8, <2>1, <2>2
<1>11. CountInv' BY <1>10 DEF CountInv
<1>12. HandInv'
  BY <1>1, <1>3, <1>4 DEF PeekInv, HandInv
<1>13. Flushed(t)' = Flushed(t) BY <1>1, <1>2 DEF Flushed, Rejoining
<1>14. ReadInv' BY <1>1, <1>2, <1>4, <1>8, <1>13, ReadKeeps
<1>15. AwayInv' BY <1>1, <1>2, StaysAway, AwaysKeep DEF PeekInv, Rejoining
<1>16. QED BY <1>9, <1>11, <1>12, <1>14, <1>15 DEF PeekInv

(* It puts a free object there: the board still had what it read, so it    *)
(* has taken that off the board.                                           *)
LEMMA PutPeek ==
  ASSUME Inv, Inv', PeekInv, NEW t \in Threads, NEW o \in Objs, Put(t, o)
  PROVE  PeekInv'
<1> DEFINE b == board
<1>1. /\ pc[t] = "put" /\ pc'[t] = "update"
      /\ rc[o] = 0 /\ board' = o /\ rc' = [rc EXCEPT ![o] = 1]
      /\ UNCHANGED <<epoch, todec, obj>> /\ \A x \in Threads \ {t} : pc'[x] = pc[x]
  BY StepMoves DEF Put, EpochsSame
<1>2. Alone(t) BY OthersAlone
<1>3. BoardTypes BY DEF PeekInv
<1>4. ASSUME NEW p \in Objs
      PROVE  OwnedOnce(p) /\ rc[p] = (IF Owned(p) THEN 1 ELSE 0) + Cardinality(Holders(p))
  BY DEF PeekInv, CountInv
<1>5. ~Owned(o) /\ Holders(o) = {}
  <2>1. PICK n \in Nat : n = Cardinality(Holders(o)) BY HoldersFinite
  <2>2. rc[o] = (IF Owned(o) THEN 1 ELSE 0) + n BY <1>4, <2>1
  <2>3. ~Owned(o) /\ n = 0 BY <1>1, <2>2
  <2>4. QED BY <2>1, <2>3, HoldersFinite
<1>6. b \in Objs /\ b # o /\ None \notin Objs
  BY <1>3, <1>5, EpochAssumption DEF BoardTypes, Owned
<1>7. obj[t] = b /\ \A x \in Threads \ {t} : pc[x] # "put"
  BY <1>1 DEF PeekInv, HandInv
<1>8. BoardTypes'
  BY <1>1, <1>3, <1>6 DEF BoardTypes
<1>9. \A x \in Threads \ {t} : Entering(x)' <=> Entering(x)
  BY <1>2 DEF Alone, Entering
<1>10. Entering(t)' /\ ~Entering(t) BY <1>1 DEF Entering, EntryPCs
<1>11. ASSUME NEW p \in Objs, NEW x \in Threads
       PROVE  /\ Retiring(x, p)' <=> Retiring(x, p) \/ (x = t /\ p = b)
              /\ Holding(x, p)' <=> Holding(x, p)
  <2>1. CASE x = t
    BY <1>1, <1>6, <1>7, <1>10, <2>1 DEF Retiring, Holding
  <2>2. CASE x # t
    BY <1>1, <1>7, <1>9, <2>2 DEF Retiring, Holding
  <2>3. QED BY <2>1, <2>2
<1>12. \A p \in Objs : (Delayed(p)' <=> Delayed(p)) /\ Holders(p)' = Holders(p)
  BY <1>1, <1>11 DEF Delayed, Holders
<1>13. ASSUME NEW p \in Objs PROVE OwnedOnce(p)'
  <2>1. OwnedOnce(p) /\ OwnedOnce(b) BY <1>4, <1>6
  <2>2. ASSUME p = o PROVE ~Delayed(p) /\ \A x \in Threads : ~Retiring(x, p)'
    BY <1>5, <1>6, <1>11, <2>2 DEF Owned
  <2>3. ASSUME p = b PROVE ~Delayed(p) /\ \A x \in Threads : Retiring(x, p)' => x = t
    BY <1>11, <2>1, <2>3 DEF OwnedOnce
  <2>4. ASSUME p # b PROVE \A x \in Threads : Retiring(x, p)' <=> Retiring(x, p)
    BY <1>11, <2>4
  <2>5. \A x, u \in Threads : Retiring(x, p)' => ~Delayed(p)' /\ (Retiring(u, p)' => u = x)
    <3>1. CASE p = b BY <1>12, <2>3, <3>1
    <3>2. CASE p # b BY <1>12, <2>1, <2>4, <3>2 DEF OwnedOnce
    <3>3. QED BY <3>1, <3>2
  <2>6. board' = p => ~Delayed(p)' /\ \A x \in Threads : ~Retiring(x, p)'
    BY <1>1, <1>12, <2>2
  <2>7. QED BY <1>1, <2>1, <2>5, <2>6 DEF OwnedOnce
<1>14. ASSUME NEW p \in Objs
       PROVE  (rc[p] = (IF Owned(p) THEN 1 ELSE 0) + Cardinality(Holders(p)))'
  <2>1. CASE p = o
    <3>1. Owned(p)' BY <1>1, <2>1 DEF Owned
    <3>2. Cardinality(Holders(p))' = 0 BY <1>5, <1>12, <2>1, HoldersFinite
    <3>3. rc'[p] = 1 BY <1>1, <1>3, <2>1 DEF BoardTypes
    <3>4. QED BY <3>1, <3>2, <3>3
  <2>2. CASE p # o
    <3>1. Owned(p)' <=> Owned(p) BY <1>1, <1>6, <1>11, <1>12, <2>2 DEF Owned
    <3>2. rc'[p] = rc[p] BY <1>1, <1>3, <2>2 DEF BoardTypes
    <3>3. Holders(p)' = Holders(p) BY <1>12
    <3>4. QED BY <1>4, <3>1, <3>2, <3>3
  <2>3. QED BY <2>1, <2>2
<1>15. CountInv' BY <1>13, <1>14 DEF CountInv
<1>16. HandInv'
  BY <1>1, <1>6, <1>7 DEF PeekInv, HandInv
<1>17. ASSUME NEW p \in Objs, Owned(p) PROVE Owned(p)'
  BY <1>1, <1>5, <1>11, <1>12, <1>17 DEF Owned
<1>18. Flushed(t)' = Flushed(t) BY <1>1 DEF Flushed, Rejoining
<1>19. ReadInv' BY <1>1, <1>2, <1>7, <1>17, <1>18, ReadKeeps
<1>20. AwayInv' BY <1>1, <1>2, StaysAway, AwaysKeep DEF PeekInv, Rejoining
<1>21. QED BY <1>8, <1>15, <1>16, <1>19, <1>20 DEF PeekInv

(* A reader reads the board: what is on the board has its count.           *)
LEMMA ReadPeek ==
  ASSUME Inv, Inv', PeekInv, NEW t \in Threads, Read(t)
  PROVE  PeekInv'
<1> DEFINE b == board
<1>1. /\ obj[t] = None /\ pc[t] = "using" /\ pc'[t] = "incref" /\ obj' = [obj EXCEPT ![t] = board]
      /\ UNCHANGED <<global, epoch, ejected, todec, board, rc>> /\ \A x \in Threads \ {t} : pc'[x] = pc[x]
  BY StepMoves DEF Read, EpochsSame
<1>2. Alone(t) BY OthersAlone
<1>3. BoardTypes /\ b \in Objs /\ None \notin Objs
  BY EpochAssumption DEF PeekInv, BoardTypes
<1>4. obj'[t] = b /\ \A x \in Threads \ {t} : obj'[x] = obj[x]
  BY <1>1, <1>3 DEF BoardTypes
<1>5. ~Entering(t)' /\ \A x \in Threads \ {t} : Entering(x)' <=> Entering(x)
  BY <1>1, <1>2 DEF Alone, Entering, EntryPCs
<1>6. ASSUME NEW p \in Objs, NEW x \in Threads
      PROVE  (Retiring(x, p)' <=> Retiring(x, p)) /\ (Holding(x, p)' <=> Holding(x, p))
  <2>1. CASE x = t BY <1>1, <1>3, <1>5, <2>1 DEF Retiring, Holding
  <2>2. CASE x # t BY <1>1, <1>4, <1>5, <2>2 DEF Retiring, Holding
  <2>3. QED BY <2>1, <2>2
<1>7. \A p \in Objs : (Delayed(p)' <=> Delayed(p)) /\ Holders(p)' = Holders(p)
  BY <1>1, <1>6 DEF Delayed, Holders
<1>8. \A p \in Objs : (Owned(p)' <=> Owned(p)) /\ (OwnedOnce(p)' <=> OwnedOnce(p))
  BY <1>1, <1>6, <1>7 DEF Owned, OwnedOnce
<1>9. BoardTypes' BY <1>1, <1>3 DEF BoardTypes
<1>10. ASSUME NEW p \in Objs
       PROVE  (OwnedOnce(p) /\ rc[p] = (IF Owned(p) THEN 1 ELSE 0) + Cardinality(Holders(p)))'
  <2>1. OwnedOnce(p) /\ rc[p] = (IF Owned(p) THEN 1 ELSE 0) + Cardinality(Holders(p))
    BY DEF PeekInv, CountInv
  <2>2. Holders(p)' = Holders(p) BY <1>7
  <2>3. QED BY <1>1, <1>8, <2>1, <2>2
<1>11. CountInv' BY <1>10 DEF CountInv
<1>12. HandInv'
  BY <1>1, <1>2, <1>3, <1>4, <1>5 DEF PeekInv, HandInv, Alone
<1>13. \A u \in Threads : Flushed(u)' = Flushed(u)
  BY <1>1, <1>2 DEF Flushed, Rejoining, Alone
<1>14. ReadInv'
  <2> SUFFICES ASSUME NEW x \in Threads, pc'[x] = "incref"
               PROVE  /\ Owned(obj[x])'
                      /\ \A u \in Threads, i \in Slots : obj'[x] \in todec'[u][i] => epoch'[x] + 2 <= Flushed(u)' + i
    BY DEF ReadInv
  <2>1. CASE x = t
    <3>1. Owned(obj[x])' BY <1>1, <1>4, <2>1 DEF Owned
    <3>2. ~Delayed(b) BY <1>3 DEF PeekInv, CountInv, OwnedOnce
    <3>3. QED BY <1>1, <1>4, <2>1, <3>1, <3>2 DEF Delayed
  <2>2. CASE x # t
    <3>1. pc[x] = "incref" /\ obj'[x] = obj[x] BY <1>1, <1>4, <2>2
    <3>2. PICK p \in Objs : p = obj[x] BY <3>1 DEF PeekInv, HandInv, BoardTypes
    <3>3. /\ Owned(p)
          /\ \A u \in Threads, i \in Slots : p \in todec[u][i] => epoch[x] + 2 <= Flushed(u) + i
      BY <3>1, <3>2 DEF PeekInv, ReadInv
    <3>4. Owned(p)' BY <1>8, <3>3
    <3>5. Owned(obj[x])' BY <3>1, <3>2, <3>4 DEF Owned, Retiring, Delayed
    <3>6. QED BY <1>1, <1>13, <3>1, <3>2, <3>3, <3>5
  <2>3. QED BY <2>1, <2>2
<1>15. AwayInv' BY <1>1, <1>2, StaysAway, AwaysKeep DEF PeekInv, Rejoining
<1>16. QED BY <1>9, <1>11, <1>12, <1>14, <1>15 DEF PeekInv

(* It takes its reference, or drops it: the count follows.                 *)
LEMMA ReferencePeek ==
  ASSUME Inv, Inv', PeekInv, NEW t \in Threads, ReadIncref(t) \/ Drop(t)
  PROVE  PeekInv'
<1> DEFINE takes == pc[t] = "incref"
<1>1. PICK p : p = obj[t] OBVIOUS
<1>2. /\ ReadIncref(t) => /\ pc[t] = "incref" /\ pc'[t] = "used"
                          /\ rc' = [rc EXCEPT ![p] = rc[p] + 1] /\ obj' = obj
      /\ Drop(t) => /\ pc[t] = "idle" /\ pc' = pc /\ p # None
                    /\ rc' = [rc EXCEPT ![p] = rc[p] - 1] /\ obj' = [obj EXCEPT ![t] = None]
      /\ UNCHANGED <<global, epoch, ejected, todec, board>>
  BY <1>1, StepMoves DEF ReadIncref, Drop, EpochsSame
<1>3. Alone(t) BY OthersAlone
<1>4. BoardTypes /\ None \notin Objs
  BY EpochAssumption DEF PeekInv, BoardTypes
<1>5. p \in Objs
  <2>1. p # None BY <1>1, <1>2 DEF PeekInv, HandInv
  <2>2. QED BY <1>1, <1>4, <2>1 DEF BoardTypes
<1>6. \A x \in Threads \ {t} : /\ obj'[x] = obj[x] /\ pc'[x] = pc[x]
                               /\ Entering(x)' <=> Entering(x)
  BY <1>2, <1>3, <1>4 DEF Alone, Entering, BoardTypes
<1>7. ~Entering(t) /\ ~Entering(t)' /\ pc'[t] # "incref"
  BY <1>2 DEF Entering, EntryPCs
<1>8. obj'[t] = IF takes THEN p ELSE None
  BY <1>1, <1>2, <1>4 DEF BoardTypes
<1>9. ASSUME NEW q \in Objs, NEW x \in Threads
      PROVE  /\ Retiring(x, q)' <=> Retiring(x, q)
             /\ x # t \/ q # p => (Holding(x, q)' <=> Holding(x, q))
  <2>1. CASE x = t BY <1>1, <1>4, <1>7, <1>8, <2>1 DEF Retiring, Holding
  <2>2. CASE x # t BY <1>6, <2>2 DEF Retiring, Holding
  <2>3. QED BY <2>1, <2>2
<1>10. \A q \in Objs : (Owned(q)' <=> Owned(q)) /\ (OwnedOnce(q)' <=> OwnedOnce(q))
  BY <1>2, <1>9 DEF Owned, OwnedOnce, Delayed
<1>11. /\ takes => Holders(p)' = Holders(p) \cup {t} /\ t \notin Holders(p)
       /\ ~takes => Holders(p)' = Holders(p) \ {t} /\ t \in Holders(p)
  <2>1. \A x \in Threads \ {t} : Holding(x, p)' <=> Holding(x, p) BY <1>5, <1>9
  <2>2. takes => Holding(t, p)' /\ ~Holding(t, p) BY <1>2, <1>7, <1>8 DEF Holding
  <2>3. ~takes => ~Holding(t, p)' /\ Holding(t, p)
    BY <1>1, <1>2, <1>4, <1>5, <1>7, <1>8 DEF Holding
  <2>4. QED BY <2>1, <2>2, <2>3 DEF Holders
<1>12. ASSUME NEW q \in Objs
       PROVE  (OwnedOnce(q) /\ rc[q] = (IF Owned(q) THEN 1 ELSE 0) + Cardinality(Holders(q)))'
  <2>1. OwnedOnce(q) /\ rc[q] = (IF Owned(q) THEN 1 ELSE 0) + Cardinality(Holders(q))
    BY DEF PeekInv, CountInv
  <2>2. CASE q # p
    <3>1. Holders(q)' = Holders(q) BY <1>9, <2>2 DEF Holders
    <3>2. rc'[q] = rc[q] BY <1>2, <1>4, <2>2 DEF BoardTypes
    <3>3. QED BY <1>10, <2>1, <3>1, <3>2
  <2>3. CASE q = p
    <3>1. PICK n \in Nat : n = Cardinality(Holders(p)) BY HoldersFinite
    <3>2. IsFiniteSet(Holders(p)) BY HoldersFinite
    <3>3. Cardinality(Holders(p))' = IF takes THEN n + 1 ELSE n - 1
      BY <1>11, <3>1, <3>2, FS_AddElement, FS_RemoveElement
    <3>4. rc'[p] = IF takes THEN rc[p] + 1 ELSE rc[p] - 1
      BY <1>2, <1>4, <1>5 DEF BoardTypes
    <3>5. PICK r \in Int : r = rc[p] BY <1>4, <1>5 DEF BoardTypes
    <3>6. QED BY <1>10, <2>1, <2>3, <3>1, <3>3, <3>4, <3>5
  <2>4. QED BY <2>2, <2>3
<1>13. CountInv' BY <1>12 DEF CountInv
<1>14. BoardTypes' BY <1>2, <1>4, <1>5 DEF BoardTypes
<1>15. HandInv'
  BY <1>2, <1>6, <1>7 DEF PeekInv, HandInv
<1>16. Flushed(t)' = Flushed(t)
  <2>1. pc[t] \notin {"publish"} \cup Rejoining /\ pc'[t] \notin {"publish"} \cup Rejoining
    BY <1>2 DEF Rejoining
  <2>2. QED BY <1>2, <2>1 DEF Flushed
<1>17. ReadInv'
  BY <1>2, <1>3, <1>6, <1>7, <1>10, <1>16, ReadKeeps
<1>18. AwayInv' BY <1>2, <1>3, StaysAway, AwaysKeep DEF PeekInv, Rejoining
<1>19. QED BY <1>13, <1>14, <1>15, <1>17, <1>18 DEF PeekInv

(* The writer delays the count of what it took off the board: three        *)
(* flushes away, when every reader of its epoch or the next has gone.      *)
LEMMA DecInEpochPeek ==
  ASSUME Inv, Inv', PeekInv, NEW t \in Threads, DecInEpoch(t)
  PROVE  PeekInv'
<1>1. PICK p : p = obj[t] OBVIOUS
<1>2. /\ p # None /\ pc[t] = "using" /\ pc'[t] = "used" /\ obj' = [obj EXCEPT ![t] = None]
      /\ UNCHANGED <<global, epoch, ejected, board, rc>>
      /\ todec' = [todec EXCEPT ![t][RetireSlot] = todec[t][RetireSlot] \cup {p}]
  BY <1>1, StepMoves DEF DecInEpoch
<1>3. Alone(t) BY OthersAlone
<1>4. BoardTypes /\ None \notin Objs /\ p \in Objs
  BY <1>1, <1>2, EpochAssumption DEF PeekInv, BoardTypes
<1>5. /\ todec' \in [Threads -> [Slots -> SUBSET Objs]]
      /\ \A u \in Threads, i \in Slots :
           todec'[u][i] = IF u = t /\ i = 3 THEN todec[u][i] \cup {p} ELSE todec[u][i]
      /\ \A u \in Threads \ {t} : todec'[u] = todec[u]
  BY <1>2, <1>4 DEF BoardTypes, RetireSlot, Slots
<1>6. obj'[t] = None /\ \A x \in Threads \ {t} : obj'[x] = obj[x]
  BY <1>2, <1>4 DEF BoardTypes
<1>7. Entering(t) /\ ~Entering(t)' /\ \A x \in Threads \ {t} : Entering(x)' <=> Entering(x)
  BY <1>2, <1>3 DEF Alone, Entering, EntryPCs
<1>8. ASSUME NEW q \in Objs, NEW x \in Threads
      PROVE  /\ Retiring(x, q)' <=> Retiring(x, q) /\ x # t
             /\ Holding(x, q)' <=> Holding(x, q)
  <2>1. CASE x = t BY <1>4, <1>6, <1>7, <2>1 DEF Retiring, Holding
  <2>2. CASE x # t BY <1>3, <1>6, <1>7, <2>2 DEF Retiring, Holding, Alone
  <2>3. QED BY <2>1, <2>2
<1>9. Retiring(t, p) BY <1>1, <1>7 DEF Retiring
<1>10. OwnedOnce(p) BY <1>4 DEF PeekInv, CountInv
<1>11. board # p /\ ~Delayed(p) /\ \A x \in Threads : Retiring(x, p) => x = t
  BY <1>9, <1>10 DEF OwnedOnce
<1>12. 3 \in Slots BY DEF Slots
<1>13. Delayed(p)' BY <1>5, <1>12 DEF Delayed
<1>14. ASSUME NEW q \in Objs, q # p
       PROVE  /\ \A u \in Threads, i \in Slots : q \in todec'[u][i] <=> q \in todec[u][i]
              /\ \A x \in Threads : Retiring(x, q)' <=> Retiring(x, q)
  <2>1. ~Retiring(t, q) BY <1>1, <1>14 DEF Retiring
  <2>2. \A x \in Threads : Retiring(x, q)' <=> Retiring(x, q) BY <1>8, <2>1
  <2>3. \A u \in Threads, i \in Slots : q \in todec'[u][i] <=> q \in todec[u][i]
    <3> TAKE u \in Threads, i \in Slots
    <3>1. todec'[u][i] = IF u = t /\ i = 3 THEN todec[u][i] \cup {p} ELSE todec[u][i] BY <1>5
    <3>2. QED BY <1>14, <3>1
  <2>4. QED BY <2>2, <2>3
<1>15. ASSUME NEW q \in Objs PROVE OwnedOnce(q)' /\ (Owned(q)' <=> Owned(q))
  <2>1. CASE q # p
    <3>1. Delayed(q)' <=> Delayed(q) BY <1>14, <2>1 DEF Delayed
    <3>2. OwnedOnce(q) BY DEF PeekInv, CountInv
    <3>3. QED BY <1>2, <1>14, <2>1, <3>1, <3>2 DEF OwnedOnce, Owned
  <2>2. CASE q = p
    <3>1. Owned(p) /\ Owned(p)' BY <1>9, <1>13 DEF Owned
    <3>2. \A x \in Threads : ~Retiring(x, p)' BY <1>4, <1>8, <1>11
    <3>3. \A u \in Threads, i \in Slots : p \in todec'[u][i] => u = t /\ i = 3
      BY <1>5, <1>11 DEF Delayed
    <3>4. board' # p BY <1>2, <1>11
    <3>5. OwnedOnce(p)' BY <3>2, <3>3, <3>4 DEF OwnedOnce
    <3>6. QED BY <2>2, <3>1, <3>5
  <2>3. QED BY <2>1, <2>2
<1>16. ASSUME NEW q \in Objs
       PROVE  (rc[q] = (IF Owned(q) THEN 1 ELSE 0) + Cardinality(Holders(q)))'
  <2>1. rc[q] = (IF Owned(q) THEN 1 ELSE 0) + Cardinality(Holders(q)) BY DEF PeekInv, CountInv
  <2>2. Holders(q)' = Holders(q) BY <1>8 DEF Holders
  <2>3. QED BY <1>2, <1>15, <2>1, <2>2
<1>17. CountInv' BY <1>15, <1>16 DEF CountInv
<1>18. BoardTypes' BY <1>2, <1>4, <1>5 DEF BoardTypes
<1>19. HandInv' BY <1>2, <1>3, <1>6, <1>7 DEF PeekInv, HandInv, Alone
<1>20. AwayInv' BY <1>2, <1>3, StaysAway, AwaysKeep DEF PeekInv, Rejoining
<1>21. \A u \in Threads : Flushed(u)' = Flushed(u)
  BY <1>2, <1>3 DEF Flushed, Rejoining, Alone
<1>22. ReadInv'
  <2> SUFFICES ASSUME NEW x \in Threads, pc'[x] = "incref"
               PROVE  /\ Owned(obj[x])'
                      /\ \A u \in Threads, i \in Slots : obj'[x] \in todec'[u][i] => epoch'[x] + 2 <= Flushed(u)' + i
    BY DEF ReadInv
  <2>1. x # t /\ pc[x] = "incref" /\ obj'[x] = obj[x] /\ epoch'[x] = epoch[x]
    BY <1>2, <1>3, <1>6 DEF Alone
  <2>2. PICK q \in Objs : q = obj[x] BY <2>1 DEF PeekInv, HandInv, BoardTypes
  <2>3. /\ Owned(q)
        /\ \A u \in Threads, i \in Slots : q \in todec[u][i] => epoch[x] + 2 <= Flushed(u) + i
    BY <2>1, <2>2 DEF PeekInv, ReadInv
  <2>4. Owned(q)' BY <1>15, <2>3
  <2>5. Owned(obj[x])' BY <2>1, <2>2, <2>4 DEF Owned, Retiring, Delayed
  <2>6. epoch[x] + 2 <= Flushed(t) + 3
    <3>1. Settled(t) BY <1>2 DEF Inv, EpochInv, Inside, Outside, Settled
    <3>2. epoch[x] <= global /\ global <= epoch[t] + 1 BY <3>1 DEF Inv, EpochInv
    <3>3. epoch[x] \in Nat /\ epoch[t] \in Nat /\ global \in Nat BY DEF Inv, TypeInv
    <3>4. Flushed(t) = epoch[t] BY <1>2 DEF Flushed, Rejoining
    <3>5. QED BY <3>2, <3>3, <3>4
  <2>7. ASSUME NEW u \in Threads, NEW i \in Slots, q \in todec'[u][i]
        PROVE  epoch[x] + 2 <= Flushed(u) + i
    <3>1. CASE u = t /\ i = 3 BY <2>6, <3>1
    <3>2. CASE ~(u = t /\ i = 3) BY <1>5, <2>3, <2>7, <3>2
    <3>3. QED BY <3>1, <3>2
  <2>8. QED BY <1>21, <2>1, <2>2, <2>5, <2>7
<1>23. QED BY <1>17, <1>18, <1>19, <1>20, <1>22 DEF PeekInv

-----------------------------------------------------------------------------
(* Every step keeps the counts and what the readers rely on.               *)
LEMMA PeekStep ==
  ASSUME Inv, Inv', PeekInv, ReturnsLater, [Next]_vars
  PROVE  PeekInv'
<1>1. CASE Next
  <2> SUFFICES ASSUME NEW x \in Threads,
                      \/ Peek(x) \/ Update(x) \/ \E o \in Objs : Put(x, o)
                      \/ UpdateEpoch(x) \/ Acquire(x) \/ BackOff(x) \/ Spin(x) \/ HandOver(x)
                      \/ Check(x) \/ Refresh(x) \/ Publish(x) \/ Rejoin(x) \/ RejoinAgain(x)
                      \/ Announce(x) \/ Rejoined(x) \/ Read(x) \/ ReadIncref(x) \/ DecInEpoch(x)
                      \/ AdvanceIsSensible(x) \/ NotSensible(x) \/ Release(x) \/ Scan(x)
                      \/ ScanInEpoch(x) \/ ScanFails(x) \/ ScanEject(x) \/ Exchange(x)
                      \/ BarrierStep(x) \/ Eject(x) \/ Ejected(x) \/ HeldByOwner(x) \/ Advance(x)
                      \/ Drop(x) \/ Exit(x) \/ OwnerStoreVisible(x)
               PROVE  PeekInv'
    BY <1>1 DEF Next
  <2>1. CASE \/ Peek(x) \/ UpdateEpoch(x) \/ Acquire(x) \/ BackOff(x) \/ Spin(x) \/ HandOver(x)
             \/ NotSensible(x) \/ Release(x)
    BY <2>1, EntryKeeps
  <2>2. CASE \/ AdvanceIsSensible(x) \/ Scan(x) \/ ScanInEpoch(x) \/ ScanFails(x) \/ ScanEject(x)
             \/ Exchange(x) \/ BarrierStep(x) \/ Eject(x) \/ Ejected(x) \/ HeldByOwner(x) \/ Advance(x)
    BY <2>2, ScanningKeeps
  <2>3. CASE Check(x) \/ Refresh(x) \/ Publish(x) \/ Exit(x) \/ OwnerStoreVisible(x)
    BY <2>3, CheckPeek, RefreshPeek, PublishPeek, VisiblePeek
  <2>4. CASE Rejoin(x) \/ RejoinAgain(x) \/ Announce(x) \/ Rejoined(x)
    BY <2>4, RejoiningPeek, RejoinedPeek
  <2>5. CASE Update(x) \/ (\E o \in Objs : Put(x, o)) \/ Read(x) \/ ReadIncref(x) \/ Drop(x) \/ DecInEpoch(x)
    BY <2>5, UpdatePeek, PutPeek, ReadPeek, ReferencePeek, DecInEpochPeek
  <2>6. QED BY <2>1, <2>2, <2>3, <2>4, <2>5
<1>2. CASE UNCHANGED vars
  <2>1. UNCHANGED <<board, obj, rc, todec, pc, local, seen, epoch>>
    BY <1>2 DEF vars
  <2>2. \A x \in Threads : /\ Entering(x)' <=> Entering(x)
                          /\ Flushed(x)' = Flushed(x) /\ (Delaying(x)' <=> Delaying(x))
    BY <2>1 DEF Entering, Flushed, Delaying
  <2>3. BoardTypes' /\ CountInv' /\ \A o \in Objs : Owned(o)' <=> Owned(o)
    BY <2>1, <2>2, CalmCounts DEF PeekInv
  <2>4. HandInv' BY <2>1, <2>2 DEF PeekInv, HandInv
  <2>5. AwayInv' BY <2>1 DEF PeekInv, AwayInv, Away
  <2>6. ReadInv'
    <3>1. \A o : Owned(o)' <=> Owned(o) BY <2>1, <2>2 DEF Owned, Retiring, Delayed
    <3>2. QED BY <2>1, <2>2, <3>1 DEF PeekInv, ReadInv
  <2>7. QED BY <2>3, <2>4, <2>5, <2>6 DEF PeekInv
<1>3. QED BY <1>1, <1>2

(* At first the only count is the board's.                                 *)
LEMMA PeekInit ==
  ASSUME Init
  PROVE  PeekInv
<1>1. /\ global = 0 /\ board = First /\ First \in Objs /\ None \notin Objs
      /\ rc = [o \in Objs |-> IF o = First THEN 1 ELSE 0] /\ obj = [t \in Threads |-> None]
      /\ todec = [t \in Threads |-> <<{}, {}, {}, {}>>]
      /\ \A t \in Threads : pc[t] = "idle" /\ obj[t] = None
  BY EpochAssumption DEF Init
<1>2. \A i \in Slots : i \in 1 .. 4 /\ <<{}, {}, {}, {}>>[i] = {}
  BY DEF Slots
<1>3. \A t \in Threads, i \in Slots : todec[t][i] = {}
  BY <1>1, <1>2
<1>4. BoardTypes
  <2>1. <<{}, {}, {}, {}>> \in [Slots -> SUBSET Objs] BY DEF Slots
  <2>2. QED BY <1>1, <2>1 DEF BoardTypes
<1>5. ASSUME NEW o \in Objs
      PROVE  OwnedOnce(o) /\ rc[o] = (IF Owned(o) THEN 1 ELSE 0) + Cardinality(Holders(o))
  <2>1. \A t \in Threads : ~Retiring(t, o) /\ ~Holding(t, o) BY <1>1 DEF Retiring, Holding
  <2>2. Cardinality(Holders(o)) = 0 BY <2>1, FS_EmptySet DEF Holders
  <2>3. ~Delayed(o) BY <1>3 DEF Delayed
  <2>4. OwnedOnce(o) BY <1>3, <2>1, <2>3 DEF OwnedOnce
  <2>5. Owned(o) <=> o = First BY <1>1, <2>1, <2>3 DEF Owned
  <2>6. QED BY <1>1, <2>2, <2>4, <2>5
<1>6. HandInv BY <1>1 DEF HandInv
<1>7. AwayInv BY <1>1 DEF AwayInv, Away, Rejoining
<1>8. ReadInv BY <1>1 DEF ReadInv
<1>9. CountInv BY <1>5 DEF CountInv
<1>10. QED BY <1>4, <1>6, <1>7, <1>8, <1>9 DEF PeekInv

(* peek's reference is safe (noticeboard.h on epoch.h), whoever updates,   *)
(* advances, ejects and exits: a reader that has read the board but not    *)
(* yet taken its reference finds the object with a count, as long as no    *)
(* thread with delayed decrements comes back to the epoch that it left.    *)
THEOREM PeekSafeHolds == Spec /\ []ReturnsLater => []PeekSafe
<1>1. Init => PeekInv
  BY PeekInit
<1>2. Inv /\ Inv' /\ PeekInv /\ ReturnsLater /\ [Next]_vars => PeekInv'
  BY PeekStep
<1>3. PeekInv => PeekSafe
  <2> SUFFICES ASSUME PeekInv, NEW t \in Threads, pc[t] = "incref" PROVE rc[obj[t]] > 0
    BY DEF PeekSafe
  <2>1. PICK p \in Objs : p = obj[t] BY DEF PeekInv, HandInv, BoardTypes
  <2>2. Owned(p) BY <2>1 DEF PeekInv, ReadInv
  <2>3. PICK n \in Nat : n = Cardinality(Holders(p)) BY HoldersFinite
  <2>4. rc[p] = 1 + n BY <2>2, <2>3 DEF PeekInv, CountInv
  <2>5. QED BY <2>1, <2>4
<1>4. QED BY EpochInvariance, <1>1, <1>2, <1>3, PTL DEF Spec
=============================================================================
