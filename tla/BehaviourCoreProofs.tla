------------------------ MODULE BehaviourCoreProofs ------------------------
(***************************************************************************)
(* IInv is an invariant of BehaviourCore, for every finite set of          *)
(* behaviours and cowns and every footprint; mutual exclusion, the single  *)
(* wake-up, the lifetime of behaviours, the asserts of Slot::release and   *)
(* the happens-before order follow from it.                                *)
(*                                                                         *)
(* One lemma per action: what the action does to each part of IInv.        *)
(* RefInv, about the strong counts of the cowns, follows in the same way.  *)
(***************************************************************************)
EXTENDS BehaviourCoreInv, FiniteSetTheorems, TLAPS

(* A behaviour has finitely many blocked slots, so they can be counted. *)
LEMMA BlockedFinite ==
  ASSUME NEW b \in Behaviours
  PROVE  /\ IsFiniteSet(Blocked(b))
         /\ Cardinality(Blocked(b)) \in Nat
         /\ Cardinality(Blocked(b)) = 0 <=> Blocked(b) = {}
<1>1. IsFiniteSet(Blocked(b))
  <2>1. Blocked(b) \subseteq Cowns
    BY FootprintAssumption DEF Blocked
  <2> QED BY <2>1, FiniteAssumption, FS_Subset
<1> QED BY <1>1, FS_CardinalityType, FS_EmptySet

(* The slot being released is the one that owns its cown. *)
LEMMA ReleasedOwns ==
  ASSUME IInv, NEW b \in Behaviours,
         work[b] \in {"cas", "extended", "load", "sub"}
  PROVE  /\ rel[b] \in Cowns
         /\ rel[b] \in left[b]
         /\ OnChain(b, rel[b])
         /\ pos[b][rel[b]] = served[rel[b]] + 1
<1>1. rel[b] \in left[b] /\ rel[b] \in Footprint[b] /\ rel[b] \in Cowns
  BY FootprintAssumption DEF IInv, WorkInv
<1>2. OnChain(b, rel[b])
  <2>1. scall[b] = "returned"
    BY DEF IInv, CallInv
  <2>2. time[b] \in Nat /\ time[b] # 0
    BY <2>1 DEF IInv, TypeOK, HistoryType, CallInv, InPhase1
  <2> QED BY <1>1, <2>2 DEF IInv, ChainInv
<1>3. rel[b] \in Held(b)
  BY <1>1 DEF Held
<1>4. rel[b] \notin Blocked(b)
  BY DEF IInv, RunInv
<1>5. pos[b][rel[b]] \in Nat /\ served[rel[b]] \in Nat
  BY <1>1 DEF IInv, TypeOK, HistoryType
<1>6. served[rel[b]] < pos[b][rel[b]]
  BY <1>1, <1>2, <1>3 DEF IInv, HeldInv
<1> QED BY <1>1, <1>2, <1>4, <1>5, <1>6 DEF Blocked

(* The successor that is resolved is the next on the chain: it is still    *)
(* blocked there, so it is idle and its count includes this slot.          *)
LEMMA SuccessorBlocked ==
  ASSUME IInv, NEW b \in Behaviours, work[b] \in {"load", "sub"}
  PROVE  /\ Successor(b) \in Behaviours
         /\ Successor(b) # b
         /\ pos[Successor(b)][rel[b]] = served[rel[b]] + 2
         /\ rel[b] \in Blocked(Successor(b))
         /\ work[Successor(b)] = "idle"
         /\ countdown[Successor(b)] \in Nat \ {0}
         /\ countdown[Successor(b)] = 1 =>
              /\ scall[Successor(b)] = "returned"
              /\ Blocked(Successor(b)) = {rel[b]}
<1> DEFINE o == Successor(b)
           c == rel[b]
<1>1. o \in Behaviours
  BY DEF IInv, WorkInv
<1>2. c \in Cowns /\ OnChain(b, c) /\ pos[b][c] = served[c] + 1
  BY ReleasedOwns
<1>3. pos[o][c] = served[c] + 2
  BY <1>1, <1>2 DEF IInv, TypeOK, HistoryType, NextInv, Successor
<1>4. o # b
  BY <1>1, <1>2, <1>3 DEF IInv, TypeOK, HistoryType
<1>5. c \in Blocked(o)
  BY <1>1, <1>2, <1>3 DEF IInv, TypeOK, HistoryType, ChainInv, Blocked, OnChain
<1>6. work[o] = "idle"
  BY <1>1, <1>5 DEF IInv, RunInv
<1>7. /\ IsFiniteSet(Blocked(o))
      /\ Cardinality(Blocked(o)) \in Nat
      /\ Cardinality(Blocked(o)) # 0
  BY <1>1, <1>5, BlockedFinite
<1>8. /\ countdown[o] \in Nat
      /\ countdown[o] = Cardinality(Blocked(o))
                        + IF scall[o] = "returned" THEN 0 ELSE ec[o]
      /\ ec[o] \in Nat /\ ec[o] >= 1
  BY <1>1, <1>6 DEF IInv, TypeOK, CallType, CountType, CallInv, CountInv
<1>9. countdown[o] # 0
  BY <1>7, <1>8
<1>10. ASSUME countdown[o] = 1
       PROVE  scall[o] = "returned" /\ Blocked(o) = {c}
  <2>1. scall[o] = "returned" /\ Cardinality(Blocked(o)) = 1
    BY <1>7, <1>8, <1>10
  <2>2. /\ Cardinality(Blocked(o) \ {c}) = Cardinality(Blocked(o)) - 1
        /\ IsFiniteSet(Blocked(o) \ {c})
    BY <1>5, <1>7, FS_RemoveElement
  <2>3. Cardinality(Blocked(o) \ {c}) = 0
    BY <2>1, <2>2
  <2>4. Blocked(o) \ {c} = {}
    BY <2>2, <2>3, FS_EmptySet
  <2> QED BY <2>1, <2>4, <1>5
<1> QED BY <1>1, <1>3, <1>4, <1>5, <1>6, <1>8, <1>9, <1>10

(* A grant of the slot after place served[c] + 1 unblocks that slot alone. *)
LEMMA GrantUnblocks ==
  ASSUME IInv, NEW b \in Behaviours, work[b] \in {"load", "sub"},
         NEW o \in Behaviours, o = Successor(b),
         served' = [served EXCEPT ![rel[b]] = @ + 1], UNCHANGED pos
  PROVE  /\ Blocked(o)' = Blocked(o) \ {rel[b]}
         /\ \A x \in Behaviours : x # o => Blocked(x)' = Blocked(x)
         /\ Cardinality(Blocked(o)') = Cardinality(Blocked(o)) - 1
<1> DEFINE c == rel[b]
<1>0. served' = [served EXCEPT ![c] = @ + 1] /\ UNCHANGED pos
  OBVIOUS
<1>1. /\ o \in Behaviours /\ c \in Cowns
      /\ pos[o][c] = served[c] + 2 /\ c \in Blocked(o)
  BY SuccessorBlocked, ReleasedOwns
<1>2. \A x \in Behaviours, d \in Cowns :
        pos[x][d] \in Nat /\ served[d] \in Nat
  BY DEF IInv, TypeOK, HistoryType
<1>3. \A x \in Behaviours : pos[x][c] = pos[o][c] => x = o
  BY <1>1, <1>2 DEF IInv, PlaceInv, OnChain
<1> HIDE DEF c
<1>4. ASSUME NEW x \in Behaviours, NEW d \in Footprint[x]
      PROVE  d \in Blocked(x)' <=> d \in Blocked(x) /\ ~(x = o /\ d = c)
  <2>1. d \in Cowns
    BY FootprintAssumption
  <2>2. CASE d # c
    <3>1. served'[d] = served[d]
      BY <1>0, <2>1, <2>2 DEF IInv, TypeOK, HistoryType
    <3> QED BY <1>0, <3>1, <2>2 DEF Blocked
  <2>3. CASE d = c
    <3>1. served'[d] = served[d] + 1
      BY <1>0, <1>1, <2>1, <2>3 DEF IInv, TypeOK, HistoryType
    <3> QED BY <1>0, <3>1, <2>3, <1>1, <1>2, <1>3 DEF Blocked
  <2> QED BY <2>2, <2>3
<1>5. \A x \in Behaviours :
        Blocked(x) \subseteq Footprint[x] /\ Blocked(x)' \subseteq Footprint[x]
  BY DEF Blocked
<1>6. Blocked(o)' = Blocked(o) \ {c}
  BY <1>1, <1>4, <1>5
<1>7. \A x \in Behaviours : x # o => Blocked(x)' = Blocked(x)
  BY <1>4, <1>5
<1>8. Cardinality(Blocked(o) \ {c}) = Cardinality(Blocked(o)) - 1
  BY <1>1, BlockedFinite, FS_RemoveElement
<1> QED BY <1>6, <1>7, <1>8 DEF c

(* Nothing is on a chain at first: every slot is blocked, and the count is *)
(* the constructor's.                                                      *)
LEMMA InitHolds == Init => IInv
<1> SUFFICES ASSUME Init PROVE IInv
  OBVIOUS
<1> USE FootprintAssumption, StatusAssumption DEF Init
<1>1. \A b \in Behaviours : /\ IsFiniteSet(Footprint[b])
                            /\ Cardinality(Footprint[b]) \in Nat
                            /\ Blocked(b) = Footprint[b]
  BY FiniteAssumption, FS_Subset, FS_CardinalityType DEF Blocked
<1>2. \A c \in Cowns :
        Cardinality({b \in Behaviours : c \in Footprint[b]}) \in Nat
  BY FiniteAssumption, FS_Subset, FS_CardinalityType
<1>3. TypeOK
  BY <1>1, <1>2 DEF TypeOK, CallType, WorkType, SlotType, CountType, RefType,
                    HistoryType, InitialCount, CallStates, WorkStates
<1>4. CallInv /\ WorkInv /\ StatusInv
  BY DEF CallInv, WorkInv, StatusInv, InPhase1
<1>5. ChainInv /\ PlaceInv /\ TailInv /\ TimeInv /\ AheadInv
  BY DEF ChainInv, PlaceInv, TailInv, TimeInv, AheadInv, OnChain
<1>6. PrevInv /\ NextInv /\ HeldInv /\ RunInv
  BY DEF PrevInv, NextInv, HeldInv, RunInv, OnChain
<1>7. CountInv
  BY <1>1 DEF CountInv, InitialCount
<1> QED BY <1>3, <1>4, <1>5, <1>6, <1>7 DEF IInv

(* Exchange puts b at the end of c's chain, and nobody else moves. *)
LEMMA ExchangeKeeps ==
  ASSUME IInv, NEW b \in Behaviours, NEW c \in Cowns, Exchange(b, c)
  PROVE  IInv'
<1> USE DEF IInv, TypeOK
<1>1. /\ c \in todo[b] /\ c \in Footprint[b]
      /\ scall[b] = "exchange" /\ time[b] = 0 /\ pos[b][c] = 0
  BY SMTT(30) DEF Exchange, IsNext, CallInv, ChainInv, HistoryType, OnChain, InPhase1
<1>2. /\ joined[c] \in Nat /\ served[c] \in Nat
      /\ ec[b] \in Nat /\ served[c] <= joined[c]
      /\ lastSlot[c] \in Behaviours \cup {NoSlot}
  BY DEF HistoryType, SlotType, CallType, TailInv
<1>3. \A x \in Behaviours, d \in Cowns :
        /\ pos'[x][d] = IF x = b /\ d = c THEN joined[c] + 1 ELSE pos[x][d]
        /\ joined'[d] = IF d = c THEN joined[c] + 1 ELSE joined[d]
        /\ lastSlot'[d] = IF d = c THEN b ELSE lastSlot[d]
        /\ at'[x] = IF x = b THEN c ELSE at[x]
        /\ prev'[x] = IF x = b THEN lastSlot[c] ELSE prev[x]
        /\ scall'[x] = IF x # b THEN scall[x]
                       ELSE IF lastSlot[c] = NoSlot THEN "acquire" ELSE "spin"
        /\ ec'[x] = IF x = b /\ lastSlot[c] = NoSlot THEN ec[b] + 1 ELSE ec[x]
  BY DEF Exchange, HistoryType, SlotType, CallType
<1>4. UNCHANGED <<todo, work, left, rel, countdown, status, rc, callerRef,
                  served, time, spawned, wakes>>
  BY DEF Exchange, workVars, refVars
(* The slot found on a chain that is not empty. *)
<1>5. ASSUME lastSlot[c] # NoSlot
      PROVE  /\ lastSlot[c] \in Behaviours /\ lastSlot[c] # b
             /\ pos[lastSlot[c]][c] = joined[c] /\ served[c] < joined[c]
             /\ c \in Held(lastSlot[c])
             /\ status[lastSlot[c]][c] \notin Behaviours
  <2>1. /\ lastSlot[c] \in Behaviours
        /\ pos[lastSlot[c]][c] = joined[c] /\ served[c] < joined[c]
    BY <1>2, <1>5 DEF TailInv
  <2>2. lastSlot[c] # b /\ OnChain(lastSlot[c], c)
    BY <1>1, <1>2, <2>1 DEF OnChain
  <2>3. c \in Held(lastSlot[c])
    BY <2>1, <2>2 DEF HeldInv
  <2>4. status[lastSlot[c]][c] \notin Behaviours
    BY <1>2, <2>1, <2>2 DEF NextInv, PlaceInv
  <2> QED BY <2>1, <2>2, <2>3, <2>4
<1>6. TypeOK'
  <2>1. CallType'
    BY <1>2 DEF Exchange, CallType, CallStates
  <2>2. SlotType' /\ HistoryType'
    BY <1>2, <1>4 DEF Exchange, SlotType, HistoryType
  <2>3. WorkType' /\ CountType' /\ RefType'
    BY <1>4 DEF WorkType, CountType, RefType
  <2> QED BY <2>1, <2>2, <2>3
<1>7. CallInv'
  BY <1>1, <1>2, <1>3, <1>4 DEF CallInv, CallType, InPhase1
<1>8. WorkInv'
  <2>1. work[b] = "idle"
    BY <1>1 DEF CallInv
  <2>2. \A x \in Behaviours : work[x] = "extended" => rel[x] \in Cowns
    BY DEF WorkInv, WorkType
  <2> QED BY <1>3, <1>4, <2>1, <2>2 DEF WorkInv, Successor
<1>9. StatusInv'
  BY <1>1, <1>3, <1>4 DEF StatusInv
<1>10. ChainInv'
  BY <1>1, <1>2, <1>3, <1>4 DEF ChainInv, CallInv, OnChain, InPhase1
<1>11. PlaceInv'
  BY <1>2, <1>3 DEF PlaceInv, OnChain, HistoryType
<1>12. TailInv'
  <2>1. b # NoSlot
    BY StatusAssumption
  <2> QED BY <1>2, <1>3, <1>4, <2>1, SMTT(30) DEF TailInv, HistoryType, SlotType
<1>13. PrevInv'
  <2> SUFFICES ASSUME NEW x \in Behaviours, scall'[x] \in {"spin", "link"}
               PROVE  /\ prev'[x] \in Behaviours
                      /\ pos'[x][at'[x]] = pos'[prev'[x]][at'[x]] + 1
                      /\ pos'[prev'[x]][at'[x]] > 0
                      /\ at'[x] \in Held(prev'[x])
                      /\ status[prev'[x]][at'[x]] \notin Behaviours
                      /\ scall'[x] = "link" => status[prev'[x]][at'[x]] # Wait
    BY <1>4 DEF PrevInv, OnChain, Held
  <2>1. CASE x = b
    BY <1>1, <1>2, <1>3, <1>5, <2>1
  <2>2. CASE x # b
    <3>1. scall[x] \in {"spin", "link"} /\ at[x] \in Cowns
      BY <1>3, <2>2 DEF CallInv, CallType
    <3> QED BY <1>1, <1>3, <2>2, <3>1 DEF PrevInv, OnChain
  <2> QED BY <2>1, <2>2
<1>14. NextInv'
  BY <1>1, <1>2, <1>3, <1>4 DEF NextInv, OnChain, HistoryType
<1>15. HeldInv'
  <2>1. c \in Held(b)
    BY <1>1 DEF CallInv, WorkInv, Held
  <2> QED BY <1>1, <1>2, <1>3, <1>4, <2>1 DEF HeldInv, OnChain, Held
(* On an empty chain b's slot is not blocked, otherwise nothing changes.   *)
<1>16. /\ \A x \in Behaviours \ {b} : Blocked(x)' = Blocked(x)
       /\ Blocked(b)' = IF lastSlot[c] = NoSlot THEN Blocked(b) \ {c}
                                                ELSE Blocked(b)
       /\ c \in Blocked(b)
  <2>1. \A x \in Behaviours : \A d \in Footprint[x] :
          d \in Blocked(x)' <=>
            d \in Blocked(x) /\ ~(x = b /\ d = c /\ lastSlot[c] = NoSlot)
    <3>1. ASSUME lastSlot[c] = NoSlot PROVE served[c] = joined[c]
      BY <3>1 DEF TailInv
    <3> QED BY <1>1, <1>2, <1>3, <1>4, <1>5, <3>1, FootprintAssumption
            DEF Blocked
  <2> QED BY <1>1, <2>1 DEF Blocked
<1>17. RunInv'
  BY <1>1, <1>4, <1>16 DEF RunInv, CallInv
<1>18. CountInv'
  <2>1. Cardinality(Blocked(b) \ {c}) = Cardinality(Blocked(b)) - 1
    BY <1>16, BlockedFinite, FS_RemoveElement
  <2>2. Cardinality(Blocked(b)) \in Nat
    BY BlockedFinite
  <2>3. CASE lastSlot[c] = NoSlot
    <3>1. countdown[b] = Cardinality(Blocked(b)) + ec[b]
      BY <1>1 DEF CallInv, CountInv
    <3>2. /\ countdown'[b] = Cardinality(Blocked(b)') + ec'[b]
          /\ scall'[b] # "returned"
      BY <1>2, <1>3, <1>4, <1>16, <2>1, <2>2, <2>3, <3>1
    <3>3. ASSUME NEW x \in Behaviours, x # b
          PROVE  /\ scall'[x] = scall[x] /\ ec'[x] = ec[x]
                 /\ Blocked(x)' = Blocked(x)
      BY <1>3, <1>16, <3>3
    <3> QED BY <1>4, <3>2, <3>3 DEF CountInv
  <2>4. CASE lastSlot[c] # NoSlot
    BY <1>1, <1>2, <1>3, <1>4, <1>16, <2>4 DEF CountInv
  <2> QED BY <2>3, <2>4
<1>19. TimeInv'
  BY <1>1, <1>2, <1>3, <1>4 DEF TimeInv, PlaceInv, OnChain, HistoryType
<1>20. AheadInv'
  <2>1. \A x \in Behaviours :
          lastSlot[c] = NoSlot /\ OnChain(x, c) => time[x] > 0
    <3> SUFFICES ASSUME NEW x \in Behaviours, lastSlot[c] = NoSlot, OnChain(x, c)
                 PROVE  time[x] > 0
      OBVIOUS
    <3>1. c \in Footprint[x] /\ c \notin Held(x)
      BY <1>2 DEF ChainInv, HeldInv, PlaceInv, TailInv, HistoryType
    <3>2. work[x] # "idle"
      BY <3>1 DEF WorkInv, Held
    <3>3. scall[x] = "returned"
      BY <3>2 DEF CallInv
    <3>4. time[x] # 0 /\ time[x] \in Nat
      BY <3>3 DEF CallInv, InPhase1, HistoryType
    <3> QED BY <3>4
  <2> SUFFICES ASSUME NEW x \in Behaviours, NEW o \in Behaviours, NEW d \in Cowns,
                      pos'[x][d] > 0, pos'[x][d] < pos'[o][d], time[o] = 0,
                      \/ d \notin todo[o]
                      \/ scall'[o] \in {"acquire", "link"} /\ d = at'[o]
               PROVE  time[x] > 0
    BY <1>4 DEF AheadInv, OnChain
  <2>2. CASE o = b /\ d = c
    <3>1. lastSlot[c] = NoSlot
      BY <1>1, <1>3, <2>2
    <3>2. x # b /\ pos'[x][c] = pos[x][c]
      BY <1>2, <1>3, <2>2
    <3> QED BY <2>1, <2>2, <3>1, <3>2 DEF OnChain
  <2>3. CASE o # b \/ d # c
    <3>1. ~(x = b /\ d = c)
      BY <1>2, <1>3, <2>3 DEF PlaceInv, HistoryType
    <3>2. o = b => d \notin todo[o]
      BY <1>3, <2>3
    <3> QED BY <1>3, <2>3, <3>1, <3>2 DEF AheadInv, OnChain
  <2> QED BY <2>2, <2>3
<1> QED BY <1>6, <1>7, <1>8, <1>9, <1>10, <1>11, <1>12, <1>13, <1>14, <1>15,
           <1>17, <1>18, <1>19, <1>20

(* One turn of phase 1 ends: what Acquired does, value by value. *)
LEMMA AcquiredUpdates ==
  ASSUME IInv, NEW b \in Behaviours, scall[b] \in {"acquire", "link"},
         Acquired(b, at[b]), UNCHANGED <<at, ec>>
  PROVE  /\ at[b] \in Footprint[b] /\ at[b] \in Cowns /\ at[b] \in todo[b]
         /\ time[b] = 0 /\ spawned \in Nat /\ todo[b] \subseteq Footprint[b]
         /\ work[b] = "idle"
         /\ \A x \in Behaviours \ {b} :
              /\ scall'[x] = scall[x] /\ todo'[x] = todo[x]
              /\ time'[x] = time[x] /\ prev'[x] = prev[x]
         /\ todo[b] = {at[b]} =>
              /\ scall'[b] = "ready" /\ todo'[b] = Footprint[b]
              /\ time'[b] = spawned + 1 /\ spawned' = spawned + 1
         /\ todo[b] # {at[b]} =>
              /\ scall'[b] = "exchange" /\ todo'[b] = todo[b] \ {at[b]}
              /\ time'[b] = 0 /\ spawned' = spawned
         /\ CallType'
         /\ time' \in [Behaviours -> Nat] /\ spawned' \in Nat
<1> USE DEF IInv, TypeOK
<1>1. /\ at[b] \in todo[b] /\ time[b] = 0 /\ todo[b] \subseteq Footprint[b]
      /\ work[b] = "idle"
  BY DEF CallInv, InPhase1
<1>2. Footprint[b] \in SUBSET Cowns
  BY FootprintAssumption
<1>3. at[b] \in Footprint[b] /\ at[b] \in Cowns
  BY <1>1, <1>2
<1>4. /\ scall \in [Behaviours -> CallStates] /\ todo \in [Behaviours -> SUBSET Cowns]
      /\ prev \in [Behaviours -> Behaviours \cup {NoSlot}]
      /\ time \in [Behaviours -> Nat] /\ spawned \in Nat
  BY DEF CallType, HistoryType
<1> HIDE DEF IInv, TypeOK
<1>5. CASE todo[b] = {at[b]}
  <2>1. /\ scall' = [scall EXCEPT ![b] = "ready"]
        /\ todo' = [todo EXCEPT ![b] = Footprint[b]]
        /\ spawned' = spawned + 1
        /\ time' = [time EXCEPT ![b] = spawned + 1]
        /\ prev' = [prev EXCEPT ![b] = NoSlot]
    BY <1>5 DEF Acquired
  <2>2. CallType'
    BY <1>2, <1>4, <2>1 DEF CallType, CallStates, IInv, TypeOK
  <2> QED BY <1>1, <1>3, <1>4, <1>5, <2>1, <2>2
<1>6. CASE todo[b] # {at[b]}
  <2>1. /\ scall' = [scall EXCEPT ![b] = "exchange"]
        /\ todo' = [todo EXCEPT ![b] = @ \ {at[b]}]
        /\ spawned' = spawned /\ time' = time
        /\ prev' = [prev EXCEPT ![b] = NoSlot]
    BY <1>6 DEF Acquired
  <2>2. CallType'
    BY <1>2, <1>4, <2>1 DEF CallType, CallStates, IInv, TypeOK
  <2> QED BY <1>1, <1>3, <1>4, <1>6, <2>1, <2>2
<1> QED BY <1>5, <1>6

(* The last turn stamps b with the next time: all that are ahead of b on a *)
(* chain were stamped before.                                              *)
LEMMA AcquiredOrder ==
  ASSUME IInv, NEW b \in Behaviours, scall[b] \in {"acquire", "link"},
         Acquired(b, at[b]),
         UNCHANGED <<at, ec, pos, work, wakes, left, rel>>
  PROVE  CallInv' /\ ChainInv' /\ TimeInv' /\ AheadInv'
<1> DEFINE c == at[b]
           last == todo[b] = {c}
<1>1. /\ c \in Footprint[b] /\ c \in Cowns /\ c \in todo[b]
      /\ time[b] = 0 /\ spawned \in Nat /\ todo[b] \subseteq Footprint[b]
      /\ work[b] = "idle"
  BY AcquiredUpdates
<1>2. \A x \in Behaviours \ {b} :
        /\ scall'[x] = scall[x] /\ todo'[x] = todo[x]
        /\ time'[x] = time[x] /\ prev'[x] = prev[x]
  BY AcquiredUpdates
<1>3. last => /\ scall'[b] = "ready" /\ todo'[b] = Footprint[b]
              /\ time'[b] = spawned + 1 /\ spawned' = spawned + 1
  BY AcquiredUpdates
<1>4. ~last => /\ scall'[b] = "exchange" /\ todo'[b] = todo[b] \ {c}
               /\ time'[b] = 0 /\ spawned' = spawned
  BY AcquiredUpdates
<1>5. /\ \A x \in Behaviours : time[x] \in Nat
      /\ \A x \in Behaviours, d \in Cowns : pos[x][d] \in Nat
      /\ \A x \in Behaviours : ec[x] \in Nat
  BY DEF IInv, TypeOK, HistoryType, CallType
<1> USE DEF IInv
<1> HIDE DEF c, last
<1>6. at[b] = c /\ (last <=> todo[b] = {c})
  BY DEF c, last
<1>7. CallInv'
  <2>1. CASE last
    BY <1>1, <1>2, <1>3, <1>5, <1>6, <2>1 DEF CallInv, InPhase1
  <2>2. CASE ~last
    BY <1>1, <1>2, <1>4, <1>5, <1>6, <2>2 DEF CallInv, InPhase1
  <2> QED BY <2>1, <2>2
<1>8. \A x \in Behaviours, o \in Behaviours, d \in Cowns :
        pos[x][d] < pos[o][d] => x # o
  BY <1>5
<1>9. \A d \in Cowns :
        OnChain(b, d) <=> d \in Footprint[b] /\ (d \notin todo[b] \/ d = c)
  BY <1>1, <1>6 DEF ChainInv
<1>10. ChainInv'
  <2> SUFFICES ASSUME NEW x \in Behaviours, NEW d \in Cowns
               PROVE  OnChain(x, d) <=>
                        /\ d \in Footprint[x]
                        /\ \/ time'[x] > 0
                           \/ d \notin todo'[x]
                           \/ scall'[x] \in {"acquire", "spin", "link"} /\ d = at[x]
    BY DEF ChainInv, OnChain
  <2>1. CASE x # b
    BY <1>2, <2>1 DEF ChainInv
  <2>2. CASE x = b /\ last
    BY <1>1, <1>3, <1>6, <1>9, <2>2
  <2>3. CASE x = b /\ ~last
    BY <1>1, <1>4, <1>6, <1>9, <2>3
  <2> QED BY <2>1, <2>2, <2>3
(* Everyone ahead of b on a chain that b has joined has finished phase 1.  *)
<1>11. \A x \in Behaviours, d \in Cowns :
         /\ OnChain(x, d) /\ pos[x][d] < pos[b][d]
         /\ d \notin todo[b] \/ d = c
         => time[x] > 0 /\ x # b
  BY <1>1, <1>6, <1>8 DEF AheadInv
<1>12. TimeInv'
  <2> SUFFICES ASSUME NEW x \in Behaviours, NEW o \in Behaviours, NEW d \in Cowns,
                      OnChain(x, d), pos[x][d] < pos[o][d], time'[o] > 0
               PROVE  0 < time'[x] /\ time'[x] < time'[o]
    BY DEF TimeInv, OnChain
  <2>1. CASE o = b
    <3>1. last
      BY <1>4, <2>1
    <3>2. OnChain(b, d)
      BY <1>5, <2>1 DEF OnChain
    <3>3. time[x] > 0 /\ x # b
      BY <1>9, <1>11, <2>1, <3>2
    <3>4. time[x] <= spawned
      BY DEF CallInv
    <3> QED BY <1>1, <1>2, <1>3, <1>5, <2>1, <3>1, <3>3, <3>4
  <2>2. CASE o # b
    <3>1. time[o] > 0
      BY <1>2, <2>2
    <3>2. 0 < time[x] /\ time[x] < time[o]
      BY <3>1 DEF TimeInv
    <3>3. x # b
      BY <1>1, <3>2
    <3> QED BY <1>2, <2>2, <3>2, <3>3
  <2> QED BY <2>1, <2>2
<1>13. AheadInv'
  <2> SUFFICES ASSUME NEW x \in Behaviours, NEW o \in Behaviours, NEW d \in Cowns,
                      OnChain(x, d), pos[x][d] < pos[o][d], time'[o] = 0,
                      \/ d \notin todo'[o]
                      \/ scall'[o] \in {"acquire", "link"} /\ d = at[o]
               PROVE  time'[x] > 0
    BY DEF AheadInv, OnChain
  <2>1. CASE o = b
    <3>1. ~last
      BY <1>1, <1>3, <2>1
    <3>2. d \notin todo[b] \/ d = c
      BY <1>4, <1>6, <2>1, <3>1
    <3>3. time[x] > 0 /\ x # b
      BY <1>11, <2>1, <3>2
    <3> QED BY <1>2, <3>3
  <2>2. CASE o # b
    <3>1. time[x] > 0
      BY <1>2, <2>2 DEF AheadInv
    <3> QED BY <1>1, <1>2, <3>1
  <2> QED BY <2>1, <2>2
<1> QED BY <1>7, <1>10, <1>12, <1>13

(* A granted slot takes its count; the turn of phase 1 ends. *)
LEMMA AcquireCownKeeps ==
  ASSUME IInv, NEW b \in Behaviours, AcquireCown(b)
  PROVE  IInv'
<1>1. /\ scall[b] = "acquire" /\ Acquired(b, at[b]) /\ CountChain(b)
      /\ UNCHANGED <<at, ec, work, left, rel, countdown, status, lastSlot,
                     pos, joined, served, wakes>>
  BY DEF AcquireCown, workVars, slotVars
<1>2. CallInv' /\ ChainInv' /\ TimeInv' /\ AheadInv'
  BY <1>1, AcquiredOrder
<1>3. /\ at[b] \in Footprint[b] /\ at[b] \in Cowns /\ at[b] \in todo[b]
      /\ time[b] = 0 /\ spawned \in Nat /\ todo[b] \subseteq Footprint[b]
      /\ CallType' /\ time' \in [Behaviours -> Nat] /\ spawned' \in Nat
  BY <1>1, AcquiredUpdates
<1>4. \A x \in Behaviours \ {b} :
        /\ scall'[x] = scall[x] /\ todo'[x] = todo[x]
        /\ time'[x] = time[x] /\ prev'[x] = prev[x]
  BY <1>1, AcquiredUpdates
<1>5. \/ /\ scall'[b] = "ready" /\ todo'[b] = Footprint[b]
         /\ time'[b] > 0
      \/ /\ scall'[b] = "exchange" /\ todo'[b] = todo[b] \ {at[b]}
         /\ time'[b] = 0
  BY <1>1, <1>3, AcquiredUpdates
<1> USE DEF IInv
<1>6. TypeOK'
  <2>1. WorkType' /\ SlotType' /\ CountType'
    BY <1>1 DEF TypeOK, WorkType, SlotType, CountType
  <2>2. RefType'
    BY <1>1, <1>3 DEF TypeOK, RefType, CountChain
  <2>3. HistoryType'
    BY <1>1, <1>3 DEF TypeOK, HistoryType
  <2> QED BY <1>3, <2>1, <2>2, <2>3 DEF TypeOK
<1>7. WorkInv' /\ PlaceInv' /\ TailInv' /\ NextInv' /\ HeldInv' /\ RunInv'
  BY <1>1 DEF WorkInv, PlaceInv, TailInv, NextInv, HeldInv, RunInv, Successor,
              OnChain, Held, Blocked
<1>8. StatusInv'
  BY <1>1, <1>3, <1>4, <1>5 DEF StatusInv
<1>9. PrevInv'
  BY <1>1, <1>4, <1>5 DEF PrevInv, OnChain, Held
<1>10. CountInv'
  <2>1. \A x \in Behaviours : Blocked(x)' = Blocked(x)
    BY <1>1 DEF Blocked
  <2> QED BY <1>1, <1>4, <1>5, <2>1 DEF CountInv
<1> QED BY <1>2, <1>6, <1>7, <1>8, <1>9, <1>10

(* The spin ended: the slot in front was marked in phase 2, so all ahead   *)
(* of b on this chain have finished phase 1.                               *)
LEMMA AwaitPrevKeeps ==
  ASSUME IInv, NEW b \in Behaviours, AwaitPrev(b)
  PROVE  IInv'
<1>1. /\ scall[b] = "spin" /\ status[prev[b]][at[b]] # Wait
      /\ UNCHANGED <<todo, at, prev, ec, work, left, rel, countdown, status,
                     lastSlot, pos, joined, served, time, spawned, wakes>>
  BY DEF AwaitPrev, PrevReady, workVars, slotVars, history
<1> USE DEF IInv
<1>2. scall' = [scall EXCEPT ![b] = "link"] /\ scall \in [Behaviours -> CallStates]
  BY DEF AwaitPrev, TypeOK, CallType
<1>3. scall'[b] = "link" /\ \A x \in Behaviours \ {b} : scall'[x] = scall[x]
  BY <1>2
<1>4. TypeOK'
  <2>1. scall' \in [Behaviours -> CallStates]
    BY <1>2 DEF CallStates
  <2>2. at[b] \in Cowns
    BY <1>1 DEF TypeOK, CallType, CallInv
  <2>3. RefType'
    BY <2>2 DEF AwaitPrev, DropSurplus, refVars, TypeOK, RefType
  <2> QED BY <1>1, <2>1, <2>3
          DEF TypeOK, CallType, WorkType, SlotType, CountType, HistoryType
<1>5. CallInv' /\ WorkInv' /\ StatusInv' /\ ChainInv'
  BY <1>1, <1>3
     DEF CallInv, WorkInv, StatusInv, ChainInv, Successor, OnChain, InPhase1
<1>6. PlaceInv' /\ TailInv' /\ NextInv' /\ TimeInv' /\ HeldInv' /\ RunInv'
  BY <1>1 DEF PlaceInv, TailInv, NextInv, TimeInv, HeldInv, RunInv, OnChain, Held,
              Blocked
<1>7. PrevInv'
  BY <1>1, <1>3 DEF PrevInv, OnChain, Held
<1>8. CountInv'
  <2>1. \A x \in Behaviours : Blocked(x)' = Blocked(x)
    BY <1>1 DEF Blocked
  <2> QED BY <1>1, <1>3, <2>1 DEF CountInv
(* The slot in front is marked, so its behaviour has finished phase 1.     *)
<1>9. AheadInv'
  <2>1. /\ prev[b] \in Behaviours /\ at[b] \in Cowns /\ OnChain(prev[b], at[b])
        /\ pos[b][at[b]] = pos[prev[b]][at[b]] + 1
    BY <1>1 DEF PrevInv, CallInv, TypeOK, CallType
  <2>2. /\ time[prev[b]] # 0 /\ time[prev[b]] \in Nat
        /\ \A x \in Behaviours, d \in Cowns : pos[x][d] \in Nat
    BY <1>1, <2>1 DEF StatusInv, TypeOK, HistoryType
  <2>3. \A x \in Behaviours :
          OnChain(x, at[b]) /\ pos[x][at[b]] < pos[b][at[b]] => time[x] > 0
    <3> SUFFICES ASSUME NEW x \in Behaviours, OnChain(x, at[b]),
                        pos[x][at[b]] < pos[b][at[b]]
                 PROVE  time[x] > 0
      OBVIOUS
    <3>1. CASE x = prev[b]
      BY <2>2, <3>1
    <3>2. CASE x # prev[b]
      <4>1. pos[x][at[b]] < pos[prev[b]][at[b]]
        BY <2>1, <2>2, <3>2 DEF PlaceInv
      <4> QED BY <2>1, <2>2, <4>1 DEF TimeInv
    <3> QED BY <3>1, <3>2
  <2> QED BY <1>1, <1>3, <2>3 DEF AheadInv, OnChain
<1> QED BY <1>4, <1>5, <1>6, <1>7, <1>8, <1>9

(* The predecessor's slot gets its successor: it was past Wait and had     *)
(* none, and no other call waits on it.                                    *)
LEMMA LinkKeeps ==
  ASSUME IInv, NEW b \in Behaviours, Link(b)
  PROVE  IInv'
<1> DEFINE c == at[b]
           p == prev[b]
<1>1. /\ scall[b] = "link" /\ Acquired(b, at[b])
      /\ status' = [status EXCEPT ![p][c] = b]
      /\ UNCHANGED <<at, ec, work, left, rel, countdown, lastSlot, rc, callerRef,
                     pos, joined, served, wakes>>
  BY DEF Link, workVars, refVars
<1>2. CallInv' /\ ChainInv' /\ TimeInv' /\ AheadInv'
  BY <1>1, AcquiredOrder
<1>3. /\ c \in Footprint[b] /\ c \in Cowns /\ c \in todo[b]
      /\ time[b] = 0 /\ spawned \in Nat /\ todo[b] \subseteq Footprint[b]
      /\ CallType' /\ time' \in [Behaviours -> Nat] /\ spawned' \in Nat
  BY <1>1, AcquiredUpdates
<1>4. \A x \in Behaviours \ {b} :
        /\ scall'[x] = scall[x] /\ todo'[x] = todo[x]
        /\ time'[x] = time[x] /\ prev'[x] = prev[x]
  BY <1>1, AcquiredUpdates
<1>5. \/ /\ scall'[b] = "ready" /\ todo'[b] = Footprint[b]
         /\ time'[b] > 0
      \/ /\ scall'[b] = "exchange" /\ todo'[b] = todo[b] \ {c}
         /\ time'[b] = 0
  BY <1>1, <1>3, AcquiredUpdates
<1> USE DEF IInv
<1>6. /\ p \in Behaviours /\ OnChain(p, c) /\ pos[b][c] = pos[p][c] + 1
      /\ status[p][c] # Wait
  BY <1>1 DEF PrevInv
<1>7. p # b
  BY <1>3, <1>6 DEF TypeOK, HistoryType
<1>8. \A x \in Behaviours, d \in Cowns :
        status'[x][d] = IF x = p /\ d = c THEN b ELSE status[x][d]
  BY <1>1, <1>3, <1>6 DEF TypeOK, SlotType
<1>9. b # Wait
  BY StatusAssumption
<1>10. TypeOK'
  <2>1. WorkType' /\ CountType' /\ RefType'
    BY <1>1 DEF TypeOK, WorkType, CountType, RefType
  <2>2. SlotType'
    BY <1>1 DEF TypeOK, SlotType
  <2>3. HistoryType'
    BY <1>1, <1>3 DEF TypeOK, HistoryType
  <2> QED BY <1>3, <2>1, <2>2, <2>3 DEF TypeOK
<1> HIDE DEF c, p
<1>11. WorkInv'
  <2>1. \A x \in Behaviours : work[x] \in {"load", "sub"} => rel[x] \in Cowns
    BY DEF TypeOK, WorkType, WorkInv
  <2> QED BY <1>1, <1>8, <2>1 DEF WorkInv, Successor
<1>12. PlaceInv' /\ TailInv' /\ HeldInv' /\ RunInv'
  BY <1>1 DEF PlaceInv, TailInv, HeldInv, RunInv, OnChain, Held, Blocked
<1>13. StatusInv'
  <2>1. \A x \in Behaviours \ {b}, d \in Cowns :
          /\ time'[x] = 0 \/ (scall'[x] = "ready" /\ d \in todo'[x])
               => status'[x][d] = Wait
          /\ /\ time'[x] > 0 /\ d \in Footprint[x]
             /\ scall'[x] = "ready" => d \notin todo'[x]
             => status'[x][d] # Wait
    BY <1>4, <1>6, <1>8, <1>9 DEF StatusInv
  <2>2. \A d \in Cowns : status'[b][d] = Wait
    BY <1>3, <1>7, <1>8 DEF StatusInv
  <2> QED BY <1>5, <2>1, <2>2 DEF StatusInv
<1>14. PrevInv'
  <2> SUFFICES ASSUME NEW x \in Behaviours, scall'[x] \in {"spin", "link"}
               PROVE  /\ prev'[x] \in Behaviours
                      /\ pos[x][at[x]] = pos[prev'[x]][at[x]] + 1
                      /\ OnChain(prev'[x], at[x])
                      /\ at[x] \in Held(prev'[x])
                      /\ status'[prev'[x]][at[x]] \notin Behaviours
                      /\ scall'[x] = "link" => status'[prev'[x]][at[x]] # Wait
    BY <1>1 DEF PrevInv, OnChain, Held
  <2>1. x # b
    BY <1>5
  <2>2. /\ prev'[x] = prev[x] /\ scall'[x] = scall[x] /\ at[x] \in Cowns
        /\ prev[x] \in Behaviours /\ OnChain(x, at[x])
    BY <1>4, <2>1 DEF PrevInv, CallInv, ChainInv, TypeOK, CallType
  <2>3. ~(prev[x] = p /\ at[x] = c)
    BY <1>3, <1>6, <2>1, <2>2 DEF PrevInv, PlaceInv
  <2> QED BY <1>8, <2>2, <2>3 DEF PrevInv
<1>15. NextInv'
  BY <1>1, <1>6, <1>8 DEF NextInv, OnChain
<1>16. CountInv'
  <2>1. \A x \in Behaviours : Blocked(x)' = Blocked(x)
    BY <1>1 DEF Blocked
  <2> QED BY <1>1, <1>4, <1>5, <2>1 DEF CountInv
<1> QED BY <1>2, <1>10, <1>11, <1>12, <1>13, <1>14, <1>15, <1>16

(* Phase 2 marks a slot that nobody could link to before. *)
LEMMA SetReadyKeeps ==
  ASSUME IInv, NEW b \in Behaviours, NEW c \in Cowns, SetReady(b, c)
  PROVE  IInv'
<1>1. /\ scall[b] = "ready" /\ c \in todo[b]
      /\ UNCHANGED <<at, prev, ec, work, left, rel, countdown, lastSlot, rc,
                     callerRef, pos, joined, served, time, spawned, wakes>>
  BY DEF SetReady, workVars, refVars, history
<1> USE DEF IInv
<1>2. /\ scall' = [scall EXCEPT ![b] = IF todo[b] = {c} THEN "load" ELSE @]
      /\ todo' = [todo EXCEPT ![b] = @ \ {c}]
      /\ status' = [status EXCEPT ![b][c] = Ready]
      /\ scall \in [Behaviours -> CallStates]
      /\ todo \in [Behaviours -> SUBSET Cowns]
      /\ status \in [Behaviours -> [Cowns -> Behaviours \cup {Wait, Ready}]]
  BY DEF SetReady, TypeOK, CallType, SlotType
<1>3. /\ \A x \in Behaviours \ {b} : scall'[x] = scall[x] /\ todo'[x] = todo[x]
      /\ todo'[b] = todo[b] \ {c}
      /\ IF todo[b] = {c} THEN scall'[b] = "load" /\ todo'[b] = {}
                          ELSE scall'[b] = "ready"
      /\ \A x \in Behaviours, d \in Cowns :
           status'[x][d] = IF x = b /\ d = c THEN Ready ELSE status[x][d]
  BY <1>1, <1>2
<1>4. time[b] > 0 /\ todo[b] \subseteq Footprint[b] /\ work[b] = "idle"
  BY <1>1 DEF CallInv, InPhase1, TypeOK, HistoryType
<1>5. status[b][c] = Wait /\ Ready # Wait /\ Ready \notin Behaviours
  BY <1>1, StatusAssumption DEF StatusInv
<1>6. TypeOK'
  <2>1. scall' \in [Behaviours -> CallStates] /\ todo' \in [Behaviours -> SUBSET Cowns]
    BY <1>1, <1>2 DEF CallStates
  <2>2. status' \in [Behaviours -> [Cowns -> Behaviours \cup {Wait, Ready}]]
    BY <1>2
  <2> QED BY <1>1, <2>1, <2>2 DEF TypeOK, CallType, WorkType, SlotType, CountType,
                                  RefType, HistoryType
<1>7. CallInv' /\ ChainInv'
  <2>1. CallInv'
    BY <1>1, <1>3, <1>4 DEF CallInv, InPhase1
  <2>2. ChainInv'
    BY <1>1, <1>3, <1>4 DEF ChainInv, OnChain
  <2> QED BY <2>1, <2>2
<1>8. WorkInv'
  <2>1. \A x \in Behaviours : work[x] \in {"load", "sub"} => rel[x] \in Cowns
    BY DEF TypeOK, WorkType, WorkInv
  <2> QED BY <1>1, <1>3, <1>4, <2>1 DEF WorkInv, Successor
<1>9. StatusInv'
  BY <1>1, <1>3, <1>4, <1>5 DEF StatusInv
<1>10. PlaceInv' /\ TailInv' /\ TimeInv' /\ HeldInv' /\ RunInv'
  BY <1>1 DEF PlaceInv, TailInv, TimeInv, HeldInv, RunInv, OnChain, Held, Blocked
<1>11. PrevInv' /\ NextInv'
  <2>1. \A x \in Behaviours : scall[x] \in {"spin", "link"} => at[x] \in Cowns
    BY DEF TypeOK, CallType, CallInv
  <2>2. PrevInv'
    BY <1>1, <1>3, <1>5, <2>1 DEF PrevInv, OnChain, Held
  <2>3. NextInv'
    BY <1>1, <1>3, <1>5 DEF NextInv, OnChain
  <2> QED BY <2>2, <2>3
<1>12. CountInv'
  <2>1. \A x \in Behaviours : Blocked(x)' = Blocked(x)
    BY <1>1 DEF Blocked
  <2> QED BY <1>1, <1>3, <2>1 DEF CountInv
<1>13. AheadInv'
  BY <1>1, <1>3, <1>4 DEF AheadInv, OnChain
<1> QED BY <1>6, <1>7, <1>8, <1>9, <1>10, <1>11, <1>12, <1>13

(* Before its resolve the call of schedule still counts for ec, so nobody  *)
(* else can have seen the last grant.                                      *)
LEMMA CallCount ==
  ASSUME IInv, NEW b \in Behaviours, scall[b] \in {"load", "sub"}
  PROVE  /\ work[b] = "idle" /\ wakes[b] = 0
         /\ time[b] > 0
         /\ ec[b] \in Nat /\ ec[b] >= 1
         /\ Cardinality(Blocked(b)) \in Nat
         /\ countdown[b] = Cardinality(Blocked(b)) + ec[b]
         /\ LastGrant(b, ec[b]) <=> Blocked(b) = {}
<1> USE DEF IInv
<1>1. work[b] = "idle" /\ wakes[b] = 0 /\ ec[b] >= 1 /\ time[b] # 0
  BY DEF CallInv, InPhase1
<1>2. ec[b] \in Nat /\ time[b] \in Nat
  BY DEF TypeOK, CallType, HistoryType
<1>3. countdown[b] = Cardinality(Blocked(b)) + ec[b]
  BY <1>1 DEF CountInv
<1> QED BY <1>1, <1>2, <1>3, BlockedFinite DEF LastGrant

(* The load of resolve(ec) wakes b exactly when nothing blocks it. *)
LEMMA CallLoadKeeps ==
  ASSUME IInv, NEW b \in Behaviours, CallLoad(b)
  PROVE  IInv'
<1>1. /\ scall[b] = "load"
      /\ UNCHANGED <<todo, at, prev, ec, left, rel, countdown, status, lastSlot,
                     rc, callerRef, pos, joined, served, time, spawned>>
  BY DEF CallLoad, slotVars, refVars
<1>2. /\ work[b] = "idle" /\ wakes[b] = 0 /\ time[b] > 0
      /\ LastGrant(b, ec[b]) <=> Blocked(b) = {}
  BY <1>1, CallCount
<1> USE DEF IInv
<1>3. /\ scall \in [Behaviours -> CallStates] /\ work \in [Behaviours -> WorkStates]
      /\ wakes \in [Behaviours -> Nat]
  BY DEF TypeOK, CallType, WorkType, HistoryType
<1>4. \A x \in Behaviours \ {b} :
        scall'[x] = scall[x] /\ work'[x] = work[x] /\ wakes'[x] = wakes[x]
  BY <1>3 DEF CallLoad, Wake
<1>5. IF Blocked(b) = {}
      THEN scall'[b] = "returned" /\ work'[b] = "queued" /\ wakes'[b] = 1
      ELSE scall'[b] = "sub" /\ work'[b] = "idle" /\ wakes'[b] = 0
  BY <1>2, <1>3 DEF CallLoad, Wake
<1>6. TypeOK'
  <2>1. /\ scall' \in [Behaviours -> CallStates]
        /\ work' \in [Behaviours -> WorkStates]
        /\ wakes' \in [Behaviours -> Nat]
    BY <1>3 DEF CallLoad, Wake, CallStates, WorkStates
  <2> QED BY <1>1, <2>1 DEF TypeOK, CallType, WorkType, SlotType, CountType,
                            RefType, HistoryType
<1>7. CallInv' /\ WorkInv' /\ StatusInv' /\ ChainInv'
  BY <1>1, <1>2, <1>4, <1>5
     DEF CallInv, WorkInv, StatusInv, ChainInv, Successor, OnChain, InPhase1
<1>8. PlaceInv' /\ TailInv' /\ NextInv' /\ TimeInv' /\ AheadInv'
  BY <1>1, <1>2, <1>4, <1>5
     DEF PlaceInv, TailInv, NextInv, TimeInv, AheadInv, OnChain
<1>9. \A x \in Behaviours : Held(x)' = Held(x) /\ Blocked(x)' = Blocked(x)
  BY <1>1, <1>2, <1>4, <1>5 DEF Held, Blocked
<1>10. PrevInv' /\ HeldInv' /\ RunInv' /\ CountInv'
  BY <1>1, <1>2, <1>4, <1>5, <1>9
     DEF PrevInv, HeldInv, RunInv, CountInv, OnChain
<1> QED BY <1>6, <1>7, <1>8, <1>10

(* The fetch_sub of resolve(ec) leaves the count of blocked slots. *)
LEMMA CallSubKeeps ==
  ASSUME IInv, NEW b \in Behaviours, CallSub(b)
  PROVE  IInv'
<1>1. /\ scall[b] = "sub"
      /\ UNCHANGED <<todo, at, prev, ec, left, rel, status, lastSlot,
                     rc, callerRef, pos, joined, served, time, spawned>>
  BY DEF CallSub, refVars
<1>2. /\ work[b] = "idle" /\ wakes[b] = 0 /\ time[b] > 0 /\ ec[b] \in Nat
      /\ Cardinality(Blocked(b)) \in Nat
      /\ countdown[b] = Cardinality(Blocked(b)) + ec[b]
      /\ LastGrant(b, ec[b]) <=> Blocked(b) = {}
  BY <1>1, CallCount
<1> USE DEF IInv
<1>3. /\ scall \in [Behaviours -> CallStates] /\ work \in [Behaviours -> WorkStates]
      /\ wakes \in [Behaviours -> Nat] /\ countdown \in [Behaviours -> Nat]
  BY DEF TypeOK, CallType, WorkType, HistoryType, CountType
<1>4. \A x \in Behaviours \ {b} :
        /\ scall'[x] = scall[x] /\ work'[x] = work[x] /\ wakes'[x] = wakes[x]
        /\ countdown'[x] = countdown[x]
  BY <1>3 DEF CallSub, Wake
<1>5. /\ scall'[b] = "returned"
      /\ countdown'[b] = Cardinality(Blocked(b))
      /\ IF Blocked(b) = {} THEN work'[b] = "queued" /\ wakes'[b] = 1
                            ELSE work'[b] = "idle" /\ wakes'[b] = 0
  BY <1>2, <1>3 DEF CallSub, Wake
<1>6. TypeOK'
  <2>1. /\ scall' \in [Behaviours -> CallStates]
        /\ work' \in [Behaviours -> WorkStates]
        /\ wakes' \in [Behaviours -> Nat]
    BY <1>3 DEF CallSub, Wake, CallStates, WorkStates
  <2>2. countdown' \in [Behaviours -> Nat]
    BY <1>2, <1>3 DEF CallSub
  <2> QED BY <1>1, <2>1, <2>2 DEF TypeOK, CallType, WorkType, SlotType, CountType,
                                  RefType, HistoryType
<1>7. CallInv' /\ WorkInv' /\ StatusInv' /\ ChainInv'
  BY <1>1, <1>2, <1>4, <1>5
     DEF CallInv, WorkInv, StatusInv, ChainInv, Successor, OnChain, InPhase1
<1>8. PlaceInv' /\ TailInv' /\ NextInv' /\ TimeInv' /\ AheadInv'
  BY <1>1, <1>2, <1>4, <1>5
     DEF PlaceInv, TailInv, NextInv, TimeInv, AheadInv, OnChain
<1>9. \A x \in Behaviours : Held(x)' = Held(x) /\ Blocked(x)' = Blocked(x)
  BY <1>1, <1>2, <1>4, <1>5 DEF Held, Blocked
<1>10. PrevInv' /\ HeldInv' /\ RunInv' /\ CountInv'
  BY <1>1, <1>2, <1>4, <1>5, <1>9
     DEF PrevInv, HeldInv, RunInv, CountInv, OnChain
<1> QED BY <1>6, <1>7, <1>8, <1>10

(* The thread that executes b moves on and changes nothing shared.         *)
LEMMA WorkMoves ==
  ASSUME IInv, NEW b \in Behaviours,
         work' \in [Behaviours -> WorkStates],
         rel' \in [Behaviours -> Cowns \cup {NoSlot}],
         \A x \in Behaviours \ {b} : work'[x] = work[x] /\ rel'[x] = rel[x],
         work[b] \notin {"idle", "drop"}, work'[b] \notin {"idle", "drop"},
         work'[b] \in {"queued", "running"} => left[b] = Footprint[b],
         work'[b] \in {"release", "cas", "extended", "load", "sub"}
           => left[b] # {},
         work'[b] \in {"cas", "extended", "load", "sub"} => rel'[b] \in left[b],
         work'[b] \in {"load", "sub"} => status[b][rel'[b]] \in Behaviours,
         work'[b] \in {"free", "freed"} => left[b] = {},
         work'[b] = "extended" => lastSlot[rel'[b]] # b,
         UNCHANGED <<callVars, left, slotVars, refVars, history>>
  PROVE  IInv'
<1>1. UNCHANGED <<scall, todo, at, prev, ec, left, countdown, status, lastSlot,
                  rc, callerRef, pos, joined, served, time, spawned, wakes>>
  BY DEF callVars, slotVars, refVars, history
<1> USE DEF IInv
<1>2. TypeOK'
  BY <1>1 DEF TypeOK, CallType, WorkType, SlotType, CountType, RefType, HistoryType
<1>3. CallInv' /\ WorkInv'
  <2>1. CallInv'
    BY <1>1 DEF CallInv
  <2>2. WorkInv'
    <3>1. left[b] \subseteq Footprint[b]
      BY DEF WorkInv
    <3> QED BY <1>1, <3>1 DEF WorkInv, Successor
  <2> QED BY <2>1, <2>2
<1>4. StatusInv' /\ ChainInv' /\ PlaceInv' /\ TailInv' /\ NextInv' /\ TimeInv' /\ AheadInv'
  BY <1>1 DEF StatusInv, ChainInv, PlaceInv, TailInv, NextInv, TimeInv, AheadInv,
              OnChain
<1>5. \A x \in Behaviours : Held(x)' = Held(x) /\ Blocked(x)' = Blocked(x)
  BY <1>1 DEF Held, Blocked
<1>6. PrevInv' /\ HeldInv' /\ RunInv' /\ CountInv'
  BY <1>1, <1>5 DEF PrevInv, HeldInv, RunInv, CountInv, OnChain
<1> QED BY <1>2, <1>3, <1>4, <1>6

(* The slot that owns the cown is also the tail: nobody is behind it, so   *)
(* emptying the chain blocks and unblocks nobody.                          *)
LEMMA ReleaseCasKeeps ==
  ASSUME IInv, NEW b \in Behaviours, ReleaseCas(b)
  PROVE  IInv'
<1> DEFINE c == rel[b]
<1>1. /\ work[b] = "cas"
      /\ UNCHANGED <<scall, todo, at, prev, ec, left, rel, countdown, status, rc,
                     callerRef, pos, joined, time, spawned, wakes>>
  BY DEF ReleaseCas, callVars, refVars
<1>2. /\ c \in Cowns /\ c \in left[b] /\ OnChain(b, c)
      /\ pos[b][c] = served[c] + 1
  BY <1>1, ReleasedOwns
<1> USE DEF IInv
<1>3. /\ work \in [Behaviours -> WorkStates] /\ served \in [Cowns -> Nat]
      /\ lastSlot \in [Cowns -> Behaviours \cup {NoSlot}]
      /\ \A d \in Cowns : joined[d] \in Nat /\ served[d] \in Nat
      /\ \A x \in Behaviours, d \in Cowns : pos[x][d] \in Nat
  BY DEF TypeOK, WorkType, SlotType, HistoryType
<1>4. CASE lastSlot[c] # b
  <2>1. /\ work' = [work EXCEPT ![b] = "extended"]
        /\ UNCHANGED <<lastSlot, served>>
    BY <1>4 DEF ReleaseCas
  <2>2. work'[b] = "extended" /\ \A x \in Behaviours \ {b} : work'[x] = work[x]
    BY <1>3, <2>1
  <2>3. TypeOK'
    <3>1. work' \in [Behaviours -> WorkStates]
      BY <1>3, <2>1 DEF WorkStates
    <3> QED BY <1>1, <2>1, <3>1 DEF TypeOK, CallType, WorkType, SlotType,
                                    CountType, RefType, HistoryType
  <2>4. CallInv' /\ WorkInv' /\ StatusInv' /\ ChainInv'
    BY <1>1, <1>4, <2>1, <2>2
       DEF CallInv, WorkInv, StatusInv, ChainInv, Successor, OnChain
  <2>5. PlaceInv' /\ TailInv' /\ NextInv' /\ TimeInv' /\ AheadInv'
    BY <1>1, <2>1 DEF PlaceInv, TailInv, NextInv, TimeInv, AheadInv, OnChain
  <2>6. \A x \in Behaviours : Held(x)' = Held(x) /\ Blocked(x)' = Blocked(x)
    BY <1>1, <2>1, <2>2 DEF Held, Blocked
  <2>7. PrevInv' /\ HeldInv' /\ RunInv' /\ CountInv'
    BY <1>1, <2>1, <2>2, <2>6 DEF PrevInv, HeldInv, RunInv, CountInv, OnChain
  <2> QED BY <2>3, <2>4, <2>5, <2>7
<1>5. CASE lastSlot[c] = b
  <2>1. /\ work' = [work EXCEPT ![b] = "drop"]
        /\ lastSlot' = [lastSlot EXCEPT ![c] = NoSlot]
        /\ served' = [served EXCEPT ![c] = @ + 1]
    BY <1>5 DEF ReleaseCas
  <2>2. /\ work'[b] = "drop" /\ \A x \in Behaviours \ {b} : work'[x] = work[x]
        /\ \A d \in Cowns :
             /\ lastSlot'[d] = IF d = c THEN NoSlot ELSE lastSlot[d]
             /\ served'[d] = IF d = c THEN served[c] + 1 ELSE served[d]
    BY <1>2, <1>3, <2>1
  <2>3. TypeOK'
    <3>1. /\ work' \in [Behaviours -> WorkStates]
          /\ lastSlot' \in [Cowns -> Behaviours \cup {NoSlot}]
          /\ served' \in [Cowns -> Nat]
      BY <1>2, <1>3, <2>1 DEF WorkStates
    <3> QED BY <1>1, <3>1 DEF TypeOK, CallType, WorkType, SlotType,
                              CountType, RefType, HistoryType
  <2>4. b # NoSlot
    BY StatusAssumption
  <2>5. joined[c] = served[c] + 1
    BY <1>2, <1>5, <2>4 DEF TailInv
  <2>6. CallInv' /\ StatusInv' /\ ChainInv'
    BY <1>1, <2>2 DEF CallInv, StatusInv, ChainInv, OnChain
  <2>7. WorkInv'
    <3>1. \A x \in Behaviours : work[x] = "extended" => rel[x] \in Cowns
      BY DEF WorkInv, TypeOK, WorkType
    <3>2. \A x \in Behaviours : NoSlot # x
      BY StatusAssumption
    <3> QED BY <1>1, <1>2, <2>2, <3>1, <3>2 DEF WorkInv, Successor
  <2>8. PlaceInv' /\ NextInv' /\ TimeInv' /\ AheadInv'
    BY <1>1 DEF PlaceInv, NextInv, TimeInv, AheadInv, OnChain
  <2>9. TailInv'
    BY <1>1, <1>3, <2>2, <2>5 DEF TailInv
  <2>10. /\ Held(b)' = left[b] \ {c} /\ Held(b) = left[b]
         /\ \A x \in Behaviours \ {b} : Held(x)' = Held(x)
    BY <1>1, <2>2 DEF Held
  <2>11. PrevInv'
    <3> SUFFICES ASSUME NEW x \in Behaviours, scall[x] \in {"spin", "link"}
                 PROVE  at[x] \in Held(prev[x])'
      BY <1>1 DEF PrevInv, OnChain
    <3>1. /\ prev[x] \in Behaviours /\ at[x] \in Held(prev[x])
          /\ pos[x][at[x]] = pos[prev[x]][at[x]] + 1
      BY DEF PrevInv
    <3>2. at[x] \in Cowns
      BY DEF TypeOK, CallType, CallInv
    <3>3. ~(prev[x] = b /\ at[x] = c)
      <4>1. pos[x][c] <= joined[c]
        BY <1>2 DEF PlaceInv
      <4> QED BY <1>2, <1>3, <2>5, <3>1, <4>1
    <3> QED BY <1>1, <2>10, <3>1, <3>3
  <2>12. HeldInv'
    <3> SUFFICES ASSUME NEW x \in Behaviours, NEW d \in Cowns, OnChain(x, d)
                 PROVE  d \in Held(x)' <=> served'[d] < pos[x][d]
      BY <1>1 DEF HeldInv, OnChain
    <3>1. d \in Held(x) <=> served[d] < pos[x][d]
      BY DEF HeldInv
    <3>2. CASE d # c
      BY <2>2, <2>10, <3>1, <3>2
    <3>3. CASE d = c /\ x = b
      BY <1>2, <1>3, <2>2, <2>10, <3>3
    <3>4. CASE d = c /\ x # b
      <4>1. pos[x][c] # pos[b][c] /\ pos[x][c] <= joined[c]
        BY <1>2, <3>4 DEF PlaceInv
      <4> QED BY <1>2, <1>3, <2>2, <2>5, <2>10, <3>1, <3>4, <4>1
    <3> QED BY <3>2, <3>3, <3>4
  <2>13. \A x \in Behaviours : Blocked(x)' = Blocked(x)
    <3>1. \A x \in Behaviours : Footprint[x] \subseteq Cowns
      BY FootprintAssumption
    <3>2. \A x \in Behaviours : pos[x][c] <= joined[c]
      BY <1>2 DEF PlaceInv
    <3> QED BY <1>1, <1>2, <1>3, <2>2, <2>5, <3>1, <3>2 DEF Blocked
  <2>14. RunInv' /\ CountInv'
    BY <1>1, <2>2, <2>13 DEF RunInv, CountInv
  <2> QED BY <2>3, <2>6, <2>7, <2>8, <2>9, <2>11, <2>12, <2>14
<1> QED BY <1>4, <1>5

(* The slot behind the released one becomes the owner of the cown.  Its    *)
(* behaviour is woken exactly when this was its last blocked slot.         *)
LEMMA GrantKeeps ==
  ASSUME IInv, NEW b \in Behaviours, work[b] \in {"load", "sub"},
         NEW o, o = Successor(b), NEW c, c = rel[b],
         Grant(b, LastGrant(o, 1)),
         CountType', \A x \in Behaviours \ {o} : countdown'[x] = countdown[x],
         ~LastGrant(o, 1) => countdown'[o] = countdown[o] - 1,
         UNCHANGED <<callVars, status, lastSlot, refVars, pos, joined, time,
                     spawned>>
  PROVE  IInv'
<1>1. UNCHANGED <<scall, todo, at, prev, ec, status, lastSlot, rc, callerRef,
                  pos, joined, time, spawned>>
  BY DEF callVars, refVars
<1>2. /\ c \in Cowns /\ c \in left[b] /\ OnChain(b, c)
      /\ pos[b][c] = served[c] + 1
  BY ReleasedOwns
<1>3. /\ o \in Behaviours /\ o # b /\ work[o] = "idle"
      /\ pos[o][c] = served[c] + 2 /\ c \in Blocked(o)
      /\ countdown[o] \in Nat /\ countdown[o] # 0
  BY SuccessorBlocked
<1>4. LastGrant(o, 1) => scall[o] = "returned" /\ Blocked(o) = {c}
  BY SuccessorBlocked DEF LastGrant
<1>5. served' = [served EXCEPT ![c] = @ + 1]
  BY DEF Grant
<1>6. /\ Blocked(o)' = Blocked(o) \ {c}
      /\ \A x \in Behaviours : x # o => Blocked(x)' = Blocked(x)
      /\ Cardinality(Blocked(o)') = Cardinality(Blocked(o)) - 1
  BY <1>1, <1>3, <1>5, GrantUnblocks
<1> USE DEF IInv
<1>7. /\ work \in [Behaviours -> WorkStates] /\ served \in [Cowns -> Nat]
      /\ left \in [Behaviours -> SUBSET Cowns] /\ wakes \in [Behaviours -> Nat]
      /\ rel \in [Behaviours -> Cowns \cup {NoSlot}]
      /\ \A d \in Cowns : joined[d] \in Nat /\ served[d] \in Nat
      /\ \A x \in Behaviours, d \in Cowns : pos[x][d] \in Nat
  BY DEF TypeOK, WorkType, HistoryType
<1>8. wakes[o] = 0
  BY <1>3 DEF CallInv
<1>9. /\ left' = [left EXCEPT ![b] = @ \ {c}]
      /\ rel' = [rel EXCEPT ![b] = NoSlot]
      /\ wakes' = IF LastGrant(o, 1) THEN [wakes EXCEPT ![o] = @ + 1] ELSE wakes
      /\ work' = [(IF LastGrant(o, 1) THEN [work EXCEPT ![o] = "queued"] ELSE work)
                    EXCEPT ![b] = IF left[b] = {c} THEN "free" ELSE "release"]
  BY DEF Grant, SlotDone
<1>10. /\ \A x \in Behaviours \ {b} : left'[x] = left[x] /\ rel'[x] = rel[x]
       /\ left'[b] = left[b] \ {c}
       /\ \A x \in Behaviours \ {b, o} : work'[x] = work[x]
       /\ work'[b] = IF left[b] = {c} THEN "free" ELSE "release"
       /\ work'[o] = IF LastGrant(o, 1) THEN "queued" ELSE "idle"
       /\ \A x \in Behaviours \ {o} : wakes'[x] = wakes[x]
       /\ wakes'[o] = IF LastGrant(o, 1) THEN 1 ELSE 0
       /\ \A d \in Cowns :
            served'[d] = IF d = c THEN served[c] + 1 ELSE served[d]
  BY <1>2, <1>3, <1>5, <1>7, <1>8, <1>9
<1>11. TypeOK'
  <2>1. work' \in [Behaviours -> WorkStates]
    BY <1>3, <1>7, <1>9 DEF WorkStates
  <2>2. /\ left' \in [Behaviours -> SUBSET Cowns]
        /\ rel' \in [Behaviours -> Cowns \cup {NoSlot}]
        /\ wakes' \in [Behaviours -> Nat] /\ served' \in [Cowns -> Nat]
    BY <1>2, <1>3, <1>5, <1>7, <1>9
  <2> QED BY <1>1, <2>1, <2>2
          DEF TypeOK, CallType, WorkType, SlotType, RefType, HistoryType
<1>12. CallInv'
  BY <1>1, <1>3, <1>4, <1>10 DEF CallInv
<1>13. WorkInv'
  <2>1. /\ left[o] = Footprint[o] /\ left[b] \subseteq Footprint[b]
        /\ work'[b] = "release" => left'[b] # {}
        /\ work'[b] = "free" => left'[b] = {}
    BY <1>2, <1>3, <1>10 DEF WorkInv
  <2> QED BY <1>1, <1>3, <1>10, <2>1 DEF WorkInv, Successor
<1>14. StatusInv' /\ ChainInv' /\ PlaceInv' /\ NextInv' /\ TimeInv' /\ AheadInv'
  BY <1>1 DEF StatusInv, ChainInv, PlaceInv, NextInv, TimeInv, AheadInv, OnChain
<1>15. TailInv'
  <2>1. served[c] + 2 <= joined[c]
    BY <1>2, <1>3 DEF PlaceInv
  <2> QED BY <1>1, <1>7, <1>10, <2>1 DEF TailInv
<1>16. /\ Held(b)' = left[b] \ {c} /\ Held(b) = left[b]
       /\ \A x \in Behaviours \ {b} : Held(x)' = Held(x)
  BY <1>3, <1>10 DEF Held
<1>17. PrevInv'
  <2> SUFFICES ASSUME NEW x \in Behaviours, scall[x] \in {"spin", "link"}
               PROVE  at[x] \in Held(prev[x])'
    BY <1>1 DEF PrevInv, OnChain
  <2>1. /\ prev[x] \in Behaviours /\ at[x] \in Held(prev[x])
        /\ status[prev[x]][at[x]] \notin Behaviours
    BY DEF PrevInv
  <2>2. ~(prev[x] = b /\ at[x] = c)
    BY <1>3, <2>1 DEF Successor
  <2> QED BY <1>1, <1>16, <2>1, <2>2
<1>18. HeldInv'
  <2> SUFFICES ASSUME NEW x \in Behaviours, NEW d \in Cowns, OnChain(x, d)
               PROVE  d \in Held(x)' <=> served'[d] < pos[x][d]
    BY <1>1 DEF HeldInv, OnChain
  <2>1. d \in Held(x) <=> served[d] < pos[x][d]
    BY DEF HeldInv
  <2>2. CASE d # c
    BY <1>10, <1>16, <2>1, <2>2
  <2>3. CASE d = c /\ x = b
    BY <1>2, <1>7, <1>10, <1>16, <2>3
  <2>4. CASE d = c /\ x # b
    <3>1. pos[x][c] # pos[b][c]
      BY <1>2, <2>4 DEF PlaceInv
    <3>2. served'[c] = served[c] + 1 /\ served[c] \in Nat /\ pos[x][c] \in Nat
      BY <1>2, <1>7, <1>10
    <3>3. d \in Held(x)' <=> served[c] < pos[x][c]
      BY <1>16, <2>1, <2>4
    <3>4. pos[x][c] # served[c] + 1
      BY <1>2, <3>1
    <3> QED BY <2>4, <3>2, <3>3, <3>4
  <2> QED BY <2>2, <2>3, <2>4
<1>19. RunInv'
  BY <1>3, <1>4, <1>6, <1>10 DEF RunInv
<1>20. CountInv'
  <2>1. ASSUME NEW x \in Behaviours, x # o, work'[x] = "idle"
        PROVE  work[x] = "idle" /\ countdown'[x] = countdown[x]
    BY <1>10, <2>1
  <2>2. ASSUME ~LastGrant(o, 1)
        PROVE  /\ countdown'[o] = Cardinality(Blocked(o)')
                                  + IF scall[o] = "returned" THEN 0 ELSE ec[o]
               /\ scall[o] = "returned" => Blocked(o)' # {}
    <3>1. /\ countdown[o] = Cardinality(Blocked(o))
                            + IF scall[o] = "returned" THEN 0 ELSE ec[o]
          /\ Cardinality(Blocked(o)) \in Nat /\ ec[o] \in Nat
      BY <1>3, BlockedFinite DEF CountInv, TypeOK, CallType
    <3>2. countdown'[o] = countdown[o] - 1 /\ countdown[o] # 1
      BY <2>2 DEF LastGrant
    <3>3. Blocked(o)' = {} => Cardinality(Blocked(o)') = 0
      BY FS_EmptySet
    <3> QED BY <1>6, <3>1, <3>2, <3>3
  <2>3. LastGrant(o, 1) => work'[o] # "idle"
    BY <1>10
  <2> QED BY <1>1, <1>6, <2>1, <2>2, <2>3 DEF CountInv
<1> QED BY <1>11, <1>12, <1>13, <1>14, <1>15, <1>17, <1>18, <1>19, <1>20

(* A scheduler thread starts the body. *)
LEMMA RunKeeps ==
  ASSUME IInv, NEW b \in Behaviours, Run(b)
  PROVE  IInv'
<1>1. work \in [Behaviours -> WorkStates] /\ rel \in [Behaviours -> Cowns \cup {NoSlot}]
  BY DEF IInv, TypeOK, WorkType
<1>2. left[b] = Footprint[b]
  BY DEF Run, IInv, WorkInv
<1>3. /\ work' \in [Behaviours -> WorkStates] /\ work'[b] = "running"
      /\ \A x \in Behaviours \ {b} : work'[x] = work[x]
      /\ work[b] = "queued"
      /\ UNCHANGED <<callVars, left, rel, slotVars, refVars, history>>
  BY <1>1 DEF Run, WorkStates
<1> QED BY <1>1, <1>2, <1>3, WorkMoves

(* The body returns, with all its slots still to release. *)
LEMMA BodyReturnsKeeps ==
  ASSUME IInv, NEW b \in Behaviours, BodyReturns(b)
  PROVE  IInv'
<1>1. work \in [Behaviours -> WorkStates] /\ rel \in [Behaviours -> Cowns \cup {NoSlot}]
  BY DEF IInv, TypeOK, WorkType
<1>2. left[b] # {}
  BY FootprintAssumption DEF BodyReturns, IInv, WorkInv
<1>3. /\ work' \in [Behaviours -> WorkStates] /\ work'[b] = "release"
      /\ \A x \in Behaviours \ {b} : work'[x] = work[x]
      /\ work[b] = "running"
      /\ UNCHANGED <<callVars, left, rel, slotVars, refVars, history>>
  BY <1>1 DEF BodyReturns, WorkStates
<1> QED BY <1>1, <1>2, <1>3, WorkMoves

(* A slot that is released has left Wait, so what is not Ready is a        *)
(* successor.                                                              *)
LEMMA ReleasedPastWait ==
  ASSUME IInv, NEW b \in Behaviours, work[b] # "idle", NEW c \in left[b]
  PROVE  /\ c \in Cowns
         /\ status[b][c] \in Behaviours \cup {Ready}
<1> USE DEF IInv
<1>1. c \in Footprint[b] /\ c \in Cowns
  BY FootprintAssumption DEF WorkInv
<1>2. scall[b] = "returned"
  BY DEF CallInv
<1>3. time[b] # 0 /\ time[b] \in Nat
  BY <1>2 DEF CallInv, InPhase1, TypeOK, HistoryType
<1>4. status[b][c] # Wait
  BY <1>1, <1>2, <1>3 DEF StatusInv
<1>5. status[b][c] \in Behaviours \cup {Wait, Ready}
  BY <1>1 DEF TypeOK, SlotType
<1> QED BY <1>1, <1>4, <1>5

(* Slot::release takes the path its status shows. *)
LEMMA ReleaseReadKeeps ==
  ASSUME IInv, NEW b \in Behaviours, NEW c \in Cowns, ReleaseRead(b, c)
  PROVE  IInv'
<1>1. work \in [Behaviours -> WorkStates] /\ rel \in [Behaviours -> Cowns \cup {NoSlot}]
  BY DEF IInv, TypeOK, WorkType
<1>2. work[b] = "release" /\ c \in left[b]
  BY DEF ReleaseRead
<1>3. status[b][c] \in Behaviours \cup {Ready}
  BY <1>2, ReleasedPastWait
<1>4. /\ work' \in [Behaviours -> WorkStates]
      /\ work'[b] \in {"cas", "load"}
      /\ work'[b] = "load" => status[b][c] \in Behaviours
      /\ rel' \in [Behaviours -> Cowns \cup {NoSlot}] /\ rel'[b] = c
      /\ \A x \in Behaviours \ {b} : work'[x] = work[x] /\ rel'[x] = rel[x]
      /\ UNCHANGED <<callVars, left, slotVars, refVars, history>>
  BY <1>1, <1>3 DEF ReleaseRead, WorkStates
<1> QED BY <1>2, <1>4, WorkMoves

(* Whoever extended the chain has linked itself. *)
LEMMA AwaitLinkKeeps ==
  ASSUME IInv, NEW b \in Behaviours, AwaitLink(b)
  PROVE  IInv'
<1>1. work \in [Behaviours -> WorkStates] /\ rel \in [Behaviours -> Cowns \cup {NoSlot}]
  BY DEF IInv, TypeOK, WorkType
<1>2. work[b] = "extended" /\ rel[b] \in left[b]
  BY DEF AwaitLink, IInv, WorkInv
<1>3. status[b][rel[b]] \in Behaviours
  BY <1>2, ReleasedPastWait DEF AwaitLink, Linked
<1>4. /\ work' \in [Behaviours -> WorkStates] /\ work'[b] = "load"
      /\ \A x \in Behaviours \ {b} : work'[x] = work[x]
      /\ UNCHANGED <<callVars, left, rel, slotVars, refVars, history>>
  BY <1>1 DEF AwaitLink, WorkStates
<1> QED BY <1>1, <1>2, <1>3, <1>4, WorkMoves

(* Nothing is left to release when the behaviour is deallocated. *)
LEMMA DeallocKeeps ==
  ASSUME IInv, NEW b \in Behaviours, Dealloc(b)
  PROVE  IInv'
<1>1. work \in [Behaviours -> WorkStates] /\ rel \in [Behaviours -> Cowns \cup {NoSlot}]
  BY DEF IInv, TypeOK, WorkType
<1>2. left[b] = {}
  BY DEF Dealloc, IInv, WorkInv
<1>3. /\ work' \in [Behaviours -> WorkStates] /\ work'[b] = "freed"
      /\ \A x \in Behaviours \ {b} : work'[x] = work[x]
      /\ work[b] = "free"
      /\ UNCHANGED <<callVars, left, rel, slotVars, refVars, history>>
  BY <1>1 DEF Dealloc, WorkStates
<1> QED BY <1>1, <1>2, <1>3, WorkMoves

(* The load of resolve(1) grants the slot or goes on to the fetch_sub. *)
LEMMA ResolveLoadKeeps ==
  ASSUME IInv, NEW b \in Behaviours, ResolveLoad(b)
  PROVE  IInv'
<1>1. /\ work[b] = "load"
      /\ UNCHANGED <<callVars, slotVars, refVars, pos, joined, time, spawned>>
  BY DEF ResolveLoad
<1>2. PICK o \in Behaviours : o = Successor(b)
  BY <1>1, SuccessorBlocked
<1>3. PICK c : c = rel[b]
  OBVIOUS
<1>4. CASE LastGrant(o, 1)
  <2>1. Grant(b, LastGrant(o, 1))
    BY <1>2, <1>4 DEF ResolveLoad, Grant
  <2>2. CountType' /\ UNCHANGED <<status, lastSlot, countdown>>
    BY <1>1 DEF slotVars, IInv, TypeOK, CountType
  <2> QED BY <1>1, <1>2, <1>3, <1>4, <2>1, <2>2, GrantKeeps
<1>5. CASE ~LastGrant(o, 1)
  <2>1. /\ work' = [work EXCEPT ![b] = "sub"]
        /\ UNCHANGED <<left, rel, served, wakes>>
    BY <1>2, <1>5 DEF ResolveLoad
  <2>2. /\ work \in [Behaviours -> WorkStates]
        /\ rel \in [Behaviours -> Cowns \cup {NoSlot}]
        /\ rel[b] \in left[b] /\ status[b][rel[b]] \in Behaviours
    BY <1>1 DEF IInv, TypeOK, WorkType, WorkInv, Successor
  <2>3. /\ work' \in [Behaviours -> WorkStates] /\ work'[b] = "sub"
        /\ \A x \in Behaviours \ {b} : work'[x] = work[x]
    BY <2>1, <2>2 DEF WorkStates
  <2>4. UNCHANGED <<callVars, left, rel, slotVars, refVars, history>>
    BY <1>1, <2>1 DEF history
  <2> QED BY <1>1, <2>2, <2>3, <2>4, WorkMoves
<1> QED BY <1>4, <1>5

(* The fetch_sub of resolve(1) grants the slot. *)
LEMMA ResolveSubKeeps ==
  ASSUME IInv, NEW b \in Behaviours, ResolveSub(b)
  PROVE  IInv'
<1>1. /\ work[b] = "sub" /\ Grant(b, LastGrant(Successor(b), 1))
      /\ countdown' = [countdown EXCEPT ![Successor(b)] = @ - 1]
      /\ UNCHANGED <<callVars, status, lastSlot, refVars, pos, joined, time,
                     spawned>>
  BY DEF ResolveSub
<1>2. PICK o \in Behaviours : o = Successor(b)
  BY <1>1, SuccessorBlocked
<1>3. PICK c : c = rel[b]
  OBVIOUS
<1>4. countdown \in [Behaviours -> Nat] /\ countdown[o] # 0
  BY <1>1, <1>2, SuccessorBlocked DEF IInv, TypeOK, CountType
<1>5. /\ CountType'
      /\ \A x \in Behaviours \ {o} : countdown'[x] = countdown[x]
      /\ countdown'[o] = countdown[o] - 1
  BY <1>1, <1>2, <1>4 DEF CountType
<1>6. Grant(b, LastGrant(o, 1))
  BY <1>1, <1>2
<1> QED BY <1>1, <1>2, <1>3, <1>5, <1>6, GrantKeeps

(* The count of an emptied chain is given back. *)
LEMMA ReleaseCownKeeps ==
  ASSUME IInv, NEW b \in Behaviours, ReleaseCown(b)
  PROVE  IInv'
<1>1. /\ work[b] = "drop"
      /\ UNCHANGED <<scall, todo, at, prev, ec, countdown, status, lastSlot,
                     callerRef, pos, joined, served, time, spawned, wakes>>
  BY DEF ReleaseCown, callVars, slotVars, history
<1> USE DEF IInv
<1>2. rel[b] \in left[b] /\ rel[b] \in Cowns /\ left[b] \subseteq Footprint[b]
  BY <1>1 DEF WorkInv, TypeOK, WorkType
<1>3. /\ work \in [Behaviours -> WorkStates] /\ left \in [Behaviours -> SUBSET Cowns]
      /\ rel \in [Behaviours -> Cowns \cup {NoSlot}] /\ rc \in [Cowns -> Int]
  BY DEF TypeOK, WorkType, RefType
<1>4. /\ rc' = [rc EXCEPT ![rel[b]] = @ - 1]
      /\ left' = [left EXCEPT ![b] = @ \ {rel[b]}]
      /\ rel' = [rel EXCEPT ![b] = NoSlot]
      /\ work' = [work EXCEPT ![b] = IF left[b] = {rel[b]} THEN "free" ELSE "release"]
  BY DEF ReleaseCown, SlotDone
<1>5. /\ left'[b] = left[b] \ {rel[b]}
      /\ IF left'[b] = {} THEN work'[b] = "free" ELSE work'[b] = "release"
      /\ \A x \in Behaviours \ {b} :
           left'[x] = left[x] /\ rel'[x] = rel[x] /\ work'[x] = work[x]
  BY <1>2, <1>3, <1>4
<1>6. TypeOK'
  <2>1. WorkType' /\ RefType'
    BY <1>1, <1>2, <1>3, <1>4 DEF WorkType, RefType, WorkStates, TypeOK
  <2> QED BY <1>1, <2>1 DEF TypeOK, CallType, SlotType, CountType, HistoryType
<1>7. CallInv' /\ WorkInv'
  <2>1. CallInv'
    BY <1>1, <1>5 DEF CallInv
  <2>2. WorkInv'
    BY <1>1, <1>2, <1>5 DEF WorkInv, Successor
  <2> QED BY <2>1, <2>2
<1>8. StatusInv' /\ ChainInv' /\ PlaceInv' /\ TailInv' /\ NextInv' /\ TimeInv' /\ AheadInv'
  BY <1>1 DEF StatusInv, ChainInv, PlaceInv, TailInv, NextInv, TimeInv, AheadInv,
              OnChain
<1>9. \A x \in Behaviours : Held(x)' = Held(x) /\ Blocked(x)' = Blocked(x)
  BY <1>1, <1>5 DEF Held, Blocked
<1>10. PrevInv' /\ HeldInv' /\ RunInv' /\ CountInv'
  BY <1>1, <1>5, <1>9 DEF PrevInv, HeldInv, RunInv, CountInv, OnChain
<1> QED BY <1>6, <1>7, <1>8, <1>10

(* A caller's count plays no part in the scheduling. *)
LEMMA CallerDropKeeps ==
  ASSUME IInv, NEW b \in Behaviours, NEW c \in Cowns, CallerDrop(b, c)
  PROVE  IInv'
<1>1. UNCHANGED <<scall, todo, at, prev, ec, work, left, rel, countdown, status,
                  lastSlot, pos, joined, served, time, spawned, wakes>>
  BY DEF CallerDrop, callVars, workVars, slotVars, history
<1> USE DEF IInv
<1>2. TypeOK'
  <2>1. RefType'
    BY DEF CallerDrop, TypeOK, RefType
  <2> QED BY <1>1, <2>1
          DEF TypeOK, CallType, WorkType, SlotType, CountType, HistoryType
<1>3. /\ CallInv' /\ WorkInv' /\ StatusInv' /\ ChainInv' /\ PlaceInv' /\ TailInv'
      /\ PrevInv' /\ NextInv' /\ HeldInv' /\ RunInv' /\ TimeInv' /\ AheadInv'
  <2>1. CallInv' /\ WorkInv' /\ StatusInv' /\ ChainInv' /\ PlaceInv' /\ TailInv'
    BY <1>1 DEF CallInv, WorkInv, StatusInv, ChainInv, PlaceInv, TailInv, OnChain,
                Successor
  <2>2. PrevInv' /\ NextInv' /\ HeldInv'
    BY <1>1 DEF PrevInv, NextInv, HeldInv, OnChain, Held
  <2>3. RunInv' /\ TimeInv' /\ AheadInv'
    BY <1>1 DEF RunInv, TimeInv, AheadInv, OnChain, Blocked
  <2> QED BY <2>1, <2>2, <2>3
<1>4. CountInv'
  <2>1. \A x \in Behaviours : Blocked(x)' = Blocked(x)
    BY <1>1 DEF Blocked
  <2> QED BY <1>1, <2>1 DEF CountInv
<1> QED BY <1>2, <1>3, <1>4

(* IInv reads no more than the variables of the module. *)
LEMMA StutterKeeps == IInv /\ UNCHANGED vars => IInv'
<1> SUFFICES ASSUME IInv, UNCHANGED vars PROVE IInv'
  OBVIOUS
<1>1. UNCHANGED <<scall, todo, at, prev, ec, work, left, rel, countdown, status,
                  lastSlot, rc, callerRef, pos, joined, served, time, spawned, wakes>>
  BY DEF vars, callVars, workVars, slotVars, refVars, history
<1> USE DEF IInv
<1>2. TypeOK'
  BY <1>1 DEF TypeOK, CallType, WorkType, SlotType, CountType, RefType, HistoryType
<1>3. CallInv' /\ WorkInv' /\ StatusInv' /\ ChainInv' /\ PlaceInv' /\ TailInv'
  BY <1>1 DEF CallInv, WorkInv, StatusInv, ChainInv, PlaceInv, TailInv, OnChain,
              Successor
<1>4. PrevInv' /\ NextInv' /\ HeldInv'
  BY <1>1 DEF PrevInv, NextInv, HeldInv, OnChain, Held
<1>5. RunInv' /\ TimeInv' /\ AheadInv'
  BY <1>1 DEF RunInv, TimeInv, AheadInv, OnChain, Blocked
<1>6. CountInv'
  <2>1. \A x \in Behaviours : Blocked(x)' = Blocked(x)
    BY <1>1 DEF Blocked
  <2> QED BY <1>1, <2>1 DEF CountInv
<1> QED BY <1>2, <1>3, <1>4, <1>5, <1>6

(* Every step keeps IInv. *)
LEMMA StepKeeps == IInv /\ [Next]_vars => IInv'
<1> SUFFICES ASSUME IInv, Next PROVE IInv'
  BY StutterKeeps
<1>1. PICK b \in Behaviours :
        CallStep(b) \/ WorkStep(b) \/ \E c \in Cowns : CallerDrop(b, c)
  BY DEF Next
<1>2. CASE CallStep(b)
  <2>1. ASSUME NEW c \in Cowns, Exchange(b, c) PROVE IInv'
    BY <2>1, ExchangeKeeps
  <2>2. ASSUME NEW c \in Cowns, SetReady(b, c) PROVE IInv'
    BY <2>2, SetReadyKeeps
  <2>3. AcquireCown(b) => IInv'
    BY AcquireCownKeeps
  <2>4. AwaitPrev(b) => IInv'
    BY AwaitPrevKeeps
  <2>5. Link(b) => IInv'
    BY LinkKeeps
  <2>6. CallLoad(b) => IInv'
    BY CallLoadKeeps
  <2>7. CallSub(b) => IInv'
    BY CallSubKeeps
  <2> QED BY <1>2, <2>1, <2>2, <2>3, <2>4, <2>5, <2>6, <2>7 DEF CallStep
<1>3. CASE WorkStep(b)
  <2>1. Run(b) => IInv'
    BY RunKeeps
  <2>2. BodyReturns(b) => IInv'
    BY BodyReturnsKeeps
  <2>3. ASSUME NEW c \in Cowns, ReleaseRead(b, c) PROVE IInv'
    BY <2>3, ReleaseReadKeeps
  <2>4. ReleaseCas(b) => IInv'
    BY ReleaseCasKeeps
  <2>5. ReleaseCown(b) => IInv'
    BY ReleaseCownKeeps
  <2>6. AwaitLink(b) => IInv'
    BY AwaitLinkKeeps
  <2>7. ResolveLoad(b) => IInv'
    BY ResolveLoadKeeps
  <2>8. ResolveSub(b) => IInv'
    BY ResolveSubKeeps
  <2>9. Dealloc(b) => IInv'
    BY DeallocKeeps
  <2> QED BY <1>3, <2>1, <2>2, <2>3, <2>4, <2>5, <2>6, <2>7, <2>8, <2>9
          DEF WorkStep
<1>4. ASSUME NEW c \in Cowns, CallerDrop(b, c) PROVE IInv'
  BY <1>4, CallerDropKeeps
<1> QED BY <1>1, <1>2, <1>3, <1>4

(* In every reachable state the program counters, the chains and the       *)
(* counts agree as IInv says: schedule and release keep it, step by step.  *)
THEOREM Invariance == Spec => []IInv
<1>1. Init => IInv
  BY InitHolds
<1>2. IInv /\ [Next]_vars => IInv'
  BY StepKeeps
<1> QED BY <1>1, <1>2, PTL DEF Spec

(* The variables stay in their ranges; in particular no fetch_sub takes    *)
(* exec_count_down below zero.                                             *)
THEOREM TypeCorrect == Spec => []TypeOK
<1>1. IInv => TypeOK
  BY DEF IInv
<1> QED BY <1>1, Invariance, PTL

(* The chains are locks: behaviours that were scheduled to run own each of *)
(* their cowns alone until release_all lets go of it.                      *)
THEOREM MutualExclusionHolds == Spec => []MutualExclusion
<1>1. IInv => MutualExclusion
  <2> SUFFICES ASSUME IInv, NEW b \in Behaviours, NEW o \in Behaviours, NEW c,
                      work[b] # "idle", work[o] # "idle",
                      c \in Held(b), c \in Held(o)
               PROVE  b = o
    BY DEF MutualExclusion
  <2>1. ASSUME NEW x \in Behaviours, work[x] # "idle", c \in Held(x)
        PROVE  c \in Cowns /\ OnChain(x, c) /\ pos[x][c] = served[c] + 1
    <3>1. c \in Footprint[x] /\ c \in Cowns
      BY <2>1, FootprintAssumption DEF IInv, WorkInv, Held
    <3>2. c \notin Blocked(x)
      BY <2>1 DEF IInv, RunInv
    <3>3. pos[x][c] \in Nat /\ served[c] \in Nat
      BY <3>1 DEF IInv, TypeOK, HistoryType
    <3>4. OnChain(x, c) /\ pos[x][c] <= served[c] + 1
      BY <3>1, <3>2, <3>3 DEF Blocked, OnChain
    <3>5. served[c] < pos[x][c]
      BY <2>1, <3>1, <3>4 DEF IInv, HeldInv
    <3> QED BY <3>1, <3>3, <3>4, <3>5
  <2>2. c \in Cowns /\ OnChain(b, c) /\ pos[b][c] = pos[o][c]
    BY <2>1
  <2> QED BY <2>2 DEF IInv, PlaceInv
<1> QED BY <1>1, Invariance, PTL

(* exec_count_down starts one above the number of slots so that exactly    *)
(* one resolve wakes the behaviour, and not before schedule is through     *)
(* with it.                                                                *)
THEOREM WokenOnceHolds == Spec => []WokenOnceAfterCall
<1>1. IInv => WokenOnceAfterCall
  BY DEF IInv, CallInv, WokenOnceAfterCall
<1> QED BY <1>1, Invariance, PTL

(* A behaviour is deallocated after release_all, and by then nobody can    *)
(* reach its slots: those behind it have linked themselves, and those      *)
(* ahead of it have resolved it.                                           *)
THEOREM NoUseAfterFreeHolds == Spec => []NoUseAfterFree
<1>1. IInv => NoUseAfterFree
  <2> SUFFICES ASSUME IInv, NEW b \in Behaviours
               PROVE  /\ scall[b] \in {"spin", "link"} => work[prev[b]] # "freed"
                      /\ work[b] \in {"load", "sub"} => work[Successor(b)] = "idle"
    BY DEF NoUseAfterFree
  <2>1. ASSUME scall[b] \in {"spin", "link"} PROVE work[prev[b]] # "freed"
    <3>1. prev[b] \in Behaviours /\ at[b] \in Held(prev[b])
      BY <2>1 DEF IInv, PrevInv
    <3>2. at[b] \in left[prev[b]]
      BY <3>1 DEF Held
    <3> QED BY <3>1, <3>2 DEF IInv, WorkInv
  <2> QED BY <2>1, SuccessorBlocked
<1> QED BY <1>1, Invariance, PTL

(* Slot::release never fails its asserts. *)
THEOREM ReleaseAssertsHold == Spec => []ReleaseAsserts
<1>1. IInv => ReleaseAsserts
  <2> SUFFICES ASSUME IInv, NEW b \in Behaviours
               PROVE  /\ work[b] = "release"
                           => \A c \in left[b] : status[b][c] # Wait
                      /\ work[b] \in {"load", "sub"} => Successor(b) \in Behaviours
    BY DEF ReleaseAsserts
  <2>1. \A x \in Behaviours \cup {Ready} : x # Wait
    BY StatusAssumption
  <2> QED BY <2>1, ReleasedPastWait, SuccessorBlocked
<1> QED BY <1>1, Invariance, PTL

(* The happens-before order of the doc comment of schedule: overlapping    *)
(* calls are ordered alike on every cown they share.                       *)
THEOREM NoOvertakingHolds == Spec => []NoOvertaking
<1>1. IInv => NoOvertaking
  BY DEF IInv, TimeInv, NoOvertaking, OnChain
<1> QED BY <1>1, Invariance, PTL

------------------------------------------------------------------------------
(***************************************************************************)
(* The strong counts of the cowns: a chain holds one count on its cown, no *)
(* step touches a collected cown, and when everything ran every count was  *)
(* given back.                                                             *)
(*                                                                         *)
(* RefInv is inductive together with IInv, which gives the order of the    *)
(* places of a chain: only the first of a chain goes to Cown::acquire, and *)
(* whoever is first, is alone.                                             *)
(***************************************************************************)

(* The terms of the equation can be counted. *)
LEMMA TermsFinite ==
  ASSUME NEW c
  PROVE  /\ IsFiniteSet(Droppers(c)) /\ Cardinality(Droppers(c)) \in Nat
         /\ IsFiniteSet(Callers(c)) /\ Cardinality(Callers(c)) \in Nat
<1>1. Droppers(c) \subseteq Behaviours /\ Callers(c) \subseteq Behaviours
  BY DEF Droppers, Callers
<1> QED BY <1>1, FiniteAssumption, FS_Subset, FS_CardinalityType

(* The equation by its terms. *)
LEMMA Equation ==
  ASSUME ChainHoldsOneCount, NEW c \in Cowns
  PROVE  rc[c] = Cardinality(Droppers(c)) + (IF Counted(c) THEN 1 ELSE 0)
                 + Cardinality(Callers(c))
BY DEF ChainHoldsOneCount, ChainCounts, Droppers, Callers, Counted

(* Whoever acquires a cown has the place that owns it. *)
LEMMA AcquirerFirst ==
  ASSUME IInv, RefInv, NEW b \in Behaviours, scall[b] = "acquire"
  PROVE  /\ at[b] \in Cowns /\ at[b] \in Footprint[b] /\ at[b] \in todo[b]
         /\ OnChain(b, at[b]) /\ pos[b][at[b]] = served[at[b]] + 1
         /\ lastSlot[at[b]] # NoSlot
         /\ time[b] = 0 /\ work[b] = "idle"
         /\ ~Counted(at[b])
<1> USE DEF IInv
<1>1. at[b] \in todo[b] /\ at[b] \in Footprint[b] /\ time[b] = 0 /\ work[b] = "idle"
  BY DEF CallInv, InPhase1
<1>2. at[b] \in Cowns
  BY <1>1, FootprintAssumption
<1>3. OnChain(b, at[b]) /\ pos[b][at[b]] = served[at[b]] + 1
  BY <1>1, <1>2 DEF ChainInv, RefInv, AcquireInv
<1>4. lastSlot[at[b]] # NoSlot
  <2>1. /\ pos[b][at[b]] \in Nat /\ served[at[b]] \in Nat /\ joined[at[b]] \in Nat
        /\ pos[b][at[b]] <= joined[at[b]]
    BY <1>2 DEF TypeOK, HistoryType, PlaceInv
  <2> QED BY <1>2, <1>3, <2>1 DEF TailInv
<1> QED BY <1>1, <1>2, <1>3, <1>4 DEF Counted

(* Nobody else has that place. *)
LEMMA AcquirerAlone ==
  ASSUME IInv, RefInv, NEW b \in Behaviours, scall[b] = "acquire",
         NEW x \in Behaviours, OnChain(x, at[b]),
         pos[x][at[b]] = served[at[b]] + 1
  PROVE  x = b
BY AcquirerFirst DEF IInv, PlaceInv, OnChain

(* A slot that was not let go of keeps its cown's chain alive; and the     *)
(* chain was counted, if the behaviour has finished phase 1 or, on this    *)
(* cown, its turn.                                                         *)
LEMMA HeldCounted ==
  ASSUME IInv, RefInv, NEW b \in Behaviours, NEW c \in Cowns,
         OnChain(b, c), c \in Held(b),
         \/ time[b] > 0
         \/ c \notin todo[b]
         \/ scall[b] = "link" /\ c = at[b]
  PROVE  Counted(c)
<1> USE DEF IInv
<1>1. /\ pos[b][c] \in Nat /\ served[c] \in Nat /\ joined[c] \in Nat
      /\ served[c] < pos[b][c] /\ pos[b][c] <= joined[c]
      /\ time[b] \in Nat
  BY DEF TypeOK, HistoryType, HeldInv, PlaceInv
<1>2. lastSlot[c] # NoSlot
  BY <1>1 DEF TailInv
<1>3. ASSUME NEW x \in Behaviours, scall[x] = "acquire", at[x] = c
      PROVE  FALSE
  <2>1. /\ OnChain(x, c) /\ pos[x][c] = served[c] + 1 /\ time[x] = 0
        /\ c \in todo[x]
    BY <1>3, AcquirerFirst
  <2>2. x # b
    BY <1>3, <2>1
  <2>3. pos[x][c] < pos[b][c]
    BY <1>1, <2>1, <2>2 DEF PlaceInv
  <2>4. time[x] > 0
    <3>1. CASE time[b] > 0
      BY <2>1, <2>3, <3>1 DEF TimeInv, TypeOK, HistoryType
    <3>2. CASE time[b] = 0
      BY <2>1, <2>3, <3>2 DEF AheadInv
    <3> QED BY <1>1, <3>1, <3>2
  <2> QED BY <2>1, <2>4
<1> QED BY <1>2, <1>3 DEF Counted

(* At first the callers have every count there is. *)
LEMMA InitCounts == Init => RefInv
<1> SUFFICES ASSUME Init PROVE RefInv
  OBVIOUS
<1>1. CallerInv /\ AcquireInv
  BY DEF Init, CallerInv, AcquireInv
<1>2. ChainHoldsOneCount
  <2> SUFFICES ASSUME NEW c \in Cowns
               PROVE  rc[c] = ChainCounts(c)
                              + Cardinality({b \in Behaviours : c \in callerRef[b]})
    BY DEF ChainHoldsOneCount
  <2>1. {b \in Behaviours : work[b] = "drop" /\ rel[b] = c} = {}
    BY DEF Init
  <2>2. ChainCounts(c) = 0
    <3>1. Cardinality({b \in Behaviours : work[b] = "drop" /\ rel[b] = c}) = 0
      BY <2>1, FS_EmptySet
    <3>2. lastSlot[c] = NoSlot
      BY DEF Init
    <3> QED BY <3>1, <3>2 DEF ChainCounts
  <2>3. /\ rc[c] = Cardinality({b \in Behaviours : c \in Footprint[b]})
        /\ callerRef = Footprint
    BY DEF Init
  <2>4. Cardinality({b \in Behaviours : c \in Footprint[b]}) \in Nat
    BY FiniteAssumption, FS_Subset, FS_CardinalityType
  <2> QED BY <2>2, <2>3, <2>4
<1> QED BY <1>1, <1>2 DEF RefInv

(* A step that moves no count, no tail and nobody in or out of acquiring   *)
(* or dropping leaves the equation as it is.                               *)
LEMMA CountsStay ==
  ASSUME RefInv, UNCHANGED <<rc, callerRef, lastSlot>>,
         \A x \in Behaviours :
           /\ scall'[x] = "acquire" <=> scall[x] = "acquire"
           /\ scall[x] = "acquire" => at'[x] = at[x]
           /\ work'[x] = "drop" <=> work[x] = "drop"
           /\ work[x] = "drop" => rel'[x] = rel[x]
  PROVE  ChainHoldsOneCount'
<1> SUFFICES ASSUME NEW c \in Cowns
             PROVE  rc'[c] = ChainCounts(c)'
                             + Cardinality({b \in Behaviours : c \in callerRef'[b]})
  BY DEF ChainHoldsOneCount
<1>1. {b \in Behaviours : work'[b] = "drop" /\ rel'[b] = c}
        = {b \in Behaviours : work[b] = "drop" /\ rel[b] = c}
  OBVIOUS
<1>2. (\E b \in Behaviours : scall'[b] = "acquire" /\ at'[b] = c)
        <=> (\E b \in Behaviours : scall[b] = "acquire" /\ at[b] = c)
  OBVIOUS
<1>3. ChainCounts(c)' = ChainCounts(c)
  BY <1>1, <1>2 DEF ChainCounts
<1> QED BY <1>3 DEF RefInv, ChainHoldsOneCount

(* A behaviour that joins a chain without a tail goes on to count it; on   *)
(* any other, the chain is counted already.                                *)
LEMMA ExchangeCounts ==
  ASSUME IInv, RefInv, NEW b \in Behaviours, NEW c \in Cowns, Exchange(b, c)
  PROVE  RefInv'
<1>1. /\ scall[b] = "exchange" /\ c \in todo[b]
      /\ UNCHANGED <<todo, work, left, rel, rc, callerRef, served>>
  BY DEF Exchange, IsNext, workVars, refVars
<1>2. \A x \in Behaviours, d \in Cowns :
        /\ scall'[x] = IF x # b THEN scall[x]
                       ELSE IF lastSlot[c] = NoSlot THEN "acquire" ELSE "spin"
        /\ at'[x] = IF x = b THEN c ELSE at[x]
        /\ lastSlot'[d] = IF d = c THEN b ELSE lastSlot[d]
        /\ pos'[x][d] = IF x = b /\ d = c THEN joined[c] + 1 ELSE pos[x][d]
  BY DEF Exchange, IInv, TypeOK, CallType, SlotType, HistoryType
<1>3. CallerInv'
  BY <1>1, <1>2 DEF RefInv, CallerInv
<1>4. AcquireInv'
  <2> SUFFICES ASSUME NEW x \in Behaviours, scall'[x] = "acquire"
               PROVE  pos'[x][at'[x]] = served[at'[x]] + 1
    BY <1>1 DEF AcquireInv
  <2>1. CASE x = b
    <3>1. lastSlot[c] = NoSlot
      BY <1>2, <2>1
    <3>2. served[c] = joined[c]
      BY <3>1 DEF IInv, TailInv
    <3> QED BY <1>2, <2>1, <3>2
  <2>2. CASE x # b
    <3>1. scall[x] = "acquire" /\ at'[x] = at[x]
      BY <1>2, <2>2
    <3>2. at[x] \in Cowns /\ pos[x][at[x]] = served[at[x]] + 1
      BY <3>1, AcquirerFirst
    <3> QED BY <1>2, <2>2, <3>1, <3>2
  <2> QED BY <2>1, <2>2
<1>5. ChainHoldsOneCount'
  <2> SUFFICES ASSUME NEW d \in Cowns
               PROVE  rc'[d] = ChainCounts(d)'
                               + Cardinality({x \in Behaviours : d \in callerRef'[x]})
    BY DEF ChainHoldsOneCount
  <2>1. Droppers(d)' = Droppers(d) /\ Callers(d)' = Callers(d)
    BY <1>1 DEF Droppers, Callers
  <2>2. Counted(d)' <=> Counted(d)
    <3>1. b # NoSlot
      BY StatusAssumption
    <3>2. CASE d = c
      <4>1. CASE lastSlot[c] = NoSlot
        <5>1. scall'[b] = "acquire" /\ at'[b] = d
          BY <1>2, <3>2, <4>1
        <5>2. ~Counted(d) /\ ~Counted(d)'
          BY <3>2, <4>1, <5>1 DEF Counted
        <5> QED BY <5>2
      <4>2. CASE lastSlot[c] # NoSlot
        <5>1. \A x \in Behaviours : scall'[x] = "acquire" /\ at'[x] = d
                                      <=> scall[x] = "acquire" /\ at[x] = d
          BY <1>1, <1>2, <4>2
        <5>2. lastSlot'[d] # NoSlot /\ lastSlot[d] # NoSlot
          BY <1>2, <3>1, <3>2, <4>2
        <5> QED BY <5>1, <5>2 DEF Counted
      <4> QED BY <4>1, <4>2
    <3>3. CASE d # c
      <4>1. \A x \in Behaviours : scall'[x] = "acquire" /\ at'[x] = d
                                    <=> scall[x] = "acquire" /\ at[x] = d
        BY <1>1, <1>2, <3>3
      <4> QED BY <1>2, <3>3, <4>1 DEF Counted
    <3> QED BY <3>2, <3>3
  <2>3. rc[d] = Cardinality(Droppers(d)) + (IF Counted(d) THEN 1 ELSE 0)
                + Cardinality(Callers(d))
    BY Equation DEF RefInv
  <2> QED BY <1>1, <2>1, <2>2, <2>3 DEF ChainCounts, Droppers, Callers, Counted
<1> QED BY <1>3, <1>4, <1>5 DEF RefInv

(* The chain gets its count: a new one, or the caller's.                   *)
LEMMA AcquireCownCounts ==
  ASSUME IInv, RefInv, NEW b \in Behaviours, AcquireCown(b)
  PROVE  RefInv'
<1> DEFINE c == at[b]
<1>1. /\ scall[b] = "acquire" /\ CountChain(b) /\ Acquired(b, at[b])
      /\ UNCHANGED <<at, ec, work, left, rel, lastSlot, pos, served>>
  BY DEF AcquireCown, workVars, slotVars
<1>2. /\ c \in Cowns /\ c \in Footprint[b] /\ c \in todo[b]
      /\ lastSlot[c] # NoSlot /\ ~Counted(c)
      /\ OnChain(b, c) /\ pos[b][c] = served[c] + 1
  BY <1>1, AcquirerFirst
<1>3. /\ \A x \in Behaviours \ {b} : scall'[x] = scall[x] /\ todo'[x] = todo[x]
      /\ scall'[b] \in {"ready", "exchange"}
      /\ scall'[b] = "exchange" => todo'[b] = todo[b] \ {c}
  BY <1>1, AcquiredUpdates
<1>4. /\ callerRef \in [Behaviours -> SUBSET Cowns] /\ rc \in [Cowns -> Int]
  BY DEF IInv, TypeOK, RefType
<1>5. /\ \A x \in Behaviours :
           callerRef'[x] = IF x = b /\ b \in Transfer THEN callerRef[x] \ {c}
                                                     ELSE callerRef[x]
      /\ \A d \in Cowns :
           rc'[d] = IF d = c /\ b \notin Transfer THEN rc[d] + 1 ELSE rc[d]
  BY <1>1, <1>2, <1>4 DEF CountChain
<1>6. CallerInv'
  <2>1. ASSUME NEW x \in Behaviours \ {b}
        PROVE  /\ callerRef'[x] = callerRef[x] /\ scall'[x] = scall[x]
               /\ todo'[x] = todo[x] /\ at'[x] = at[x]
    BY <1>1, <1>3, <1>5
  <2>2. /\ callerRef[b] \subseteq Footprint[b]
        /\ b \in Transfer => todo[b] \subseteq callerRef[b]
        /\ b \notin Transfer => callerRef[b] = Footprint[b]
    BY <1>1 DEF RefInv, CallerInv
  <2>3. /\ callerRef'[b] \subseteq Footprint[b]
        /\ b \in Transfer /\ scall'[b] = "exchange" => todo'[b] \subseteq callerRef'[b]
        /\ b \notin Transfer => callerRef'[b] = Footprint[b]
    BY <1>3, <1>5, <2>2
  <2> QED BY <1>3, <2>1, <2>3 DEF RefInv, CallerInv
<1>7. AcquireInv'
  BY <1>1, <1>3 DEF RefInv, AcquireInv
<1>8. ChainHoldsOneCount'
  <2> SUFFICES ASSUME NEW d \in Cowns
               PROVE  rc'[d] = ChainCounts(d)'
                               + Cardinality({x \in Behaviours : d \in callerRef'[x]})
    BY DEF ChainHoldsOneCount
  <2>1. Droppers(d)' = Droppers(d)
    BY <1>1 DEF Droppers
  <2>2. Counted(d)' <=> Counted(d) \/ d = c
    <3>1. ASSUME NEW x \in Behaviours \ {b}, scall[x] = "acquire" PROVE at[x] # c
      BY <1>1, <1>2, <3>1, AcquirerFirst, AcquirerAlone
    <3>2. CASE d = c
      BY <1>1, <1>2, <1>3, <3>1, <3>2 DEF Counted
    <3>3. CASE d # c
      <4>1. \A x \in Behaviours : scall'[x] = "acquire" /\ at[x] = d
                                    <=> scall[x] = "acquire" /\ at[x] = d
        BY <1>3, <3>3
      <4> QED BY <1>1, <3>3, <4>1 DEF Counted
    <3> QED BY <3>2, <3>3
  <2>3. /\ rc[d] = Cardinality(Droppers(d)) + (IF Counted(d) THEN 1 ELSE 0)
                   + Cardinality(Callers(d))
        /\ Cardinality(Droppers(d)) \in Nat /\ Cardinality(Callers(d)) \in Nat
        /\ IsFiniteSet(Callers(d))
    BY Equation, TermsFinite DEF RefInv
  <2>4. Cardinality(Callers(d)') = IF d = c /\ b \in Transfer
                                   THEN Cardinality(Callers(d)) - 1
                                   ELSE Cardinality(Callers(d))
    <3>1. CASE d = c /\ b \in Transfer
      <4>1. Callers(d)' = Callers(d) \ {b}
        BY <1>5, <3>1 DEF Callers
      <4>2. b \in Callers(d)
        BY <1>1, <1>2, <3>1 DEF RefInv, CallerInv, Callers
      <4>3. Cardinality(Callers(d) \ {b}) = Cardinality(Callers(d)) - 1
        BY <2>3, <4>2, FS_RemoveElement
      <4> QED BY <3>1, <4>1, <4>3
    <3>2. CASE ~(d = c /\ b \in Transfer)
      <4>1. Callers(d)' = Callers(d)
        BY <1>5, <3>2 DEF Callers
      <4> QED BY <3>2, <4>1
    <3> QED BY <3>1, <3>2
  <2>5. rc'[d] = IF d = c /\ b \notin Transfer THEN rc[d] + 1 ELSE rc[d]
    BY <1>5
  <2>6. Counted(d) => d # c
    BY <1>2
  <2>7. rc'[d] = Cardinality(Droppers(d)') + (IF Counted(d)' THEN 1 ELSE 0)
                 + Cardinality(Callers(d)')
    BY <2>1, <2>2, <2>3, <2>4, <2>5, <2>6
  <2> QED BY <2>7 DEF ChainCounts, Droppers, Callers, Counted
<1> QED BY <1>6, <1>7, <1>8 DEF RefInv

(* A link counts nothing: the chain's count is there.                      *)
LEMMA LinkCounts ==
  ASSUME IInv, RefInv, NEW b \in Behaviours, Link(b)
  PROVE  RefInv'
<1> DEFINE c == at[b]
<1>1. /\ scall[b] = "link" /\ Acquired(b, at[b])
      /\ UNCHANGED <<at, ec, work, left, rel, lastSlot, rc, callerRef, pos, served>>
  BY DEF Link, workVars, refVars
<1>2. /\ \A x \in Behaviours \ {b} : scall'[x] = scall[x] /\ todo'[x] = todo[x]
      /\ scall'[b] \in {"ready", "exchange"}
      /\ scall'[b] = "exchange" => todo'[b] = todo[b] \ {c}
  BY <1>1, AcquiredUpdates
<1>3. CallerInv'
  <2>1. /\ b \in Transfer => todo[b] \ {c} \subseteq callerRef[b]
        /\ b \notin Transfer => callerRef[b] = Footprint[b]
    BY <1>1 DEF RefInv, CallerInv
  <2> QED BY <1>1, <1>2, <2>1 DEF RefInv, CallerInv
<1>4. AcquireInv'
  BY <1>1, <1>2 DEF RefInv, AcquireInv
<1>5. ChainHoldsOneCount'
  BY <1>1, <1>2, CountsStay
<1> QED BY <1>3, <1>4, <1>5 DEF RefInv

(* The caller's count is surplus on a chain that has one.                  *)
LEMMA AwaitPrevCounts ==
  ASSUME IInv, RefInv, NEW b \in Behaviours, AwaitPrev(b)
  PROVE  RefInv'
<1> DEFINE c == at[b]
<1>1. /\ scall[b] = "spin" /\ DropSurplus(b)
      /\ UNCHANGED <<todo, at, work, left, rel, lastSlot, pos, served>>
  BY DEF AwaitPrev, workVars, slotVars, history
<1>2. /\ scall'[b] = "link"
      /\ \A x \in Behaviours \ {b} : scall'[x] = scall[x]
  BY DEF AwaitPrev, IInv, TypeOK, CallType
<1>3. c \in Cowns /\ c \in todo[b]
  BY <1>1, FootprintAssumption DEF IInv, CallInv
<1>4. /\ \A x \in Behaviours :
           callerRef'[x] = IF x = b /\ b \in Transfer THEN callerRef[x] \ {c}
                                                     ELSE callerRef[x]
      /\ \A d \in Cowns :
           rc'[d] = IF d = c /\ b \in Transfer THEN rc[d] - 1 ELSE rc[d]
  BY <1>1, <1>3 DEF DropSurplus, refVars, IInv, TypeOK, RefType
<1>5. /\ callerRef[b] \subseteq Footprint[b]
      /\ b \in Transfer => todo[b] \subseteq callerRef[b]
      /\ b \notin Transfer => callerRef[b] = Footprint[b]
  BY <1>1 DEF RefInv, CallerInv
<1>6. CallerInv'
  <2>1. /\ callerRef'[b] \subseteq Footprint[b]
        /\ b \in Transfer => todo[b] \ {c} \subseteq callerRef'[b]
        /\ b \notin Transfer => callerRef'[b] = Footprint[b]
    BY <1>4, <1>5
  <2>2. \A x \in Behaviours \ {b} : callerRef'[x] = callerRef[x]
    BY <1>4
  <2> QED BY <1>1, <1>2, <2>1, <2>2 DEF RefInv, CallerInv
<1>7. AcquireInv'
  BY <1>1, <1>2 DEF RefInv, AcquireInv
<1>8. ChainHoldsOneCount'
  <2> SUFFICES ASSUME NEW d \in Cowns
               PROVE  rc'[d] = ChainCounts(d)'
                               + Cardinality({x \in Behaviours : d \in callerRef'[x]})
    BY DEF ChainHoldsOneCount
  <2>1. Droppers(d)' = Droppers(d) /\ (Counted(d)' <=> Counted(d))
    BY <1>1, <1>2 DEF Droppers, Counted
  <2>2. /\ rc[d] = Cardinality(Droppers(d)) + (IF Counted(d) THEN 1 ELSE 0)
                   + Cardinality(Callers(d))
        /\ Cardinality(Droppers(d)) \in Nat /\ Cardinality(Callers(d)) \in Nat
        /\ IsFiniteSet(Callers(d))
    BY Equation, TermsFinite DEF RefInv
  <2>3. CASE d = c /\ b \in Transfer
    <3>1. Callers(d)' = Callers(d) \ {b} /\ b \in Callers(d)
      BY <1>3, <1>4, <1>5, <2>3 DEF Callers
    <3>2. Cardinality(Callers(d)') = Cardinality(Callers(d)) - 1
      BY <2>2, <3>1, FS_RemoveElement
    <3>3. rc'[d] = Cardinality(Droppers(d)') + (IF Counted(d)' THEN 1 ELSE 0)
                   + Cardinality(Callers(d)')
      BY <1>4, <2>1, <2>2, <2>3, <3>2
    <3> QED BY <3>3 DEF ChainCounts, Droppers, Callers, Counted
  <2>4. CASE ~(d = c /\ b \in Transfer)
    <3>1. Callers(d)' = Callers(d) /\ rc'[d] = rc[d]
      BY <1>4, <2>4 DEF Callers
    <3> QED BY <2>1, <2>2, <3>1 DEF ChainCounts, Droppers, Callers, Counted
  <2> QED BY <2>3, <2>4
<1> QED BY <1>6, <1>7, <1>8 DEF RefInv

(* A caller gives a count back after its call.                             *)
LEMMA CallerDropCounts ==
  ASSUME IInv, RefInv, NEW b \in Behaviours, NEW c \in Cowns, CallerDrop(b, c)
  PROVE  RefInv'
<1>1. /\ scall[b] = "returned" /\ c \in callerRef[b]
      /\ UNCHANGED <<scall, todo, at, work, left, rel, lastSlot, pos, served>>
  BY DEF CallerDrop, callVars, workVars, slotVars, history
<1>2. /\ \A x \in Behaviours :
           callerRef'[x] = IF x = b THEN callerRef[x] \ {c} ELSE callerRef[x]
      /\ \A d \in Cowns :
           rc'[d] = IF d = c THEN rc[d] - 1 ELSE rc[d]
  BY DEF CallerDrop, IInv, TypeOK, RefType
<1>3. CallerInv'
  BY <1>1, <1>2 DEF RefInv, CallerInv
<1>4. AcquireInv'
  BY <1>1 DEF RefInv, AcquireInv
<1>5. ChainHoldsOneCount'
  <2> SUFFICES ASSUME NEW d \in Cowns
               PROVE  rc'[d] = ChainCounts(d)'
                               + Cardinality({x \in Behaviours : d \in callerRef'[x]})
    BY DEF ChainHoldsOneCount
  <2>1. Droppers(d)' = Droppers(d) /\ (Counted(d)' <=> Counted(d))
    BY <1>1 DEF Droppers, Counted
  <2>2. /\ rc[d] = Cardinality(Droppers(d)) + (IF Counted(d) THEN 1 ELSE 0)
                   + Cardinality(Callers(d))
        /\ Cardinality(Droppers(d)) \in Nat /\ Cardinality(Callers(d)) \in Nat
        /\ IsFiniteSet(Callers(d))
    BY Equation, TermsFinite DEF RefInv
  <2>3. CASE d = c
    <3>1. Callers(d)' = Callers(d) \ {b} /\ b \in Callers(d)
      BY <1>1, <1>2, <2>3 DEF Callers
    <3>2. Cardinality(Callers(d)') = Cardinality(Callers(d)) - 1
      BY <2>2, <3>1, FS_RemoveElement
    <3>3. rc'[d] = Cardinality(Droppers(d)') + (IF Counted(d)' THEN 1 ELSE 0)
                   + Cardinality(Callers(d)')
      BY <1>2, <2>1, <2>2, <2>3, <3>2
    <3> QED BY <3>3 DEF ChainCounts, Droppers, Callers, Counted
  <2>4. CASE d # c
    <3>1. Callers(d)' = Callers(d) /\ rc'[d] = rc[d]
      BY <1>2, <2>4 DEF Callers
    <3> QED BY <2>1, <2>2, <3>1 DEF ChainCounts, Droppers, Callers, Counted
  <2> QED BY <2>3, <2>4
<1> QED BY <1>3, <1>4, <1>5 DEF RefInv

(* Phase 2 and the last resolve of schedule count nothing.                 *)
LEMMA CallEndCounts ==
  ASSUME IInv, RefInv, NEW b \in Behaviours,
         \/ \E c \in Cowns : SetReady(b, c)
         \/ CallLoad(b)
         \/ CallSub(b)
  PROVE  RefInv'
<1>1. /\ scall[b] \in {"ready", "load", "sub"}
      /\ scall'[b] \in {"ready", "load", "sub", "returned"}
      /\ \A x \in Behaviours \ {b} : scall'[x] = scall[x] /\ todo'[x] = todo[x]
      /\ UNCHANGED <<at, rel, lastSlot, rc, callerRef, pos, served>>
  BY DEF SetReady, CallLoad, CallSub, IInv, TypeOK, CallType, workVars, slotVars,
         refVars, history
<1>2. \A x \in Behaviours : work'[x] = "drop" <=> work[x] = "drop"
  <2>1. CASE UNCHANGED work
    BY <2>1
  <2>2. CASE Wake(b)
    <3>1. work[b] # "drop"
      BY <1>1 DEF IInv, CallInv
    <3> QED BY <2>2, <3>1 DEF Wake, IInv, TypeOK, WorkType
  <2> QED BY <2>1, <2>2 DEF SetReady, CallLoad, CallSub, workVars
<1>3. CallerInv'
  BY <1>1 DEF RefInv, CallerInv
<1>4. AcquireInv'
  BY <1>1 DEF RefInv, AcquireInv
<1>5. ChainHoldsOneCount'
  BY <1>1, <1>2, CountsStay
<1> QED BY <1>3, <1>4, <1>5 DEF RefInv

(* The steps of the execution that let go of no slot.                      *)
LEMMA WorkOnCounts ==
  ASSUME IInv, RefInv, NEW b \in Behaviours,
         \/ Run(b) \/ BodyReturns(b) \/ AwaitLink(b) \/ Dealloc(b)
         \/ \E c \in Cowns : ReleaseRead(b, c)
  PROVE  RefInv'
<1>1. /\ work[b] # "drop" /\ work'[b] # "drop"
      /\ \A x \in Behaviours \ {b} : work'[x] = work[x] /\ rel'[x] = rel[x]
      /\ UNCHANGED <<scall, todo, at, lastSlot, rc, callerRef, pos, served>>
  BY DEF Run, BodyReturns, AwaitLink, Dealloc, ReleaseRead, IInv, TypeOK, WorkType,
         callVars, slotVars, refVars, history
<1>2. CallerInv' /\ AcquireInv'
  BY <1>1 DEF RefInv, CallerInv, AcquireInv
<1>3. ChainHoldsOneCount'
  BY <1>1, CountsStay
<1> QED BY <1>2, <1>3 DEF RefInv

(* Who releases a slot is not acquiring, and nobody acquires its cown.     *)
LEMMA ReleaserAlone ==
  ASSUME IInv, RefInv, NEW b \in Behaviours,
         work[b] \in {"cas", "extended", "load", "sub"},
         NEW x \in Behaviours, scall[x] = "acquire"
  PROVE  at[x] # rel[b]
<1>1. work[x] = "idle"
  BY AcquirerFirst
<1> QED BY <1>1, ReleasedOwns, AcquirerAlone

(* A slot handed to the successor takes the chain's count with it.         *)
LEMMA ResolveCounts ==
  ASSUME IInv, RefInv, NEW b \in Behaviours, ResolveLoad(b) \/ ResolveSub(b)
  PROVE  RefInv'
<1>1. /\ work[b] \in {"load", "sub"}
      /\ UNCHANGED <<scall, todo, at, lastSlot, rc, callerRef, pos>>
  BY DEF ResolveLoad, ResolveSub, callVars, slotVars, refVars
<1>2. rel[b] \in Cowns /\ Successor(b) \in Behaviours /\ work[Successor(b)] = "idle"
  BY <1>1, ReleasedOwns, SuccessorBlocked
<1>3. /\ \A x \in Behaviours : work'[x] = "drop" <=> work[x] = "drop"
      /\ \A x \in Behaviours \ {b} : rel'[x] = rel[x]
  <2>1. CASE work' = [work EXCEPT ![b] = "sub"] /\ UNCHANGED rel
    BY <1>1, <2>1 DEF IInv, TypeOK, WorkType
  <2>2. CASE SlotDone(b, work)
    BY <1>1, <2>2 DEF SlotDone, IInv, TypeOK, WorkType
  <2>3. CASE SlotDone(b, [work EXCEPT ![Successor(b)] = "queued"])
    BY <1>1, <1>2, <2>3 DEF SlotDone, IInv, TypeOK, WorkType
  <2> QED BY <2>1, <2>2, <2>3 DEF ResolveLoad, ResolveSub, Grant
<1>4. \A d \in Cowns : d # rel[b] => served'[d] = served[d]
  BY DEF ResolveLoad, ResolveSub, Grant, IInv, TypeOK, HistoryType
<1>5. CallerInv'
  BY <1>1 DEF RefInv, CallerInv
<1>6. AcquireInv'
  <2> SUFFICES ASSUME NEW x \in Behaviours, scall[x] = "acquire"
               PROVE  pos[x][at[x]] = served'[at[x]] + 1
    BY <1>1 DEF AcquireInv
  <2>1. at[x] \in Cowns /\ pos[x][at[x]] = served[at[x]] + 1
    BY AcquirerFirst
  <2>2. at[x] # rel[b]
    BY <1>1, ReleaserAlone
  <2> QED BY <1>4, <2>1, <2>2
<1>7. ChainHoldsOneCount'
  BY <1>1, <1>3, CountsStay
<1> QED BY <1>5, <1>6, <1>7 DEF RefInv

(* Emptying a chain leaves its count with the releaser.                    *)
LEMMA ReleaseCasCounts ==
  ASSUME IInv, RefInv, NEW b \in Behaviours, ReleaseCas(b)
  PROVE  RefInv'
<1> DEFINE c == rel[b]
<1>1. /\ work[b] = "cas"
      /\ UNCHANGED <<scall, todo, at, left, rel, rc, callerRef, pos>>
  BY DEF ReleaseCas, callVars, refVars
<1>2. c \in Cowns
  BY <1>1, ReleasedOwns
<1>3. CallerInv'
  BY <1>1 DEF RefInv, CallerInv
<1>4. AcquireInv'
  <2> SUFFICES ASSUME NEW x \in Behaviours, scall[x] = "acquire"
               PROVE  pos[x][at[x]] = served'[at[x]] + 1
    BY <1>1 DEF AcquireInv
  <2>1. at[x] \in Cowns /\ pos[x][at[x]] = served[at[x]] + 1
    BY AcquirerFirst
  <2>2. at[x] # c
    BY <1>1, ReleaserAlone
  <2>3. \A d \in Cowns : d # c => served'[d] = served[d]
    BY DEF ReleaseCas, IInv, TypeOK, HistoryType
  <2> QED BY <2>1, <2>2, <2>3
<1>5. ChainHoldsOneCount'
  <2>1. CASE lastSlot[c] = b
    <3>1. /\ lastSlot' = [lastSlot EXCEPT ![c] = NoSlot]
          /\ work' = [work EXCEPT ![b] = "drop"]
      BY <2>1 DEF ReleaseCas
    <3>2. /\ \A d \in Cowns : lastSlot'[d] = IF d = c THEN NoSlot ELSE lastSlot[d]
          /\ \A x \in Behaviours : work'[x] = IF x = b THEN "drop" ELSE work[x]
      BY <3>1 DEF IInv, TypeOK, SlotType, WorkType
    <3> SUFFICES ASSUME NEW d \in Cowns
                 PROVE  rc'[d] = ChainCounts(d)'
                                 + Cardinality({x \in Behaviours : d \in callerRef'[x]})
      BY DEF ChainHoldsOneCount
    <3>3. Callers(d)' = Callers(d)
      BY <1>1 DEF Callers
    <3>4. /\ rc[d] = Cardinality(Droppers(d)) + (IF Counted(d) THEN 1 ELSE 0)
                     + Cardinality(Callers(d))
          /\ Cardinality(Droppers(d)) \in Nat /\ Cardinality(Callers(d)) \in Nat
          /\ IsFiniteSet(Droppers(d))
      BY Equation, TermsFinite DEF RefInv
    <3>5. CASE d = c
      <4>1. Droppers(d)' = Droppers(d) \cup {b} /\ b \notin Droppers(d)
        BY <1>1, <3>2, <3>5 DEF Droppers
      <4>2. Cardinality(Droppers(d)') = Cardinality(Droppers(d)) + 1
        BY <3>4, <4>1, FS_AddElement
      <4>3. Counted(d) /\ ~Counted(d)'
        <5>1. b # NoSlot
          BY StatusAssumption
        <5>2. \A x \in Behaviours : ~(scall[x] = "acquire" /\ at[x] = d)
          BY <1>1, <3>5, ReleaserAlone
        <5> QED BY <2>1, <3>2, <3>5, <5>1, <5>2 DEF Counted
      <4>4. rc'[d] = Cardinality(Droppers(d)') + (IF Counted(d)' THEN 1 ELSE 0)
                     + Cardinality(Callers(d)')
        BY <1>1, <3>3, <3>4, <4>2, <4>3
      <4> QED BY <4>4 DEF ChainCounts, Droppers, Callers, Counted
    <3>6. CASE d # c
      <4>1. Droppers(d)' = Droppers(d)
        BY <1>1, <3>2, <3>6 DEF Droppers
      <4>2. Counted(d)' <=> Counted(d)
        BY <1>1, <3>2, <3>6 DEF Counted
      <4> QED BY <1>1, <3>3, <3>4, <4>1, <4>2 DEF ChainCounts, Droppers, Callers, Counted
    <3> QED BY <3>5, <3>6
  <2>2. CASE lastSlot[c] # b
    <3>1. /\ \A x \in Behaviours : work'[x] = "drop" <=> work[x] = "drop"
          /\ UNCHANGED lastSlot
      BY <1>1, <2>2 DEF ReleaseCas, IInv, TypeOK, WorkType
    <3> QED BY <1>1, <3>1, CountsStay
  <2> QED BY <2>1, <2>2
<1> QED BY <1>3, <1>4, <1>5 DEF RefInv

(* The releaser gives the count of the emptied chain back.                 *)
LEMMA ReleaseCownCounts ==
  ASSUME IInv, RefInv, NEW b \in Behaviours, ReleaseCown(b)
  PROVE  RefInv'
<1> DEFINE c == rel[b]
<1>1. /\ work[b] = "drop"
      /\ UNCHANGED <<scall, todo, at, lastSlot, callerRef, pos, served>>
  BY DEF ReleaseCown, callVars, slotVars, history
<1>2. c \in Cowns
  BY <1>1 DEF IInv, WorkInv, TypeOK, WorkType
<1>3. /\ \A d \in Cowns : rc'[d] = IF d = c THEN rc[d] - 1 ELSE rc[d]
      /\ \A x \in Behaviours \ {b} : work'[x] = work[x] /\ rel'[x] = rel[x]
      /\ work'[b] # "drop"
  BY DEF ReleaseCown, SlotDone, IInv, TypeOK, WorkType, RefType
<1>4. CallerInv' /\ AcquireInv'
  BY <1>1 DEF RefInv, CallerInv, AcquireInv
<1>5. ChainHoldsOneCount'
  <2> SUFFICES ASSUME NEW d \in Cowns
               PROVE  rc'[d] = ChainCounts(d)'
                               + Cardinality({x \in Behaviours : d \in callerRef'[x]})
    BY DEF ChainHoldsOneCount
  <2>1. Callers(d)' = Callers(d) /\ (Counted(d)' <=> Counted(d))
    BY <1>1 DEF Callers, Counted
  <2>2. /\ rc[d] = Cardinality(Droppers(d)) + (IF Counted(d) THEN 1 ELSE 0)
                   + Cardinality(Callers(d))
        /\ Cardinality(Droppers(d)) \in Nat /\ Cardinality(Callers(d)) \in Nat
        /\ IsFiniteSet(Droppers(d))
    BY Equation, TermsFinite DEF RefInv
  <2>3. CASE d = c
    <3>1. Droppers(d)' = Droppers(d) \ {b} /\ b \in Droppers(d)
      BY <1>1, <1>3, <2>3 DEF Droppers
    <3>2. Cardinality(Droppers(d)') = Cardinality(Droppers(d)) - 1
      BY <2>2, <3>1, FS_RemoveElement
    <3>3. rc'[d] = Cardinality(Droppers(d)') + (IF Counted(d)' THEN 1 ELSE 0)
                   + Cardinality(Callers(d)')
      BY <1>3, <2>1, <2>2, <2>3, <3>2
    <3> QED BY <3>3 DEF ChainCounts, Droppers, Callers, Counted
  <2>4. CASE d # c
    <3>1. Droppers(d)' = Droppers(d) /\ rc'[d] = rc[d]
      BY <1>1, <1>3, <2>4 DEF Droppers
    <3> QED BY <2>1, <2>2, <3>1 DEF ChainCounts, Droppers, Callers, Counted
  <2> QED BY <2>3, <2>4
<1> QED BY <1>4, <1>5 DEF RefInv

(* Every step keeps RefInv, where IInv holds.                              *)
LEMMA StepCounts == IInv /\ RefInv /\ [Next]_vars => RefInv'
<1> SUFFICES ASSUME IInv, RefInv, [Next]_vars PROVE RefInv'
  OBVIOUS
<1>1. CASE UNCHANGED vars
  <2>1. UNCHANGED <<scall, todo, at, work, rel, lastSlot, rc, callerRef, pos, served>>
    BY <1>1 DEF vars, callVars, workVars, slotVars, refVars, history
  <2>2. CallerInv' /\ AcquireInv'
    BY <2>1 DEF RefInv, CallerInv, AcquireInv
  <2>3. ChainHoldsOneCount'
    BY <2>1, CountsStay
  <2> QED BY <2>2, <2>3 DEF RefInv
<1>2. CASE Next
  <2>1. PICK b \in Behaviours :
          CallStep(b) \/ WorkStep(b) \/ \E c \in Cowns : CallerDrop(b, c)
    BY <1>2 DEF Next
  <2>2. CASE CallStep(b)
    <3>1. ASSUME NEW c \in Cowns, Exchange(b, c) PROVE RefInv'
      BY <3>1, ExchangeCounts
    <3>2. (\E c \in Cowns : SetReady(b, c)) \/ CallLoad(b) \/ CallSub(b) => RefInv'
      BY CallEndCounts
    <3>3. AcquireCown(b) => RefInv'
      BY AcquireCownCounts
    <3>4. AwaitPrev(b) => RefInv'
      BY AwaitPrevCounts
    <3>5. Link(b) => RefInv'
      BY LinkCounts
    <3> QED BY <2>2, <3>1, <3>2, <3>3, <3>4, <3>5 DEF CallStep
  <2>3. CASE WorkStep(b)
    <3>1. \/ Run(b) \/ BodyReturns(b) \/ AwaitLink(b) \/ Dealloc(b)
          \/ \E c \in Cowns : ReleaseRead(b, c)
          => RefInv'
      BY WorkOnCounts
    <3>2. ReleaseCas(b) => RefInv'
      BY ReleaseCasCounts
    <3>3. ReleaseCown(b) => RefInv'
      BY ReleaseCownCounts
    <3>4. ResolveLoad(b) \/ ResolveSub(b) => RefInv'
      BY ResolveCounts
    <3> QED BY <2>3, <3>1, <3>2, <3>3, <3>4 DEF WorkStep
  <2>4. ASSUME NEW c \in Cowns, CallerDrop(b, c) PROVE RefInv'
    BY <2>4, CallerDropCounts
  <2> QED BY <2>1, <2>2, <2>3, <2>4
<1> QED BY <1>1, <1>2

(* The counts agree with the chains and the callers in every reachable     *)
(* state, as RefInv says.                                                  *)
THEOREM RefInvariance == Spec => []RefInv
<1>1. Init => RefInv
  BY InitCounts
<1>2. IInv /\ RefInv /\ [Next]_vars => RefInv'
  BY StepCounts
<1> QED BY <1>1, <1>2, Invariance, PTL DEF Spec

(* "If the cown is part of a chain, then the scheduler holds an RC on the  *)
(* cown": through exchange, transfer, release and swap the strong count is *)
(* the callers' counts plus one for the chain.                             *)
THEOREM ChainHoldsOneCountHolds == Spec => []ChainHoldsOneCount
<1>1. RefInv => ChainHoldsOneCount
  BY DEF RefInv
<1> QED BY <1>1, RefInvariance, PTL

(* A cown on which a caller still has a count is there.                    *)
LEMMA CallerAlive ==
  ASSUME RefInv, NEW b \in Behaviours, NEW c \in Cowns, c \in callerRef[b]
  PROVE  rc[c] > 0
<1>1. b \in Callers(c)
  BY DEF Callers
<1>2. Cardinality(Callers(c)) # 0
  BY <1>1, TermsFinite, FS_EmptySet
<1> QED BY <1>2, Equation, TermsFinite DEF RefInv

(* So is one whose chain is counted, or whose last releaser has yet to     *)
(* give the chain's count back.                                            *)
LEMMA ChainAlive ==
  ASSUME RefInv, NEW c \in Cowns,
         Counted(c) \/ \E b \in Behaviours : work[b] = "drop" /\ rel[b] = c
  PROVE  rc[c] > 0
<1>1. CASE Counted(c)
  BY <1>1, Equation, TermsFinite DEF RefInv
<1>2. CASE \E b \in Behaviours : work[b] = "drop" /\ rel[b] = c
  <2>1. Droppers(c) # {}
    BY <1>2 DEF Droppers
  <2>2. Cardinality(Droppers(c)) # 0
    BY <2>1, TermsFinite, FS_EmptySet
  <2> QED BY <2>2, Equation, TermsFinite DEF RefInv
<1> QED BY <1>1, <1>2

(* A `when` in phase 1 touches no collected cown, and nor does a behaviour *)
(* that has a slot to release: neither the NoTransfer call, which holds no *)
(* count of its own while it enqueues, nor the YesTransfer call, whose     *)
(* count is the chain's from its turn on that cown.                        *)
THEOREM CownAliveHolds == Spec => []CownAlive
<1>1. IInv /\ RefInv => CownAlive
  <2> SUFFICES ASSUME IInv, RefInv, NEW b \in Behaviours, NEW c \in Cowns,
                      \/ /\ scall[b] \in {"exchange", "acquire", "spin", "link"}
                         /\ c \in Footprint[b]
                      \/ time[b] > 0 /\ c \in left[b]
               PROVE  rc[c] > 0
    BY DEF CownAlive
  <2> USE DEF IInv
  <2>1. CASE time[b] > 0 /\ c \in left[b]
    <3>1. OnChain(b, c)
      BY <2>1 DEF WorkInv, ChainInv
    <3>2. CASE c \in Held(b)
      BY <2>1, <3>1, <3>2, HeldCounted, ChainAlive
    <3>3. CASE c \notin Held(b)
      BY <2>1, <3>3, ChainAlive DEF Held
    <3> QED BY <3>2, <3>3
  <2>2. CASE /\ scall[b] \in {"exchange", "acquire", "spin", "link"}
             /\ c \in Footprint[b]
    <3>1. work[b] = "idle" /\ c \in Held(b)
      BY <2>2 DEF CallInv, WorkInv, Held
    <3>2. CASE c \in callerRef[b]
      BY <3>2, CallerAlive
    <3>3. CASE c \notin callerRef[b]
      <4>1. b \in Transfer
        BY <2>2, <3>3 DEF RefInv, CallerInv
      <4>2. c \notin todo[b] \/ (scall[b] = "link" /\ c = at[b])
        BY <2>2, <3>3, <4>1 DEF RefInv, CallerInv
      <4>3. OnChain(b, c)
        BY <2>2, <4>2 DEF ChainInv
      <4> QED BY <3>1, <4>2, <4>3, HeldCounted, ChainAlive
    <3> QED BY <3>2, <3>3
  <2> QED BY <2>1, <2>2
<1> QED BY <1>1, Invariance, RefInvariance, PTL

(* Every count is given back: when all behaviours were deallocated and the *)
(* callers hold nothing, every cown's count is zero.                       *)
THEOREM NoLeakHolds == Spec => []NoLeak
<1>1. IInv /\ RefInv => NoLeak
  <2> SUFFICES ASSUME IInv, RefInv, Quiescent, NEW c \in Cowns
               PROVE  rc[c] = 0
    BY DEF NoLeak
  <2>1. \A b \in Behaviours :
          work[b] = "freed" /\ left[b] = {} /\ callerRef[b] = {}
    BY DEF Quiescent, IInv, WorkInv
  <2>2. ~Counted(c)
    <3> SUFFICES ASSUME lastSlot[c] # NoSlot PROVE FALSE
      BY DEF Counted
    <3>0. /\ lastSlot[c] \in Behaviours
          /\ joined[c] \in Nat /\ served[c] \in Nat
      BY DEF IInv, TypeOK, SlotType, HistoryType
    <3>1. served[c] < joined[c] /\ pos[lastSlot[c]][c] = joined[c]
      BY <3>0 DEF IInv, TailInv
    <3>2. c \in Held(lastSlot[c])
      BY <3>0, <3>1 DEF IInv, HeldInv, OnChain
    <3> QED BY <2>1, <3>0, <3>2 DEF Held
  <2>3. Droppers(c) = {} /\ Callers(c) = {}
    BY <2>1 DEF Droppers, Callers
  <2>4. Cardinality(Droppers(c)) = 0 /\ Cardinality(Callers(c)) = 0
    BY <2>3, FS_EmptySet
  <2> QED BY <2>2, <2>4, Equation DEF RefInv
<1> QED BY <1>1, Invariance, RefInvariance, PTL

=============================================================================
