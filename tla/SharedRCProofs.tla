--------------------------- MODULE SharedRCProofs ---------------------------
(***************************************************************************)
(* IInv is an invariant of SharedRC for every finite set of references;    *)
(* the exact accounting of the weak count, the lifetime of contents and    *)
(* memory, and the refinement of WeakRefs follow from it.                  *)
(*                                                                         *)
(* A step moves one reference from a state to another, or two, and the     *)
(* invariant is about how many are in which states: Moved and MovedTwo say *)
(* how the counts change, and what is left is arithmetic.                  *)
(***************************************************************************)
EXTENDS SharedRC, FiniteSetTheorems, TLAPS

Holders(f, states) == {r \in Refs : f[r] \in states}

One(a, states) == IF a \in states THEN 1 ELSE 0

LEMMA CountType ==
  ASSUME NEW f, NEW states
  PROVE  /\ IsFiniteSet(Holders(f, states))
         /\ Count(f, states) = Cardinality(Holders(f, states))
         /\ Count(f, states) \in Nat
         /\ Count(f, states) = 0 <=> \A r \in Refs : f[r] \notin states
<1>1. IsFiniteSet(Holders(f, states))
  BY RefsAssumption, FS_Subset DEF Holders
<1>2. Count(f, states) = Cardinality(Holders(f, states))
  BY DEF Count, Holders
<1>3. /\ Count(f, states) \in Nat
      /\ Count(f, states) = 0 <=> Holders(f, states) = {}
  BY <1>1, <1>2, FS_CardinalityType, FS_EmptySet
<1> QED BY <1>1, <1>2, <1>3 DEF Holders

LEMMA Moved ==
  ASSUME NEW f \in [Refs -> RefStates], NEW g \in [Refs -> RefStates],
         NEW r \in Refs, \A x \in Refs \ {r} : g[x] = f[x],
         NEW states
  PROVE  Count(g, states) =
           Count(f, states) + One(g[r], states) - One(f[r], states)
<1> DEFINE F == Holders(f, states)
           G == Holders(g, states)
<1>1. /\ IsFiniteSet(F) /\ Cardinality(F) \in Nat
      /\ Count(f, states) = Cardinality(F)
      /\ Count(g, states) = Cardinality(G)
  BY CountType
<1>2. CASE g[r] \in states <=> f[r] \in states
  <2>1. G = F
    BY <1>2 DEF Holders
  <2> QED BY <2>1, <1>1, <1>2 DEF One
<1>3. CASE g[r] \in states /\ f[r] \notin states
  <2>1. G = F \cup {r} /\ r \notin F
    BY <1>3 DEF Holders
  <2>2. Cardinality(G) = Cardinality(F) + 1
    BY <1>1, <2>1, FS_AddElement
  <2> QED BY <2>2, <1>1, <1>3 DEF One
<1>4. CASE g[r] \notin states /\ f[r] \in states
  <2>1. G = F \ {r} /\ r \in F
    BY <1>4 DEF Holders
  <2>2. Cardinality(G) = Cardinality(F) - 1
    BY <1>1, <2>1, FS_RemoveElement
  <2> QED BY <2>2, <1>1, <1>4 DEF One
<1> QED BY <1>2, <1>3, <1>4

LEMMA MovedTwo ==
  ASSUME NEW f \in [Refs -> RefStates], NEW g \in [Refs -> RefStates],
         NEW r \in Refs, NEW n \in Refs, r # n,
         \A x \in Refs \ {r, n} : g[x] = f[x],
         NEW states
  PROVE  Count(g, states) =
           Count(f, states) + One(g[r], states) - One(f[r], states)
                            + One(g[n], states) - One(f[n], states)
<1>1. PICK h \in [Refs -> RefStates] :
        /\ \A x \in Refs \ {r} : h[x] = f[x]
        /\ h[r] = g[r]
  <2> WITNESS [x \in Refs |-> IF x = r THEN g[r] ELSE f[x]]
                \in [Refs -> RefStates]
  <2> QED OBVIOUS
<1>2. Count(h, states) =
        Count(f, states) + One(h[r], states) - One(f[r], states)
  BY <1>1, Moved
<1>3. \A x \in Refs \ {n} : g[x] = h[x]
  BY <1>1
<1>4. Count(g, states) =
        Count(h, states) + One(g[n], states) - One(h[n], states)
  BY <1>3, Moved
<1>5. h[n] = f[n]
  BY <1>1
<1>6. /\ Count(f, states) \in Nat /\ Count(h, states) \in Nat
      /\ Count(g, states) \in Nat
  BY CountType
<1> QED BY <1>1, <1>2, <1>4, <1>5, <1>6 DEF One

(* What a step does to one of the counts of IInv. *)
Same(states) == /\ Count(at, states) \in Nat
                /\ Count(at', states) = Count(at, states)
Up(states) == /\ Count(at, states) \in Nat
              /\ Count(at', states) = Count(at, states) + 1
Down(states) == /\ Count(at, states) \in Nat \ {0}
                /\ Count(at', states) = Count(at, states) - 1

Shifts(k, states) == /\ k = 0 => Same(states)
                     /\ k = 1 => Up(states)
                     /\ k = -1 => Down(states)

LEMMA OneMoves ==
  ASSUME at \in [Refs -> RefStates], at' \in [Refs -> RefStates],
         NEW r \in Refs, \A x \in Refs \ {r} : at'[x] = at[x],
         NEW states
  PROVE  Shifts(One(at'[r], states) - One(at[r], states), states)
<1>1. Count(at', states) =
        Count(at, states) + One(at'[r], states) - One(at[r], states)
  BY Moved
<1>2. Count(at, states) \in Nat /\ Count(at', states) \in Nat
  BY CountType
<1> QED BY <1>1, <1>2 DEF One, Shifts, Same, Up, Down

LEMMA TwoMove ==
  ASSUME at \in [Refs -> RefStates], at' \in [Refs -> RefStates],
         NEW r \in Refs, NEW n \in Refs, r # n,
         \A x \in Refs \ {r, n} : at'[x] = at[x],
         NEW states
  PROVE  Shifts(One(at'[r], states) - One(at[r], states)
                + One(at'[n], states) - One(at[n], states), states)
<1>1. Count(at', states) =
        Count(at, states) + One(at'[r], states) - One(at[r], states)
                          + One(at'[n], states) - One(at[n], states)
  BY MovedTwo
<1>2. Count(at, states) \in Nat /\ Count(at', states) \in Nat
  BY CountType
<1> QED BY <1>1, <1>2 DEF One, Shifts, Same, Up, Down

LEMMA AcquireInv ==
  ASSUME IInv, NEW r \in Refs, NEW n \in Refs, Acquire(r, n)
  PROVE  IInv'
<1>1. /\ at \in [Refs -> RefStates] /\ at' \in [Refs -> RefStates]
      /\ at[n] = "none" /\ at'[n] = "strong"
      /\ \A x \in Refs \ {n} : at'[x] = at[x]
  BY DEF IInv, TypeOK, RefStates, Acquire
<1>2. \A states :
        Shifts(One("strong", states) - One("none", states), states)
  BY <1>1, OneMoves
<1>3. /\ Up(StrongHolders)
      /\ Same(WeakHolders) /\ Same({"promised"}) /\ Same({"reacquire"})
      /\ Same({"failing"}) /\ Same({"closing"}) /\ Same({"collecting"})
      /\ Same({"freeing"})
  BY <1>2 DEF Shifts, One, WeakHolders, StrongHolders
<1>4. Count(at, StrongHolders) > 0
  BY <1>3, CountType DEF StrongHolders, Acquire, Same, Up
<1> USE DEF Same, Up, Down, WeakHolders, StrongHolders, HowMany, IInv,
           TypeOK, WeakAccounting, StrongAccounting
<1>5. TypeOK'
  BY <1>1, <1>3 DEF Acquire
<1>6. WeakAccounting'
  BY <1>3, <1>4 DEF Acquire
<1>7. StrongAccounting'
  BY <1>3, <1>4 DEF Acquire
<1>8. PromisesPaired' /\ OneCollector'
  BY <1>3, <1>4 DEF Acquire, PromisesPaired, OneCollector
<1>9. OneFreer'
  BY <1>3, <1>4 DEF Acquire, OneFreer
<1> QED BY <1>5, <1>6, <1>7, <1>8, <1>9

LEMMA WeakAcquireInv ==
  ASSUME IInv, NEW r \in Refs, NEW n \in Refs, WeakAcquire(r, n)
  PROVE  IInv'
<1>1. /\ at \in [Refs -> RefStates] /\ at' \in [Refs -> RefStates]
      /\ at[n] = "none" /\ at'[n] = "weak"
      /\ \A x \in Refs \ {n} : at'[x] = at[x]
  BY DEF IInv, TypeOK, RefStates, WeakAcquire
<1>2. \A states :
        Shifts(One("weak", states) - One("none", states), states)
  BY <1>1, OneMoves
<1>3. /\ Up(WeakHolders)
      /\ Same(StrongHolders) /\ Same({"promised"}) /\ Same({"reacquire"})
      /\ Same({"failing"}) /\ Same({"closing"}) /\ Same({"collecting"})
      /\ Same({"freeing"})
  BY <1>2 DEF Shifts, One, WeakHolders, StrongHolders
<1>4. Count(at, StrongHolders) > 0 \/ Count(at, WeakHolders) > 0
  BY <1>3, CountType
     DEF StrongHolders, WeakHolders, WeakAcquire, Same, Up
<1> USE DEF Same, Up, Down, WeakHolders, StrongHolders, HowMany, IInv,
           TypeOK, WeakAccounting, StrongAccounting
<1>5. TypeOK'
  BY <1>1, <1>3 DEF WeakAcquire
<1>6. WeakAccounting'
  BY <1>3, <1>4 DEF WeakAcquire
<1>7. StrongAccounting'
  BY <1>3, <1>4 DEF WeakAcquire
<1>8. PromisesPaired' /\ OneCollector'
  BY <1>3, <1>4 DEF WeakAcquire, PromisesPaired, OneCollector
<1>9. OneFreer'
  BY <1>3, <1>4 DEF WeakAcquire, OneFreer
<1> QED BY <1>5, <1>6, <1>7, <1>8, <1>9

LEMMA ReleaseInv ==
  ASSUME IInv, NEW r \in Refs, Release(r)
  PROVE  IInv'
<1>1. CASE rc = 1
  <2>1. /\ at \in [Refs -> RefStates] /\ at' \in [Refs -> RefStates]
        /\ at[r] = "strong" /\ at'[r] = "closing"
        /\ \A x \in Refs \ {r} : at'[x] = at[x]
    BY <1>1 DEF IInv, TypeOK, RefStates, Release
  <2>2. \A states :
          Shifts(One("closing", states) - One("strong", states), states)
    BY <2>1, OneMoves
  <2>3. /\ Up(WeakHolders) /\ Up({"closing"}) /\ Down(StrongHolders)
        /\ Same({"promised"}) /\ Same({"reacquire"}) /\ Same({"failing"})
        /\ Same({"collecting"}) /\ Same({"freeing"})
    BY <2>2 DEF Shifts, One, WeakHolders, StrongHolders
  <2> USE DEF Same, Up, Down, WeakHolders, StrongHolders, HowMany, IInv,
             TypeOK, WeakAccounting, StrongAccounting
  <2>4. TypeOK'
    BY <1>1, <2>1, <2>3 DEF Release
  <2>5. WeakAccounting'
    BY <1>1, <2>3 DEF Release
  <2>6. StrongAccounting'
    BY <1>1, <2>3 DEF Release
  <2>7. PromisesPaired' /\ OneCollector'
    BY <1>1, <2>3 DEF Release, PromisesPaired, OneCollector
  <2>8. OneFreer'
    BY <1>1, <2>3 DEF Release, OneFreer
  <2> QED BY <2>4, <2>5, <2>6, <2>7, <2>8
<1>2. CASE rc # 1
  <2>1. /\ at \in [Refs -> RefStates] /\ at' \in [Refs -> RefStates]
        /\ at[r] = "strong" /\ at'[r] = "none"
        /\ \A x \in Refs \ {r} : at'[x] = at[x]
    BY <1>2 DEF IInv, TypeOK, RefStates, Release
  <2>2. \A states :
          Shifts(One("none", states) - One("strong", states), states)
    BY <2>1, OneMoves
  <2>3. /\ Down(StrongHolders)
        /\ Same(WeakHolders) /\ Same({"promised"}) /\ Same({"reacquire"})
        /\ Same({"failing"}) /\ Same({"closing"}) /\ Same({"collecting"})
        /\ Same({"freeing"})
    BY <2>2 DEF Shifts, One, WeakHolders, StrongHolders
  <2> USE DEF Same, Up, Down, WeakHolders, StrongHolders, HowMany, IInv,
             TypeOK, WeakAccounting, StrongAccounting
  <2>4. TypeOK'
    BY <1>2, <2>1, <2>3 DEF Release
  <2>5. WeakAccounting'
    BY <1>2, <2>3 DEF Release
  <2>6. StrongAccounting'
    BY <1>2, <2>3 DEF Release
  <2>7. PromisesPaired' /\ OneCollector'
    BY <1>2, <2>3 DEF Release, PromisesPaired, OneCollector
  <2>8. OneFreer'
    BY <1>2, <2>3 DEF Release, OneFreer
  <2> QED BY <2>4, <2>5, <2>6, <2>7, <2>8
<1> QED BY <1>1, <1>2

LEMMA CloseInv ==
  ASSUME IInv, NEW r \in Refs, Close(r)
  PROVE  IInv'
<1>1. CASE CanClose
  <2>1. /\ at \in [Refs -> RefStates] /\ at' \in [Refs -> RefStates]
        /\ at[r] = "closing" /\ at'[r] = "collecting"
        /\ \A x \in Refs \ {r} : at'[x] = at[x]
    BY <1>1 DEF IInv, TypeOK, RefStates, Close, CanClose
  <2>2. \A states :
          Shifts(One("collecting", states) - One("closing", states), states)
    BY <2>1, OneMoves
  <2>3. /\ Up({"collecting"}) /\ Down({"closing"})
        /\ Same(WeakHolders) /\ Same(StrongHolders) /\ Same({"promised"})
        /\ Same({"reacquire"}) /\ Same({"failing"}) /\ Same({"freeing"})
    BY <2>2 DEF Shifts, One, WeakHolders, StrongHolders
  <2> USE DEF Same, Up, Down, WeakHolders, StrongHolders, HowMany, IInv,
             TypeOK, WeakAccounting, StrongAccounting
  <2>4. TypeOK'
    BY <1>1, <2>1, <2>3 DEF Close, CanClose
  <2>5. WeakAccounting'
    BY <1>1, <2>3 DEF Close, CanClose
  <2>6. StrongAccounting'
    BY <1>1, <2>3 DEF Close, CanClose
  <2>7. PromisesPaired' /\ OneCollector'
    BY <1>1, <2>3 DEF Close, CanClose, PromisesPaired, OneCollector
  <2>8. OneFreer'
    BY <1>1, <2>3 DEF Close, CanClose, OneFreer
  <2> QED BY <2>4, <2>5, <2>6, <2>7, <2>8
<1>2. CASE ~CanClose
  <2>1. /\ at \in [Refs -> RefStates] /\ at' \in [Refs -> RefStates]
        /\ at[r] = "closing" /\ at'[r] = "dropping"
        /\ \A x \in Refs \ {r} : at'[x] = at[x]
    BY <1>2 DEF IInv, TypeOK, RefStates, Close, CanClose, AfterFailedClose
  <2>2. \A states :
          Shifts(One("dropping", states) - One("closing", states), states)
    BY <2>1, OneMoves
  <2>3. /\ Down({"closing"})
        /\ Same(WeakHolders) /\ Same(StrongHolders) /\ Same({"promised"})
        /\ Same({"reacquire"}) /\ Same({"failing"}) /\ Same({"collecting"})
        /\ Same({"freeing"})
    BY <2>2 DEF Shifts, One, WeakHolders, StrongHolders
  <2> USE DEF Same, Up, Down, WeakHolders, StrongHolders, HowMany, IInv,
             TypeOK, WeakAccounting, StrongAccounting
  <2>4. TypeOK'
    BY <1>2, <2>1, <2>3 DEF Close, CanClose, AfterFailedClose
  <2>5. WeakAccounting'
    BY <1>2, <2>3 DEF Close, CanClose, AfterFailedClose
  <2>6. StrongAccounting'
    BY <1>2, <2>3 DEF Close, CanClose, AfterFailedClose
  <2>7. PromisesPaired' /\ OneCollector'
    BY <1>2, <2>3
       DEF Close, CanClose, AfterFailedClose, PromisesPaired, OneCollector
  <2>8. OneFreer'
    BY <1>2, <2>3 DEF Close, CanClose, AfterFailedClose, OneFreer
  <2> QED BY <2>4, <2>5, <2>6, <2>7, <2>8
<1> QED BY <1>1, <1>2

LEMMA CollectInv ==
  ASSUME IInv, NEW r \in Refs, Collect(r)
  PROVE  IInv'
<1>1. /\ at \in [Refs -> RefStates] /\ at' \in [Refs -> RefStates]
      /\ at[r] = "collecting" /\ at'[r] = "dropping"
      /\ \A x \in Refs \ {r} : at'[x] = at[x]
  BY DEF IInv, TypeOK, RefStates, Collect
<1>2. \A states :
        Shifts(One("dropping", states) - One("collecting", states), states)
  BY <1>1, OneMoves
<1>3. /\ Down({"collecting"})
      /\ Same(WeakHolders) /\ Same(StrongHolders) /\ Same({"promised"})
      /\ Same({"reacquire"}) /\ Same({"failing"}) /\ Same({"closing"})
      /\ Same({"freeing"})
  BY <1>2 DEF Shifts, One, WeakHolders, StrongHolders
<1> USE DEF Same, Up, Down, WeakHolders, StrongHolders, HowMany, IInv,
           TypeOK, WeakAccounting, StrongAccounting
<1>4. TypeOK'
  BY <1>1, <1>3 DEF Collect
<1>5. WeakAccounting'
  BY <1>3 DEF Collect
<1>6. StrongAccounting'
  BY <1>3 DEF Collect
<1>7. PromisesPaired' /\ OneCollector'
  BY <1>3 DEF Collect, PromisesPaired, OneCollector
<1>8. OneFreer'
  BY <1>3 DEF Collect, OneFreer
<1> QED BY <1>4, <1>5, <1>6, <1>7, <1>8

LEMMA WeakReleaseInv ==
  ASSUME IInv, NEW r \in Refs, WeakRelease(r)
  PROVE  IInv'
<1>1. CASE at[r] = "weak" /\ weak_count = 1
  <2>1. /\ at \in [Refs -> RefStates] /\ at' \in [Refs -> RefStates]
        /\ at[r] = "weak" /\ at'[r] = "freeing"
        /\ \A x \in Refs \ {r} : at'[x] = at[x]
    BY <1>1 DEF IInv, TypeOK, RefStates, WeakRelease
  <2>2. \A states :
          Shifts(One("freeing", states) - One("weak", states), states)
    BY <2>1, OneMoves
  <2>3. /\ Up({"freeing"}) /\ Down(WeakHolders)
        /\ Same(StrongHolders) /\ Same({"promised"}) /\ Same({"reacquire"})
        /\ Same({"failing"}) /\ Same({"closing"}) /\ Same({"collecting"})
    BY <2>2 DEF Shifts, One, WeakHolders, StrongHolders
  <2> USE DEF Same, Up, Down, WeakHolders, StrongHolders, HowMany, IInv,
             TypeOK, WeakAccounting, StrongAccounting
  <2>4. TypeOK'
    BY <1>1, <2>1, <2>3 DEF WeakRelease
  <2>5. WeakAccounting'
    BY <1>1, <2>3 DEF WeakRelease
  <2>6. StrongAccounting'
    BY <1>1, <2>3 DEF WeakRelease
  <2>7. PromisesPaired' /\ OneCollector'
    BY <1>1, <2>3 DEF WeakRelease, PromisesPaired, OneCollector
  <2>8. OneFreer'
    BY <1>1, <2>3 DEF WeakRelease, OneFreer
  <2> QED BY <2>4, <2>5, <2>6, <2>7, <2>8
<1>2. CASE at[r] = "weak" /\ weak_count # 1
  <2>1. /\ at \in [Refs -> RefStates] /\ at' \in [Refs -> RefStates]
        /\ at[r] = "weak" /\ at'[r] = "none"
        /\ \A x \in Refs \ {r} : at'[x] = at[x]
    BY <1>2 DEF IInv, TypeOK, RefStates, WeakRelease
  <2>2. \A states :
          Shifts(One("none", states) - One("weak", states), states)
    BY <2>1, OneMoves
  <2>3. /\ Down(WeakHolders)
        /\ Same(StrongHolders) /\ Same({"promised"}) /\ Same({"reacquire"})
        /\ Same({"failing"}) /\ Same({"closing"}) /\ Same({"collecting"})
        /\ Same({"freeing"})
    BY <2>2 DEF Shifts, One, WeakHolders, StrongHolders
  <2> USE DEF Same, Up, Down, WeakHolders, StrongHolders, HowMany, IInv,
             TypeOK, WeakAccounting, StrongAccounting
  <2>4. TypeOK'
    BY <1>2, <2>1, <2>3 DEF WeakRelease
  <2>5. WeakAccounting'
    BY <1>2, <2>3 DEF WeakRelease
  <2>6. StrongAccounting'
    BY <1>2, <2>3 DEF WeakRelease
  <2>7. PromisesPaired' /\ OneCollector'
    BY <1>2, <2>3 DEF WeakRelease, PromisesPaired, OneCollector
  <2>8. OneFreer'
    BY <1>2, <2>3 DEF WeakRelease, OneFreer
  <2> QED BY <2>4, <2>5, <2>6, <2>7, <2>8
<1>3. CASE at[r] = "dropping" /\ weak_count = 1
  <2>1. /\ at \in [Refs -> RefStates] /\ at' \in [Refs -> RefStates]
        /\ at[r] = "dropping" /\ at'[r] = "freeing"
        /\ \A x \in Refs \ {r} : at'[x] = at[x]
    BY <1>3 DEF IInv, TypeOK, RefStates, WeakRelease
  <2>2. \A states :
          Shifts(One("freeing", states) - One("dropping", states), states)
    BY <2>1, OneMoves
  <2>3. /\ Up({"freeing"}) /\ Down(WeakHolders)
        /\ Same(StrongHolders) /\ Same({"promised"}) /\ Same({"reacquire"})
        /\ Same({"failing"}) /\ Same({"closing"}) /\ Same({"collecting"})
    BY <2>2 DEF Shifts, One, WeakHolders, StrongHolders
  <2> USE DEF Same, Up, Down, WeakHolders, StrongHolders, HowMany, IInv,
             TypeOK, WeakAccounting, StrongAccounting
  <2>4. TypeOK'
    BY <1>3, <2>1, <2>3 DEF WeakRelease
  <2>5. WeakAccounting'
    BY <1>3, <2>3 DEF WeakRelease
  <2>6. StrongAccounting'
    BY <1>3, <2>3 DEF WeakRelease
  <2>7. PromisesPaired' /\ OneCollector'
    BY <1>3, <2>3 DEF WeakRelease, PromisesPaired, OneCollector
  <2>8. OneFreer'
    BY <1>3, <2>3 DEF WeakRelease, OneFreer
  <2> QED BY <2>4, <2>5, <2>6, <2>7, <2>8
<1>4. CASE at[r] = "dropping" /\ weak_count # 1
  <2>1. /\ at \in [Refs -> RefStates] /\ at' \in [Refs -> RefStates]
        /\ at[r] = "dropping" /\ at'[r] = "none"
        /\ \A x \in Refs \ {r} : at'[x] = at[x]
    BY <1>4 DEF IInv, TypeOK, RefStates, WeakRelease
  <2>2. \A states :
          Shifts(One("none", states) - One("dropping", states), states)
    BY <2>1, OneMoves
  <2>3. /\ Down(WeakHolders)
        /\ Same(StrongHolders) /\ Same({"promised"}) /\ Same({"reacquire"})
        /\ Same({"failing"}) /\ Same({"closing"}) /\ Same({"collecting"})
        /\ Same({"freeing"})
    BY <2>2 DEF Shifts, One, WeakHolders, StrongHolders
  <2> USE DEF Same, Up, Down, WeakHolders, StrongHolders, HowMany, IInv,
             TypeOK, WeakAccounting, StrongAccounting
  <2>4. TypeOK'
    BY <1>4, <2>1, <2>3 DEF WeakRelease
  <2>5. WeakAccounting'
    BY <1>4, <2>3 DEF WeakRelease
  <2>6. StrongAccounting'
    BY <1>4, <2>3 DEF WeakRelease
  <2>7. PromisesPaired' /\ OneCollector'
    BY <1>4, <2>3 DEF WeakRelease, PromisesPaired, OneCollector
  <2>8. OneFreer'
    BY <1>4, <2>3 DEF WeakRelease, OneFreer
  <2> QED BY <2>4, <2>5, <2>6, <2>7, <2>8
<1> QED BY <1>1, <1>2, <1>3, <1>4 DEF WeakRelease

LEMMA DeallocInv ==
  ASSUME IInv, NEW r \in Refs, Dealloc(r)
  PROVE  IInv'
<1>1. /\ at \in [Refs -> RefStates] /\ at' \in [Refs -> RefStates]
      /\ at[r] = "freeing" /\ at'[r] = "none"
      /\ \A x \in Refs \ {r} : at'[x] = at[x]
  BY DEF IInv, TypeOK, RefStates, Dealloc
<1>2. \A states :
        Shifts(One("none", states) - One("freeing", states), states)
  BY <1>1, OneMoves
<1>3. /\ Down({"freeing"})
      /\ Same(WeakHolders) /\ Same(StrongHolders) /\ Same({"promised"})
      /\ Same({"reacquire"}) /\ Same({"failing"}) /\ Same({"closing"})
      /\ Same({"collecting"})
  BY <1>2 DEF Shifts, One, WeakHolders, StrongHolders
<1> USE DEF Same, Up, Down, WeakHolders, StrongHolders, HowMany, IInv,
           TypeOK, WeakAccounting, StrongAccounting
<1>4. TypeOK'
  BY <1>1, <1>3 DEF Dealloc
<1>5. WeakAccounting'
  BY <1>3 DEF Dealloc
<1>6. StrongAccounting'
  BY <1>3 DEF Dealloc
<1>7. PromisesPaired' /\ OneCollector'
  BY <1>3 DEF Dealloc, PromisesPaired, OneCollector
<1>8. OneFreer'
  BY <1>3 DEF Dealloc, OneFreer
<1> QED BY <1>4, <1>5, <1>6, <1>7, <1>8

LEMMA FailPromoteInv ==
  ASSUME IInv, NEW r \in Refs, FailPromote(r)
  PROVE  IInv'
<1>1. /\ at \in [Refs -> RefStates] /\ at' \in [Refs -> RefStates]
      /\ at[r] = "failing" /\ at'[r] = "weak"
      /\ \A x \in Refs \ {r} : at'[x] = at[x]
  BY DEF IInv, TypeOK, RefStates, FailPromote
<1>2. \A states :
        Shifts(One("weak", states) - One("failing", states), states)
  BY <1>1, OneMoves
<1>3. /\ Down({"failing"})
      /\ Same(WeakHolders) /\ Same(StrongHolders) /\ Same({"promised"})
      /\ Same({"reacquire"}) /\ Same({"closing"}) /\ Same({"collecting"})
      /\ Same({"freeing"})
  BY <1>2 DEF Shifts, One, WeakHolders, StrongHolders
<1> USE DEF Same, Up, Down, WeakHolders, StrongHolders, HowMany, IInv,
           TypeOK, WeakAccounting, StrongAccounting
<1>4. TypeOK'
  BY <1>1, <1>3 DEF FailPromote
<1>5. WeakAccounting'
  BY <1>3 DEF FailPromote
<1>6. StrongAccounting'
  BY <1>3 DEF FailPromote
<1>7. PromisesPaired' /\ OneCollector'
  BY <1>3 DEF FailPromote, PromisesPaired, OneCollector
<1>8. OneFreer'
  BY <1>3 DEF FailPromote, OneFreer
<1> QED BY <1>4, <1>5, <1>6, <1>7, <1>8

LEMMA ReacquireInv ==
  ASSUME IInv, NEW r \in Refs, NEW n \in Refs, Reacquire(r, n)
  PROVE  IInv'
<1>1. /\ at \in [Refs -> RefStates] /\ at' \in [Refs -> RefStates]
      /\ at[r] = "reacquire" /\ at'[r] = "weak"
      /\ at[n] = "promised" /\ at'[n] = "strong" /\ r # n
      /\ \A x \in Refs \ {r, n} : at'[x] = at[x]
  BY DEF IInv, TypeOK, RefStates, Reacquire
<1>2. \A states :
        Shifts(One("weak", states) - One("reacquire", states)
               + One("strong", states) - One("promised", states), states)
  BY <1>1, TwoMove
<1>3. /\ Up(WeakHolders) /\ Down({"reacquire"}) /\ Down({"promised"})
      /\ Same(StrongHolders) /\ Same({"failing"}) /\ Same({"closing"})
      /\ Same({"collecting"}) /\ Same({"freeing"})
  BY <1>2 DEF Shifts, One, WeakHolders, StrongHolders
<1>4. Count(at, StrongHolders) > 0
  BY <1>1, CountType DEF StrongHolders
<1> USE DEF Same, Up, Down, WeakHolders, StrongHolders, HowMany, IInv,
           TypeOK, WeakAccounting, StrongAccounting
<1>5. TypeOK'
  BY <1>1, <1>3 DEF Reacquire
<1>6. WeakAccounting'
  BY <1>3, <1>4 DEF Reacquire
<1>7. StrongAccounting'
  BY <1>3, <1>4 DEF Reacquire
<1>8. PromisesPaired' /\ OneCollector'
  BY <1>3, <1>4 DEF Reacquire, PromisesPaired, OneCollector
<1>9. OneFreer'
  BY <1>3, <1>4 DEF Reacquire, OneFreer
<1> QED BY <1>5, <1>6, <1>7, <1>8, <1>9

LEMMA PromoteInv ==
  ASSUME IInv, NEW r \in Refs, NEW n \in Refs, Promote(r, n)
  PROVE  IInv'
<1>1. CASE closed
  <2>1. /\ at \in [Refs -> RefStates] /\ at' \in [Refs -> RefStates]
        /\ at[r] = "weak" /\ at'[r] = "failing"
        /\ \A x \in Refs \ {r} : at'[x] = at[x]
    BY <1>1 DEF IInv, TypeOK, RefStates, Promote
  <2>2. \A states :
          Shifts(One("failing", states) - One("weak", states), states)
    BY <2>1, OneMoves
  <2>3. /\ Up({"failing"})
        /\ Same(WeakHolders) /\ Same(StrongHolders) /\ Same({"promised"})
        /\ Same({"reacquire"}) /\ Same({"closing"}) /\ Same({"collecting"})
        /\ Same({"freeing"})
    BY <2>2 DEF Shifts, One, WeakHolders, StrongHolders
  <2> USE DEF Same, Up, Down, WeakHolders, StrongHolders, HowMany, IInv,
             TypeOK, WeakAccounting, StrongAccounting
  <2>4. TypeOK'
    BY <1>1, <2>1, <2>3 DEF Promote
  <2>5. WeakAccounting'
    BY <1>1, <2>3 DEF Promote
  <2>6. StrongAccounting'
    BY <1>1, <2>3 DEF Promote
  <2>7. PromisesPaired' /\ OneCollector'
    BY <1>1, <2>3 DEF Promote, PromisesPaired, OneCollector
  <2>8. OneFreer'
    BY <1>1, <2>3 DEF Promote, OneFreer
  <2> QED BY <2>4, <2>5, <2>6, <2>7, <2>8
<1>2. CASE ~closed /\ rc = 0
  <2>1. /\ at \in [Refs -> RefStates] /\ at' \in [Refs -> RefStates]
        /\ at[r] = "weak" /\ at'[r] = "reacquire"
        /\ at[n] = "none" /\ at'[n] = "promised" /\ r # n
        /\ \A x \in Refs \ {r, n} : at'[x] = at[x]
    BY <1>2 DEF IInv, TypeOK, RefStates, Promote, PromotedFrom
  <2>2. \A states :
          Shifts(One("reacquire", states) - One("weak", states)
                 + One("promised", states) - One("none", states), states)
    BY <2>1, TwoMove
  <2>3. /\ Up(StrongHolders) /\ Up({"promised"}) /\ Up({"reacquire"}) /\ Down(WeakHolders)
        /\ Same({"failing"}) /\ Same({"closing"}) /\ Same({"collecting"})
        /\ Same({"freeing"})
    BY <2>2 DEF Shifts, One, WeakHolders, StrongHolders
  <2> USE DEF Same, Up, Down, WeakHolders, StrongHolders, HowMany, IInv,
             TypeOK, WeakAccounting, StrongAccounting
  <2>4. TypeOK'
    BY <1>2, <2>1, <2>3 DEF Promote, PromotedFrom
  <2>5. WeakAccounting'
    BY <1>2, <2>3 DEF Promote, PromotedFrom
  <2>6. StrongAccounting'
    BY <1>2, <2>3 DEF Promote, PromotedFrom
  <2>7. PromisesPaired' /\ OneCollector'
    BY <1>2, <2>3 DEF Promote, PromotedFrom, PromisesPaired, OneCollector
  <2>8. OneFreer'
    BY <1>2, <2>3 DEF Promote, PromotedFrom, OneFreer
  <2> QED BY <2>4, <2>5, <2>6, <2>7, <2>8
<1>3. CASE ~closed /\ rc # 0
  <2>1. /\ at \in [Refs -> RefStates] /\ at' \in [Refs -> RefStates]
        /\ at[r] = "weak" /\ at'[r] = "weak"
        /\ at[n] = "none" /\ at'[n] = "strong" /\ r # n
        /\ \A x \in Refs \ {r, n} : at'[x] = at[x]
    BY <1>3 DEF IInv, TypeOK, RefStates, Promote, PromotedFrom
  <2>2. \A states :
          Shifts(One("weak", states) - One("weak", states)
                 + One("strong", states) - One("none", states), states)
    BY <2>1, TwoMove
  <2>3. /\ Up(StrongHolders)
        /\ Same(WeakHolders) /\ Same({"promised"}) /\ Same({"reacquire"})
        /\ Same({"failing"}) /\ Same({"closing"}) /\ Same({"collecting"})
        /\ Same({"freeing"})
    BY <2>2 DEF Shifts, One, WeakHolders, StrongHolders
  <2> USE DEF Same, Up, Down, WeakHolders, StrongHolders, HowMany, IInv,
             TypeOK, WeakAccounting, StrongAccounting
  <2>4. TypeOK'
    BY <1>3, <2>1, <2>3 DEF Promote, PromotedFrom
  <2>5. WeakAccounting'
    BY <1>3, <2>3 DEF Promote, PromotedFrom
  <2>6. StrongAccounting'
    BY <1>3, <2>3 DEF Promote, PromotedFrom
  <2>7. PromisesPaired' /\ OneCollector'
    BY <1>3, <2>3 DEF Promote, PromotedFrom, PromisesPaired, OneCollector
  <2>8. OneFreer'
    BY <1>3, <2>3 DEF Promote, PromotedFrom, OneFreer
  <2> QED BY <2>4, <2>5, <2>6, <2>7, <2>8
<1> QED BY <1>1, <1>2, <1>3 DEF IInv, TypeOK

LEMMA InitInv == Init => IInv
<1> SUFFICES ASSUME Init PROVE IInv
  OBVIOUS
<1> DEFINE nobody == [x \in Refs |-> "none"]
<1>1. PICK r \in Refs :
        /\ at[r] = "strong"
        /\ \A x \in Refs \ {r} : at[x] = nobody[x]
        /\ at \in [Refs -> RefStates]
  BY DEF Init, RefStates
<1>2. nobody \in [Refs -> RefStates] /\ nobody[r] = "none"
  BY DEF RefStates
<1>3. \A states : "none" \notin states =>
        /\ Count(nobody, states) = 0
        /\ Count(at, states) = 0 + One("strong", states)
  <2> SUFFICES ASSUME NEW states, "none" \notin states
               PROVE  /\ Count(nobody, states) = 0
                      /\ Count(at, states) = 0 + One("strong", states)
    OBVIOUS
  <2>1. Count(nobody, states) = 0
    BY CountType
  <2> HIDE DEF nobody
  <2>2. Count(at, states) = Count(nobody, states) + One(at[r], states)
                                                  - One(nobody[r], states)
    BY <1>1, <1>2, Moved
  <2> QED BY <1>1, <1>2, <2>1, <2>2 DEF One
<1>4. /\ Count(at, WeakHolders) = 0 /\ Count(at, StrongHolders) = 1
      /\ Count(at, {"promised"}) = 0 /\ Count(at, {"reacquire"}) = 0
      /\ Count(at, {"failing"}) = 0
      /\ Count(at, {"collecting"}) = 0 /\ Count(at, {"freeing"}) = 0
  BY <1>3 DEF One, WeakHolders, StrongHolders
<1> USE DEF Init, HowMany
<1>5. TypeOK
  BY <1>1 DEF TypeOK
<1>6. WeakAccounting
  BY <1>4 DEF WeakAccounting
<1>7. PromisesPaired
  BY <1>4 DEF PromisesPaired
<1>8. StrongAccounting
  BY <1>4 DEF StrongAccounting
<1>9. OneCollector
  BY <1>4 DEF OneCollector
<1>10. OneFreer
  BY <1>4 DEF OneFreer
<1> QED BY <1>5, <1>6, <1>7, <1>8, <1>9, <1>10 DEF IInv

----------------------------------------------------------------------------

(* The counts of shared.h say at all times which references there are.     *)
THEOREM Invariance == Spec => []IInv
<1>1. IInv /\ [Next]_vars => IInv'
  <2> SUFFICES ASSUME IInv, [Next]_vars PROVE IInv'
    OBVIOUS
  <2>1. ASSUME NEW r \in Refs, Continue(r) PROVE IInv'
    BY <2>1, CloseInv, CollectInv, DeallocInv, FailPromoteInv, WeakReleaseInv,
       ReacquireInv DEF Continue
  <2>2. CASE UNCHANGED vars
    BY <2>2 DEF vars, IInv, TypeOK, WeakAccounting, PromisesPaired,
                StrongAccounting, OneCollector, OneFreer, HowMany, Count
  <2> QED
    BY <2>1, <2>2, ReleaseInv, WeakReleaseInv, AcquireInv, WeakAcquireInv,
       PromoteInv DEF Next
<1> QED BY <1>1, InitInv, PTL DEF Spec

(* The weak count is exact, whatever promotions race with releases. *)
THEOREM WeakAccountingHolds == Spec => []WeakAccounting
<1>1. IInv => WeakAccounting
  BY DEF IInv
<1> QED BY <1>1, Invariance, PTL

(* With a strong reference about, the top bit is clear. *)
LEMMA StrongKeepsOpen ==
  ASSUME IInv, NEW r \in Refs, at[r] \in StrongHolders
  PROVE  ~closed /\ collected = 0 /\ rc > 0
<1>1. Count(at, StrongHolders) \in Nat /\ Count(at, StrongHolders) # 0
  BY CountType
<1>2. Count(at, {"collecting"}) \in Nat
  BY CountType
<1> QED BY <1>1, <1>2 DEF IInv, TypeOK, StrongAccounting, OneCollector, HowMany

(* A strong reference, also one that a promotion is about to return, keeps *)
(* the contents.                                                           *)
THEOREM StrongKeepsContentsHolds == Spec => []StrongKeepsContents
<1>1. IInv => StrongKeepsContents
  BY StrongKeepsOpen DEF StrongKeepsContents
<1> QED BY <1>1, Invariance, PTL

(* A weak count of zero means that the contents are collected and nobody   *)
(* has a reference or is inside an operation but the one who frees.        *)
LEMMA NoWeakCount ==
  ASSUME IInv, weak_count = 0
  PROVE  /\ closed /\ collected = 1
         /\ \A r \in Refs : at[r] \in {"none", "freeing"}
<1>1. \A states : Count(at, states) \in Nat
  BY CountType
<1>2. /\ Count(at, WeakHolders) = 0
      /\ closed \/ rc = 0
  BY <1>1 DEF IInv, TypeOK, WeakAccounting, HowMany
<1>3. \A r \in Refs : at[r] \notin WeakHolders
  BY <1>2, CountType
<1>4. Count(at, {"closing"}) = 0 /\ Count(at, {"collecting"}) = 0
  BY <1>3, CountType DEF WeakHolders
<1>5. closed
  BY <1>1, <1>2, <1>4 DEF IInv, TypeOK, StrongAccounting, HowMany
<1>6. \A r \in Refs : at[r] \notin StrongHolders
  BY <1>5, StrongKeepsOpen
<1>7. Count(at, {"reacquire"}) = 0
  <2>1. Count(at, {"promised"}) = 0
    BY <1>6, CountType DEF StrongHolders
  <2> QED BY <2>1 DEF IInv, PromisesPaired, HowMany
<1>8. \A r \in Refs : at[r] # "reacquire"
  BY <1>7, CountType
<1>9. collected = 1
  BY <1>4, <1>5 DEF IInv, TypeOK, OneCollector, HowMany
<1>10. \A r \in Refs : at[r] \in RefStates
  BY DEF IInv, TypeOK
<1> QED BY <1>3, <1>5, <1>6, <1>8, <1>9, <1>10
        DEF RefStates, WeakHolders, StrongHolders

(* Nobody can be inside an operation on memory that is given back. *)
THEOREM NoUseAfterDeallocHolds == Spec => []NoUseAfterDealloc
<1>1. IInv => NoUseAfterDealloc
  <2> SUFFICES ASSUME IInv, NEW r \in Refs, at[r] = "freeing" \/ freed > 0,
                      NEW x \in Refs \ {r}
               PROVE  at[x] = "none"
    BY DEF NoUseAfterDealloc
  <2>1. Count(at, {"freeing"}) \in Nat
        /\ (Count(at, {"freeing"}) = 0 <=> \A y \in Refs : at[y] # "freeing")
    BY CountType
  <2>2. weak_count = 0
    BY <2>1 DEF IInv, TypeOK, OneFreer, HowMany
  <2>3. at[x] \in {"none", "freeing"}
    BY <2>2, NoWeakCount
  <2>4. ASSUME at[x] = "freeing" PROVE FALSE
    <3>1. Count(at, {"freeing"}) # 0
      BY <2>1, <2>4
    <3>2. Count(at, {"freeing"}) = 1 /\ freed = 0
      BY <2>1, <2>2, <3>1 DEF IInv, TypeOK, OneFreer, HowMany
    <3>3. at[r] = "freeing"
      BY <3>2
    <3>4. {r, x} \subseteq Holders(at, {"freeing"})
      BY <3>3, <2>4 DEF Holders
    <3>5. Cardinality(Holders(at, {"freeing"})) = 1
          /\ IsFiniteSet(Holders(at, {"freeing"}))
      BY <3>2, CountType
    <3>6. PICK y : Holders(at, {"freeing"}) = {y}
      BY <3>5, FS_Singleton
    <3> QED BY <3>4, <3>6
  <2> QED BY <2>3, <2>4
<1> QED BY <1>1, Invariance, PTL

(* The memory is given back once, after the contents, which go once. *)
THEOREM ReclaimedOnceHolds == Spec => []ReclaimedOnce
<1>1. IInv => ReclaimedOnce
  <2> SUFFICES ASSUME IInv PROVE ReclaimedOnce
    OBVIOUS
  <2>1. /\ Count(at, {"freeing"}) \in Nat
        /\ Count(at, {"collecting"}) \in Nat
    BY CountType
  <2>2. freed > 0 => weak_count = 0
    BY <2>1 DEF IInv, TypeOK, OneFreer, HowMany
  <2>3. freed > 0 => collected = 1
    BY <2>2, NoWeakCount
  <2>4. collected <= 1 /\ freed <= 1
    BY <2>1 DEF IInv, TypeOK, OneFreer, OneCollector, HowMany
  <2> QED BY <2>3, <2>4 DEF ReclaimedOnce, IInv, TypeOK
<1> QED BY <1>1, Invariance, PTL

(* When the last reference is gone the memory is given back. *)
THEOREM NoLeakHolds == Spec => []NoLeak
<1>1. IInv => NoLeak
  <2> SUFFICES ASSUME IInv, \A r \in Refs : at[r] = "none"
               PROVE  freed = 1
    BY DEF NoLeak
  <2>1. \A states : "none" \notin states => Count(at, states) = 0
    BY CountType
  <2>2. /\ Count(at, WeakHolders) = 0 /\ Count(at, StrongHolders) = 0
        /\ Count(at, {"closing"}) = 0 /\ Count(at, {"freeing"}) = 0
    BY <2>1 DEF WeakHolders, StrongHolders
  <2>3. closed
    BY <2>2 DEF IInv, TypeOK, StrongAccounting, HowMany
  <2>4. weak_count = 0
    BY <2>2, <2>3 DEF IInv, TypeOK, WeakAccounting, HowMany
  <2> QED BY <2>2, <2>4 DEF IInv, TypeOK, OneFreer, HowMany
<1> QED BY <1>1, Invariance, PTL

----------------------------------------------------------------------------
(* The refinement of WeakRefs. *)

RefOf(s) == CASE s \in StrongHolders -> "strong"
              [] s \in {"weak", "failing", "reacquire"} -> "weak"
              [] OTHER -> "none"

(* What the counts say of the life of the object. *)
LEMMA LifeOf ==
  ASSUME IInv
  PROVE  /\ ~closed => AbstractLife = "live"
         /\ closed /\ freed = 0 => AbstractLife = "collected"
         /\ freed > 0 => closed
<1>1. Count(at, {"freeing"}) \in Nat
  BY CountType
<1>2. freed > 0 => weak_count = 0
  BY <1>1 DEF IInv, TypeOK, OneFreer, HowMany
<1>3. freed > 0 => closed
  BY <1>2, NoWeakCount
<1> QED BY <1>3 DEF AbstractLife, IInv, TypeOK

(* A step that leaves the counts of the last reference alone moves         *)
(* references as WeakRefs does.                                            *)
LEMMA AbstractMoved ==
  ASSUME at \in [Refs -> RefStates], at' \in [Refs -> RefStates],
         NEW r \in Refs, \A x \in Refs \ {r} : RefOf(at'[x]) = RefOf(at[x])
  PROVE  /\ AbstractRef[r] = RefOf(at[r])
         /\ AbstractRef' = [AbstractRef EXCEPT ![r] = RefOf(at'[r])]
<1>1. /\ AbstractRef = [x \in Refs |-> RefOf(at[x])]
      /\ AbstractRef' = [x \in Refs |-> RefOf(at'[x])]
  BY DEF AbstractRef, RefOf
<1> QED BY <1>1

LEMMA SameLife ==
  ASSUME UNCHANGED <<closed, freed>>
  PROVE  AbstractLife' = AbstractLife
BY DEF AbstractLife

LEMMA InitRefines == Init => Abstract!Init
<1> SUFFICES ASSUME Init PROVE Abstract!Init
  OBVIOUS
<1>1. PICK r \in Refs : at = [x \in Refs |-> IF x = r THEN "strong" ELSE "none"]
  BY DEF Init
<1>2. AbstractRef = [x \in Refs |-> IF x = r THEN "strong" ELSE "none"]
  BY <1>1 DEF AbstractRef, StrongHolders
<1>3. AbstractLife = "live"
  BY DEF Init, AbstractLife
<1> QED BY <1>2, <1>3 DEF Abstract!Init

(* Steps inside an operation move no reference. *)
LEMMA InternalRefines ==
  ASSUME IInv, NEW r \in Refs,
         \/ Collect(r) \/ FailPromote(r)
         \/ Close(r) /\ ~CanClose
         \/ WeakRelease(r) /\ at[r] = "dropping"
  PROVE  UNCHANGED Abstract!vars
<1>1. /\ at \in [Refs -> RefStates] /\ at' \in [Refs -> RefStates]
      /\ \A x \in Refs \ {r} : at'[x] = at[x]
      /\ UNCHANGED <<closed, freed>>
  BY DEF IInv, TypeOK, RefStates, Collect, FailPromote, Close,
         AfterFailedClose, WeakRelease
<1>2. RefOf(at'[r]) = RefOf(at[r])
  BY <1>1 DEF IInv, TypeOK, RefOf, StrongHolders, Collect, FailPromote, Close,
         AfterFailedClose, WeakRelease
<1>3. \A x \in Refs : RefOf(at'[x]) = RefOf(at[x])
  BY <1>1, <1>2
<1>4. AbstractRef' = AbstractRef
  BY <1>3 DEF AbstractRef, RefOf
<1> QED BY <1>1, <1>4, SameLife DEF Abstract!vars

LEMMA ReacquireRefines ==
  ASSUME IInv, NEW r \in Refs, NEW n \in Refs, Reacquire(r, n)
  PROVE  UNCHANGED Abstract!vars
<1>1. \A x \in Refs : RefOf(at'[x]) = RefOf(at[x])
  BY DEF IInv, TypeOK, Reacquire, RefOf, StrongHolders
<1>2. AbstractRef' = AbstractRef
  BY <1>1 DEF AbstractRef, RefOf
<1> QED BY <1>2, SameLife DEF Reacquire, Abstract!vars

LEMMA DropRefines ==
  ASSUME IInv, NEW r \in Refs,
         Release(r) \/ (WeakRelease(r) /\ at[r] = "weak")
  PROVE  Abstract!Drop(r)
<1>1. /\ at \in [Refs -> RefStates] /\ at' \in [Refs -> RefStates]
      /\ \A x \in Refs \ {r} : at'[x] = at[x]
      /\ UNCHANGED <<closed, freed>>
  BY DEF IInv, TypeOK, RefStates, Release, WeakRelease
<1>2. RefOf(at'[r]) = "none" /\ RefOf(at[r]) # "none"
  BY <1>1 DEF IInv, TypeOK, RefOf, StrongHolders, Release, WeakRelease
<1>3. AbstractRef[r] # "none" /\ AbstractRef' = [AbstractRef EXCEPT ![r] = "none"]
  BY <1>1, <1>2, AbstractMoved
<1> QED BY <1>1, <1>3, SameLife DEF Abstract!Drop

LEMMA CopyRefines ==
  ASSUME IInv, NEW r \in Refs, NEW n \in Refs,
         Acquire(r, n) \/ WeakAcquire(r, n)
  PROVE  Abstract!Next
<1>1. /\ at \in [Refs -> RefStates] /\ at' \in [Refs -> RefStates]
      /\ \A x \in Refs \ {n} : at'[x] = at[x]
      /\ at[n] = "none" /\ UNCHANGED <<closed, freed>>
  BY DEF IInv, TypeOK, RefStates, Acquire, WeakAcquire
<1>2. /\ AbstractRef[n] = "none"
      /\ AbstractRef' = [AbstractRef EXCEPT ![n] = RefOf(at'[n])]
  BY <1>1, AbstractMoved DEF RefOf, StrongHolders
<1>3. AbstractRef[r] = RefOf(at[r])
  BY DEF AbstractRef, RefOf
<1>4. AbstractLife' = AbstractLife
  BY <1>1, SameLife
<1>5. CASE at'[n] = "strong" /\ at[r] = "strong"
  BY <1>2, <1>3, <1>4, <1>5
     DEF RefOf, StrongHolders, Abstract!Next, Abstract!FromStrong
<1>6. CASE at'[n] = "weak" /\ at[r] = "strong"
  BY <1>2, <1>3, <1>4, <1>6
     DEF RefOf, StrongHolders, Abstract!Next, Abstract!FromStrong
<1>7. CASE at'[n] = "weak" /\ at[r] = "weak"
  BY <1>2, <1>3, <1>4, <1>7
     DEF RefOf, StrongHolders, Abstract!Next, Abstract!CopyWeak
<1>8. \/ at'[n] = "strong" /\ at[r] = "strong"
      \/ at'[n] = "weak" /\ at[r] \in {"strong", "weak"}
  BY <1>1 DEF Acquire, WeakAcquire
<1> QED BY <1>5, <1>6, <1>7, <1>8

(* The increment of a promotion is the moment at which it succeeds. *)
LEMMA PromoteRefines ==
  ASSUME IInv, NEW r \in Refs, NEW n \in Refs, Promote(r, n)
  PROVE  Abstract!Next \/ UNCHANGED Abstract!vars
<1>1. /\ at \in [Refs -> RefStates] /\ at' \in [Refs -> RefStates]
      /\ \A x \in Refs \ {n} : RefOf(at'[x]) = RefOf(at[x])
      /\ at[r] = "weak" /\ at[n] = "none" /\ UNCHANGED <<closed, freed>>
      /\ IF closed THEN at'[n] = "none" ELSE at'[n] \in StrongHolders
  BY DEF IInv, TypeOK, RefStates, RefOf, StrongHolders, Promote, PromotedFrom
<1>2. /\ AbstractRef[n] = "none"
      /\ AbstractRef' = [AbstractRef EXCEPT ![n] = RefOf(at'[n])]
  BY <1>1, AbstractMoved DEF RefOf, StrongHolders
<1>3. AbstractRef[r] = "weak"
  BY <1>1 DEF AbstractRef, StrongHolders
<1>4. AbstractLife' = AbstractLife
  BY <1>1, SameLife
<1>5. CASE closed
  <2>1. RefOf(at'[n]) = "none"
    BY <1>1, <1>5 DEF RefOf, StrongHolders
  <2>2. AbstractRef' = AbstractRef
    BY <1>2, <2>1 DEF AbstractRef
  <2> QED BY <2>2, <1>4 DEF Abstract!vars
<1>6. CASE ~closed
  <2>1. RefOf(at'[n]) = "strong"
    BY <1>1, <1>6 DEF RefOf, StrongHolders
  <2>2. AbstractLife = "live"
    BY <1>6, LifeOf
  <2>3. Abstract!Promote(r, n)
    BY <1>2, <1>3, <1>4, <2>1, <2>2 DEF Abstract!Promote
  <2> QED BY <2>3 DEF Abstract!Next
<1> QED BY <1>5, <1>6

(* The swap that sets the top bit is the moment at which the contents go. *)
LEMMA CloseRefines ==
  ASSUME IInv, NEW r \in Refs, Close(r), CanClose
  PROVE  Abstract!Collect
<1>1. /\ \A x \in Refs : RefOf(at'[x]) = RefOf(at[x])
      /\ ~closed /\ rc = 0 /\ closed' /\ freed' = freed
  BY DEF IInv, TypeOK, RefOf, StrongHolders, Close, CanClose
<1>2. AbstractRef' = AbstractRef
  BY <1>1 DEF AbstractRef, RefOf
<1>3. \A x \in Refs : at[x] \notin StrongHolders
  <2>1. Count(at, StrongHolders) = 0
    BY <1>1 DEF IInv, StrongAccounting, HowMany
  <2> QED BY <2>1, CountType
<1>4. \A x \in Refs : AbstractRef[x] # "strong"
  BY <1>3 DEF AbstractRef
<1>5. freed = 0
  BY <1>1, LifeOf DEF IInv, TypeOK
<1>6. AbstractLife = "live" /\ AbstractLife' = "collected"
  BY <1>1, <1>5 DEF AbstractLife
<1> QED BY <1>2, <1>4, <1>6 DEF Abstract!Collect

LEMMA DeallocRefines ==
  ASSUME IInv, NEW r \in Refs, Dealloc(r)
  PROVE  Abstract!Free
<1>1. Count(at, {"freeing"}) \in Nat /\ Count(at, {"freeing"}) # 0
  BY CountType DEF Dealloc
<1>2. weak_count = 0 /\ freed = 0
  BY <1>1 DEF IInv, TypeOK, OneFreer, HowMany
<1>3. closed /\ \A x \in Refs : at[x] \in {"none", "freeing"}
  BY <1>2, NoWeakCount
<1>4. \A x \in Refs : at'[x] \in {"none", "freeing"}
  BY <1>3 DEF Dealloc, IInv, TypeOK
<1>5. \A x \in Refs : AbstractRef[x] = "none"
  BY <1>3 DEF AbstractRef, StrongHolders
<1>6. AbstractRef' = AbstractRef
  BY <1>3, <1>4 DEF AbstractRef, StrongHolders
<1>7. AbstractLife = "collected" /\ AbstractLife' = "freed"
  BY <1>2, <1>3 DEF AbstractLife, Dealloc
<1> QED BY <1>5, <1>6, <1>7 DEF Abstract!Free

(* The counts of shared.h give the references the doc states: promotion    *)
(* works until the contents are given up, the contents are given up once   *)
(* no strong reference is left, the memory once none is left.              *)
THEOREM CountsImplementWeakRefs == Spec => ImplementsWeakRefs
<1>1. IInv /\ [Next]_vars => [Abstract!Next]_(Abstract!vars)
  <2> SUFFICES ASSUME IInv, [Next]_vars
               PROVE  Abstract!Next \/ UNCHANGED Abstract!vars
    OBVIOUS
  <2>1. ASSUME NEW r \in Refs, Close(r)
        PROVE  Abstract!Next \/ UNCHANGED Abstract!vars
    BY <2>1, CloseRefines, InternalRefines DEF Abstract!Next
  <2>2. ASSUME NEW r \in Refs, WeakRelease(r)
        PROVE  Abstract!Next \/ UNCHANGED Abstract!vars
    <3>1. at[r] \in {"weak", "dropping"}
      BY <2>2 DEF WeakRelease
    <3>2. CASE at[r] = "weak"
      BY <2>2, <3>2, DropRefines DEF Abstract!Next
    <3>3. CASE at[r] = "dropping"
      BY <2>2, <3>3, InternalRefines
    <3> QED BY <3>1, <3>2, <3>3
  <2>3. ASSUME NEW r \in Refs, Release(r) PROVE Abstract!Next
    BY <2>3, DropRefines DEF Abstract!Next
  <2>4. ASSUME NEW r \in Refs, Dealloc(r) PROVE Abstract!Next
    BY <2>4, DeallocRefines DEF Abstract!Next
  <2>5. ASSUME NEW r \in Refs, NEW n \in Refs, Reacquire(r, n)
        PROVE  UNCHANGED Abstract!vars
    BY <2>5, ReacquireRefines
  <2>6. ASSUME NEW r \in Refs, Continue(r)
        PROVE  Abstract!Next \/ UNCHANGED Abstract!vars
    BY <2>1, <2>2, <2>4, <2>5, <2>6, InternalRefines DEF Continue
  <2>7. CASE UNCHANGED vars
    <3>1. AbstractRef' = AbstractRef /\ AbstractLife' = AbstractLife
      BY <2>7 DEF vars, AbstractRef, AbstractLife
    <3> QED BY <3>1 DEF Abstract!vars
  <2> QED
    BY <2>2, <2>3, <2>6, <2>7, CopyRefines, PromoteRefines DEF Next
<1> QED BY <1>1, InitRefines, Invariance, PTL
        DEF Spec, ImplementsWeakRefs, Abstract!Spec

=============================================================================
