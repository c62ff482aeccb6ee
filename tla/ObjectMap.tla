----------------------------- MODULE ObjectMap -----------------------------
(***************************************************************************)
(* The Robin Hood hash map of objects (ds/hashmap.h): a key and its mark   *)
(* and probe bits share a word of a slot.  Insertion places the entry at   *)
(* the first free slot from its hash on, takes the slot of an entry that   *)
(* is nearer to its own hash and goes on with that one, and doubles the    *)
(* map when the probe index no longer fits in its bits.                    *)
(***************************************************************************)
EXTENDS Integers, FiniteSets

CONSTANTS Hash,       \* bits::hash of a key's id
          InitCap,    \* init_capacity
          MaxProbe,   \* PROBE_MASK
          Null

Entry(k, probe, mark) == [key |-> k, probe |-> probe, mark |-> mark]
Free == Entry(Null, 0, FALSE)
NoIndex == -1

EmptyMap == [cap |-> InitCap, longest |-> 0, slot |-> [i \in 0..(InitCap - 1) |-> Free]]
Filled(m) == {i \in DOMAIN m.slot : m.slot[i].key # Null}
Keys(m) == {m.slot[i].key : i \in Filled(m)}
Copies(m, k) == Cardinality({i \in DOMAIN m.slot : m.slot[i].key = k})

Place(m, e, i, n) ==
  [m EXCEPT !.slot[i] = [e EXCEPT !.probe = n],
            !.longest = IF n > @ THEN n ELSE @]

EraseAt(m, i) == [m EXCEPT !.slot[i] = Free]
MarkAt(m, i) == [m EXCEPT !.slot[i].mark = TRUE]

(* find probes as far as any insertion ever did, over free slots too. *)
ReachedSlip(m) == 0..(m.longest - 1)
Reached(m) == 0..m.longest
FindSlot(m, k) ==
  LET at(n) == (Hash[k] + n) % m.cap
      hits == {n \in Reached(m) : m.slot[at(n)].key = k}
  IN IF hits = {} THEN NoIndex
     ELSE at(CHOOSE n \in hits : \A x \in hits : n <= x)

RECURSIVE Insert(_, _), Probe(_, _, _, _, _, _), Resize(_), Reinsert(_, _, _)

(* The slot an entry gives up when one further from its hash comes along. *)
Richer(s, n) == s.probe < n

Probe(m, e, key, i, n, at) ==
  IF n > MaxProbe
  THEN LET r == Insert(Resize(m), e)
       IN [map |-> r.map, added |-> TRUE,
           at |-> IF r.map.slot[r.at].key = key THEN r.at ELSE FindSlot(r.map, key)]
  ELSE LET s == m.slot[i]
           here == IF at = NoIndex THEN i ELSE at
           next == (i + 1) % m.cap
       IN IF s.key = key THEN [map |-> m, added |-> FALSE, at |-> here]
          ELSE IF s.key = Null THEN [map |-> Place(m, e, i, n), added |-> TRUE, at |-> here]
          ELSE IF Richer(s, n) THEN Probe(Place(m, e, i, n), s, key, next, s.probe + 1, here)
          ELSE Probe(m, e, key, next, n + 1, at)

Insert(m, e) ==
  LET big == IF Cardinality(Filled(m)) = m.cap THEN Resize(m) ELSE m
  IN Probe(big, e, e.key, Hash[e.key] % big.cap, 0, NoIndex)

(* Only the keys are inserted again, without their marks. *)
Reinsert(m, old, i) ==
  IF i = old.cap THEN m
  ELSE Reinsert(IF old.slot[i].key = Null THEN m
                ELSE Insert(m, Entry(old.slot[i].key, 0, FALSE)).map, old, i + 1)
Resize(m) ==
  Reinsert([cap |-> 2 * m.cap, longest |-> 0,
            slot |-> [i \in 0..(2 * m.cap - 1) |-> Free]], m, 0)

InsertKey(m, k) == Insert(m, Entry(k, 0, FALSE))
=============================================================================
