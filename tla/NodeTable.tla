----------------------------- MODULE NodeTable -----------------------------
(***************************************************************************)
(* The hash table of the comparison filesystem (StackFsOpt/main.c): nodes  *)
(* in doubly linked buckets, resized by linear hashing.  Buckets below     *)
(* split were divided between themselves and the upper half; an insertion  *)
(* divides one more, a deletion merges some back.                          *)
(***************************************************************************)
EXTENDS Integers

CONSTANTS Nodes, Nil,
          MinSize,       \* HASH_TABLE_MIN_SIZE
          Hash           \* Hash[k]: the hash of a key (inode number and path)

Empty == [array |-> [b \in 0..MinSize - 1 |-> Nil], use |-> 0, size |-> MinSize, split |-> 0,
          next |-> [n \in Nodes |-> Nil], prev |-> [n \in Nodes |-> Nil]]

NameHash(T, k) ==
  LET new == Hash[k] % T.size
      old == new % (T.size \div 2)
  IN IF old >= T.split THEN old ELSE new

RECURSIVE From(_, _)
From(T, n) == IF n = Nil THEN {} ELSE {n} \cup From(T, T.next[n])
Bucket(T, b) == From(T, T.array[b])
RECURSIVE Earliest(_, _, _)
Earliest(T, n, S) == IF n = Nil \/ n \in S THEN n ELSE Earliest(T, T.next[n], S)

(* Links n in front of bucket b. *)
Push(T, n, b) ==
  LET top == T.array[b]
      U == [T EXCEPT !.next[n] = top, !.array[b] = n]
  IN IF top = Nil THEN U ELSE [U EXCEPT !.prev[top] = n]

(* Makes the field that holds the node after `before` (the bucket's head   *)
(* if Nil) hold n.                                                         *)
Point(T, b, before, n) ==
  IF before = Nil THEN [T EXCEPT !.array[b] = n] ELSE [T EXCEPT !.next[before] = n]

(* remap_hash_table: divide bucket split, double the table at its end.     *)
RECURSIVE Divided(_, _, _, _)
Divided(T, key, b, before) ==
  LET n == IF before = Nil THEN T.array[b] ELSE T.next[before]
      after == T.next[n]
      U == Point(T, b, before, after)
      V == IF after = Nil THEN U ELSE [U EXCEPT !.prev[after] = T.prev[n]]
  IN IF n = Nil THEN T
     ELSE IF NameHash(T, key[n]) = b THEN Divided(T, key, b, n)
     ELSE Divided(Push([V EXCEPT !.prev[n] = Nil], n, NameHash(T, key[n])), key, b, before)
Resized(T) ==
  [T EXCEPT !.size = 2 * T.size, !.split = 0,
            !.array = [b \in 0..2 * T.size - 1 |-> IF b < T.size THEN T.array[b] ELSE Nil]]
RemappedSlip(T, key) ==
  LET U == [Divided(T, key, T.split, Nil) EXCEPT !.split = @ + 1]
  IN IF U.split = U.size \div 2 THEN Resized(U) ELSE U
Remapped(T, key) ==
  LET U == Divided([T EXCEPT !.split = @ + 1], key, T.split, Nil)
  IN IF U.split = U.size \div 2 THEN Resized(U) ELSE U

Inserted(T, key, n) ==
  LET U == [Push(T, n, NameHash(T, key[n])) EXCEPT !.use = @ + 1]
  IN IF U.use >= U.size \div 2 THEN Remapped(U, key) ELSE U

(* remerge_hash_table: halve a table that has no upper half in use, then   *)
(* undo splits until one moved a bucket.                                   *)
Reduced(T) ==
  LET half == T.size \div 2
  IN IF half < MinSize THEN T
     ELSE [T EXCEPT !.size = half, !.split = half \div 2,
                    !.array = [b \in 0..half - 1 |-> T.array[b]]]
RECURSIVE EndOf(_, _)
EndOf(T, n) == IF n = Nil \/ T.next[n] = Nil THEN n ELSE EndOf(T, T.next[n])
RECURSIVE Merged(_, _)
Merged(T, iter) ==
  LET low == T.split - 1
      up == low + T.size \div 2
      top == T.array[up]
      end == EndOf(T, T.array[low])
      U == [T EXCEPT !.split = low]
  IN IF T.split = 0 \/ iter = 0 THEN T
     ELSE IF top = Nil THEN Merged(U, iter - 1)
     ELSE [Point(U, low, end, top) EXCEPT !.prev[top] = end, !.array[up] = Nil]
Remerged(T) == Merged(IF T.split = 0 THEN Reduced(T) ELSE T, 8)

(* delete_from_hash_table *)
Deleted(T, key, n) ==
  LET before == T.prev[n]
      after == T.next[n]
      U == Point(T, NameHash(T, key[n]), before, after)
      V == IF after = Nil THEN U ELSE [U EXCEPT !.prev[after] = before]
      W == [V EXCEPT !.prev[n] = Nil, !.next[n] = Nil, !.use = @ - 1]
  IN IF W.use < W.size \div 4 THEN Remerged(W) ELSE W
=============================================================================
