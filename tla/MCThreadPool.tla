---------------------------- MODULE MCThreadPool ----------------------------
(* Small pools for TLC. *)
EXTENDS ThreadPool, TLC

CONSTANTS t1, t2, x1, r, w1, w2, w3, w4, w5

Ring2 == (t1 :> t2) @@ (t2 :> t1)

Do(op) == [op |-> op]
SpawnOf(w) == [op |-> "spawn", w |-> w]
StartOf(x) == [op |-> "start", x |-> x]

\* No outside thread: next_work overflows into the queue, and an item that
\* was stolen has work of its own.
FanOut ==
  [script |-> (r :> <<SpawnOf(w1), SpawnOf(w2)>>) @@ (w1 :> <<SpawnOf(w3), SpawnOf(w4)>>)
           @@ (w2 :> <<SpawnOf(w5)>>)
           @@ (w3 :> <<>>) @@ (w4 :> <<>>) @@ (w5 :> <<>>),
   pushes |-> (x1 :> <<>>)]

\* An event source: the root registers it and starts a thread outside, which
\* schedules the item that removes it; another item is spawned inside.
Idle == [w \in Works |-> <<>>]
EventSource ==
  [script |-> (r :> <<Do("add"), StartOf(x1), SpawnOf(w2)>>) @@ (w1 :> <<Do("remove")>>) @@ Idle,
   pushes |-> (x1 :> <<w1>>)]

MCPrograms == {FanOut, EventSource}
=============================================================================
