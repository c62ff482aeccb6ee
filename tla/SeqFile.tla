------------------------------ MODULE SeqFile ------------------------------
(***************************************************************************)
(* What the data of one regular file promise to its clients: the requests  *)
(* take effect one at a time, each between its arrival and its answer, on  *)
(* one sequence of cells; a read is answered with what it found there.     *)
(*                                                                         *)
(* A cell stands for a run of bytes that no request splits.                *)
(***************************************************************************)
EXTENDS Integers

CONSTANTS Requests,   \* the requests
          What,       \* What[r]: its operation, offset and length
          After,      \* After[r]: the request whose answer r waits for
          Denied,     \* requests whose caller has no write permission
          Top,        \* no request reaches the cell Top
          Zero,       \* the value of a cell never written
          None

VARIABLES bytes,      \* bytes[p]: the value of cell p
          size,       \* the size of the file
          stage,      \* stage[r]: new, queued, taken, answered
          result      \* result[r]: what the read r found

vars == <<bytes, size, stage, result>>

Cells  == 0 .. Top - 1
Stages == {"new", "queued", "taken", "answered"}
Larger(m, n) == IF m > n THEN m ELSE n
Smaller(m, n) == IF m < n THEN m ELSE n

Init ==
  /\ bytes = [p \in Cells |-> Zero]
  /\ size = 0
  /\ stage = [r \in Requests |-> "new"]
  /\ result = [r \in Requests |-> None]

Send(r) ==
  /\ stage[r] = "new"
  /\ After[r] # None => stage[After[r]] = "answered"
  /\ stage' = [stage EXCEPT ![r] = "queued"]
  /\ UNCHANGED <<bytes, size, result>>

End(r) == What[r].off + What[r].len

Write(r) ==
  /\ bytes' = [p \in Cells |-> IF p \in What[r].off .. End(r) - 1
                               THEN <<r, p - What[r].off>> ELSE bytes[p]]
  /\ size' = Larger(size, End(r))
  /\ UNCHANGED result

(* A cell that is cut off is zero when the file grows again. *)
Resize(n) ==
  /\ bytes' = [p \in Cells |-> IF p < n THEN bytes[p] ELSE Zero]
  /\ size' = n
  /\ UNCHANGED result

Reserve(r) == size' = Larger(size, End(r)) /\ UNCHANGED <<bytes, result>>

(* A read stops at the end of the file. *)
Clip(r, fileSize) == Larger(0, Smaller(What[r].len, fileSize - What[r].off))
Read(r) ==
  /\ result' = [result EXCEPT ![r] =
       [i \in 0 .. Clip(r, size) - 1 |-> bytes[What[r].off + i]]]
  /\ UNCHANGED <<bytes, size>>

Refuse(r) == r \in Denied /\ UNCHANGED <<bytes, size, result>>

Effect(r) ==
  \/ What[r].op = "write" /\ Write(r)
  \/ What[r].op = "read" /\ Read(r)
  \/ What[r].op = "setattr" /\ r \notin Denied /\ Resize(What[r].len)
  \/ What[r].op = "open" /\ r \notin Denied /\ Resize(0)
  \/ What[r].op \in {"setattr", "open"} /\ Refuse(r)
  \/ What[r].op = "fallocate" /\ Reserve(r)

(* The answer may go out with the effect or later. *)
Take(r) ==
  /\ stage[r] = "queued"
  /\ Effect(r)
  /\ \E s \in {"taken", "answered"} : stage' = [stage EXCEPT ![r] = s]

Answer(r) ==
  /\ stage[r] = "taken"
  /\ stage' = [stage EXCEPT ![r] = "answered"]
  /\ UNCHANGED <<bytes, size, result>>

Next == \E r \in Requests : Send(r) \/ Take(r) \/ Answer(r)

Spec == Init /\ [][Next]_vars
=============================================================================
