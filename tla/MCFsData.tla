------------------------------ MODULE MCFsData ------------------------------
(* Small sets of clients and requests for TLC; two cells make a block. *)
EXTENDS FsData, TLC

CONSTANTS r1, r2, r3, r4, r5, r6, r7

ToWrite(off, len)   == [op |-> "write", off |-> off, len |-> len]
ToRead(off, len)    == [op |-> "read", off |-> off, len |-> len]
ToResize(n)         == [op |-> "setattr", off |-> 0, len |-> n]
ToEmpty             == [op |-> "open", off |-> 0, len |-> 0]
ToReserve(off, len) == [op |-> "fallocate", off |-> off, len |-> len]

\* One client writes both blocks and across their border, reserves space and
\* at last cuts the file off, or grows it when it was emptied in between; one
\* reads, and then tries to empty the file without permission; one empties it.
\* Nothing grows the file after the cut, and one client writes.
SharedFile == (r1 :> ToWrite(0, 4)) @@ (r2 :> ToWrite(1, 2))
           @@ (r3 :> ToReserve(0, 4)) @@ (r4 :> ToResize(1))
           @@ (r5 :> ToRead(1, 3)) @@ (r6 :> ToEmpty) @@ (r7 :> ToEmpty)
SharedOrder == (r1 :> None) @@ (r2 :> r1) @@ (r3 :> r2) @@ (r4 :> r3)
            @@ (r5 :> None) @@ (r6 :> r5) @@ (r7 :> None)
=============================================================================
