---------------------------- MODULE MCNamespace ----------------------------
EXTENDS Namespace
CONSTANTS c1, c2, root, d1, d2, f1, f2, na, nb

Empty == [x \in {na, nb} |-> None]
Tree(top, below) == [p \in Dirs |-> CASE p = root -> top [] p = d1 -> below [] OTHER -> Empty]
(* Two files in the root, to be renamed onto each other; and a directory   *)
(* with a file, to move things in and out.                                 *)
MCTrees == {Tree([Empty EXCEPT ![na] = f1, ![nb] = f2], Empty),
            Tree([Empty EXCEPT ![na] = d1], [Empty EXCEPT ![nb] = f1])}
(* Both clients rename; the rest is shared out, as clients are alike.       *)
MCAsks == [c \in Clients |->
  IF c = c1 THEN {"rename", "unlink", "mkdir", "setattr"} ELSE {"rename", "lookup", "create", "rmdir", "use"}]
MCNoRights == [c \in Clients |-> IF c = c1 THEN {} ELSE {d1}]
=============================================================================
