------------------------------ MODULE StackFs ------------------------------
(***************************************************************************)
(* The inodes of the comparison filesystem (StackFsOpt/main.c), which      *)
(* passes every request on to a directory of another filesystem.  It keeps *)
(* a node for each inode number and path that the kernel looked up, counts *)
(* the kernel's lookups, and frees the node when they are all forgotten.   *)
(* The kernel names an inode by the node's address.                        *)
(*                                                                         *)
(* Requests run on several threads.  The kernel has one request at a time  *)
(* on a name (it locks the name or its directory) and does not forget an   *)
(* inode that another of its requests uses; a forget may overlap with a    *)
(* lookup of the same name if Overlap.                                     *)
(***************************************************************************)
EXTENDS NodeTable, FiniteSets

CONSTANTS Threads, Names,
          Overlap,       \* forgets overlap with lookups of the same name
          MaxLookups     \* bound on the kernel's count for one inode

ASSUME StackFsAssumption == Hash \in [Names -> Nat] /\ Overlap \in BOOLEAN /\ Nil \notin Nodes \cup Names

VARIABLES table,         \* lo_data.hash_table
          key, nlookup,  \* a node: its inode number and path, its lookup count
          alive,         \* the nodes that are allocated
          exists,        \* the names that exist in the directory below
          kernel,        \* the lookups of a node that the kernel has to forget
          pc, name, node, read   \* a thread: its request, the name, node and count it handles
nodeVars == <<table, key, nlookup, alive>>
vars == <<nodeVars, exists, kernel, pc, name, node, read>>

Init ==
  /\ table = Empty /\ key = [n \in Nodes |-> Nil]
  /\ nlookup = [n \in Nodes |-> 0] /\ alive = {} /\ exists \in SUBSET Names
  /\ kernel = [n \in Nodes |-> 0]
  /\ pc = [t \in Threads |-> "idle"] /\ name = [t \in Threads |-> Nil]
  /\ node = [t \in Threads |-> Nil] /\ read = [t \in Threads |-> 0]

Step(t, from, to) == pc[t] = from /\ pc' = [pc EXCEPT ![t] = to]
Done(t, from) ==
  /\ Step(t, from, "idle")
  /\ name' = [name EXCEPT ![t] = Nil] /\ node' = [node EXCEPT ![t] = Nil]

-----------------------------------------------------------------------------
(* lookup: the node with this key is found or made, and counted, under the *)
(* table's lock; the reply gives its address to the kernel.                *)
Found(f) ==
  LET head == table.array[NameHash(table, f)]
  IN Earliest(table, head, {n \in Nodes : key[n] = f})
Forgetting(f) == \E t \in Threads : pc[t] \in {"forget", "delete"} /\ key[node[t]] = f
NameFree(f) == (\A u \in Threads : name[u] # f) /\ (Overlap \/ ~Forgetting(f))
MakeNode(f, n, count) ==
  /\ n \notin alive /\ alive' = alive \cup {n}
  /\ key' = [key EXCEPT ![n] = f] /\ nlookup' = [nlookup EXCEPT ![n] = count]
  /\ table' = Inserted(table, [key EXCEPT ![n] = f], n)
Lookup(t, f) ==
  /\ f \in exists /\ NameFree(f) /\ Step(t, "idle", "reply")
  /\ name' = [name EXCEPT ![t] = f]
  /\ LET n == Found(f)
     IN IF n # Nil
        THEN /\ kernel[n] < MaxLookups /\ nlookup' = [nlookup EXCEPT ![n] = @ + 1]
             /\ node' = [node EXCEPT ![t] = n] /\ UNCHANGED <<table, key, alive>>
        ELSE \E new \in Nodes : MakeNode(f, new, 1) /\ node' = [node EXCEPT ![t] = new]
  /\ UNCHANGED <<exists, kernel, read>>
Reply(t) ==
  /\ Done(t, "reply") /\ kernel' = [kernel EXCEPT ![node[t]] = @ + 1]
  /\ UNCHANGED <<nodeVars, exists, read>>

(* create and mkdir make a new node, and count the lookup after releasing  *)
(* the lock; unlink and rmdir leave the nodes alone.                       *)
Create(t, f) ==
  /\ f \notin exists /\ NameFree(f) /\ Step(t, "idle", "count")
  /\ exists' = exists \cup {f} /\ name' = [name EXCEPT ![t] = f]
  /\ \E new \in Nodes : MakeNode(f, new, 0) /\ node' = [node EXCEPT ![t] = new]
  /\ UNCHANGED <<kernel, read>>
CountCreatedSlip(t) ==
  /\ Step(t, "count", "reply")
  /\ UNCHANGED <<nodeVars, exists, kernel, name, node, read>>
CountCreated(t) ==
  /\ Step(t, "count", "reply") /\ nlookup' = [nlookup EXCEPT ![node[t]] = @ + 1]
  /\ UNCHANGED <<table, key, alive, exists, kernel, name, node, read>>
Unlink(t, f) ==
  /\ f \in exists /\ NameFree(f) /\ pc[t] = "idle" /\ exists' = exists \ {f}
  /\ UNCHANGED <<nodeVars, kernel, pc, name, node, read>>

(* getattr, setattr, open and opendir read the path of the kernel's inode. *)
Use(t, n) ==
  /\ kernel[n] > 0 /\ Step(t, "idle", "use") /\ node' = [node EXCEPT ![t] = n]
  /\ UNCHANGED <<nodeVars, exists, kernel, name, read>>
Used(t) == Done(t, "use") /\ UNCHANGED <<nodeVars, exists, kernel, read>>

(* forget: the count is read, reduced and tested without the lock.         *)
Forget(t, n) ==
  /\ kernel[n] > 0 /\ \A u \in Threads : pc[u] = "use" => node[u] # n
  /\ Overlap \/ \A u \in Threads : name[u] # key[n]
  /\ Step(t, "idle", "forget") /\ node' = [node EXCEPT ![t] = n]
  /\ read' = [read EXCEPT ![t] = nlookup[n] - kernel[n]]
  /\ kernel' = [kernel EXCEPT ![n] = 0]
  /\ UNCHANGED <<nodeVars, exists, name>>
ForgetWrite(t) ==
  /\ IF read[t] = 0 THEN Step(t, "forget", "delete") /\ UNCHANGED <<name, node>>
     ELSE Done(t, "forget")
  /\ nlookup' = [nlookup EXCEPT ![node[t]] = read[t]] /\ read' = [read EXCEPT ![t] = 0]
  /\ UNCHANGED <<table, key, alive, exists, kernel>>
Delete(t) ==
  /\ Done(t, "delete")
  /\ table' = Deleted(table, key, node[t]) /\ alive' = alive \ {node[t]}
  /\ key' = [key EXCEPT ![node[t]] = Nil]
  /\ UNCHANGED <<nlookup, exists, kernel, read>>

Next ==
  \E t \in Threads :
    \/ \E f \in Names : Lookup(t, f) \/ Create(t, f) \/ Unlink(t, f)
    \/ \E n \in Nodes : Use(t, n) \/ Forget(t, n)
    \/ Reply(t) \/ CountCreated(t) \/ Used(t) \/ ForgetWrite(t) \/ Delete(t)
Spec == Init /\ [][Next]_vars

-----------------------------------------------------------------------------
(* Splitting and merging the buckets loses no node: every node is in the   *)
(* bucket where a lookup of its name searches, its links agree, and the    *)
(* table counts it.                                                        *)
FoundByHash ==
  /\ \A b \in 0..table.size - 1 : \A n \in Bucket(table, b) :
       n \in alive /\ NameHash(table, key[n]) = b
  /\ \A n \in alive : n \in Bucket(table, NameHash(table, key[n]))
  /\ \A n \in alive : table.next[n] # Nil => table.prev[table.next[n]] = n
  /\ table.use = Cardinality(alive)

(* An inode that the kernel still has to forget, or that a request uses,   *)
(* has its node: the lookup count never falls behind the kernel's.         *)
InUse(n) == kernel[n] > 0 \/ \E t \in Threads : node[t] = n /\ pc[t] \in {"reply", "use", "count"}
KernelInodesAlive == \A n \in Nodes : InUse(n) => n \in alive /\ nlookup[n] >= kernel[n]

(* The assert of forget_inode: the kernel forgets no more lookups than the *)
(* node counts.                                                            *)
ForgetAsserts == \A t \in Threads : pc[t] = "forget" => read[t] >= 0
=============================================================================
