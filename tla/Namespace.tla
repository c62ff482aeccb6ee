----------------------------- MODULE Namespace -----------------------------
(***************************************************************************)
(* The names and inodes of the FUSE filesystem: the handlers of            *)
(* FileSystem.cpp that read or change directory entries, and those that    *)
(* count an inode's links and the kernel's lookups.                        *)
(*                                                                         *)
(* A handler spawns one behaviour, and most behaviours spawn the next one  *)
(* on other cowns; the last one answers the request.  Inode numbers are    *)
(* addresses, so an inode must stay in its table while a directory or the  *)
(* kernel has its number.  A body runs on cowns it holds and is one step;  *)
(* behaviours that share a cown run in the order they were spawned, which  *)
(* BehaviourCore shows.                                                    *)
(*                                                                         *)
(* The kernel is the environment.  It locks directories and victims for    *)
(* requests that change names, sends lookups at any time, and forgets an   *)
(* inode that no request of its own uses.                                  *)
(* Operators named ...Slip are variants that no action uses.               *)
(***************************************************************************)
EXTENDS Integers, Sequences, FiniteSets, Relation, SequencesExt

CONSTANTS Root, Dirs, Files, Names,
          Clients,                 \* programs, with one request each at a time
          Asks,                    \* Asks[c]: the kinds of request that client c sends
          NoRights,                \* NoRights[c]: the directories that c may not write
          Trees,                   \* the entries to start with
          FilesTable, DirsTable,   \* regular_inode_table, dir_inode_table
          None,
          LongNames,               \* names too long for the string object itself
          AllRequests,             \* also the requests that the code gets wrong
          MaxRequests              \* bound on the requests ever sent

Inodes == Dirs \cup Files
TableOf(n) == IF n \in Files THEN FilesTable ELSE DirsTable

ASSUME NamespaceAssumption ==
  /\ Root \in Dirs /\ NoRights \in [Clients -> SUBSET Dirs] /\ Dirs \cap Files = {}
  /\ None \notin Inodes \cup Names \cup Clients
  /\ Trees \subseteq [Dirs -> [Names -> Inodes \cup {None}]]
  /\ \A e \in Trees, p \in Dirs, a \in Names : e[p][a] # None =>
       /\ e[p][a] # Root   \* the root has no name, another inode one
       /\ \A q \in Dirs, b \in Names : e[p][a] = e[q][b] => <<p, a>> = <<q, b>>
       /\ p = Root \/ \E q \in Dirs, b \in Names : e[q][b] = p   \* a directory of the tree
  /\ IsFiniteSet(Inodes) /\ IsFiniteSet(Names) /\ IsFiniteSet(Clients)
  /\ AllRequests \in BOOLEAN /\ MaxRequests \in Nat
  /\ LongNames \subseteq Names /\ (LongNames # {} => AllRequests)

VARIABLES
  entries,      \* DirInode::dentries
  nlink, krefs, \* i_st.st_nlink and krefs of an inode
  tables,       \* the inodes in the two tables
  made,         \* the inodes that were ever made
  behaviours,   \* spawned and not yet run, in order
  request,      \* what a client waits for
  kernel,       \* the lookups the kernel has to forget
  sent          \* how many requests were sent

counts == <<nlink, krefs, tables, made>>
asked  == <<request, kernel, sent>>
vars   == <<entries, counts, behaviours, asked>>

Idle == [op |-> "none", p |-> None, a |-> None, q |-> None, b |-> None, pins |-> {}]
NamedIn(e) == {e[p][a] : p \in Dirs, a \in Names} \ {None}
Subdirs(p) == Cardinality({a \in Names : entries[p][a] \in Dirs})

(* The links an inode has: its name, or for a directory its name, its own  *)
(* "." and the ".." of its subdirectories.                                 *)
LinksOf(n) == CASE n \in Files -> Cardinality({n} \cap NamedIn(entries))
                [] n \in {Root} \cup (Dirs \cap NamedIn(entries)) -> 2 + Subdirs(n)
                [] OTHER -> 0

Init ==
  /\ entries \in Trees
  /\ made = {Root} \cup NamedIn(entries)
  /\ tables = made
  /\ nlink = [n \in Inodes |-> LinksOf(n)]
  /\ kernel = [n \in Inodes |-> IF n \in made THEN 1 ELSE 0]
  /\ krefs = kernel
  /\ behaviours = <<>>
  /\ request = [c \in Clients |-> Idle]
  /\ sent = 0

----------------------------------------------------------------------------
(* The kernel and the clients.                                             *)

Changing == {"create", "mkdir", "unlink", "rmdir", "rename"}
Pinned == UNION {request[c].pins : c \in Clients}
Locked == UNION {request[c].pins : c \in {d \in Clients : request[d].op \in Changing}}
Known(n) == kernel[n] > 0
Linked(p) == p = Root \/ p \in NamedIn(entries)
Under(p, n) ==   \* p is n or below n
  ReflexiveTransitiveClosure([d, e \in Dirs |-> \E a \in Names : entries[d][a] = e], Dirs)[n, p]

MaySend(c, op) == op \in Asks[c] /\ request[c] = Idle /\ sent < MaxRequests

(* What a lambda captures: the request and the inodes found so far.        *)
Behaviour(step, c, r, n, m, on) ==
  [step |-> step, c |-> c, r |-> r, n |-> n, m |-> m, k |-> 0, on |-> on]

(* The handler: the first behaviour takes the cowns the request names.     *)
Send(c, op, p, a, q, b, pins) ==
  /\ MaySend(c, op)
  /\ \A n \in pins : Known(n)
  /\ op \in Changing => pins \cap Locked = {}
  /\ sent' = sent + 1
  /\ LET r == [op |-> op, p |-> p, a |-> a, q |-> q, b |-> b, pins |-> pins]
     IN /\ request' = [request EXCEPT ![c] = r]
        /\ behaviours' = Append(behaviours, Behaviour(op, c, r, None, None, {p, q} \ {None}))
  /\ UNCHANGED <<entries, counts, kernel>>

Fresh(op) == IF op = "create" THEN Files ELSE Dirs
Unmade(op) == Cardinality(Fresh(op) \ made) > Cardinality({c \in Clients : request[c].op = op})

AskName(c, p, a) ==
  /\ Linked(p)
  /\ \/ Send(c, "lookup", p, a, None, None, {p})
     \/ \E op \in {"create", "mkdir"} : Unmade(op) /\ Send(c, op, p, a, None, None, {p})
     \/ \E op \in {"unlink", "rmdir"} :
          Send(c, op, p, a, None, None, {p, entries[p][a]} \ {None})

(* open, opendir, access and setattr change nothing here.  setattr of the  *)
(* root takes its number, 1, for a file's.                                 *)
AskInode(c, n) == Send(c, "use", n, None, None, None, {n})
AskSetattr(c, n) ==
  /\ n = Root => AllRequests
  /\ Send(c, "setattr", n, None, None, None, {n})

(* The kernel checks the kinds of the two entries and that a directory     *)
(* does not move below itself, and renames across directories one at a     *)
(* time.                                                                   *)
Mistaken(c, p, n, q, m) ==   \* the code does not do what rename asks for
  \/ p # q /\ (m # None \/ n \in NoRights[c])
  \/ m \in Dirs /\ \A a \in Names : entries[m][a] = None
AskRename(c, p, a, q, b) ==
  LET n == entries[p][a] m == entries[q][b]
  IN /\ MaySend(c, "rename") /\ (n # m \/ n = None)
     /\ Linked(p) /\ Linked(q)
     /\ n # None /\ m # None => (n \in Dirs <=> m \in Dirs)
     /\ n \in Dirs /\ p # q => ~Under(q, n)
     /\ m \in Dirs /\ p # q => ~Under(p, m)
     /\ p # q => \A d \in Clients : request[d].op = "rename" => request[d].p = request[d].q
     /\ n # None /\ Mistaken(c, p, n, q, m) => AllRequests
     /\ Send(c, "rename", p, a, q, b, {p, q, n, m} \ {None})

(* The kernel forgets all its lookups of n at once; it keeps the root.     *)
AskForget(n) ==
  /\ Known(n) /\ n \notin Pinned \cup {Root}
  /\ kernel' = [kernel EXCEPT ![n] = 0]
  /\ behaviours' = Append(behaviours,
       [Behaviour("forget", None, Idle, n, None, {n, TableOf(n)}) EXCEPT !.k = kernel[n]])
  /\ UNCHANGED <<entries, counts, request, sent>>

----------------------------------------------------------------------------
(* Running a behaviour.                                                    *)

Runs(i, step) ==
  /\ i \in DOMAIN behaviours /\ behaviours[i].step = step
  /\ \A j \in 1 .. i - 1 : behaviours[j].on \cap behaviours[i].on = {}
Client(i) == behaviours[i].c
R(i) == behaviours[i].r

Ends(i) == behaviours' = RemoveAt(behaviours, i)
Follows(i, b) == behaviours' = Append(RemoveAt(behaviours, i), b)
Spawns(i, step, n, m, on) == Follows(i, Behaviour(step, Client(i), R(i), n, m, on))

(* A reply without an inode, one with an inode, which the kernel counts,   *)
(* and none yet.                                                           *)
Reply(i) ==
  /\ request' = [request EXCEPT ![Client(i)] = Idle]
  /\ UNCHANGED <<kernel, sent>>
ReplyEntry(i, n) ==
  /\ request' = [request EXCEPT ![Client(i)] = Idle]
  /\ kernel' = [kernel EXCEPT ![n] = @ + 1]
  /\ UNCHANGED sent
ReplyFailSlip(i) == UNCHANGED asked
ReplyFail(i) == Reply(i)
GoesOn(i) == UNCHANGED asked

Target(i) == entries[R(i).p][R(i).a]
Denied(i, p) == p \in NoRights[Client(i)]
With(p, a, n) == [entries EXCEPT ![p][a] = n]

(* lookup: find the name; then get_inode, on the inode and its table.      *)
LookupEntry(i) ==
  /\ Runs(i, "lookup")
  /\ IF Target(i) = None THEN Ends(i) /\ ReplyFail(i)
     ELSE Spawns(i, "get", Target(i), None, {Target(i), TableOf(Target(i))}) /\ GoesOn(i)
  /\ UNCHANGED <<entries, counts>>

GetInode(i) ==
  LET n == behaviours[i].n
  IN /\ Runs(i, "get")
     /\ krefs' = [krefs EXCEPT ![n] = @ + 1]
     /\ tables' = tables \cup {n}
     /\ Ends(i) /\ ReplyEntry(i, n)
     /\ UNCHANGED <<entries, nlink, made>>

(* create and mkdir answer when add_inode is spawned.                      *)
Refused(i) == Target(i) # None \/ Denied(i, R(i).p)
Refuse(i) ==
  /\ \E op \in {"create", "mkdir"} : Runs(i, op)
  /\ Refused(i)
  /\ Ends(i) /\ ReplyFail(i) /\ UNCHANGED <<entries, counts>>

MakesSubdir(op) == op = "mkdir"
MakeEntry(i, op) ==
  LET n == CHOOSE x \in Fresh(op) : x \notin made
  IN /\ Runs(i, op) /\ ~Refused(i)
     /\ made' = made \cup {n}
     /\ entries' = With(R(i).p, R(i).a, n)
     /\ nlink' = IF MakesSubdir(op) THEN [nlink EXCEPT ![R(i).p] = @ + 1] ELSE nlink
     /\ Follows(i, Behaviour("add", None, Idle, n, None, {n, TableOf(n)})) /\ ReplyEntry(i, n)
     /\ UNCHANGED <<krefs, tables>>

(* add_inode sets the attributes, the link count among them.               *)
AddInode(i) ==
  LET n == behaviours[i].n
  IN /\ Runs(i, "add")
     /\ nlink' = [nlink EXCEPT ![n] = IF n \in Files THEN 1 ELSE 2]
     /\ krefs' = [krefs EXCEPT ![n] = @ + 1]
     /\ tables' = tables \cup {n}
     /\ Ends(i) /\ UNCHANGED <<entries, made, asked>>

(* unlink erases the name, then takes down the count on the inode.         *)
UnlinkEntry(i) ==
  /\ Runs(i, "unlink")
  /\ IF Target(i) \in Files /\ ~Denied(i, R(i).p)
     THEN /\ entries' = With(R(i).p, R(i).a, None)
          /\ Spawns(i, "unlinked", Target(i), None, {Target(i), R(i).p}) /\ GoesOn(i)
     ELSE Ends(i) /\ ReplyFail(i) /\ UNCHANGED entries
  /\ UNCHANGED counts

UnlinkCount(i) ==
  /\ Runs(i, "unlinked")
  /\ nlink' = [nlink EXCEPT ![behaviours[i].n] = @ - 1]
  /\ Ends(i) /\ Reply(i)
  /\ UNCHANGED <<entries, krefs, tables, made>>

(* rmdir checks no access rights.                                          *)
RmdirEntry(i) ==
  /\ Runs(i, "rmdir")
  /\ IF Target(i) \in Dirs
     THEN Spawns(i, "remove", Target(i), None, {Target(i), R(i).p}) /\ GoesOn(i)
     ELSE Ends(i) /\ ReplyFail(i)
  /\ UNCHANGED <<entries, counts>>

IsEmpty(n) == \A a \in Names : entries[n][a] = None
RmdirRemove(i) ==
  LET n == behaviours[i].n
  IN /\ Runs(i, "remove")
     /\ IF IsEmpty(n)
        THEN /\ entries' = With(R(i).p, R(i).a, None)
             /\ nlink' = [nlink EXCEPT ![n] = @ - 2, ![R(i).p] = @ - 1]
             /\ Reply(i)
        ELSE ReplyFail(i) /\ UNCHANGED <<entries, nlink>>
     /\ Ends(i)
     /\ UNCHANGED <<krefs, tables, made>>

----------------------------------------------------------------------------
(* rename.  The behaviours after the first keep iterators to the entries   *)
(* they found: the old one, and from replace_entry the one it replaces.    *)

RenameFind(i) ==
  /\ Runs(i, "rename")
  /\ IF Target(i) = None \/ Denied(i, R(i).p) \/ Denied(i, R(i).q) THEN Ends(i) /\ ReplyFail(i)
     ELSE Spawns(i, "move", Target(i), None, {Target(i), R(i).p, R(i).q}) /\ GoesOn(i)
  /\ UNCHANGED <<entries, counts>>

(* No rights on a moved directory: across directories nobody is told.      *)
RenameDenied(i) ==
  /\ Runs(i, "move") /\ Denied(i, behaviours[i].n)
  /\ Ends(i)
  /\ IF R(i).p = R(i).q THEN ReplyFail(i) ELSE GoesOn(i)
  /\ UNCHANGED <<entries, counts>>

(* An entry's name and number are read again when it is erased.  They are  *)
(* what they were while strings have no memory of their own; the memory of *)
(* a long name is freed with it, and the copy of a long name may get that  *)
(* of the entry: either then has any value.                                *)
Reread(b, v, S) == IF b \in LongNames THEN S ELSE {v}
Moved(r, n, b) == [With(r.p, r.a, None) EXCEPT ![r.q][b] = n]
MovesUpSlip(n) == FALSE
MovesUp(n) == n \in Dirs
RenameMove(i) ==
  LET n == behaviours[i].n  r == R(i)
  IN /\ Runs(i, "move") /\ ~Denied(i, n)
     /\ entries[r.q][r.b] = None
     /\ \E x \in Reread(r.b, n, made) :
          /\ entries' = Moved(r, x, r.b)
          /\ nlink' = IF r.p # r.q /\ MovesUp(x)
                      THEN [nlink EXCEPT ![r.p] = @ - 1, ![r.q] = @ + 1] ELSE nlink
     /\ Ends(i) /\ Reply(i)
     /\ UNCHANGED <<krefs, tables, made>>

RenameTwo(i) ==
  LET n == behaviours[i].n  m == entries[R(i).q][R(i).b]
  IN /\ Runs(i, "move") /\ ~Denied(i, n) /\ m # None
     /\ Spawns(i, "tables", n, m, {FilesTable, DirsTable}) /\ GoesOn(i)
     /\ UNCHANGED <<entries, counts>>

(* The inodes of both numbers are looked up in the tables; an inode that   *)
(* is not found is replaced by a new, "fake" one.                          *)
InTable(n) == IF n \in tables THEN n ELSE None
RenameTables(i) ==
  LET n == InTable(behaviours[i].n)  m == InTable(behaviours[i].m)
  IN /\ Runs(i, "tables")
     /\ Spawns(i, "replace", n, m, {R(i).p, R(i).q, n, m} \ {None}) /\ GoesOn(i)
     /\ UNCHANGED <<entries, counts>>

(* Both entries are erased and one is inserted, if its name is free.       *)
(* Across directories it keeps its old name, and every move of a directory *)
(* onto another counts a link less for the old parent.                     *)
Insert(e, p, a, n) == IF e[p][a] = None THEN [e EXCEPT ![p][a] = n] ELSE e
RenameReplace(i) ==
  LET n == behaviours[i].n  m == behaviours[i].m  r == R(i)
      old == entries[r.p][r.a]
      kept == IF r.p = r.q THEN r.b ELSE r.a
      fails == n \in Dirs /\ (m \notin Dirs \/ ~IsEmpty(m))
      silent == n \notin Dirs /\ m \in Dirs
      linked == IF n \in Dirs /\ m \in Dirs
                THEN [nlink EXCEPT ![r.p] = @ - 1, ![r.q] = IF r.p = r.q THEN @ ELSE @ + 1]
                ELSE nlink
  IN /\ Runs(i, "replace")
     /\ Ends(i)
     /\ CASE silent -> GoesOn(i) [] fails -> ReplyFail(i) [] OTHER -> Reply(i)
     /\ IF fails \/ silent THEN UNCHANGED <<entries, nlink>>
        ELSE /\ \E b \in Reread(kept, kept, Names), x \in Reread(kept, old, made) :
                  entries' = Insert(Moved(r, None, r.b), r.q, b, x)
             /\ nlink' = IF m \in Files THEN [linked EXCEPT ![m] = @ - 1] ELSE linked
     /\ UNCHANGED <<krefs, tables, made>>

----------------------------------------------------------------------------
(* forget: the inode leaves its table, its last reference but those of     *)
(* behaviours, when it has neither lookups nor links.                      *)
GoneSlip(n, k) == k = 0
Gone(n, k) == k = 0 /\ nlink[n] = 0
Forget(i) ==
  LET n == behaviours[i].n  k == krefs[n] - behaviours[i].k
  IN /\ Runs(i, "forget")
     /\ krefs' = [krefs EXCEPT ![n] = k]
     /\ tables' = IF Gone(n, k) THEN tables \ {n} ELSE tables
     /\ Ends(i)
     /\ UNCHANGED <<entries, nlink, made, asked>>

UseInode(i) ==
  /\ Runs(i, "use")
  /\ Ends(i) /\ Reply(i)
  /\ UNCHANGED <<entries, counts>>

(* The root's cown has the address 0, which ends the program; kept of that *)
(* is the missing reply.                                                   *)
Setattr(i) ==
  /\ Runs(i, "setattr")
  /\ Ends(i)
  /\ IF R(i).p = Root THEN GoesOn(i) ELSE Reply(i)
  /\ UNCHANGED <<entries, counts>>

RunBehaviour(i) ==
  \/ LookupEntry(i) \/ GetInode(i)
  \/ Refuse(i) \/ (\E op \in {"create", "mkdir"} : MakeEntry(i, op)) \/ AddInode(i)
  \/ UnlinkEntry(i) \/ UnlinkCount(i) \/ RmdirEntry(i) \/ RmdirRemove(i)
  \/ RenameFind(i) \/ RenameDenied(i) \/ RenameMove(i)
  \/ RenameTwo(i) \/ RenameTables(i) \/ RenameReplace(i)
  \/ Forget(i) \/ UseInode(i) \/ Setattr(i)

Next ==
  \/ \E i \in DOMAIN behaviours : RunBehaviour(i)
  \/ \E c \in Clients, p \in Dirs, a \in Names :
       \/ AskName(c, p, a)
       \/ \E q \in Dirs, b \in Names : AskRename(c, p, a, q, b)
  \/ \E c \in Clients, n \in Inodes : AskInode(c, n) \/ AskSetattr(c, n)
  \/ \E n \in Inodes : AskForget(n)

Spec == Init /\ [][Next]_vars

(* Every behaviour that was spawned runs: the oldest one can always.       *)
FairSpec == Spec /\ WF_vars(RunBehaviour(1))

----------------------------------------------------------------------------
TypeOK ==
  /\ entries \in [Dirs -> [Names -> Inodes \cup {None}]]
  /\ nlink \in [Inodes -> Nat] /\ krefs \in [Inodes -> Nat] /\ kernel \in [Inodes -> Nat]
  /\ tables \subseteq made /\ made \subseteq Inodes
  /\ sent \in 0 .. MaxRequests

Waiting(step, n) == {i \in DOMAIN behaviours : behaviours[i].step = step /\ behaviours[i].n = n}

(* Nothing dangles.  A number that a directory, the kernel or a behaviour   *)
(* has is the number of an inode in its table, or of one that add_inode,   *)
(* ahead of whoever uses it, puts there: nobody makes a cown_ptr of a      *)
(* freed inode's address (FileSystem.cpp:149), get_inode's asserts (:55)   *)
(* hold, and rename finds both inodes in the tables (:1173).  The          *)
(* iterators that the behaviours of a rename or rmdir captured point at    *)
(* the entries that were found, whatever ran in between.                   *)
Uses(x) == ({x.n, x.m} \cup x.r.pins) \cap Inodes
NothingDangles ==
  /\ \A n \in NamedIn(entries) \cup {x \in Inodes : Known(x)} :
       n \in tables \/ Waiting("add", n) # {}
  /\ \A i \in DOMAIN behaviours :
       LET x == behaviours[i]
       IN /\ \A n \in Uses(x) : n \in tables \/ \E j \in Waiting("add", n) : j <= i
          /\ x.step \in {"remove", "move", "tables", "replace"} => Target(i) = x.n
          /\ x.step \in {"tables", "replace"} => entries[x.r.q][x.r.b] = x.m

(* The counts agree with what they count: krefs with the kernel's lookups, *)
(* give or take what waits to be counted, and, when nothing waits, links   *)
(* with the names; and no inode stays that has neither.                    *)
Forgetting(n) == UNION {{i} \X (1 .. behaviours[i].k) : i \in Waiting("forget", n)}
Forgotten(n) == Cardinality(Forgetting(n))
CountsExact ==
  /\ \A n \in Inodes :
       krefs[n] = kernel[n] + Forgotten(n) - Cardinality(Waiting("add", n))
  /\ behaviours = <<>> =>
       \A n \in made : nlink[n] = LinksOf(n) /\ (n \in tables <=> nlink[n] > 0 \/ krefs[n] > 0)

(* Every request is answered, however many behaviours it takes.            *)
RequestsAnswered == \A c \in Clients : request[c] # Idle ~> request[c] = Idle
=============================================================================
