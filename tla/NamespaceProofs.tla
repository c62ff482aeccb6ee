--------------------------- MODULE NamespaceProofs ---------------------------
(***************************************************************************)
(* Nothing dangles and the counts are exact, for any number of             *)
(* directories, files, names and clients.                                  *)
(*                                                                         *)
(* The invariant has three layers.  Shape holds of every behaviour of      *)
(* Namespace: what a behaviour carries, which cowns it runs on, what its   *)
(* client pinned, and that add_inode comes first.  Places says that the    *)
(* directories and entries a request works on stay as it found them, and   *)
(* that no inode has two names.  Tally counts: the lookups, the links,     *)
(* and who is in the tables.  Places needs Tally where a rename looks its  *)
(* inodes up in the tables, Tally needs Places for the name that a step    *)
(* erases; each is therefore proved of a step from all three.              *)
(*                                                                         *)
(* Places and Tally fail for the renames that replace_entry gets wrong:    *)
(* across directories the entry keeps its old name, or goes if that is     *)
(* taken, links are counted that are not made, and a long name is read     *)
(* after it was erased.  The theorems about them assume ~AllRequests; the  *)
(* last theorem needs no assumption.                                       *)
(***************************************************************************)
EXTENDS FiniteSetTheorems, SequenceTheorems, TLAPS, Namespace

Ops == {"none", "lookup", "create", "mkdir", "unlink", "rmdir", "rename", "use", "setattr"}
Requests == [op : Ops, p : Inodes \cup {None}, a : Names \cup {None},
             q : Dirs \cup {None}, b : Names \cup {None}, pins : SUBSET Inodes]
Steps == {"lookup", "get", "create", "mkdir", "add", "unlink", "unlinked", "rmdir",
          "remove", "rename", "move", "tables", "replace", "forget", "use", "setattr"}
Records == [step : Steps, c : Clients \cup {None}, r : Requests,
            n : Inodes \cup {None}, m : Inodes \cup {None}, k : Nat,
            on : SUBSET (Inodes \cup {FilesTable, DirsTable})]

(* The steps that a client's request takes; the others belong to no client. *)
Servants == {"add", "forget"}
RenameSteps == {"rename", "move", "tables", "replace"}
OpOf(step) == CASE step = "get" -> "lookup"
                [] step = "unlinked" -> "unlink"
                [] step = "remove" -> "rmdir"
                [] step \in RenameSteps -> "rename"
                [] OTHER -> step

(* A request names what its kind needs, and pins its directories.          *)
RequestOK(r) ==
  /\ r.op # "none" => r.p \in r.pins
  /\ r.op \in Changing \cup {"lookup"} => r.p \in Dirs /\ r.a \in Names
  /\ r.op = "rename" => r.q \in Dirs /\ r.b \in Names /\ r.q \in r.pins

(* The cowns that a behaviour runs on, as far as the argument needs them.   *)
OnOK(x) ==
  /\ x.step \notin Servants \cup {"get", "tables", "use", "setattr"} => x.r.p \in x.on
  /\ x.step \in {"rename", "move", "replace"} => x.r.q \in x.on
  /\ x.step \in Servants \cup {"get", "unlinked", "remove", "move"} => x.n \in x.on
  /\ x.step \in Servants \cup {"get"} => TableOf(x.n) \in x.on
  /\ x.step = "tables" => {FilesTable, DirsTable} \subseteq x.on
  /\ x.step = "replace" => {x.n, x.m} \ {None} \subseteq x.on

FoundOK(x) ==
  /\ x.step \in Servants \cup {"get", "move", "tables"} => x.n \in Inodes
  /\ x.step = "unlinked" => x.n \in Files
  /\ x.step = "remove" => x.n \in Dirs
  /\ x.step = "tables" => x.m \in Inodes
  /\ x.step \in {"lookup", "create", "mkdir", "unlink", "rmdir", "rename", "use", "setattr"} => x.n = None
  /\ x.step \notin {"tables", "replace"} => x.m = None
  /\ x.step = "forget" <=> x.k > 0

Typed ==
  /\ entries \in [Dirs -> [Names -> Inodes \cup {None}]]
  /\ nlink \in [Inodes -> Int] /\ krefs \in [Inodes -> Int] /\ kernel \in [Inodes -> Nat]
  /\ tables \subseteq made /\ made \subseteq Inodes /\ Root \in made
  /\ behaviours \in Seq(Records)
  /\ request \in [Clients -> Requests]
  /\ \A c \in Clients : RequestOK(request[c])
  /\ sent \in Nat

(* A behaviour is a servant's, or does the request its client waits for,   *)
(* and a request has one behaviour at a time.                              *)
OwnRequests ==
  /\ \A i \in DOMAIN behaviours :
       LET x == behaviours[i]
       IN /\ OnOK(x) /\ FoundOK(x)
          /\ x.step \in Servants => x.r = Idle
          /\ x.step \notin Servants =>
               x.c \in Clients /\ x.r = request[x.c] /\ x.r.op = OpOf(x.step)
  /\ \A i, j \in DOMAIN behaviours :
       /\ behaviours[i].step \notin Servants /\ behaviours[j].step \notin Servants
       /\ behaviours[i].c = behaviours[j].c
       => i = j

PinsKnown == \A c \in Clients : \A n \in request[c].pins : Known(n)
PinsLocked == \A c, d \in Clients :
  /\ request[c].op \in Changing /\ request[d].op \in Changing /\ c # d
  => request[c].pins \cap request[d].pins = {}

MadeOnes ==
  /\ \A p \in Dirs, a \in Names : entries[p][a] # None => entries[p][a] \in made
  /\ \A n \in Inodes : Known(n) => n \in made
  /\ \A i \in DOMAIN behaviours : {behaviours[i].n, behaviours[i].m} \ {None} \subseteq made
  
(* add_inode is spawned before whatever uses the inode.                    *)
AddsFirst == \A i, j \in DOMAIN behaviours :
  behaviours[j].step = "add" /\ behaviours[j].n \in Uses(behaviours[i]) => j <= i

RoomToMake == \A op \in {"create", "mkdir"} :
  Cardinality({c \in Clients : request[c].op = op}) <= Cardinality(Fresh(op) \ made)

Shape == Typed /\ OwnRequests /\ PinsKnown /\ PinsLocked /\ MadeOnes /\ AddsFirst /\ RoomToMake

------------------------------------------------------------------------------
OneName ==
  \A p, q \in Dirs, a, b \in Names :
    entries[p][a] # None => entries[p][a] # Root /\ (entries[p][a] = entries[q][b] => <<p, a>> = <<q, b>>)

InPlace ==   \* the directories that a request changes are not removed under it
  \A c \in Clients :
    /\ request[c].op \in Changing => Linked(request[c].p)
    /\ request[c].op = "rename" => Linked(request[c].q)

Old(x) == entries[x.r.p][x.r.a]
New(x) == entries[x.r.q][x.r.b]
NewOK(x) ==   \* nothing that Mistaken excludes became true
  /\ New(x) \in x.r.pins \cup {None}
  /\ Old(x) # None =>
       /\ Old(x) # New(x)
       /\ New(x) # None => (Old(x) \in Dirs <=> New(x) \in Dirs)
       /\ ~Mistaken(x.c, x.r.p, Old(x), x.r.q, New(x))
CapturedOK(x) ==
  /\ x.step \in {"unlink", "rmdir", "remove"} \cup RenameSteps => Old(x) \in x.r.pins \cup {None}
  /\ x.step \in {"remove", "move", "tables", "replace"} => Old(x) = x.n /\ x.n # None
  /\ x.step = "unlinked" => x.n \in x.r.pins
  /\ x.step \in RenameSteps => NewOK(x)
  /\ x.step \in {"tables", "replace"} => New(x) = x.m /\ x.m # None
Captured == \A i \in DOMAIN behaviours : CapturedOK(behaviours[i])

Places == OneName /\ InPlace /\ Captured

------------------------------------------------------------------------------
Adding(n) == Waiting("add", n) # {}
Unlinking(n) == Waiting("unlinked", n) # {}
Named(n) == \E p \in Dirs, a \in Names : entries[p][a] = n

LookupsCounted == \A n \in Inodes :
  krefs[n] = kernel[n] + Forgotten(n) - (IF Adding(n) THEN 1 ELSE 0)

FileLinks(n) ==
  /\ ~(Named(n) /\ Unlinking(n))
  /\ IF Adding(n) THEN Named(n) \/ Unlinking(n)
     ELSE nlink[n] = IF Named(n) \/ Unlinking(n) THEN 1 ELSE 0
DirLinks(n) ==
  /\ n = Root \/ Named(n) \/ IsEmpty(n)
  /\ IF Adding(n) THEN Named(n) /\ IsEmpty(n)
     ELSE nlink[n] = IF n = Root \/ Named(n) THEN 2 + Subdirs(n) ELSE 0
LinksCounted == (\A n \in Files : FileLinks(n)) /\ (\A n \in Dirs : DirLinks(n))

TablesExact == \A n \in made :
  n \in tables <=> ~Adding(n) /\ (nlink[n] > 0 \/ krefs[n] > 0)

Held(n) == n = Root \/ Named(n) \/ Unlinking(n) \/ Known(n)
GetsAlive == \A i \in DOMAIN behaviours :
  behaviours[i].step = "get" =>
    \/ Held(behaviours[i].n)
    \/ \E j \in Waiting("forget", behaviours[i].n) : i < j

Tally == LookupsCounted /\ LinksCounted /\ TablesExact /\ GetsAlive

------------------------------------------------------------------------------
(* Sequences: what appending a behaviour and taking one out do.             *)
From(i, j) == IF j < i THEN j ELSE j + 1

LEMMA TakenOut ==
  ASSUME NEW S, NEW s \in Seq(S), NEW i \in DOMAIN s
  PROVE  /\ RemoveAt(s, i) \in Seq(S)
         /\ Len(RemoveAt(s, i)) = Len(s) - 1
         /\ \A j \in 1 .. Len(s) - 1 : RemoveAt(s, i)[j] = s[From(i, j)]
<1> DEFINE t == SubSeq(s, 1, i - 1)  u == SubSeq(s, i + 1, Len(s))
<1>1. Len(s) \in Nat /\ i \in 1 .. Len(s) /\ \A j \in 1 .. Len(s) : s[j] \in S
  BY LenProperties, ElementOfSeq
<1>2. t \in Seq(S) /\ Len(t) = i - 1 /\ \A j \in 1 .. i - 1 : t[j] = s[j]
  <2>1. \A j \in 1 .. i - 1 : s[j] \in S
    BY <1>1
  <2>2. /\ SubSeq(s, 1, i - 1) \in Seq(S)
        /\ Len(SubSeq(s, 1, i - 1)) = IF 1 <= i - 1 THEN i - 1 - 1 + 1 ELSE 0
        /\ \A j \in 1 .. i - 1 - 1 + 1 : SubSeq(s, 1, i - 1)[j] = s[1 + j - 1]
    BY <1>1, <2>1, SubSeqProperties
  <2>3. QED
    BY <1>1, <2>2
<1>3. u \in Seq(S) /\ Len(u) = Len(s) - i /\ \A j \in 1 .. Len(s) - i : u[j] = s[i + j]
  <2>1. \A j \in i + 1 .. Len(s) : s[j] \in S
    BY <1>1
  <2>2. /\ SubSeq(s, i + 1, Len(s)) \in Seq(S)
        /\ Len(SubSeq(s, i + 1, Len(s))) = IF i + 1 <= Len(s) THEN Len(s) - (i + 1) + 1 ELSE 0
        /\ \A j \in 1 .. Len(s) - (i + 1) + 1 : SubSeq(s, i + 1, Len(s))[j] = s[i + 1 + j - 1]
    BY <1>1, <2>1, SubSeqProperties
  <2>3. QED
    BY <1>1, <2>2
<1>4. /\ t \o u \in Seq(S) /\ Len(t \o u) = Len(t) + Len(u)
      /\ \A j \in 1 .. Len(t) + Len(u) : (t \o u)[j] = IF j <= Len(t) THEN t[j] ELSE u[j - Len(t)]
  BY <1>2, <1>3, ConcatProperties
<1>5. RemoveAt(s, i) = t \o u
  BY DEF RemoveAt
<1> HIDE DEF t, u
<1>6. ASSUME NEW j \in 1 .. Len(s) - 1
      PROVE  (t \o u)[j] = s[From(i, j)]
  <2>1. CASE j < i
    <3>1. j \in 1 .. Len(t) + Len(u) /\ j <= Len(t) /\ j \in 1 .. i - 1 /\ From(i, j) = j
      BY <1>1, <1>2, <1>3, <2>1 DEF From
    <3>2. (t \o u)[j] = t[j]
      BY <1>4, <3>1
    <3>3. QED
      BY <1>2, <3>1, <3>2
  <2>2. CASE ~(j < i)
    <3>1. j - (i - 1) \in 1 .. Len(s) - i /\ i + (j - (i - 1)) = j + 1
      BY <1>1, <2>2
    <3>2. j \in 1 .. Len(t) + Len(u) /\ ~(j <= Len(t)) /\ Len(t) = i - 1
      BY <1>1, <1>2, <1>3, <2>2
    <3>3. (t \o u)[j] = u[j - (i - 1)]
      BY <1>4, <3>2
    <3>4. QED
      BY <1>3, <3>1, <3>3, <2>2 DEF From
  <2>3. QED
    BY <2>1, <2>2
<1>7. Len(t) + Len(u) = Len(s) - 1
  BY <1>1, <1>2, <1>3
<1>8. QED
  BY <1>4, <1>5, <1>6, <1>7

LEMMA Appended ==
  ASSUME NEW S, NEW s \in Seq(S), NEW x \in S
  PROVE  /\ Append(s, x) \in Seq(S)
         /\ Len(Append(s, x)) = Len(s) + 1
         /\ Len(s) \in Nat
         /\ \A j \in 1 .. Len(s) : Append(s, x)[j] = s[j]
         /\ Append(s, x)[Len(s) + 1] = x
  OBVIOUS

(* The behaviours before and after a step, place by place: t is s without   *)
(* the one at i, or with x at the end, or both.                             *)
Shifted(s, t, i) ==
  /\ DOMAIN t = 1 .. Len(s) - 1 /\ DOMAIN s = 1 .. Len(s) /\ i \in DOMAIN s /\ Len(s) \in Nat
  /\ \A j \in DOMAIN t : t[j] = s[From(i, j)]
Grown(s, t, x) ==
  /\ DOMAIN t = 1 .. Len(s) + 1 /\ DOMAIN s = 1 .. Len(s) /\ Len(s) \in Nat
  /\ \A j \in DOMAIN s : t[j] = s[j]
  /\ t[Len(s) + 1] = x
Replaced(s, t, i, x) ==
  /\ DOMAIN t = 1 .. Len(s) /\ DOMAIN s = 1 .. Len(s) /\ i \in DOMAIN s /\ Len(s) \in Nat
  /\ \A j \in 1 .. Len(s) - 1 : t[j] = s[From(i, j)]
  /\ t[Len(s)] = x

LEMMA ShiftedSeq ==
  ASSUME NEW S, NEW s \in Seq(S), NEW i \in DOMAIN s
  PROVE  RemoveAt(s, i) \in Seq(S) /\ Shifted(s, RemoveAt(s, i), i)
<1> DEFINE t == RemoveAt(s, i)
<1>1. /\ t \in Seq(S) /\ Len(t) = Len(s) - 1
      /\ \A j \in 1 .. Len(s) - 1 : t[j] = s[From(i, j)]
  BY TakenOut
<1> HIDE DEF t
<1>2. DOMAIN t = 1 .. Len(s) - 1 /\ Len(s) \in Nat /\ DOMAIN s = 1 .. Len(s)
  BY <1>1, LenProperties
<1>3. QED
  BY <1>1, <1>2 DEF Shifted, t

LEMMA GrownSeq ==
  ASSUME NEW S, NEW s \in Seq(S), NEW x \in S
  PROVE  Append(s, x) \in Seq(S) /\ Grown(s, Append(s, x), x)
  BY LenProperties DEF Grown

LEMMA ReplacedSeq ==
  ASSUME NEW S, NEW s \in Seq(S), NEW i \in DOMAIN s, NEW x \in S
  PROVE  /\ Append(RemoveAt(s, i), x) \in Seq(S)
         /\ Replaced(s, Append(RemoveAt(s, i), x), i, x)
<1> DEFINE t == RemoveAt(s, i)
<1>1. /\ t \in Seq(S) /\ Len(t) = Len(s) - 1
      /\ \A j \in 1 .. Len(s) - 1 : t[j] = s[From(i, j)]
  BY TakenOut
<1>2. Len(s) \in Nat /\ i \in 1 .. Len(s) /\ DOMAIN s = 1 .. Len(s)
  BY LenProperties
<1> HIDE DEF t
<1>3. /\ Append(t, x) \in Seq(S) /\ Len(Append(t, x)) = Len(s)
      /\ DOMAIN Append(t, x) = 1 .. Len(s)
      /\ \A j \in 1 .. Len(s) - 1 : Append(t, x)[j] = t[j]
      /\ Append(t, x)[Len(s)] = x
  BY <1>1, <1>2
<1>4. QED
  BY <1>1, <1>2, <1>3 DEF Replaced, t

(* Counts.                                                                  *)
LEMMA BumpInt ==
  ASSUME NEW S, NEW f \in [S -> Int], NEW n \in S, NEW k \in Int
  PROVE  /\ [f EXCEPT ![n] = @ + k] \in [S -> Int]
         /\ \A s \in S : [f EXCEPT ![n] = @ + k][s] = IF s = n THEN f[n] + k ELSE f[s]
  OBVIOUS

LEMMA BumpNat ==
  ASSUME NEW S, NEW f \in [S -> Nat], NEW n \in S, NEW k \in Nat
  PROVE  /\ [f EXCEPT ![n] = @ + k] \in [S -> Nat]
         /\ \A s \in S : [f EXCEPT ![n] = @ + k][s] = IF s = n THEN f[n] + k ELSE f[s]
  OBVIOUS

LEMMA DropInt ==
  ASSUME NEW S, NEW f \in [S -> Int], NEW n \in S, NEW k \in Int
  PROVE  /\ [f EXCEPT ![n] = @ - k] \in [S -> Int]
         /\ \A s \in S : [f EXCEPT ![n] = @ - k][s] = IF s = n THEN f[n] - k ELSE f[s]
  OBVIOUS

LEMMA DropTwo ==
  ASSUME NEW S, NEW f \in [S -> Int], NEW n \in S, NEW p \in S, NEW j \in Int, NEW k \in Int
  PROVE  LET g == [f EXCEPT ![n] = @ - j, ![p] = @ - k]
         IN /\ g \in [S -> Int]
            /\ n # p => \A s \in S : g[s] = IF s = p THEN f[p] - k ELSE IF s = n THEN f[n] - j ELSE f[s]
<1> DEFINE h == [f EXCEPT ![n] = @ - j]
<1>1. h \in [S -> Int] /\ \A s \in S : h[s] = IF s = n THEN f[n] - j ELSE f[s]
  BY DropInt
<1> HIDE DEF h
<1>2. [h EXCEPT ![p] = @ - k] \in [S -> Int]
      /\ \A s \in S : [h EXCEPT ![p] = @ - k][s] = IF s = p THEN h[p] - k ELSE h[s]
  BY <1>1, DropInt
<1>3. QED
  BY <1>1, <1>2 DEF h

LEMMA ShiftOne ==
  ASSUME NEW S, NEW f \in [S -> Int], NEW n \in S, NEW p \in S, NEW j \in Int, NEW k \in Int
  PROVE  LET g == [f EXCEPT ![n] = @ - j, ![p] = @ + k]
         IN /\ g \in [S -> Int]
            /\ n # p => \A s \in S : g[s] = IF s = p THEN f[p] + k ELSE IF s = n THEN f[n] - j ELSE f[s]
<1> DEFINE h == [f EXCEPT ![n] = @ - j]
<1>1. h \in [S -> Int] /\ \A s \in S : h[s] = IF s = n THEN f[n] - j ELSE f[s]
  BY DropInt
<1> HIDE DEF h
<1>2. [h EXCEPT ![p] = @ + k] \in [S -> Int]
      /\ \A s \in S : [h EXCEPT ![p] = @ + k][s] = IF s = p THEN h[p] + k ELSE h[s]
  BY <1>1, BumpInt
<1>3. QED
  BY <1>1, <1>2 DEF h

LEMMA ShiftIf ==
  ASSUME NEW S, NEW f \in [S -> Int], NEW n \in S, NEW p \in S, NEW P \in BOOLEAN
  PROVE  [f EXCEPT ![n] = @ - 1, ![p] = IF P THEN @ ELSE @ + 1] \in [S -> Int]
<1>1. CASE P
  BY <1>1, DropInt
<1>2. CASE ~P
  BY <1>2, ShiftOne
<1>3. QED
  BY <1>1, <1>2

------------------------------------------------------------------------------
(* Records and requests.                                                    *)
LEMMA RecordMade ==
  ASSUME NEW step \in Steps, NEW c \in Clients \cup {None}, NEW r \in Requests,
         NEW n \in Inodes \cup {None}, NEW m \in Inodes \cup {None},
         NEW on \in SUBSET (Inodes \cup {FilesTable, DirsTable})
  PROVE  LET x == Behaviour(step, c, r, n, m, on)
         IN /\ x \in Records /\ x.step = step /\ x.c = c /\ x.r = r
            /\ x.n = n /\ x.m = m /\ x.k = 0 /\ x.on = on
  BY DEF Behaviour, Records

LEMMA IdleRequest == Idle \in Requests /\ RequestOK(Idle) /\ Idle.op = "none" /\ Idle.pins = {}
  BY DEF Idle, Requests, Ops, RequestOK, Changing

LEMMA NoneApart == None \notin Inodes /\ None \notin Names /\ None \notin Clients
  BY NamespaceAssumption

LEMMA TableOfType ==
  ASSUME NEW n
  PROVE  TableOf(n) \in {FilesTable, DirsTable}
  BY DEF TableOf

(* What is known of the behaviour that runs.                                *)
LEMMA Running ==
  ASSUME Typed, OwnRequests, NEW i \in DOMAIN behaviours
  PROVE  LET x == behaviours[i]  r == x.r
         IN /\ x \in Records /\ OnOK(x) /\ FoundOK(x)
            /\ r \in Requests /\ RequestOK(r) /\ x.n \in Inodes \cup {None} /\ x.m \in Inodes \cup {None}
            /\ x.step \in Servants => r = Idle
            /\ x.step \notin Servants => x.c \in Clients /\ r = request[x.c] /\ r.op = OpOf(x.step)
            /\ R(i) = r /\ Client(i) = x.c
<1> DEFINE x == behaviours[i]
<1>1. x \in Records
  BY ElementOfSeq, LenProperties DEF Typed
<1>2. /\ OnOK(x) /\ FoundOK(x)
      /\ x.step \in Servants => x.r = Idle
      /\ x.step \notin Servants => x.c \in Clients /\ x.r = request[x.c] /\ x.r.op = OpOf(x.step)
  BY DEF OwnRequests
<1>3. RequestOK(x.r)
  BY <1>2, IdleRequest DEF Typed
<1>4. x.r \in Requests /\ x.n \in Inodes \cup {None} /\ x.m \in Inodes \cup {None}
  BY <1>1 DEF Records
<1>5. QED
  BY <1>1, <1>2, <1>3, <1>4 DEF R, Client

(* The directories and names that the running behaviour's request names.    *)
LEMMA RunningPlaces ==
  ASSUME Typed, OwnRequests, NEW i \in DOMAIN behaviours,
         behaviours[i].step \notin Servants \cup {"use", "setattr"}
  PROVE  LET r == behaviours[i].r
         IN /\ r.p \in Dirs /\ r.a \in Names /\ r.p \in r.pins
            /\ Target(i) \in Inodes \cup {None}
            /\ behaviours[i].step \in RenameSteps =>
                 /\ r.q \in Dirs /\ r.b \in Names /\ r.q \in r.pins
                 /\ entries[r.q][r.b] \in Inodes \cup {None}
<1> DEFINE x == behaviours[i]  r == behaviours[i].r
<1>1. x \in Records /\ RequestOK(r) /\ r.op = OpOf(x.step) /\ R(i) = r
  BY Running DEF Servants
<1>2. x.step \in Steps
  BY <1>1 DEF Records
<1>3. r.op \in Changing \cup {"lookup"} /\ r.op # "none"
  BY <1>1, <1>2 DEF Steps, OpOf, Servants, Changing, RenameSteps
<1>4. x.step \in RenameSteps => r.op = "rename"
  BY <1>1 DEF OpOf, RenameSteps
<1>5. r.p \in Dirs /\ r.a \in Names /\ r.p \in r.pins
  BY <1>1, <1>3 DEF RequestOK
<1>6. x.step \in RenameSteps => r.q \in Dirs /\ r.b \in Names /\ r.q \in r.pins
  BY <1>1, <1>4 DEF RequestOK
<1>7. QED
  BY <1>1, <1>5, <1>6 DEF Typed, Target

------------------------------------------------------------------------------
(* What a step that runs the behaviour at i does, as far as the shape of    *)
(* the behaviours and requests goes.                                        *)
Quits(i) ==
  \/ request' = request
  \/ behaviours[i].step \notin Servants /\ request' = [request EXCEPT ![Client(i)] = Idle]
GoesOnAs(i, x) ==
  /\ behaviours[i].step \notin Servants /\ x.step \notin Servants
  /\ x.c = Client(i) /\ x.r = R(i) /\ x.r.op = OpOf(x.step)
  /\ request' = request
LeavesAdd(i, x) == x.step = "add" /\ x.r = Idle /\ x.n \notin made /\ x.n \in made' /\ x.m = None
RunKind(i) ==
  /\ \/ Shifted(behaviours, behaviours', i)
     \/ \E x \in Records :
          /\ Replaced(behaviours, behaviours', i, x)
          /\ OnOK(x) /\ FoundOK(x) /\ {x.n, x.m} \ {None} \subseteq made'
          /\ GoesOnAs(i, x) \/ LeavesAdd(i, x)
  /\ Quits(i)
  /\ \A n \in Inodes : (Known(n) => Known(n)') /\ (Known(n)' => Known(n) \/ n \in made')
  /\ made \subseteq made'
  /\ \A p \in Dirs, a \in Names : entries'[p][a] # None => entries'[p][a] \in made'

LEMMA EndsShape ==
  ASSUME Typed, NEW i \in DOMAIN behaviours, Ends(i)
  PROVE  behaviours' \in Seq(Records) /\ Shifted(behaviours, behaviours', i)
  BY ShiftedSeq DEF Typed, Ends

LEMMA FollowsShape ==
  ASSUME Typed, NEW i \in DOMAIN behaviours, NEW x \in Records, Follows(i, x)
  PROVE  behaviours' \in Seq(Records) /\ Replaced(behaviours, behaviours', i, x)
  BY ReplacedSeq DEF Typed, Follows

LEMMA ReplyType ==
  ASSUME Typed, NEW i \in DOMAIN behaviours, behaviours[i].step \notin Servants,
         request' = [request EXCEPT ![Client(i)] = Idle]
  PROVE  /\ request' \in [Clients -> Requests]
         /\ \A c \in Clients : RequestOK(request'[c])
         /\ Quits(i)
  BY IdleRequest DEF Typed, Quits

(* A behaviour that ends and answers, or does not.                          *)
LEMMA EndsKind ==
  ASSUME Typed, OwnRequests, MadeOnes, NEW i \in DOMAIN behaviours, Ends(i),
         (Reply(i) /\ behaviours[i].step \notin Servants) \/ GoesOn(i)
  PROVE  /\ behaviours' \in Seq(Records) /\ Shifted(behaviours, behaviours', i)
         /\ request' \in [Clients -> Requests] /\ \A c \in Clients : RequestOK(request'[c])
         /\ kernel' = kernel /\ sent' = sent /\ Quits(i)
<1>1. behaviours' \in Seq(Records) /\ Shifted(behaviours, behaviours', i)
  BY EndsShape
<1>2. CASE Reply(i) /\ behaviours[i].step \notin Servants
  BY <1>1, <1>2, ReplyType DEF Reply
<1>3. CASE GoesOn(i)
  BY <1>1, <1>3 DEF GoesOn, asked, Quits, Typed
<1>4. QED
  BY <1>2, <1>3

(* One that spawns the next behaviour of its request.                       *)
LEMMA SpawnsKind ==
  ASSUME Typed, OwnRequests, MadeOnes, NEW i \in DOMAIN behaviours,
         behaviours[i].step \notin Servants, GoesOn(i),
         NEW step \in Steps \ Servants, OpOf(step) = OpOf(behaviours[i].step),
         NEW n \in Inodes \cup {None}, NEW m \in Inodes \cup {None}, {n, m} \ {None} \subseteq made,
         NEW on \in SUBSET (Inodes \cup {FilesTable, DirsTable}), Spawns(i, step, n, m, on),
         \A x \in Records : /\ x.step = step /\ x.n = n /\ x.m = m /\ x.on = on
                            /\ x.r = R(i) /\ x.k = 0
                            => OnOK(x) /\ FoundOK(x),
         entries' = entries, made' = made
  PROVE  behaviours' \in Seq(Records) /\ RunKind(i) /\ request' = request /\ kernel' = kernel /\ sent' = sent
<1> DEFINE x == Behaviour(step, Client(i), R(i), n, m, on)
<1>0. Client(i) \in Clients /\ R(i) \in Requests /\ R(i).op = OpOf(behaviours[i].step)
  BY Running
<1>1. /\ x \in Records /\ x.step = step /\ x.c = Client(i) /\ x.r = R(i)
      /\ x.n = n /\ x.m = m /\ x.k = 0 /\ x.on = on
  BY <1>0, RecordMade
<1> HIDE DEF x
<1>2. Follows(i, x)
  BY DEF Spawns, x
<1>3. behaviours' \in Seq(Records) /\ Replaced(behaviours, behaviours', i, x)
  BY <1>1, <1>2, FollowsShape
<1>4. OnOK(x) /\ FoundOK(x)
  BY <1>1
<1>5. request' = request /\ kernel' = kernel /\ sent' = sent
  BY DEF GoesOn, asked
<1>6. GoesOnAs(i, x)
  BY <1>0, <1>1, <1>5 DEF GoesOnAs
<1>7. /\ \A p \in Dirs, a \in Names : entries'[p][a] # None => entries'[p][a] \in made'
      /\ \A k \in Inodes : Known(k)' = Known(k)
  BY <1>5 DEF MadeOnes, Known
<1>8. RunKind(i)
  BY <1>1, <1>3, <1>4, <1>5, <1>6, <1>7 DEF RunKind, Quits
<1>9. QED
  BY <1>3, <1>5, <1>8

(* The rest of RunKind, when the entries and what is made stay.             *)
LEMMA StayKind ==
  ASSUME MadeOnes, NEW i \in DOMAIN behaviours,
         Shifted(behaviours, behaviours', i), Quits(i),
         kernel' = kernel, made' = made,
         \A p \in Dirs, a \in Names : entries'[p][a] # None => entries'[p][a] \in made
  PROVE  RunKind(i)
  BY DEF RunKind, Known, MadeOnes

LEMMA TypedFrom ==
  ASSUME Typed,
         entries' \in [Dirs -> [Names -> Inodes \cup {None}]],
         nlink' \in [Inodes -> Int], krefs' \in [Inodes -> Int], kernel' \in [Inodes -> Nat],
         tables' \subseteq made', made \subseteq made', made' \subseteq Inodes,
         behaviours' \in Seq(Records), request' \in [Clients -> Requests],
         \A c \in Clients : RequestOK(request'[c]), sent' \in Nat
  PROVE  Typed'
  BY DEF Typed, RequestOK, Changing

LEMMA TypedStays ==
  ASSUME Typed, UNCHANGED <<entries, counts>>, kernel' = kernel, sent' = sent,
         behaviours' \in Seq(Records), request' \in [Clients -> Requests],
         \A c \in Clients : RequestOK(request'[c])
  PROVE  Typed'
  BY TypedFrom DEF Typed, counts

LEMMA WithType ==
  ASSUME Typed, NEW p \in Dirs, NEW a \in Names, NEW n \in Inodes \cup {None}
  PROVE  /\ With(p, a, n) \in [Dirs -> [Names -> Inodes \cup {None}]]
         /\ \A d \in Dirs, b \in Names :
              With(p, a, n)[d][b] = IF <<d, b>> = <<p, a>> THEN n ELSE entries[d][b]
  BY DEF Typed, With

------------------------------------------------------------------------------
(* Each action that runs a behaviour is one of those kinds, and keeps the   *)
(* types.                                                                   *)
LEMMA LookupEntryKind ==
  ASSUME Typed, OwnRequests, MadeOnes, NEW i \in DOMAIN behaviours, LookupEntry(i)
  PROVE  Typed' /\ RunKind(i)
<1> DEFINE x == behaviours[i]
<1>1. x.step = "lookup" /\ x.step \notin Servants \cup {"use", "setattr"} /\ UNCHANGED <<entries, counts>>
  BY DEF LookupEntry, Runs, Servants
<1>2. R(i) = x.r /\ R(i).p \in Dirs /\ R(i).a \in Names /\ Target(i) \in Inodes \cup {None}
  BY <1>1, Running, RunningPlaces
<1>3. CASE Target(i) = None
  <2>1. /\ behaviours' \in Seq(Records) /\ Shifted(behaviours, behaviours', i)
        /\ request' \in [Clients -> Requests] /\ \A c \in Clients : RequestOK(request'[c])
        /\ kernel' = kernel /\ sent' = sent /\ Quits(i)
    BY <1>1, <1>3, EndsKind DEF LookupEntry, ReplyFail
  <2>2. QED
    BY <1>1, <2>1, TypedStays, StayKind DEF counts, MadeOnes
<1>4. CASE Target(i) # None
  <2> DEFINE n == Target(i)  on == {n, TableOf(n)}
  <2>1. n \in Inodes /\ n \in made
    BY <1>2, <1>4 DEF MadeOnes, Target
  <2>2. Spawns(i, "get", n, None, on) /\ GoesOn(i)
    BY <1>4 DEF LookupEntry
  <2>3. \A y \in Records : /\ y.step = "get" /\ y.n = n /\ y.m = None /\ y.on = on
                           /\ y.r = R(i) /\ y.k = 0
                           => OnOK(y) /\ FoundOK(y)
    BY <2>1 DEF OnOK, FoundOK, Servants
  <2>4. "get" \in Steps \ Servants /\ OpOf("get") = OpOf(x.step)
    BY <1>1 DEF Steps, Servants, OpOf, RenameSteps
  <2>5. entries' = entries /\ made' = made
    BY <1>1 DEF counts
  <2>6. on \in SUBSET (Inodes \cup {FilesTable, DirsTable}) /\ {n, None} \ {None} \subseteq made
    BY <2>1, TableOfType
  <2> HIDE DEF n, on
  <2>7. behaviours' \in Seq(Records) /\ RunKind(i) /\ request' = request /\ kernel' = kernel /\ sent' = sent
    BY <1>1, <2>1, <2>2, <2>3, <2>4, <2>5, <2>6, NoneApart, SpawnsKind
  <2>8. QED
    BY <1>1, <2>7, TypedStays DEF Typed
<1>5. QED
  BY <1>3, <1>4

LEMMA GetInodeKind ==
  ASSUME Typed, OwnRequests, MadeOnes, NEW i \in DOMAIN behaviours, GetInode(i)
  PROVE  Typed' /\ RunKind(i)
<1> DEFINE x == behaviours[i]  n == x.n
<1>1. x.step = "get" /\ x.step \notin Servants
  BY DEF GetInode, Runs, Servants
<1>2. x.n \in Inodes /\ x.n \in made
  <2>1. FoundOK(x)
    BY Running
  <2>2. {x.n, x.m} \ {None} \subseteq made
    BY DEF MadeOnes
  <2>3. QED
    BY <1>1, <2>1, <2>2, NoneApart DEF FoundOK
<1>3. /\ krefs' = [krefs EXCEPT ![n] = @ + 1] /\ tables' = tables \cup {n}
      /\ Ends(i) /\ UNCHANGED <<entries, nlink, made>>
      /\ request' = [request EXCEPT ![Client(i)] = Idle]
      /\ kernel' = [kernel EXCEPT ![n] = @ + 1] /\ sent' = sent
  BY DEF GetInode, ReplyEntry
<1>4. behaviours' \in Seq(Records) /\ Shifted(behaviours, behaviours', i)
  BY <1>3, EndsShape
<1>5. /\ request' \in [Clients -> Requests] /\ \A c \in Clients : RequestOK(request'[c])
      /\ Quits(i)
  BY <1>1, <1>3, ReplyType
<1> HIDE DEF n
<1>6. krefs' \in [Inodes -> Int] /\ kernel' \in [Inodes -> Nat]
  BY <1>2, <1>3, BumpInt, BumpNat DEF Typed, n
<1>7. \A k \in Inodes : (Known(k) => Known(k)') /\ (Known(k)' => Known(k) \/ k = n)
  BY <1>2, <1>3, BumpNat DEF Typed, Known, n
<1>8. Typed'
  BY <1>2, <1>3, <1>4, <1>5, <1>6, TypedFrom DEF Typed, n
<1>9. RunKind(i)
  BY <1>2, <1>3, <1>4, <1>5, <1>7 DEF RunKind, MadeOnes, n
<1>10. QED
  BY <1>8, <1>9

LEMMA RefuseKind ==
  ASSUME Typed, OwnRequests, MadeOnes, NEW i \in DOMAIN behaviours, Refuse(i)
  PROVE  Typed' /\ RunKind(i)
<1>1. behaviours[i].step \notin Servants
  BY DEF Refuse, Runs, Servants
<1>2. /\ behaviours' \in Seq(Records) /\ Shifted(behaviours, behaviours', i)
      /\ request' \in [Clients -> Requests] /\ \A c \in Clients : RequestOK(request'[c])
      /\ kernel' = kernel /\ sent' = sent /\ Quits(i)
  BY <1>1, EndsKind DEF Refuse, ReplyFail
<1>3. QED
  BY <1>2, TypedStays, StayKind DEF Refuse, counts, MadeOnes

LEMMA UseInodeKind ==
  ASSUME Typed, OwnRequests, MadeOnes, NEW i \in DOMAIN behaviours, UseInode(i) \/ Setattr(i)
  PROVE  Typed' /\ RunKind(i)
<1>1. behaviours[i].step \notin Servants
  BY DEF UseInode, Setattr, Runs, Servants
<1>2. Ends(i) /\ (GoesOn(i) \/ Reply(i))
  BY DEF UseInode, Setattr
<1>3. /\ behaviours' \in Seq(Records) /\ Shifted(behaviours, behaviours', i)
      /\ request' \in [Clients -> Requests] /\ \A c \in Clients : RequestOK(request'[c])
      /\ kernel' = kernel /\ sent' = sent /\ Quits(i)
  BY <1>1, <1>2, EndsKind
<1>4. QED
  BY <1>3, TypedStays, StayKind DEF UseInode, Setattr, counts, MadeOnes

(* There is room for what create or mkdir makes.                            *)
Makes(op) == CHOOSE x \in Fresh(op) : x \notin made
LEMMA Room ==
  ASSUME Typed, OwnRequests, RoomToMake, NEW i \in DOMAIN behaviours,
         NEW op \in {"create", "mkdir"}, behaviours[i].step = op
  PROVE  Makes(op) \in Fresh(op) /\ Makes(op) \notin made /\ Makes(op) \in Inodes
<1> DEFINE C == {c \in Clients : request[c].op = op}
<1>1. behaviours[i].c \in C
  <2>1. OpOf(op) = op /\ op \notin Servants
    BY DEF OpOf, RenameSteps, Servants
  <2>2. QED
    BY <2>1, Running
<1>2. IsFiniteSet(C) /\ Cardinality(C) \in Nat
  BY NamespaceAssumption, FS_Subset, FS_CardinalityType
<1>3. Cardinality(C) # 0
  BY <1>1, <1>2, FS_EmptySet
<1>4. Cardinality(C) <= Cardinality(Fresh(op) \ made)
  BY DEF RoomToMake
<1>5. Fresh(op) \ made # {}
  <2>1. SUFFICES ASSUME Fresh(op) \ made = {} PROVE FALSE
    OBVIOUS
  <2>2. Cardinality(Fresh(op) \ made) = 0
    BY <2>1, FS_EmptySet
  <2>3. QED
    BY <1>2, <1>3, <1>4, <2>2
<1>6. QED
  BY <1>5 DEF Makes, Fresh, Inodes

LEMMA MakeEntryKind ==
  ASSUME Typed, OwnRequests, MadeOnes, RoomToMake, NEW i \in DOMAIN behaviours,
         NEW op \in {"create", "mkdir"}, MakeEntry(i, op)
  PROVE  Typed' /\ RunKind(i)
<1> DEFINE x == behaviours[i]  n == Makes(op)
           y == Behaviour("add", None, Idle, n, None, {n, TableOf(n)})
<1>1. x.step = op /\ x.step \notin Servants \cup {"use", "setattr"}
  BY DEF MakeEntry, Runs, Servants
<1>2. n \in Inodes /\ n \notin made
  BY <1>1, Room
<1>3. R(i) = x.r /\ R(i).p \in Dirs /\ R(i).a \in Names
  BY <1>1, Running, RunningPlaces
<1>4. /\ made' = made \cup {n} /\ entries' = With(R(i).p, R(i).a, n)
      /\ nlink' = IF MakesSubdir(op) THEN [nlink EXCEPT ![R(i).p] = @ + 1] ELSE nlink
      /\ Follows(i, y)
      /\ request' = [request EXCEPT ![Client(i)] = Idle]
      /\ kernel' = [kernel EXCEPT ![n] = @ + 1] /\ sent' = sent /\ UNCHANGED <<krefs, tables>>
  BY DEF MakeEntry, ReplyEntry, Makes
<1>5. /\ y \in Records /\ y.step = "add" /\ y.c = None /\ y.r = Idle /\ y.n = n /\ y.m = None
      /\ y.k = 0 /\ y.on = {n, TableOf(n)}
  <2>1. "add" \in Steps /\ {n, TableOf(n)} \in SUBSET (Inodes \cup {FilesTable, DirsTable})
    BY <1>2, TableOfType DEF Steps
  <2> HIDE DEF n
  <2>2. QED
    BY <1>2, <2>1, RecordMade, IdleRequest
<1> HIDE DEF n, y
<1>6. behaviours' \in Seq(Records) /\ Replaced(behaviours, behaviours', i, y)
  BY <1>4, <1>5, FollowsShape
<1>7. /\ request' \in [Clients -> Requests] /\ \A c \in Clients : RequestOK(request'[c])
      /\ Quits(i)
  BY <1>1, <1>4, ReplyType
<1>8. entries' \in [Dirs -> [Names -> Inodes \cup {None}]]
  BY <1>2, <1>3, <1>4, WithType
<1>9. nlink' \in [Inodes -> Int] /\ kernel' \in [Inodes -> Nat]
  <2>1. R(i).p \in Inodes
    BY <1>3 DEF Inodes
  <2>2. nlink \in [Inodes -> Int] /\ kernel \in [Inodes -> Nat]
    BY DEF Typed
  <2>3. nlink' \in [Inodes -> Int]
    BY <1>4, <2>1, <2>2, BumpInt
  <2>4. kernel' \in [Inodes -> Nat]
    BY <1>2, <1>4, <2>2, BumpNat
  <2>5. QED
    BY <2>3, <2>4
<1>10. ASSUME NEW p \in Dirs, NEW a \in Names, entries'[p][a] # None
       PROVE  entries'[p][a] \in made'
  <2>1. entries'[p][a] = IF <<p, a>> = <<R(i).p, R(i).a>> THEN n ELSE entries[p][a]
    BY <1>2, <1>3, <1>4, WithType
  <2>2. QED
    BY <1>4, <1>10, <2>1 DEF MadeOnes
<1>11. \A k \in Inodes : (Known(k) => Known(k)') /\ (Known(k)' => Known(k) \/ k = n)
  BY <1>2, <1>4, BumpNat DEF Typed, Known
<1>12. OnOK(y) /\ FoundOK(y)
  BY <1>2, <1>5 DEF OnOK, FoundOK, Servants
<1>13. LeavesAdd(i, y)
  BY <1>2, <1>4, <1>5 DEF LeavesAdd
<1>14. Typed'
  BY <1>2, <1>4, <1>6, <1>7, <1>8, <1>9, TypedFrom DEF Typed
<1>15. {y.n, y.m} \ {None} \subseteq made'
  BY <1>4, <1>5
<1>16. RunKind(i)
  BY <1>4, <1>5, <1>6, <1>7, <1>10, <1>11, <1>12, <1>13, <1>15 DEF RunKind
<1>17. QED
  BY <1>14, <1>16

LEMMA AddInodeKind ==
  ASSUME Typed, OwnRequests, MadeOnes, NEW i \in DOMAIN behaviours, AddInode(i)
  PROVE  Typed' /\ RunKind(i)
<1> DEFINE n == behaviours[i].n
<1>1. behaviours[i].step = "add"
  BY DEF AddInode, Runs
<1>2. n \in Inodes /\ n \in made
  <2>1. FoundOK(behaviours[i])
    BY Running
  <2>2. {behaviours[i].n, behaviours[i].m} \ {None} \subseteq made
    BY DEF MadeOnes
  <2>3. QED
    BY <1>1, <2>1, <2>2, NoneApart DEF FoundOK, Servants
<1> HIDE DEF n
<1>3. /\ nlink' = [nlink EXCEPT ![n] = IF n \in Files THEN 1 ELSE 2]
      /\ krefs' = [krefs EXCEPT ![n] = @ + 1] /\ tables' = tables \cup {n}
      /\ Ends(i) /\ UNCHANGED <<entries, made, asked>>
  BY DEF AddInode, n
<1>4. /\ behaviours' \in Seq(Records) /\ Shifted(behaviours, behaviours', i)
      /\ request' \in [Clients -> Requests] /\ \A c \in Clients : RequestOK(request'[c])
      /\ kernel' = kernel /\ sent' = sent /\ Quits(i)
  BY <1>3, EndsKind DEF GoesOn
<1>5. nlink' \in [Inodes -> Int]
  <2>1. (IF n \in Files THEN 1 ELSE 2) \in Int
    OBVIOUS
  <2>2. QED
    BY <1>3, <2>1 DEF Typed
<1>6. krefs' \in [Inodes -> Int]
  BY <1>2, <1>3, BumpInt DEF Typed
<1>7. Typed'
  BY <1>2, <1>3, <1>4, <1>5, <1>6, TypedFrom DEF Typed
<1>8. RunKind(i)
  BY <1>3, <1>4, StayKind DEF MadeOnes
<1>9. QED
  BY <1>7, <1>8

LEMMA ForgetKind ==
  ASSUME Typed, OwnRequests, MadeOnes, NEW i \in DOMAIN behaviours, Forget(i)
  PROVE  Typed' /\ RunKind(i)
<1> DEFINE n == behaviours[i].n  k == krefs[n] - behaviours[i].k
<1>1. behaviours[i].step = "forget" /\ behaviours[i].k \in Nat
  BY Running DEF Forget, Runs, Records
<1>2. n \in Inodes
  BY <1>1, Running DEF FoundOK, Servants
<1>3. /\ krefs' = [krefs EXCEPT ![n] = k]
      /\ tables' = IF Gone(n, k) THEN tables \ {n} ELSE tables
      /\ Ends(i) /\ UNCHANGED <<entries, nlink, made, asked>>
  BY DEF Forget
<1>4. k \in Int
  BY <1>1, <1>2 DEF Typed
<1> HIDE DEF n, k
<1>5. /\ behaviours' \in Seq(Records) /\ Shifted(behaviours, behaviours', i)
      /\ request' \in [Clients -> Requests] /\ \A c \in Clients : RequestOK(request'[c])
      /\ kernel' = kernel /\ sent' = sent /\ Quits(i)
  BY <1>3, EndsKind DEF GoesOn
<1>6. krefs' \in [Inodes -> Int]
  BY <1>3, <1>4 DEF Typed
<1>7. Typed'
  BY <1>3, <1>5, <1>6, TypedFrom DEF Typed
<1>8. RunKind(i)
  BY <1>3, <1>5, StayKind DEF MadeOnes
<1>9. QED
  BY <1>7, <1>8

LEMMA UnlinkCountKind ==
  ASSUME Typed, OwnRequests, MadeOnes, NEW i \in DOMAIN behaviours, UnlinkCount(i)
  PROVE  Typed' /\ RunKind(i)
<1> DEFINE n == behaviours[i].n
<1>1. behaviours[i].step = "unlinked" /\ behaviours[i].step \notin Servants
  BY DEF UnlinkCount, Runs, Servants
<1>2. n \in Inodes
  BY <1>1, Running DEF FoundOK, Inodes
<1> HIDE DEF n
<1>3. /\ nlink' = [nlink EXCEPT ![n] = @ - 1]
      /\ Ends(i) /\ Reply(i) /\ UNCHANGED <<entries, krefs, tables, made>>
  BY DEF UnlinkCount, n
<1>4. /\ behaviours' \in Seq(Records) /\ Shifted(behaviours, behaviours', i)
      /\ request' \in [Clients -> Requests] /\ \A c \in Clients : RequestOK(request'[c])
      /\ kernel' = kernel /\ sent' = sent /\ Quits(i)
  BY <1>1, <1>3, EndsKind
<1>5. nlink' \in [Inodes -> Int]
  BY <1>2, <1>3, DropInt DEF Typed
<1>6. Typed'
  BY <1>3, <1>4, <1>5, TypedFrom DEF Typed
<1>7. RunKind(i)
  BY <1>3, <1>4, StayKind DEF MadeOnes
<1>8. QED
  BY <1>6, <1>7

LEMMA RenameDeniedKind ==
  ASSUME Typed, OwnRequests, MadeOnes, NEW i \in DOMAIN behaviours, RenameDenied(i)
  PROVE  Typed' /\ RunKind(i)
<1>1. behaviours[i].step \notin Servants
  BY DEF RenameDenied, Runs, Servants
<1>2. /\ behaviours' \in Seq(Records) /\ Shifted(behaviours, behaviours', i)
      /\ request' \in [Clients -> Requests] /\ \A c \in Clients : RequestOK(request'[c])
      /\ kernel' = kernel /\ sent' = sent /\ Quits(i)
  BY <1>1, EndsKind DEF RenameDenied, ReplyFail
<1>3. QED
  BY <1>2, TypedStays, StayKind DEF RenameDenied, counts, MadeOnes

(* The actions that erase a name or spawn the second behaviour of rmdir.    *)
LEMMA UnlinkEntryKind ==
  ASSUME Typed, OwnRequests, MadeOnes, NEW i \in DOMAIN behaviours, UnlinkEntry(i)
  PROVE  Typed' /\ RunKind(i)
<1> DEFINE x == behaviours[i]  n == Target(i)  on == {n, R(i).p}
<1>1. x.step = "unlink" /\ x.step \notin Servants \cup {"use", "setattr"} /\ UNCHANGED counts
  BY DEF UnlinkEntry, Runs, Servants
<1>2. R(i) = x.r /\ R(i).p \in Dirs /\ R(i).a \in Names
  BY <1>1, Running, RunningPlaces
<1>3. CASE ~(n \in Files /\ ~Denied(i, R(i).p))
  <2>1. Ends(i) /\ Reply(i) /\ entries' = entries
    BY <1>3 DEF UnlinkEntry, ReplyFail
  <2>2. /\ behaviours' \in Seq(Records) /\ Shifted(behaviours, behaviours', i)
        /\ request' \in [Clients -> Requests] /\ \A c \in Clients : RequestOK(request'[c])
        /\ kernel' = kernel /\ sent' = sent /\ Quits(i)
    BY <1>1, <2>1, EndsKind
  <2>3. QED
    BY <1>1, <2>1, <2>2, TypedStays, StayKind DEF counts, MadeOnes
<1>4. CASE n \in Files /\ ~Denied(i, R(i).p)
  <2>1. n \in Inodes /\ n \in made /\ n # None
    BY <1>2, <1>4, NoneApart DEF MadeOnes, Target, Inodes
  <2>2. Spawns(i, "unlinked", n, None, on) /\ GoesOn(i) /\ entries' = With(R(i).p, R(i).a, None)
    BY <1>4 DEF UnlinkEntry
  <2>3. \A y \in Records : /\ y.step = "unlinked" /\ y.n = n /\ y.m = None /\ y.on = on
                           /\ y.r = R(i) /\ y.k = 0
                           => OnOK(y) /\ FoundOK(y)
    BY <1>4 DEF OnOK, FoundOK, Servants
  <2>4. "unlinked" \in Steps \ Servants /\ OpOf("unlinked") = OpOf(x.step)
    BY <1>1 DEF Steps, Servants, OpOf, RenameSteps
  <2>5. on \in SUBSET (Inodes \cup {FilesTable, DirsTable}) /\ {n, None} \ {None} \subseteq made
    BY <1>2, <2>1 DEF Inodes
  <2>6. /\ entries' \in [Dirs -> [Names -> Inodes \cup {None}]]
        /\ \A d \in Dirs, b \in Names : entries'[d][b] \in {None, entries[d][b]}
    BY <1>2, <2>2, WithType
  <2> HIDE DEF n, on
  <2> DEFINE y == Behaviour("unlinked", Client(i), R(i), n, None, on)
  <2>7. Client(i) \in Clients /\ R(i) \in Requests /\ R(i).op = OpOf(x.step)
    BY <1>1, Running
  <2>8. /\ y \in Records /\ y.step = "unlinked" /\ y.c = Client(i) /\ y.r = R(i)
        /\ y.n = n /\ y.m = None /\ y.k = 0 /\ y.on = on
    BY <2>1, <2>4, <2>5, <2>7, RecordMade, NoneApart
  <2> HIDE DEF y
  <2>9. Follows(i, y)
    BY <2>2 DEF Spawns, y
  <2>10. behaviours' \in Seq(Records) /\ Replaced(behaviours, behaviours', i, y)
    BY <2>8, <2>9, FollowsShape
  <2>11. request' = request /\ kernel' = kernel /\ sent' = sent
    BY <2>2 DEF GoesOn, asked
  <2>12. GoesOnAs(i, y)
    BY <1>1, <2>4, <2>7, <2>8, <2>11 DEF GoesOnAs
  <2>13. RunKind(i)
    BY <1>1, <2>3, <2>5, <2>6, <2>8, <2>10, <2>11, <2>12 DEF RunKind, Quits, Known, MadeOnes, counts
  <2>14. Typed'
    BY <1>1, <2>6, <2>10, <2>11, TypedFrom DEF Typed, counts
  <2>15. QED
    BY <2>13, <2>14
<1>5. QED
  BY <1>3, <1>4

LEMMA RmdirEntryKind ==
  ASSUME Typed, OwnRequests, MadeOnes, NEW i \in DOMAIN behaviours, RmdirEntry(i)
  PROVE  Typed' /\ RunKind(i)
<1> DEFINE x == behaviours[i]  n == Target(i)  on == {n, R(i).p}
<1>1. x.step = "rmdir" /\ x.step \notin Servants \cup {"use", "setattr"} /\ UNCHANGED <<entries, counts>>
  BY DEF RmdirEntry, Runs, Servants
<1>2. R(i) = x.r /\ R(i).p \in Dirs /\ R(i).a \in Names
  BY <1>1, Running, RunningPlaces
<1>3. CASE n \notin Dirs
  <2>1. Ends(i) /\ Reply(i)
    BY <1>3 DEF RmdirEntry, ReplyFail
  <2>2. /\ behaviours' \in Seq(Records) /\ Shifted(behaviours, behaviours', i)
        /\ request' \in [Clients -> Requests] /\ \A c \in Clients : RequestOK(request'[c])
        /\ kernel' = kernel /\ sent' = sent /\ Quits(i)
    BY <1>1, <2>1, EndsKind
  <2>3. QED
    BY <1>1, <2>2, TypedStays, StayKind DEF counts, MadeOnes
<1>4. CASE n \in Dirs
  <2>1. n \in Inodes /\ n \in made /\ n # None
    BY <1>2, <1>4, NoneApart DEF MadeOnes, Target, Inodes
  <2>2. Spawns(i, "remove", n, None, on) /\ GoesOn(i)
    BY <1>4 DEF RmdirEntry
  <2>3. \A y \in Records : /\ y.step = "remove" /\ y.n = n /\ y.m = None /\ y.on = on
                           /\ y.r = R(i) /\ y.k = 0
                           => OnOK(y) /\ FoundOK(y)
    BY <1>4 DEF OnOK, FoundOK, Servants
  <2>4. "remove" \in Steps \ Servants /\ OpOf("remove") = OpOf(x.step)
    BY <1>1 DEF Steps, Servants, OpOf, RenameSteps
  <2>5. on \in SUBSET (Inodes \cup {FilesTable, DirsTable}) /\ {n, None} \ {None} \subseteq made
    BY <1>2, <2>1 DEF Inodes
  <2>6. entries' = entries /\ made' = made
    BY <1>1 DEF counts
  <2> HIDE DEF n, on
  <2>7. behaviours' \in Seq(Records) /\ RunKind(i) /\ request' = request /\ kernel' = kernel /\ sent' = sent
    BY <1>1, <2>1, <2>2, <2>3, <2>4, <2>5, <2>6, NoneApart, SpawnsKind
  <2>8. QED
    BY <1>1, <2>7, TypedStays DEF Typed
<1>5. QED
  BY <1>3, <1>4

LEMMA RmdirRemoveKind ==
  ASSUME Typed, OwnRequests, MadeOnes, NEW i \in DOMAIN behaviours, RmdirRemove(i)
  PROVE  Typed' /\ RunKind(i)
<1> DEFINE x == behaviours[i]  n == x.n
<1>1. x.step = "remove" /\ x.step \notin Servants \cup {"use", "setattr"} /\ UNCHANGED <<krefs, tables, made>>
  BY DEF RmdirRemove, Runs, Servants
<1>2. R(i) = x.r /\ R(i).p \in Dirs /\ R(i).a \in Names
  BY <1>1, Running, RunningPlaces
<1>3. Ends(i) /\ Reply(i)
  BY DEF RmdirRemove, ReplyFail
<1>4. /\ behaviours' \in Seq(Records) /\ Shifted(behaviours, behaviours', i)
      /\ request' \in [Clients -> Requests] /\ \A c \in Clients : RequestOK(request'[c])
      /\ kernel' = kernel /\ sent' = sent /\ Quits(i)
  BY <1>1, <1>3, EndsKind
<1>5. /\ entries' \in [Dirs -> [Names -> Inodes \cup {None}]]
      /\ \A d \in Dirs, b \in Names : entries'[d][b] \in {None, entries[d][b]}
      /\ nlink' \in [Inodes -> Int]
  <2>1. CASE IsEmpty(n)
    <3>1. /\ entries' = With(R(i).p, R(i).a, None)
          /\ nlink' = [nlink EXCEPT ![n] = @ - 2, ![R(i).p] = @ - 1]
      BY <2>1 DEF RmdirRemove
    <3>2. R(i).p \in Inodes /\ n \in Inodes
      BY <1>1, <1>2, Running DEF Inodes, FoundOK
    <3>3. nlink' \in [Inodes -> Int]
      <4>1. nlink \in [Inodes -> Int]
        BY DEF Typed
      <4> HIDE DEF x, n
      <4>2. QED
        BY ONLY <3>1, <3>2, <4>1, DropTwo
    <3>4. /\ entries' \in [Dirs -> [Names -> Inodes \cup {None}]]
          /\ \A d \in Dirs, b \in Names : entries'[d][b] \in {None, entries[d][b]}
      BY <1>2, <3>1, WithType
    <3>5. QED
      BY <3>3, <3>4
  <2>2. CASE ~IsEmpty(n)
    BY <2>2 DEF RmdirRemove, Typed
  <2>3. QED
    BY <2>1, <2>2
<1>6. Typed'
  BY <1>1, <1>4, <1>5, TypedFrom DEF Typed
<1>7. \A p \in Dirs, a \in Names : entries'[p][a] # None => entries'[p][a] \in made
  BY <1>5 DEF MadeOnes
<1>8. QED
  BY <1>1, <1>4, <1>6, <1>7, StayKind

(* rename.                                                                  *)
LEMMA RenameFindKind ==
  ASSUME Typed, OwnRequests, MadeOnes, NEW i \in DOMAIN behaviours, RenameFind(i)
  PROVE  Typed' /\ RunKind(i)
<1> DEFINE x == behaviours[i]  n == Target(i)  on == {n, R(i).p, R(i).q}
           stops == Target(i) = None \/ Denied(i, R(i).p) \/ Denied(i, R(i).q)
<1>1. x.step = "rename" /\ x.step \notin Servants \cup {"use", "setattr"} /\ UNCHANGED <<entries, counts>>
  BY DEF RenameFind, Runs, Servants
<1>2. R(i) = x.r /\ R(i).p \in Dirs /\ R(i).a \in Names /\ R(i).q \in Dirs /\ n \in Inodes \cup {None}
  BY <1>1, Running, RunningPlaces DEF RenameSteps
<1>3. CASE stops
  <2>1. Ends(i) /\ Reply(i)
    BY <1>3 DEF RenameFind, ReplyFail
  <2>2. /\ behaviours' \in Seq(Records) /\ Shifted(behaviours, behaviours', i)
        /\ request' \in [Clients -> Requests] /\ \A c \in Clients : RequestOK(request'[c])
        /\ kernel' = kernel /\ sent' = sent /\ Quits(i)
    BY <1>1, <2>1, EndsKind
  <2>3. QED
    BY <1>1, <2>2, TypedStays, StayKind DEF counts, MadeOnes
<1>4. CASE ~stops
  <2>1. n \in Inodes /\ n \in made /\ n # None
    BY <1>2, <1>4 DEF MadeOnes, Target
  <2>2. Spawns(i, "move", n, None, on) /\ GoesOn(i)
    BY <1>4 DEF RenameFind
  <2>3. \A y \in Records : /\ y.step = "move" /\ y.n = n /\ y.m = None /\ y.on = on
                           /\ y.r = R(i) /\ y.k = 0
                           => OnOK(y) /\ FoundOK(y)
    BY <2>1 DEF OnOK, FoundOK, Servants
  <2>4. "move" \in Steps \ Servants /\ OpOf("move") = OpOf(x.step)
    BY <1>1 DEF Steps, Servants, OpOf, RenameSteps
  <2>5. on \in SUBSET (Inodes \cup {FilesTable, DirsTable}) /\ {n, None} \ {None} \subseteq made
    BY <1>2, <2>1 DEF Inodes
  <2>6. entries' = entries /\ made' = made
    BY <1>1 DEF counts
  <2> HIDE DEF n, on
  <2>7. behaviours' \in Seq(Records) /\ RunKind(i) /\ request' = request /\ kernel' = kernel /\ sent' = sent
    BY <1>1, <2>1, <2>2, <2>3, <2>4, <2>5, <2>6, NoneApart, SpawnsKind
  <2>8. QED
    BY <1>1, <2>7, TypedStays DEF Typed
<1>5. QED
  BY <1>3, <1>4

LEMMA RenameTwoKind ==
  ASSUME Typed, OwnRequests, MadeOnes, NEW i \in DOMAIN behaviours, RenameTwo(i)
  PROVE  Typed' /\ RunKind(i)
<1> DEFINE x == behaviours[i]  n == x.n  m == entries[R(i).q][R(i).b]  on == {FilesTable, DirsTable}
<1>1. x.step = "move" /\ x.step \notin Servants \cup {"use", "setattr"} /\ UNCHANGED <<entries, counts>>
  BY DEF RenameTwo, Runs, Servants
<1>2. R(i) = x.r /\ R(i).q \in Dirs /\ R(i).b \in Names /\ m \in Inodes \cup {None}
  BY <1>1, Running, RunningPlaces DEF RenameSteps
<1>3. n \in Inodes /\ {n} \ {None} \subseteq made
  BY <1>1, Running DEF MadeOnes, FoundOK
<1>4. m \in Inodes /\ m \in made /\ m # None
  BY <1>2 DEF MadeOnes, RenameTwo
<1>5. Spawns(i, "tables", n, m, on) /\ GoesOn(i)
  BY DEF RenameTwo
<1>6. \A y \in Records : /\ y.step = "tables" /\ y.n = n /\ y.m = m /\ y.on = on
                         /\ y.r = R(i) /\ y.k = 0
                         => OnOK(y) /\ FoundOK(y)
  BY <1>3, <1>4 DEF OnOK, FoundOK, Servants
<1>7. "tables" \in Steps \ Servants /\ OpOf("tables") = OpOf(x.step)
  BY <1>1 DEF Steps, Servants, OpOf, RenameSteps
<1>8. on \in SUBSET (Inodes \cup {FilesTable, DirsTable}) /\ {n, m} \ {None} \subseteq made
  BY <1>3, <1>4
<1>9. entries' = entries /\ made' = made
  BY <1>1 DEF counts
<1> HIDE DEF n, m, on
<1>10. behaviours' \in Seq(Records) /\ RunKind(i) /\ request' = request /\ kernel' = kernel /\ sent' = sent
  BY <1>1, <1>3, <1>4, <1>5, <1>6, <1>7, <1>8, <1>9, SpawnsKind
<1>11. QED
  BY <1>1, <1>10, TypedStays DEF Typed

LEMMA RenameTablesKind ==
  ASSUME Typed, OwnRequests, MadeOnes, NEW i \in DOMAIN behaviours, RenameTables(i)
  PROVE  Typed' /\ RunKind(i)
<1> DEFINE x == behaviours[i]  n == InTable(x.n)  m == InTable(x.m)
           on == {R(i).p, R(i).q, n, m} \ {None}
<1>1. x.step = "tables" /\ x.step \notin Servants \cup {"use", "setattr"} /\ UNCHANGED <<entries, counts>>
  BY DEF RenameTables, Runs, Servants
<1>2. R(i) = x.r /\ R(i).p \in Dirs /\ R(i).q \in Dirs
  BY <1>1, Running, RunningPlaces DEF RenameSteps
<1>3. n \in Inodes \cup {None} /\ m \in Inodes \cup {None}
  BY DEF InTable, Typed
<1>4. Spawns(i, "replace", n, m, on) /\ GoesOn(i)
  BY DEF RenameTables
<1>5. \A y \in Records : /\ y.step = "replace" /\ y.n = n /\ y.m = m /\ y.on = on
                         /\ y.r = R(i) /\ y.k = 0
                         => OnOK(y) /\ FoundOK(y)
  BY <1>2, <1>3, NoneApart DEF OnOK, FoundOK, Servants, Inodes
<1>6. "replace" \in Steps \ Servants /\ OpOf("replace") = OpOf(x.step)
  BY <1>1 DEF Steps, Servants, OpOf, RenameSteps
<1>7. on \in SUBSET (Inodes \cup {FilesTable, DirsTable}) /\ {n, m} \ {None} \subseteq made
  BY <1>2, <1>3 DEF Inodes, InTable, Typed
<1>8. entries' = entries /\ made' = made
  BY <1>1 DEF counts
<1> HIDE DEF n, m, on
<1>9. behaviours' \in Seq(Records) /\ RunKind(i) /\ request' = request /\ kernel' = kernel /\ sent' = sent
  BY <1>1, <1>3, <1>4, <1>5, <1>6, <1>7, <1>8, SpawnsKind
<1>10. QED
  BY <1>1, <1>9, TypedStays DEF Typed

(* What moving an entry writes.                                             *)
LEMMA MovedType ==
  ASSUME Typed, NEW r, r.p \in Dirs, r.a \in Names, r.q \in Dirs, NEW b \in Names, NEW n \in Inodes \cup {None}
  PROVE  /\ Moved(r, n, b) \in [Dirs -> [Names -> Inodes \cup {None}]]
         /\ \A d \in Dirs, c \in Names : Moved(r, n, b)[d][c] =
              IF <<d, c>> = <<r.q, b>> THEN n ELSE IF <<d, c>> = <<r.p, r.a>> THEN None ELSE entries[d][c]
<1> DEFINE e == With(r.p, r.a, None)
<1>1. /\ e \in [Dirs -> [Names -> Inodes \cup {None}]]
      /\ \A d \in Dirs, c \in Names :
           e[d][c] = IF <<d, c>> = <<r.p, r.a>> THEN None ELSE entries[d][c]
  BY WithType
<1> HIDE DEF e
<1>2. [e EXCEPT ![r.q][b] = n] \in [Dirs -> [Names -> Inodes \cup {None}]]
  BY <1>1
<1>3. \A d \in Dirs, c \in Names : [e EXCEPT ![r.q][b] = n][d][c] = IF <<d, c>> = <<r.q, b>> THEN n ELSE e[d][c]
  BY <1>1
<1>4. QED
  BY <1>1, <1>2, <1>3 DEF Moved, e

LEMMA RenameMoveKind ==
  ASSUME Typed, OwnRequests, MadeOnes, NEW i \in DOMAIN behaviours, RenameMove(i)
  PROVE  Typed' /\ RunKind(i)
<1> DEFINE x == behaviours[i]  n == x.n  r == R(i)
<1>1. x.step = "move" /\ x.step \notin Servants \cup {"use", "setattr"} /\ UNCHANGED <<krefs, tables, made>>
  BY DEF RenameMove, Runs, Servants
<1>2. R(i) = x.r /\ r.p \in Dirs /\ r.a \in Names /\ r.q \in Dirs /\ r.b \in Names
  BY <1>1, Running, RunningPlaces DEF RenameSteps
<1>3. n \in Inodes /\ {n} \ {None} \subseteq made
  BY <1>1, Running DEF MadeOnes, FoundOK
<1>4. PICK y \in {n} \cup made :
        /\ Ends(i) /\ Reply(i) /\ entries' = Moved(r, y, r.b)
        /\ nlink' = IF r.p # r.q /\ MovesUp(y)
                    THEN [nlink EXCEPT ![r.p] = @ - 1, ![r.q] = @ + 1] ELSE nlink
  BY DEF RenameMove, Reread
<1>y. y \in Inodes /\ {y} \ {None} \subseteq made
  BY <1>3, <1>4 DEF Typed
<1>5. /\ behaviours' \in Seq(Records) /\ Shifted(behaviours, behaviours', i)
      /\ request' \in [Clients -> Requests] /\ \A c \in Clients : RequestOK(request'[c])
      /\ kernel' = kernel /\ sent' = sent /\ Quits(i)
  BY <1>1, <1>4, EndsKind
<1> HIDE DEF n, r
<1>6. r.p \in Inodes /\ r.q \in Inodes
  BY <1>2 DEF Inodes, r
<1>7. nlink' \in [Inodes -> Int]
  <2>1. [nlink EXCEPT ![r.p] = @ - 1, ![r.q] = @ + 1] \in [Inodes -> Int]
    BY <1>6, ShiftOne DEF Typed
  <2>2. QED
    BY <1>4, <2>1 DEF Typed
<1>8. /\ entries' \in [Dirs -> [Names -> Inodes \cup {None}]]
      /\ \A d \in Dirs, c \in Names : entries'[d][c] \in {y, None, entries[d][c]}
  BY <1>2, <1>y, <1>4, MovedType
<1>9. Typed'
  BY <1>1, <1>5, <1>7, <1>8, TypedFrom DEF Typed
<1>10. \A p \in Dirs, a \in Names : entries'[p][a] # None => entries'[p][a] \in made
  BY <1>y, <1>8 DEF MadeOnes
<1>11. QED
  BY <1>1, <1>5, <1>9, <1>10, StayKind

LEMMA ThreeWrites ==
  ASSUME Typed, NEW r, r.p \in Dirs, r.a \in Names, r.q \in Dirs, r.b \in Names,
         NEW b \in Names, NEW n \in Inodes \cup {None}
  PROVE  LET e == Insert(Moved(r, None, r.b), r.q, b, n)
         IN /\ e \in [Dirs -> [Names -> Inodes \cup {None}]]
            /\ \A d \in Dirs, c \in Names : e[d][c] \in {n, None, entries[d][c]}
<1> DEFINE f == Moved(r, None, r.b)
<1>1. /\ f \in [Dirs -> [Names -> Inodes \cup {None}]]
      /\ \A d \in Dirs, c \in Names : f[d][c] \in {None, entries[d][c]}
  BY MovedType
<1> HIDE DEF f
<1>3. [f EXCEPT ![r.q][b] = n] \in [Dirs -> [Names -> Inodes \cup {None}]]
  BY <1>1
<1>4. \A d \in Dirs, c \in Names :
        [f EXCEPT ![r.q][b] = n][d][c] = IF <<d, c>> = <<r.q, b>> THEN n ELSE f[d][c]
  BY <1>1
<1>5. Insert(f, r.q, b, n) \in {f, [f EXCEPT ![r.q][b] = n]}
  BY DEF Insert
<1>6. \A d \in Dirs, c \in Names : [f EXCEPT ![r.q][b] = n][d][c] \in {n, None, entries[d][c]}
  BY <1>1, <1>4
<1>7. /\ Insert(f, r.q, b, n) \in [Dirs -> [Names -> Inodes \cup {None}]]
      /\ \A d \in Dirs, c \in Names : Insert(f, r.q, b, n)[d][c] \in {n, None, entries[d][c]}
  <2>1. ASSUME NEW g, g \in [Dirs -> [Names -> Inodes \cup {None}]],
                     \A d \in Dirs, c \in Names : g[d][c] \in {n, None, entries[d][c]},
                     Insert(f, r.q, b, n) = g
        PROVE  /\ Insert(f, r.q, b, n) \in [Dirs -> [Names -> Inodes \cup {None}]]
               /\ \A d \in Dirs, c \in Names : Insert(f, r.q, b, n)[d][c] \in {n, None, entries[d][c]}
    BY ONLY <2>1
  <2>2. \A d \in Dirs, c \in Names : f[d][c] \in {n, None, entries[d][c]}
    BY <1>1
  <2>3. QED
    BY ONLY <1>1, <1>3, <1>5, <1>6, <2>1, <2>2
<1>8. QED
  BY <1>7 DEF f

LEMMA SameEntries ==
  ASSUME NEW S, NEW f \in [Dirs -> [Names -> S]], NEW g \in [Dirs -> [Names -> S]],
         \A d \in Dirs, c \in Names : f[d][c] = g[d][c]
  PROVE  f = g
<1>1. \A d \in Dirs : f[d] = g[d]
  <2>1. SUFFICES ASSUME NEW d \in Dirs PROVE f[d] = g[d]
    OBVIOUS
  <2>2. f[d] \in [Names -> S] /\ g[d] \in [Names -> S] /\ \A c \in Names : f[d][c] = g[d][c]
    OBVIOUS
  <2>3. QED
    BY ONLY <2>2
<1>2. QED
  BY <1>1

(* An entry that is inserted under the name that was erased has moved.      *)
LEMMA InsertMoves ==
  ASSUME Typed, NEW r, r.p \in Dirs, r.a \in Names, r.q \in Dirs, r.b \in Names,
         NEW n \in Inodes \cup {None}
  PROVE  Insert(Moved(r, None, r.b), r.q, r.b, n) = Moved(r, n, r.b)
<1> DEFINE f == Moved(r, None, r.b)  g == Moved(r, n, r.b)
<1>1. /\ f \in [Dirs -> [Names -> Inodes \cup {None}]]
      /\ \A d \in Dirs, c \in Names : f[d][c] =
           IF <<d, c>> = <<r.q, r.b>> THEN None ELSE IF <<d, c>> = <<r.p, r.a>> THEN None ELSE entries[d][c]
  BY MovedType
<1>2. /\ g \in [Dirs -> [Names -> Inodes \cup {None}]]
      /\ \A d \in Dirs, c \in Names : g[d][c] =
           IF <<d, c>> = <<r.q, r.b>> THEN n ELSE IF <<d, c>> = <<r.p, r.a>> THEN None ELSE entries[d][c]
  BY MovedType
<1> HIDE DEF f, g
<1>3. f[r.q][r.b] = None
  BY <1>1
<1>4. /\ [f EXCEPT ![r.q][r.b] = n] \in [Dirs -> [Names -> Inodes \cup {None}]]
      /\ \A d \in Dirs, c \in Names :
           [f EXCEPT ![r.q][r.b] = n][d][c] = IF <<d, c>> = <<r.q, r.b>> THEN n ELSE f[d][c]
  BY <1>1
<1>5. \A d \in Dirs, c \in Names : [f EXCEPT ![r.q][r.b] = n][d][c] = g[d][c]
  BY <1>1, <1>2, <1>4
<1>6. [f EXCEPT ![r.q][r.b] = n] = g
  BY ONLY <1>2, <1>4, <1>5, SameEntries
<1>7. Insert(f, r.q, r.b, n) = g
  BY <1>3, <1>6 DEF Insert
<1>8. QED
  BY <1>7 DEF f, g

LEMMA RenameReplaceKind ==
  ASSUME Typed, OwnRequests, MadeOnes, NEW i \in DOMAIN behaviours, RenameReplace(i)
  PROVE  Typed' /\ RunKind(i)
<1> DEFINE x == behaviours[i]  n == x.n  m == x.m  r == R(i)
           old == entries[r.p][r.a]
           kept == IF r.p = r.q THEN r.b ELSE r.a
           fails == n \in Dirs /\ (m \notin Dirs \/ ~IsEmpty(m))
           silent == n \notin Dirs /\ m \in Dirs
           linked == IF n \in Dirs /\ m \in Dirs
                     THEN [nlink EXCEPT ![r.p] = @ - 1, ![r.q] = IF r.p = r.q THEN @ ELSE @ + 1]
                     ELSE nlink
<1>1. x.step = "replace" /\ x.step \notin Servants \cup {"use", "setattr"} /\ UNCHANGED <<krefs, tables, made>>
  BY DEF RenameReplace, Runs, Servants
<1>2. r = x.r /\ r.p \in Dirs /\ r.a \in Names /\ r.q \in Dirs /\ r.b \in Names
  BY <1>1, Running, RunningPlaces DEF RenameSteps
<1>3. old \in Inodes \cup {None} /\ (old # None => old \in made)
  BY <1>2 DEF Typed, MadeOnes
<1>4. /\ Ends(i) /\ (GoesOn(i) \/ Reply(i))
      /\ IF fails \/ silent THEN UNCHANGED <<entries, nlink>>
         ELSE /\ \E b \in Reread(kept, kept, Names), z \in Reread(kept, old, made) :
                   entries' = Insert(Moved(r, None, r.b), r.q, b, z)
              /\ nlink' = IF m \in Files THEN [linked EXCEPT ![m] = @ - 1] ELSE linked
  BY DEF RenameReplace, ReplyFail
<1>5. /\ behaviours' \in Seq(Records) /\ Shifted(behaviours, behaviours', i)
      /\ request' \in [Clients -> Requests] /\ \A c \in Clients : RequestOK(request'[c])
      /\ kernel' = kernel /\ sent' = sent /\ Quits(i)
  BY <1>1, <1>4, EndsKind
<1>6. r.p \in Inodes /\ r.q \in Inodes
  BY <1>2 DEF Inodes
<1>7. linked \in [Inodes -> Int]
  <2>1. (r.p = r.q) \in BOOLEAN /\ nlink \in [Inodes -> Int]
    BY DEF Typed
  <2>2. [nlink EXCEPT ![r.p] = @ - 1, ![r.q] = IF r.p = r.q THEN @ ELSE @ + 1] \in [Inodes -> Int]
    BY <1>6, <2>1, ShiftIf
  <2>3. QED
    BY <2>1, <2>2
<1> HIDE DEF r, n, m, old, kept, linked, fails, silent
<1>8. nlink' \in [Inodes -> Int]
  <2>1. m \in Files => [linked EXCEPT ![m] = @ - 1] \in [Inodes -> Int]
    BY <1>7, DropInt DEF Inodes
  <2>2. QED
    BY <1>4, <1>7, <2>1 DEF Typed
<1>9. PICK z \in {old} \cup made :
        /\ entries' \in [Dirs -> [Names -> Inodes \cup {None}]]
        /\ \A d \in Dirs, c \in Names : entries'[d][c] \in {z, None, entries[d][c]}
  <2>1. CASE fails \/ silent
    BY <1>4, <2>1 DEF Typed
  <2>2. CASE ~(fails \/ silent)
    <3>1. PICK b \in Names, z \in {old} \cup made : entries' = Insert(Moved(r, None, r.b), r.q, b, z)
      BY <1>2, <1>4, <2>2 DEF Reread, kept
    <3>2. z \in Inodes \cup {None}
      BY <1>3, <3>1 DEF Typed
    <3>3. LET e == Insert(Moved(r, None, r.b), r.q, b, z)
          IN /\ e \in [Dirs -> [Names -> Inodes \cup {None}]]
             /\ \A d \in Dirs, c \in Names : e[d][c] \in {z, None, entries[d][c]}
      BY ONLY Typed, <1>2, <3>1, <3>2, ThreeWrites
    <3>4. QED
      BY <3>1, <3>3
  <2>3. QED
    BY <2>1, <2>2
<1>10. Typed'
  BY <1>1, <1>5, <1>8, <1>9, TypedFrom DEF Typed
<1>11. \A p \in Dirs, a \in Names : entries'[p][a] # None => entries'[p][a] \in made
  BY <1>3, <1>9 DEF MadeOnes
<1>12. QED
  BY <1>1, <1>5, <1>10, <1>11, StayKind

LEMMA RunIsKind ==
  ASSUME Typed, OwnRequests, MadeOnes, RoomToMake, NEW i \in DOMAIN behaviours, RunBehaviour(i)
  PROVE  Typed' /\ RunKind(i)
<1>1. CASE LookupEntry(i) \/ GetInode(i) \/ Refuse(i) \/ AddInode(i)
  BY <1>1, LookupEntryKind, GetInodeKind, RefuseKind, AddInodeKind
<1>2. CASE \E op \in {"create", "mkdir"} : MakeEntry(i, op)
  BY <1>2, MakeEntryKind
<1>3. CASE UnlinkEntry(i) \/ UnlinkCount(i) \/ RmdirEntry(i) \/ RmdirRemove(i)
  BY <1>3, UnlinkEntryKind, UnlinkCountKind, RmdirEntryKind, RmdirRemoveKind
<1>4. CASE RenameFind(i) \/ RenameDenied(i) \/ RenameMove(i)
  BY <1>4, RenameFindKind, RenameDeniedKind, RenameMoveKind
<1>5. CASE RenameTwo(i) \/ RenameTables(i) \/ RenameReplace(i)
  BY <1>5, RenameTwoKind, RenameTablesKind, RenameReplaceKind
<1>6. CASE Forget(i) \/ UseInode(i) \/ Setattr(i)
  BY <1>6, ForgetKind, UseInodeKind
<1>7. QED
  BY <1>1, <1>2, <1>3, <1>4, <1>5, <1>6 DEF RunBehaviour

------------------------------------------------------------------------------
(* What a step that sends a request does.                                   *)
AskKind(c, r, x) ==
  /\ request[c] = Idle
  /\ r \in Requests /\ RequestOK(r) /\ r.op # "none"
  /\ \A n \in r.pins : Known(n)
  /\ r.op \in Changing => r.pins \cap Locked = {} /\ Linked(r.p)
  /\ r.op = "rename" => Linked(r.q)
  /\ r.op \in {"create", "mkdir"} => Unmade(r.op)
  /\ x \in Records /\ x.step = r.op /\ x.c = c /\ x.r = r /\ x.n = None /\ x.m = None /\ x.k = 0
  /\ x.on = {r.p, r.q} \ {None}
  /\ Grown(behaviours, behaviours', x) /\ behaviours' \in Seq(Records)
  /\ request' = [request EXCEPT ![c] = r]
  /\ UNCHANGED <<entries, counts, kernel>> /\ sent' = sent + 1

LEMMA SendIsKind ==
  ASSUME Typed, NEW c \in Clients, NEW op \in Ops \ {"none"}, NEW p \in Inodes,
         NEW a \in Names \cup {None}, NEW q \in Dirs \cup {None}, NEW b \in Names \cup {None},
         NEW pins \in SUBSET Inodes, p \in pins,
         op \in Changing \cup {"lookup"} => p \in Dirs /\ a \in Names,
         op = "rename" => q \in Dirs /\ b \in Names /\ q \in pins /\ Linked(q),
         op \in Changing => Linked(p),
         op \in {"create", "mkdir"} => Unmade(op),
         Send(c, op, p, a, q, b, pins)
  PROVE  LET r == [op |-> op, p |-> p, a |-> a, q |-> q, b |-> b, pins |-> pins]
         IN AskKind(c, r, Behaviour(op, c, r, None, None, {p, q} \ {None}))
<1> DEFINE r == [op |-> op, p |-> p, a |-> a, q |-> q, b |-> b, pins |-> pins]
           on == {p, q} \ {None}
           x == Behaviour(op, c, r, None, None, on)
<1>1. r \in Requests /\ r.op = op /\ r.p = p /\ r.a = a /\ r.q = q /\ r.b = b /\ r.pins = pins
  BY DEF Requests
<1> HIDE DEF r
<1>2. RequestOK(r)
  BY <1>1 DEF RequestOK
<1>3. op \in Steps
  BY DEF Ops, Steps
<1>4. on \in SUBSET (Inodes \cup {FilesTable, DirsTable})
  BY DEF Inodes
<1>5. on = {r.p, r.q} \ {None}
  BY <1>1
<1> HIDE DEF on
<1>6. /\ x \in Records /\ x.step = op /\ x.c = c /\ x.r = r
      /\ x.n = None /\ x.m = None /\ x.k = 0 /\ x.on = on
  <2>1. c \in Clients \cup {None} /\ None \in Inodes \cup {None} /\ r \in Requests
    BY <1>1
  <2>2. LET z == Behaviour(op, c, r, None, None, on)
        IN /\ z \in Records /\ z.step = op /\ z.c = c /\ z.r = r
           /\ z.n = None /\ z.m = None /\ z.k = 0 /\ z.on = on
    BY <1>3, <1>4, <2>1, RecordMade
  <2>3. QED
    BY <2>2
<1>7. /\ MaySend(c, op) /\ \A n \in pins : Known(n)
      /\ op \in Changing => pins \cap Locked = {}
      /\ sent' = sent + 1 /\ request' = [request EXCEPT ![c] = r]
      /\ behaviours' = Append(behaviours, x)
      /\ UNCHANGED <<entries, counts, kernel>>
  BY DEF Send, r, on
<1> HIDE DEF x
<1>8. Grown(behaviours, behaviours', x) /\ behaviours' \in Seq(Records)
  BY <1>6, <1>7, GrownSeq DEF Typed
<1>9. AskKind(c, r, x)
  BY <1>1, <1>2, <1>5, <1>6, <1>7, <1>8 DEF AskKind, MaySend
<1>10. QED
  BY <1>9 DEF x, r, on

(* The requests about a name.                                               *)
NameRequest(op, p, a, pins) == [op |-> op, p |-> p, a |-> a, q |-> None, b |-> None, pins |-> pins]
LEMMA AskNameIsKind ==
  ASSUME Typed, NEW c \in Clients, NEW p \in Dirs, NEW a \in Names, AskName(c, p, a)
  PROVE  \E r, x : /\ AskKind(c, r, x) /\ r.p = p /\ r.a = a
                   /\ r.op \in {"lookup", "create", "mkdir", "unlink", "rmdir"}
                   /\ r.op \in {"unlink", "rmdir"} => entries[p][a] \in r.pins \cup {None}
<1> DEFINE found == {p, entries[p][a]} \ {None}
<1>1. p \in Inodes /\ entries[p][a] \in Inodes \cup {None} /\ p # None
  BY NoneApart DEF Inodes, Typed
<1>2. PICK op, pins : /\ op \in {"lookup", "create", "mkdir", "unlink", "rmdir"}
                      /\ pins \in {{p}, found}
                      /\ op \in {"create", "mkdir"} => Unmade(op)
                      /\ op \in {"unlink", "rmdir"} => pins = found
                      /\ Send(c, op, p, a, None, None, pins)
  BY DEF AskName
<1>3. /\ pins \in SUBSET Inodes /\ p \in pins
      /\ op \in {"unlink", "rmdir"} => entries[p][a] \in pins \cup {None}
  BY <1>1, <1>2
<1>4. Linked(p) /\ op \in Ops \ {"none"} /\ op # "rename"
  BY <1>2 DEF AskName, Ops
<1> DEFINE r == [op |-> op, p |-> p, a |-> a, q |-> None, b |-> None, pins |-> pins]
<1>5. AskKind(c, r, Behaviour(op, c, r, None, None, {p, None} \ {None}))
  BY <1>1, <1>2, <1>3, <1>4, SendIsKind
<1>6. r.p = p /\ r.a = a /\ r.op = op /\ r.pins = pins
  OBVIOUS
<1> HIDE DEF r
<1>7. QED
  BY <1>2, <1>3, <1>5, <1>6

LEMMA AskInodeIsKind ==
  ASSUME Typed, NEW c \in Clients, NEW n \in Inodes, AskInode(c, n) \/ AskSetattr(c, n)
  PROVE  \E r, x : AskKind(c, r, x) /\ r.op \in {"use", "setattr"}
<1>1. PICK op \in {"use", "setattr"} : Send(c, op, n, None, None, None, {n})
  BY DEF AskInode, AskSetattr
<1> DEFINE r == [op |-> op, p |-> n, a |-> None, q |-> None, b |-> None, pins |-> {n}]
<1>2. op \in Ops \ {"none"} /\ op \notin Changing
  BY <1>1 DEF Ops, Changing
<1>3. AskKind(c, r, Behaviour(op, c, r, None, None, {n, None} \ {None}))
  BY <1>1, <1>2, SendIsKind
<1>4. r.op = op
  OBVIOUS
<1> HIDE DEF r
<1>5. QED
  BY <1>1, <1>3, <1>4

(* A rename that the kernel sends.                                          *)
Sane(c, p, n, q, m) ==
  /\ n \in Inodes \cup {None} /\ m \in Inodes \cup {None}
  /\ n # None =>
       /\ n # m
       /\ m # None => (n \in Dirs <=> m \in Dirs)
       /\ ~AllRequests => ~Mistaken(c, p, n, q, m)
LEMMA AskRenameIsKind ==
  ASSUME Typed, NEW c \in Clients, NEW p \in Dirs, NEW a \in Names, NEW q \in Dirs, NEW b \in Names,
         AskRename(c, p, a, q, b)
  PROVE  \E r, x : /\ AskKind(c, r, x) /\ r.op = "rename"
                   /\ r.p = p /\ r.a = a /\ r.q = q /\ r.b = b
                   /\ {entries[p][a], entries[q][b]} \subseteq r.pins \cup {None}
                   /\ Sane(c, p, entries[p][a], q, entries[q][b])
<1> DEFINE n == entries[p][a]  m == entries[q][b]  pins == {p, q, n, m} \ {None}
           r == [op |-> "rename", p |-> p, a |-> a, q |-> q, b |-> b, pins |-> pins]
<1>1. n \in Inodes \cup {None} /\ m \in Inodes \cup {None} /\ p \in Inodes /\ q \in Inodes
  BY DEF Inodes, Typed
<1>2. pins \in SUBSET Inodes /\ p \in pins /\ q \in pins
  BY <1>1, NoneApart
<1>3. /\ Linked(p) /\ Linked(q) /\ Send(c, "rename", p, a, q, b, pins)
      /\ n # m \/ n = None
      /\ n # None /\ m # None => (n \in Dirs <=> m \in Dirs)
      /\ n # None /\ Mistaken(c, p, n, q, m) => AllRequests
  BY DEF AskRename
<1>4. Sane(c, p, n, q, m)
  BY <1>1, <1>3 DEF Sane
<1>5. "rename" \in Ops \ {"none"}
  BY DEF Ops
<1>6. {n, m} \subseteq pins \cup {None}
  OBVIOUS
<1> HIDE DEF pins
<1>7. AskKind(c, r, Behaviour("rename", c, r, None, None, {p, q} \ {None}))
  BY <1>1, <1>2, <1>3, <1>5, SendIsKind
<1>8. r.op = "rename" /\ r.p = p /\ r.a = a /\ r.q = q /\ r.b = b /\ r.pins = pins
  OBVIOUS
<1> HIDE DEF r
<1>9. QED
  BY <1>4, <1>6, <1>7, <1>8

(* The kernel's forget.                                                     *)
ForgetKindOf(n, x) ==
  /\ Known(n) /\ n \notin Pinned \cup {Root}
  /\ x \in Records /\ x.step = "forget" /\ x.r = Idle /\ x.n = n /\ x.m = None
  /\ x.k = kernel[n] /\ x.on = {n, TableOf(n)}
  /\ Grown(behaviours, behaviours', x) /\ behaviours' \in Seq(Records)
  /\ kernel' = [kernel EXCEPT ![n] = 0]
  /\ UNCHANGED <<entries, counts, request, sent>>
LEMMA AskForgetIsKind ==
  ASSUME Typed, NEW n \in Inodes, AskForget(n)
  PROVE  \E x : ForgetKindOf(n, x)
<1> DEFINE y == Behaviour("forget", None, Idle, n, None, {n, TableOf(n)})
           x == [y EXCEPT !.k = kernel[n]]
<1>1. /\ y \in Records /\ y.step = "forget" /\ y.r = Idle /\ y.n = n /\ y.m = None
      /\ y.on = {n, TableOf(n)}
  <2> DEFINE on == {n, TableOf(n)}
  <2>1. on \in SUBSET (Inodes \cup {FilesTable, DirsTable})
    BY TableOfType
  <2>2. "forget" \in Steps /\ None \in Clients \cup {None} /\ None \in Inodes \cup {None}
    BY DEF Steps
  <2> HIDE DEF on
  <2>3. LET z == Behaviour("forget", None, Idle, n, None, on)
        IN z \in Records /\ z.step = "forget" /\ z.r = Idle /\ z.n = n /\ z.m = None /\ z.on = on
    BY <2>1, <2>2, RecordMade, IdleRequest
  <2>4. QED
    BY <2>3 DEF on
<1>2. behaviours' = Append(behaviours, x)
  BY DEF AskForget
<1>3. kernel[n] \in Nat
  BY DEF Typed
<1> HIDE DEF y
<1>4. /\ x \in Records /\ x.step = "forget" /\ x.r = Idle /\ x.n = n /\ x.m = None
      /\ x.k = kernel[n] /\ x.on = {n, TableOf(n)}
  BY <1>1, <1>3 DEF Records
<1> HIDE DEF x
<1>5. Grown(behaviours, behaviours', x) /\ behaviours' \in Seq(Records)
  BY <1>2, <1>4, GrownSeq DEF Typed
<1>6. ForgetKindOf(n, x)
  BY <1>4, <1>5 DEF ForgetKindOf, AskForget
<1>7. QED
  BY <1>6

LEMMA AskTyped ==
  ASSUME Typed, NEW c \in Clients, NEW r, NEW x, AskKind(c, r, x)
  PROVE  Typed'
<1>1. /\ behaviours' \in Seq(Records) /\ UNCHANGED <<entries, counts, kernel>>
      /\ request' = [request EXCEPT ![c] = r] /\ r \in Requests /\ RequestOK(r) /\ sent' = sent + 1
  BY DEF AskKind
<1>2. request' \in [Clients -> Requests] /\ \A d \in Clients : RequestOK(request'[d])
  BY <1>1 DEF Typed
<1>3. QED
  BY <1>1, <1>2, TypedFrom DEF Typed, counts

LEMMA ForgetTyped ==
  ASSUME Typed, NEW n \in Inodes, NEW x, ForgetKindOf(n, x)
  PROVE  Typed'
<1>1. kernel' \in [Inodes -> Nat] /\ behaviours' \in Seq(Records)
  BY DEF ForgetKindOf, Typed
<1>2. QED
  BY <1>1, TypedFrom DEF Typed, ForgetKindOf, counts

------------------------------------------------------------------------------
(* One behaviour for a request.                                             *)
OwnedOK(x, req) ==
  /\ OnOK(x) /\ FoundOK(x)
  /\ x.step \in Servants => x.r = Idle
  /\ x.step \notin Servants => x.c \in Clients /\ x.r = req[x.c] /\ x.r.op = OpOf(x.step)

LEMMA OwnRequestsRead ==
  OwnRequests <=>
    /\ \A i \in DOMAIN behaviours : OwnedOK(behaviours[i], request)
    /\ \A i, j \in DOMAIN behaviours :
         /\ behaviours[i].step \notin Servants /\ behaviours[j].step \notin Servants
         /\ behaviours[i].c = behaviours[j].c
         => i = j
  BY DEF OwnRequests, OwnedOK

LEMMA BusyNotIdle ==
  ASSUME Typed, OwnRequests, NEW i \in DOMAIN behaviours, behaviours[i].step \notin Servants
  PROVE  request[behaviours[i].c].op # "none" /\ request[behaviours[i].c] # Idle
<1>1. /\ behaviours[i] \in Records /\ behaviours[i].r.op = OpOf(behaviours[i].step)
      /\ behaviours[i].r = request[behaviours[i].c]
  BY Running
<1>2. behaviours[i].step \in Steps
  BY <1>1 DEF Records
<1>3. OpOf(behaviours[i].step) # "none"
  BY <1>2 DEF Steps, OpOf, RenameSteps
<1>4. QED
  BY <1>1, <1>3, IdleRequest

LEMMA OwnRequestsAsk ==
  ASSUME Typed, OwnRequests, NEW c \in Clients, NEW r, NEW x, AskKind(c, r, x)
  PROVE  OwnRequests'
<1>1. /\ request[c] = Idle /\ request' = [request EXCEPT ![c] = r] /\ r.op # "none"
      /\ r \in Requests /\ RequestOK(r)
      /\ x \in Records /\ x.step = r.op /\ x.c = c /\ x.r = r /\ x.n = None /\ x.m = None /\ x.k = 0
      /\ x.on = {r.p, r.q} \ {None} /\ Grown(behaviours, behaviours', x)
  BY DEF AskKind
<1>2. r.op \in Ops /\ r.p \in Inodes \cup {None} /\ r.q \in Dirs \cup {None} /\ r.pins \subseteq Inodes
  BY <1>1 DEF Requests
<1>3. /\ x.step \notin Servants \cup {"get", "tables", "unlinked", "remove", "move", "replace"}
      /\ OpOf(x.step) = r.op
  BY <1>1, <1>2 DEF Ops, Servants, OpOf, RenameSteps
<1>4. r.p # None /\ (r.op = "rename" => r.q # None)
  BY <1>1, <1>2, NoneApart DEF RequestOK, Inodes
<1>5. OnOK(x) /\ FoundOK(x)
  BY <1>1, <1>3, <1>4 DEF OnOK, FoundOK, Servants
<1>6. \A i \in DOMAIN behaviours : behaviours[i].step \notin Servants => behaviours[i].c # c
  BY <1>1, BusyNotIdle
<1>7. request'[c] = r /\ \A d \in Clients : d # c => request'[d] = request[d]
  BY <1>1 DEF Typed
<1>8. \A j \in DOMAIN behaviours : OwnedOK(behaviours[j], request')
  BY <1>6, <1>7, OwnRequestsRead DEF OwnedOK
<1>9. OwnedOK(x, request')
  BY <1>1, <1>3, <1>5, <1>7 DEF OwnedOK
<1>10. \A i \in DOMAIN behaviours' :
         \/ i \in DOMAIN behaviours /\ behaviours'[i] = behaviours[i]
         \/ i = Len(behaviours) + 1 /\ behaviours'[i] = x
  BY <1>1 DEF Grown
<1>11. \A i \in DOMAIN behaviours' : OwnedOK(behaviours'[i], request')
  BY <1>8, <1>9, <1>10
<1>12. ASSUME NEW i \in DOMAIN behaviours', NEW j \in DOMAIN behaviours',
              behaviours'[i].step \notin Servants, behaviours'[j].step \notin Servants,
              behaviours'[i].c = behaviours'[j].c
       PROVE  i = j
  BY <1>1, <1>6, <1>10, <1>12, OwnRequestsRead
<1>13. QED
  BY <1>11, <1>12 DEF OwnRequests, OwnedOK

LEMMA OwnRequestsForget ==
  ASSUME Typed, OwnRequests, NEW n \in Inodes, NEW x, Known(n), ForgetKindOf(n, x)
  PROVE  OwnRequests'
<1>1. /\ x \in Records /\ x.step = "forget" /\ x.r = Idle /\ x.n = n /\ x.m = None
      /\ x.k = kernel[n] /\ x.on = {n, TableOf(n)}
      /\ Grown(behaviours, behaviours', x) /\ request' = request
  BY DEF ForgetKindOf
<1>2. OnOK(x) /\ FoundOK(x)
  BY <1>1 DEF OnOK, FoundOK, Servants, Known
<1>3. OwnedOK(x, request)
  BY <1>1, <1>2 DEF OwnedOK, Servants
<1>4. \A i \in DOMAIN behaviours' :
        \/ i \in DOMAIN behaviours /\ behaviours'[i] = behaviours[i]
        \/ i = Len(behaviours) + 1 /\ behaviours'[i] = x
  BY <1>1 DEF Grown
<1>5. \A i \in DOMAIN behaviours' : OwnedOK(behaviours'[i], request')
  BY <1>1, <1>3, <1>4, OwnRequestsRead
<1>6. ASSUME NEW i \in DOMAIN behaviours', NEW j \in DOMAIN behaviours',
             behaviours'[i].step \notin Servants, behaviours'[j].step \notin Servants,
             behaviours'[i].c = behaviours'[j].c
      PROVE  i = j
  BY <1>1, <1>4, <1>6, OwnRequestsRead DEF Servants
<1>7. QED
  BY <1>5, <1>6 DEF OwnRequests, OwnedOK

(* What the other behaviours keep when one runs.                            *)
LEMMA OthersKeep ==
  ASSUME Typed, OwnRequests, NEW i \in DOMAIN behaviours, Quits(i),
         NEW j \in DOMAIN behaviours, j # i, behaviours[j].step \notin Servants
  PROVE  request'[behaviours[j].c] = request[behaviours[j].c]
<1>1. behaviours[j].c \in Clients
  BY Running
<1>2. CASE request' = request
  BY <1>2
<1>3. CASE behaviours[i].step \notin Servants /\ request' = [request EXCEPT ![Client(i)] = Idle]
  <2>1. behaviours[j].c # behaviours[i].c
    BY <1>3, OwnRequestsRead
  <2>2. QED
    BY <1>1, <1>3, <2>1 DEF Client, Typed
<1>4. QED
  BY <1>2, <1>3 DEF Quits

LEMMA OwnRequestsRun ==
  ASSUME Typed, OwnRequests, NEW i \in DOMAIN behaviours, RunKind(i)
  PROVE  OwnRequests'
<1>0. Quits(i)
  BY DEF RunKind
<1>1. \A j \in DOMAIN behaviours : j # i => OwnedOK(behaviours[j], request')
  BY <1>0, OthersKeep, OwnRequestsRead DEF OwnedOK
<1>2. CASE Shifted(behaviours, behaviours', i)
  <2>1. \A j \in DOMAIN behaviours' :
          /\ From(i, j) \in DOMAIN behaviours /\ From(i, j) # i
          /\ behaviours'[j] = behaviours[From(i, j)]
    BY <1>2 DEF Shifted, From
  <2>2. \A j, k \in DOMAIN behaviours' : From(i, j) = From(i, k) => j = k
    BY <1>2 DEF Shifted, From
  <2>3. \A j \in DOMAIN behaviours' : OwnedOK(behaviours'[j], request')
    BY <1>1, <2>1
  <2>4. ASSUME NEW j \in DOMAIN behaviours', NEW k \in DOMAIN behaviours',
               behaviours'[j].step \notin Servants, behaviours'[k].step \notin Servants,
               behaviours'[j].c = behaviours'[k].c
        PROVE  j = k
    BY <2>1, <2>2, <2>4, OwnRequestsRead
  <2>5. QED
    BY <2>3, <2>4 DEF OwnRequests, OwnedOK
<1>3. ASSUME NEW x \in Records,
             Replaced(behaviours, behaviours', i, x), OnOK(x), FoundOK(x),
             GoesOnAs(i, x) \/ LeavesAdd(i, x)
      PROVE  OwnRequests'
  <2>1. \A j \in DOMAIN behaviours' :
          \/ /\ j # Len(behaviours) /\ From(i, j) \in DOMAIN behaviours /\ From(i, j) # i
             /\ behaviours'[j] = behaviours[From(i, j)]
          \/ j = Len(behaviours) /\ behaviours'[j] = x
    BY <1>3 DEF Replaced, From
  <2>2. \A j, k \in DOMAIN behaviours' : From(i, j) = From(i, k) => j = k
    BY <1>3 DEF Replaced, From
  <2>3. OwnedOK(x, request')
    <3>1. CASE GoesOnAs(i, x)
      BY <1>3, <3>1, Running DEF GoesOnAs, OwnedOK
    <3>2. CASE LeavesAdd(i, x)
      BY <1>3, <3>2 DEF LeavesAdd, OwnedOK, Servants
    <3>3. QED
      BY <1>3, <3>1, <3>2
  <2>4. \A j \in DOMAIN behaviours' : OwnedOK(behaviours'[j], request')
    BY <1>1, <2>1, <2>3
  <2>5. \A j \in DOMAIN behaviours :
          j # i /\ behaviours[j].step \notin Servants /\ x.step \notin Servants => behaviours[j].c # x.c
    <3>1. x.step \notin Servants => x.c = behaviours[i].c /\ behaviours[i].step \notin Servants
      BY <1>3 DEF GoesOnAs, LeavesAdd, Servants, Client
    <3>2. QED
      BY <3>1, OwnRequestsRead
  <2>6. ASSUME NEW j \in DOMAIN behaviours', NEW k \in DOMAIN behaviours',
               behaviours'[j].step \notin Servants, behaviours'[k].step \notin Servants,
               behaviours'[j].c = behaviours'[k].c
        PROVE  j = k
    BY <2>1, <2>2, <2>5, <2>6, OwnRequestsRead
  <2>7. QED
    BY <2>4, <2>6 DEF OwnRequests, OwnedOK
<1>4. QED
  BY <1>2, <1>3 DEF RunKind

------------------------------------------------------------------------------
(* Pins.                                                                    *)
LEMMA PinnedRead ==
  ASSUME NEW n
  PROVE  /\ n \in Pinned <=> \E c \in Clients : n \in request[c].pins
         /\ n \in Locked <=> \E c \in Clients : request[c].op \in Changing /\ n \in request[c].pins
  BY DEF Pinned, Locked

LEMMA QuitsRead ==
  ASSUME Typed, NEW i \in DOMAIN behaviours, Quits(i), NEW c \in Clients
  PROVE  request'[c] = request[c] \/ request'[c] = Idle
  BY DEF Quits, Typed

LEMMA PinsAsk ==
  ASSUME Typed, PinsKnown, PinsLocked, NEW c \in Clients, NEW r, NEW x, AskKind(c, r, x)
  PROVE  PinsKnown' /\ PinsLocked'
<1>1. /\ request'[c] = r /\ \A d \in Clients : d # c => request'[d] = request[d]
      /\ \A n \in r.pins : Known(n) /\ kernel' = kernel
      /\ r.op \in Changing => r.pins \cap Locked = {}
  BY DEF AskKind, Typed
<1>2. kernel' = kernel
  BY DEF AskKind
<1>3. PinsKnown'
  BY <1>1, <1>2 DEF PinsKnown, Known
<1>4. ASSUME NEW d \in Clients, d # c, r.op \in Changing, request[d].op \in Changing
      PROVE  r.pins \cap request[d].pins = {}
  BY <1>1, <1>4, PinnedRead
<1>5. PinsLocked'
  BY <1>1, <1>4 DEF PinsLocked, Changing
<1>6. QED
  BY <1>3, <1>5

LEMMA PinsForget ==
  ASSUME Typed, PinsKnown, PinsLocked, NEW n \in Inodes, NEW x, ForgetKindOf(n, x)
  PROVE  PinsKnown' /\ PinsLocked'
<1>1. request' = request /\ kernel' = [kernel EXCEPT ![n] = 0] /\ n \notin Pinned
  BY DEF ForgetKindOf
<1>2. PinsLocked'
  BY <1>1 DEF PinsLocked, Changing
<1>3. ASSUME NEW c \in Clients, NEW m \in request[c].pins
      PROVE  kernel'[m] > 0
  <2>1. m # n /\ kernel[m] > 0 /\ m \in Inodes
    BY <1>1, PinnedRead DEF PinsKnown, Known, Typed, Requests
  <2>2. QED
    BY <1>1, <2>1 DEF Typed
<1>4. PinsKnown'
  BY <1>1, <1>3 DEF PinsKnown, Known
<1>5. QED
  BY <1>2, <1>4

LEMMA PinsRun ==
  ASSUME Typed, PinsKnown, PinsLocked, NEW i \in DOMAIN behaviours, RunKind(i)
  PROVE  PinsKnown' /\ PinsLocked'
<1>1. \A c \in Clients : request'[c] = request[c] \/ request'[c] = Idle
  BY QuitsRead DEF RunKind
<1>2. \A n \in Inodes : Known(n) => Known(n)'
  BY DEF RunKind
<1>3. Idle.pins = {} /\ Idle.op \notin Changing
  BY DEF Idle, Changing
<1>4. ASSUME NEW c \in Clients, NEW m \in request'[c].pins
      PROVE  Known(m)'
  <2>1. m \in request[c].pins
    BY <1>1, <1>3, <1>4
  <2>2. m \in Inodes
    BY <2>1 DEF Typed, Requests
  <2>3. QED
    BY <1>2, <2>1, <2>2 DEF PinsKnown
<1>5. PinsKnown'
  BY <1>4 DEF PinsKnown
<1>6. PinsLocked'
  BY <1>1, <1>3 DEF PinsLocked, Changing
<1>7. QED
  BY <1>5, <1>6

------------------------------------------------------------------------------
(* What was made.                                                           *)
LEMMA UsesMade ==
  ASSUME Typed, OwnRequests, PinsKnown, MadeOnes, NEW i \in DOMAIN behaviours
  PROVE  Uses(behaviours[i]) \subseteq made
<1>1. {behaviours[i].n, behaviours[i].m} \ {None} \subseteq made
  BY DEF MadeOnes
<1>2. behaviours[i].r.pins \subseteq made
  <2>1. CASE behaviours[i].step \in Servants
    BY <2>1, Running, IdleRequest
  <2>2. CASE behaviours[i].step \notin Servants
    <3>1. behaviours[i].c \in Clients /\ behaviours[i].r = request[behaviours[i].c] /\ behaviours[i].r \in Requests
      BY <2>2, Running
    <3>2. \A n \in behaviours[i].r.pins : n \in Inodes /\ Known(n)
      BY <3>1 DEF PinsKnown, Requests
    <3>3. QED
      BY <3>2 DEF MadeOnes
  <2>3. QED
    BY <2>1, <2>2
<1>3. QED
  BY <1>1, <1>2, NoneApart DEF Uses

LEMMA MadeAsk ==
  ASSUME Typed, MadeOnes, NEW c \in Clients, NEW r, NEW x, AskKind(c, r, x)
  PROVE  MadeOnes'
<1>1. /\ UNCHANGED <<entries, counts, kernel>> /\ Grown(behaviours, behaviours', x)
      /\ x.n = None /\ x.m = None
  BY DEF AskKind
<1>2. \A i \in DOMAIN behaviours' :
        (i \in DOMAIN behaviours /\ behaviours'[i] = behaviours[i]) \/ behaviours'[i] = x
  BY <1>1 DEF Grown
<1>3. \A i \in DOMAIN behaviours' : {behaviours'[i].n, behaviours'[i].m} \ {None} \subseteq made
  BY <1>1, <1>2 DEF MadeOnes
<1>4. QED
  BY <1>1, <1>3 DEF MadeOnes, counts, Known

LEMMA MadeForget ==
  ASSUME Typed, MadeOnes, NEW n \in Inodes, NEW x, ForgetKindOf(n, x)
  PROVE  MadeOnes'
<1>1. /\ UNCHANGED <<entries, counts>> /\ Grown(behaviours, behaviours', x)
      /\ x.n = n /\ x.m = None /\ Known(n) /\ kernel' = [kernel EXCEPT ![n] = 0]
  BY DEF ForgetKindOf
<1>2. n \in made
  BY <1>1 DEF MadeOnes
<1>3. \A i \in DOMAIN behaviours' :
        (i \in DOMAIN behaviours /\ behaviours'[i] = behaviours[i]) \/ behaviours'[i] = x
  BY <1>1 DEF Grown
<1>4. \A i \in DOMAIN behaviours' : {behaviours'[i].n, behaviours'[i].m} \ {None} \subseteq made
  BY <1>1, <1>2, <1>3 DEF MadeOnes
<1>5. \A m \in Inodes : kernel'[m] > 0 => kernel[m] > 0
  BY <1>1 DEF Typed, Known
<1>6. QED
  BY <1>1, <1>4, <1>5 DEF MadeOnes, counts, Known

LEMMA MadeRun ==
  ASSUME Typed, MadeOnes, NEW i \in DOMAIN behaviours, RunKind(i)
  PROVE  MadeOnes'
<1>1. /\ \A n \in Inodes : Known(n)' => Known(n) \/ n \in made'
      /\ made \subseteq made'
      /\ \A p \in Dirs, a \in Names : entries'[p][a] # None => entries'[p][a] \in made'
  BY DEF RunKind
<1>2. \A j \in DOMAIN behaviours' :
        \/ \E k \in DOMAIN behaviours : behaviours'[j] = behaviours[k]
        \/ {behaviours'[j].n, behaviours'[j].m} \ {None} \subseteq made'
  <2>1. CASE Shifted(behaviours, behaviours', i)
    BY <2>1 DEF Shifted, From
  <2>2. ASSUME NEW x \in Records, Replaced(behaviours, behaviours', i, x),
               {x.n, x.m} \ {None} \subseteq made',
               NEW j \in DOMAIN behaviours'
        PROVE  \/ \E k \in DOMAIN behaviours : behaviours'[j] = behaviours[k]
               \/ {behaviours'[j].n, behaviours'[j].m} \ {None} \subseteq made'
    <3>1. CASE j = Len(behaviours)
      BY <2>2, <3>1 DEF Replaced
    <3>2. CASE j # Len(behaviours)
      BY <2>2, <3>2 DEF Replaced, From
    <3>3. QED
      BY <3>1, <3>2
  <2>3. QED
    BY <2>1, <2>2 DEF RunKind
<1>3. \A j \in DOMAIN behaviours' : {behaviours'[j].n, behaviours'[j].m} \ {None} \subseteq made'
  BY <1>1, <1>2 DEF MadeOnes
<1>4. QED
  BY <1>1, <1>3 DEF MadeOnes, Known

------------------------------------------------------------------------------
(* add_inode comes first.                                                   *)
LEMMA AddsAsk ==
  ASSUME Typed, AddsFirst, NEW c \in Clients, NEW r, NEW x, AskKind(c, r, x)
  PROVE  AddsFirst'
<1>1. Grown(behaviours, behaviours', x) /\ x.step # "add"
  BY DEF AskKind, RequestOK, Requests, Ops
<1>2. \A i \in DOMAIN behaviours' :
        \/ i \in DOMAIN behaviours /\ behaviours'[i] = behaviours[i]
        \/ i = Len(behaviours) + 1 /\ behaviours'[i] = x
  BY <1>1 DEF Grown
<1>3. \A i \in DOMAIN behaviours' : i \in Nat /\ i <= Len(behaviours) + 1
  BY <1>1 DEF Grown
<1>4. QED
  BY <1>1, <1>2, <1>3 DEF AddsFirst

LEMMA AddsForget ==
  ASSUME Typed, AddsFirst, NEW n \in Inodes, NEW x, ForgetKindOf(n, x)
  PROVE  AddsFirst'
<1>1. Grown(behaviours, behaviours', x) /\ x.step # "add"
  BY DEF ForgetKindOf
<1>2. \A i \in DOMAIN behaviours' :
        \/ i \in DOMAIN behaviours /\ behaviours'[i] = behaviours[i]
        \/ i = Len(behaviours) + 1 /\ behaviours'[i] = x
  BY <1>1 DEF Grown
<1>3. \A i \in DOMAIN behaviours' : i \in Nat /\ i <= Len(behaviours) + 1
  BY <1>1 DEF Grown
<1>4. QED
  BY <1>1, <1>2, <1>3 DEF AddsFirst

LEMMA AddsRun ==
  ASSUME Typed, OwnRequests, PinsKnown, MadeOnes, AddsFirst, NEW i \in DOMAIN behaviours, RunKind(i)
  PROVE  AddsFirst'
<1>1. CASE Shifted(behaviours, behaviours', i)
  <2>1. \A j \in DOMAIN behaviours' :
          From(i, j) \in DOMAIN behaviours /\ behaviours'[j] = behaviours[From(i, j)]
    BY <1>1 DEF Shifted, From
  <2>2. \A j, k \in DOMAIN behaviours' : From(i, j) <= From(i, k) => j <= k
    BY <1>1 DEF Shifted, From
  <2>3. QED
    BY <2>1, <2>2 DEF AddsFirst
<1>2. ASSUME NEW x \in Records, Replaced(behaviours, behaviours', i, x),
             GoesOnAs(i, x) \/ LeavesAdd(i, x)
      PROVE  AddsFirst'
  <2>1. \A j \in DOMAIN behaviours' :
          \/ /\ j # Len(behaviours) /\ From(i, j) \in DOMAIN behaviours
             /\ behaviours'[j] = behaviours[From(i, j)]
          \/ j = Len(behaviours) /\ behaviours'[j] = x
    BY <1>2 DEF Replaced, From
  <2>2. \A j, k \in DOMAIN behaviours' : From(i, j) <= From(i, k) => j <= k
    BY <1>2 DEF Replaced, From
  <2>3. \A j \in DOMAIN behaviours' : j \in Nat /\ j <= Len(behaviours)
    BY <1>2 DEF Replaced
  <2>4. Len(behaviours) \in Nat
    BY <1>2 DEF Replaced
  <2>5. x.step = "add" => \A j \in DOMAIN behaviours : x.n \notin Uses(behaviours[j])
    <3>1. x.step = "add" => x.n \notin made
      BY <1>2 DEF GoesOnAs, LeavesAdd, Servants
    <3>2. QED
      BY <3>1, UsesMade
  <2>6. ASSUME NEW j \in DOMAIN behaviours', NEW k \in DOMAIN behaviours',
               behaviours'[j].step = "add", behaviours'[j].n \in Uses(behaviours'[k])
        PROVE  j <= k
    <3>1. CASE k = Len(behaviours)
      BY <2>3, <3>1
    <3>2. CASE k # Len(behaviours) /\ j = Len(behaviours)
      BY <2>1, <2>5, <2>6, <3>2
    <3>3. CASE k # Len(behaviours) /\ j # Len(behaviours)
      BY <2>1, <2>2, <2>6, <3>3 DEF AddsFirst
    <3>4. QED
      BY <3>1, <3>2, <3>3
  <2>7. QED
    BY <2>6 DEF AddsFirst
<1>3. QED
  BY <1>1, <1>2 DEF RunKind

------------------------------------------------------------------------------
(* There is always an inode left for a create or mkdir under way.           *)
Asking(op) == {c \in Clients : request[c].op = op}

LEMMA RoomCounts ==
  ASSUME NEW op \in {"create", "mkdir"}
  PROVE  /\ IsFiniteSet(Asking(op)) /\ Cardinality(Asking(op)) \in Nat
         /\ IsFiniteSet(Fresh(op) \ made) /\ Cardinality(Fresh(op) \ made) \in Nat
<1>1. IsFiniteSet(Clients) /\ Asking(op) \in SUBSET Clients
  BY NamespaceAssumption DEF Asking
<1>2. IsFiniteSet(Inodes) /\ Fresh(op) \ made \in SUBSET Inodes
  BY NamespaceAssumption DEF Fresh, Inodes
<1>3. IsFiniteSet(Asking(op)) /\ IsFiniteSet(Fresh(op) \ made)
  BY <1>1, <1>2, FS_Subset
<1>4. QED
  BY <1>3, FS_CardinalityType

LEMMA RoomRead ==
  RoomToMake <=> \A op \in {"create", "mkdir"} : Cardinality(Asking(op)) <= Cardinality(Fresh(op) \ made)
  BY DEF RoomToMake, Asking

LEMMA RoomAsk ==
  ASSUME Typed, RoomToMake, NEW c \in Clients, NEW r, NEW x, AskKind(c, r, x)
  PROVE  RoomToMake'
<1>1. /\ request'[c] = r /\ \A d \in Clients : d # c => request'[d] = request[d]
      /\ made' = made /\ request[c].op = "none"
      /\ r.op \in {"create", "mkdir"} => Unmade(r.op)
  BY IdleRequest DEF AskKind, Typed, counts
<1>2. ASSUME NEW op \in {"create", "mkdir"}
      PROVE  Cardinality(Asking(op)') <= Cardinality(Fresh(op) \ made)
  <2>1. /\ IsFiniteSet(Asking(op)) /\ Cardinality(Asking(op)) \in Nat
        /\ Cardinality(Fresh(op) \ made) \in Nat
    BY RoomCounts
  <2>2. CASE r.op = op
    <3>1. Asking(op)' = Asking(op) \cup {c} /\ c \notin Asking(op)
      BY <1>1, <2>2 DEF Asking
    <3>2. Cardinality(Asking(op)') = Cardinality(Asking(op)) + 1
      BY <2>1, <3>1, FS_AddElement
    <3>3. Cardinality(Fresh(op) \ made) > Cardinality(Asking(op))
      BY <1>1, <2>2 DEF Unmade, Asking
    <3>4. QED
      BY <2>1, <3>2, <3>3
  <2>3. CASE r.op # op
    <3>1. Asking(op)' = Asking(op)
      BY <1>1, <2>3 DEF Asking
    <3>2. QED
      BY <3>1, RoomRead
  <2>4. QED
    BY <2>2, <2>3
<1>3. QED
  BY <1>1, <1>2 DEF RoomToMake, Asking, Fresh

LEMMA OnlyMakes ==
  ASSUME NEW i, RunBehaviour(i)
  PROVE  made' = made \/ \E op \in {"create", "mkdir"} : MakeEntry(i, op)
<1>1. CASE LookupEntry(i) \/ Refuse(i) \/ RmdirEntry(i) \/ RenameFind(i) \/ RenameDenied(i)
           \/ RenameTwo(i) \/ RenameTables(i) \/ UseInode(i) \/ Setattr(i) \/ UnlinkEntry(i)
  BY <1>1 DEF LookupEntry, Refuse, RmdirEntry, RenameFind, RenameDenied, RenameTwo,
              RenameTables, UseInode, Setattr, UnlinkEntry, counts
<1>2. CASE GetInode(i) \/ AddInode(i) \/ UnlinkCount(i) \/ RmdirRemove(i) \/ RenameMove(i)
           \/ RenameReplace(i) \/ Forget(i)
  BY <1>2 DEF GetInode, AddInode, UnlinkCount, RmdirRemove, RenameMove, RenameReplace, Forget
<1>3. QED
  BY <1>1, <1>2 DEF RunBehaviour

LEMMA RoomRun ==
  ASSUME Typed, OwnRequests, MadeOnes, RoomToMake, NEW i \in DOMAIN behaviours, RunBehaviour(i), RunKind(i)
  PROVE  RoomToMake'
<1>1. \A c \in Clients : request'[c] = request[c] \/ request'[c] = Idle
  BY QuitsRead DEF RunKind
<1>2. ASSUME NEW op \in {"create", "mkdir"}
      PROVE  /\ Asking(op)' \in SUBSET Asking(op)
             /\ Cardinality(Asking(op)') <= Cardinality(Asking(op))
             /\ Cardinality(Asking(op)') \in Nat
  <2>1. Asking(op)' \in SUBSET Asking(op)
    BY <1>1, IdleRequest DEF Asking
  <2>2. IsFiniteSet(Asking(op))
    BY RoomCounts
  <2>3. QED
    BY <2>1, <2>2, FS_Subset, FS_CardinalityType
<1>3. CASE made' = made
  <2>1. ASSUME NEW op \in {"create", "mkdir"}
        PROVE  Cardinality(Asking(op)') <= Cardinality(Fresh(op) \ made)
    BY <1>2, RoomRead, RoomCounts
  <2>2. QED
    BY <1>3, <2>1 DEF RoomToMake, Asking, Fresh
<1>4. ASSUME NEW o \in {"create", "mkdir"}, MakeEntry(i, o)
      PROVE  RoomToMake'
  <2> DEFINE n == Makes(o)
  <2>1. behaviours[i].step = o /\ o \notin Servants /\ OpOf(o) = o
    BY <1>4 DEF MakeEntry, Runs, Servants, OpOf, RenameSteps
  <2>2. n \in Fresh(o) /\ n \notin made
    BY <2>1, Room
  <2>3. made' = made \cup {n} /\ request' = [request EXCEPT ![Client(i)] = Idle]
    BY <1>4 DEF MakeEntry, ReplyEntry, Makes
  <2>4. Client(i) \in Clients /\ request[Client(i)].op = o
    BY <2>1, Running
  <2> HIDE DEF n
  <2>5. ASSUME NEW op \in {"create", "mkdir"}
        PROVE  Cardinality(Asking(op)') <= Cardinality(Fresh(op) \ made')
    <3>1. CASE op = o
      <4>1. Client(i) \in Asking(o) /\ Asking(o)' \in SUBSET (Asking(o) \ {Client(i)})
        BY <2>3, <2>4, <1>1, IdleRequest DEF Asking, Typed
      <4>2. IsFiniteSet(Asking(o)) /\ Cardinality(Asking(o)) \in Nat /\ IsFiniteSet(Fresh(o) \ made)
            /\ Cardinality(Fresh(o) \ made) \in Nat
        BY RoomCounts
      <4>3. /\ IsFiniteSet(Asking(o) \ {Client(i)})
            /\ Cardinality(Asking(o) \ {Client(i)}) = Cardinality(Asking(o)) - 1
        BY <4>1, <4>2, FS_RemoveElement
      <4>4. Cardinality(Asking(o)') <= Cardinality(Asking(o)) - 1
        BY <4>1, <4>3, FS_Subset
      <4>5. Fresh(o) \ made' = (Fresh(o) \ made) \ {n} /\ n \in Fresh(o) \ made
        BY <2>2, <2>3
      <4>6. Cardinality(Fresh(o) \ made') = Cardinality(Fresh(o) \ made) - 1
        BY <4>2, <4>5, FS_RemoveElement
      <4>7. Cardinality(Asking(o)) <= Cardinality(Fresh(o) \ made)
        BY RoomRead
      <4>8. Cardinality(Asking(o)') \in Nat
        BY <1>2
      <4>9. QED
        BY <3>1, <4>2, <4>4, <4>6, <4>7, <4>8
    <3>2. CASE op # o
      <4>1. Fresh(op) \ made' = Fresh(op) \ made
        BY <2>2, <2>3, <3>2, NamespaceAssumption DEF Fresh
      <4>2. QED
        BY <1>2, <4>1, RoomRead, RoomCounts
    <3>3. QED
      BY <3>1, <3>2
  <2>6. QED
    BY <2>5 DEF RoomToMake, Asking, Fresh
<1>5. QED
  BY <1>3, <1>4, OnlyMakes

------------------------------------------------------------------------------
(* The first layer of the invariant.                                        *)
LEMMA AskOther ==
  ASSUME NEW c, NEW r, NEW x, AskKind(c, r, x),
         r.op \in {"lookup", "create", "mkdir", "unlink", "rmdir", "use", "setattr"},
         r.op \in {"unlink", "rmdir"} => entries[r.p][r.a] \in r.pins \cup {None}
  PROVE  CapturedOK(x)
<1>1. x.step = r.op /\ x.r = r
  BY DEF AskKind
<1>2. /\ x.step \notin RenameSteps \cup {"unlinked", "remove", "move", "tables", "replace"}
      /\ x.step \in {"unlink", "rmdir"} => Old(x) \in x.r.pins \cup {None}
  BY <1>1 DEF RenameSteps, Old
<1>3. QED
  BY <1>2 DEF CapturedOK

LEMMA AskRenameCaptures ==
  ASSUME ~AllRequests, NEW c, NEW r, NEW x, AskKind(c, r, x), r.op = "rename",
         {entries[r.p][r.a], entries[r.q][r.b]} \subseteq r.pins \cup {None},
         Sane(c, r.p, entries[r.p][r.a], r.q, entries[r.q][r.b])
  PROVE  CapturedOK(x)
<1>1. x.step = "rename" /\ x.r = r /\ x.c = c
  BY DEF AskKind
<1>2. Old(x) = entries[r.p][r.a] /\ New(x) = entries[r.q][r.b]
  BY <1>1 DEF Old, New
<1>3. NewOK(x)
  BY <1>1, <1>2 DEF NewOK, Sane
<1>4. QED
  BY <1>1, <1>2, <1>3 DEF CapturedOK, RenameSteps

LEMMA NextKinds ==
  ASSUME Typed, Next
  PROVE  \/ \E i \in DOMAIN behaviours : RunBehaviour(i)
         \/ \E c \in Clients : \E r, x : AskKind(c, r, x) /\ (~AllRequests => CapturedOK(x))
         \/ \E n \in Inodes : \E x : ForgetKindOf(n, x)
<1>1. CASE \E c \in Clients, p \in Dirs, a \in Names : AskName(c, p, a)
  <2>1. PICK c \in Clients, p \in Dirs, a \in Names : AskName(c, p, a)
    BY <1>1
  <2>2. PICK r, x : /\ AskKind(c, r, x) /\ r.p = p /\ r.a = a
                    /\ r.op \in {"lookup", "create", "mkdir", "unlink", "rmdir"}
                    /\ r.op \in {"unlink", "rmdir"} => entries[p][a] \in r.pins \cup {None}
    BY <2>1, AskNameIsKind
  <2>3. CapturedOK(x)
    BY <2>2, AskOther
  <2>4. QED
    BY <2>2, <2>3
<1>2. CASE \E c \in Clients, p \in Dirs, a \in Names, q \in Dirs, b \in Names : AskRename(c, p, a, q, b)
  <2>1. PICK c \in Clients, p \in Dirs, a \in Names, q \in Dirs, b \in Names : AskRename(c, p, a, q, b)
    BY <1>2
  <2>2. PICK r, x : /\ AskKind(c, r, x) /\ r.op = "rename"
                    /\ r.p = p /\ r.a = a /\ r.q = q /\ r.b = b
                    /\ {entries[p][a], entries[q][b]} \subseteq r.pins \cup {None}
                    /\ Sane(c, p, entries[p][a], q, entries[q][b])
    BY <2>1, AskRenameIsKind
  <2>3. ~AllRequests => CapturedOK(x)
    BY <2>2, AskRenameCaptures
  <2>4. QED
    BY <2>2, <2>3
<1>3. CASE \E c \in Clients, n \in Inodes : AskInode(c, n) \/ AskSetattr(c, n)
  <2>1. PICK c \in Clients, n \in Inodes : AskInode(c, n) \/ AskSetattr(c, n)
    BY <1>3
  <2>2. PICK r, x : AskKind(c, r, x) /\ r.op \in {"use", "setattr"}
    BY <2>1, AskInodeIsKind
  <2>3. CapturedOK(x)
    BY <2>2, AskOther
  <2>4. QED
    BY <2>2, <2>3
<1>4. CASE \E n \in Inodes : AskForget(n)
  BY <1>4, AskForgetIsKind
<1>5. QED
  BY <1>1, <1>2, <1>3, <1>4 DEF Next

LEMMA ShapeInit == Init => Shape
<1> SUFFICES ASSUME Init PROVE Shape
  OBVIOUS
<1>1. /\ entries \in Trees /\ made = {Root} \cup NamedIn(entries) /\ tables = made
      /\ nlink = [n \in Inodes |-> LinksOf(n)]
      /\ kernel = [n \in Inodes |-> IF n \in made THEN 1 ELSE 0] /\ krefs = kernel
      /\ behaviours = <<>> /\ request = [c \in Clients |-> Idle] /\ sent = 0
  BY DEF Init
<1>2. entries \in [Dirs -> [Names -> Inodes \cup {None}]] /\ Root \in Inodes /\ IsFiniteSet(Names)
  BY <1>1, NamespaceAssumption DEF Inodes
<1>3. made \subseteq Inodes
  BY <1>1, <1>2 DEF NamedIn
<1>4. \A n \in Inodes : LinksOf(n) \in Int
  <2> TAKE n \in Inodes
  <2>1. IsFiniteSet({n} \cap NamedIn(entries)) /\ IsFiniteSet({a \in Names : entries[n][a] \in Dirs})
    <3>1. IsFiniteSet({n}) /\ {n} \cap NamedIn(entries) \in SUBSET {n}
      BY FS_Singleton
    <3>2. {a \in Names : entries[n][a] \in Dirs} \in SUBSET Names
      OBVIOUS
    <3>3. QED
      BY <1>2, <3>1, <3>2, FS_Subset
  <2>2. Cardinality({n} \cap NamedIn(entries)) \in Nat /\ Subdirs(n) \in Nat
    BY <2>1, FS_CardinalityType DEF Subdirs
  <2>3. QED
    BY <2>2 DEF LinksOf
<1>5. Typed
  <2>1. nlink \in [Inodes -> Int] /\ kernel \in [Inodes -> Nat] /\ krefs \in [Inodes -> Int]
    BY <1>1, <1>4
  <2>2. behaviours \in Seq(Records)
    BY <1>1
  <2>3. request \in [Clients -> Requests] /\ \A c \in Clients : RequestOK(request[c])
    BY <1>1, IdleRequest
  <2>4. QED
    BY <1>1, <1>2, <1>3, <2>1, <2>2, <2>3 DEF Typed
<1>6. OwnRequests /\ AddsFirst
  BY <1>1 DEF OwnRequests, AddsFirst
<1>7. PinsKnown /\ PinsLocked
  BY <1>1, IdleRequest DEF PinsKnown, PinsLocked, Changing
<1>8. MadeOnes
  BY <1>1, <1>2 DEF MadeOnes, Known, NamedIn
<1>9. RoomToMake
  <2> SUFFICES ASSUME NEW op \in {"create", "mkdir"}
               PROVE  Cardinality(Asking(op)) <= Cardinality(Fresh(op) \ made)
    BY RoomRead
  <2>1. Asking(op) = {}
    BY <1>1, IdleRequest DEF Asking
  <2>2. Cardinality(Asking(op)) = 0
    BY <2>1, FS_EmptySet
  <2>3. QED
    BY <2>2, RoomCounts
<1>10. QED
  BY <1>5, <1>6, <1>7, <1>8, <1>9 DEF Shape

LEMMA ShapeNext == Shape /\ [Next]_vars => Shape'
<1> SUFFICES ASSUME Shape, [Next]_vars PROVE Shape'
  OBVIOUS
<1> USE DEF Shape
<1>1. ASSUME NEW i \in DOMAIN behaviours, RunBehaviour(i)
      PROVE  Shape'
  <2>1. Typed' /\ RunKind(i)
    BY <1>1, RunIsKind
  <2>2. QED
    BY <1>1, <2>1, OwnRequestsRun, PinsRun, MadeRun, AddsRun, RoomRun
<1>2. ASSUME NEW c \in Clients, NEW r, NEW x, AskKind(c, r, x)
      PROVE  Shape'
  BY <1>2, AskTyped, OwnRequestsAsk, PinsAsk, MadeAsk, AddsAsk, RoomAsk
<1>3. ASSUME NEW n \in Inodes, NEW x, ForgetKindOf(n, x)
      PROVE  Shape'
  <2>1. Known(n) /\ request' = request /\ made' = made
    BY <1>3 DEF ForgetKindOf, counts
  <2>2. RoomToMake'
    BY <2>1 DEF RoomToMake, Fresh
  <2>3. QED
    BY <1>3, <2>1, <2>2, ForgetTyped, OwnRequestsForget, PinsForget, MadeForget, AddsForget
<1>4. CASE UNCHANGED vars
  <2>1. /\ entries' = entries /\ nlink' = nlink /\ krefs' = krefs /\ tables' = tables /\ made' = made
        /\ behaviours' = behaviours /\ request' = request /\ kernel' = kernel /\ sent' = sent
    BY <1>4 DEF vars, counts, asked
  <2>2. Typed' /\ OwnRequests' /\ PinsKnown' /\ PinsLocked' /\ RoomToMake'
    <3>1. Typed'
      BY <2>1, TypedFrom DEF Typed
    <3>2. OwnRequests'
      BY <2>1 DEF OwnRequests
    <3>3. PinsKnown' /\ PinsLocked'
      BY <2>1 DEF PinsKnown, PinsLocked, Known, Changing
    <3>4. RoomToMake'
      BY <2>1 DEF RoomToMake, Fresh
    <3>5. QED
      BY <3>1, <3>2, <3>3, <3>4
  <2>3. MadeOnes' /\ AddsFirst'
    BY <2>1 DEF MadeOnes, AddsFirst, Known, Uses
  <2>4. QED
    BY <2>2, <2>3
<1>5. QED
  BY <1>1, <1>2, <1>3, <1>4, NextKinds

------------------------------------------------------------------------------
(* Lookups that wait to be forgotten, in a sequence of behaviours.          *)
Waits(s, n) == {j \in DOMAIN s : s[j].step = "forget" /\ s[j].n = n}
ToForget(s, n) == UNION {{j} \X (1 .. s[j].k) : j \in Waits(s, n)}

LEMMA ForgottenRead ==
  ASSUME NEW n
  PROVE  /\ Forgotten(n) = Cardinality(ToForget(behaviours, n))
         /\ Forgotten(n)' = Cardinality(ToForget(behaviours', n))
  BY DEF Forgotten, Forgetting, Waiting, ToForget, Waits

LEMMA ToForgetRead ==
  ASSUME NEW s, NEW n
  PROVE  \A z : z \in ToForget(s, n) <=>
           /\ z = <<z[1], z[2]>>
           /\ z[1] \in Waits(s, n) /\ z[2] \in 1 .. s[z[1]].k
<1> TAKE z
<1>1. z \in ToForget(s, n) <=> \E j \in Waits(s, n) : z \in {j} \X (1 .. s[j].k)
  BY DEF ToForget
<1>2. ASSUME NEW j
      PROVE  z \in {j} \X (1 .. s[j].k) <=> z = <<z[1], z[2]>> /\ z[1] = j /\ z[2] \in 1 .. s[j].k
  OBVIOUS
<1>3. QED
  BY <1>1, <1>2

LEMMA BatchSize ==
  ASSUME NEW j, NEW k \in Nat
  PROVE  IsFiniteSet({j} \X (1 .. k)) /\ Cardinality({j} \X (1 .. k)) = k
<1>1. IsFiniteSet({j}) /\ Cardinality({j}) = 1
  BY FS_Singleton
<1>2. IsFiniteSet(1 .. k) /\ Cardinality(1 .. k) = k
  <2>1. Cardinality(1 .. k) = IF 1 > k THEN 0 ELSE k - 1 + 1
    BY FS_Interval
  <2>2. QED
    BY <2>1, FS_Interval
<1>3. /\ IsFiniteSet({j} \X (1 .. k))
      /\ Cardinality({j} \X (1 .. k)) = Cardinality({j}) * Cardinality(1 .. k)
  BY <1>1, <1>2, FS_Product
<1>4. 1 * k = k
  OBVIOUS
<1>5. QED
  BY <1>1, <1>2, <1>3, <1>4

LEMMA ToForgetFinite ==
  ASSUME NEW s \in Seq(Records), NEW n
  PROVE  IsFiniteSet(ToForget(s, n)) /\ Cardinality(ToForget(s, n)) \in Nat
<1> DEFINE W == Waits(s, n)  f == [j \in W |-> {j} \X (1 .. s[j].k)]  T == {f[j] : j \in W}
<1>1. DOMAIN s = 1 .. Len(s) /\ Len(s) \in Nat /\ \A j \in DOMAIN s : s[j] \in Records
  BY LenProperties, ElementOfSeq
<1>2. IsFiniteSet(W)
  <2>1. IsFiniteSet(1 .. Len(s)) /\ W \in SUBSET (1 .. Len(s))
    BY <1>1, FS_Interval DEF Waits
  <2>2. QED
    BY <2>1, FS_Subset
<1>3. \A j \in W : s[j].k \in Nat
  BY <1>1 DEF Waits, Records
<1> HIDE DEF W
<1>4. f \in Surjection(W, T)
  BY DEF Surjection
<1>5. IsFiniteSet(T)
  BY <1>2, <1>4, FS_Surjection
<1>6. \A t \in T : IsFiniteSet(t)
  <2> TAKE t \in T
  <2>1. PICK j \in W : t = {j} \X (1 .. s[j].k)
    OBVIOUS
  <2>2. QED
    BY <1>3, <2>1, BatchSize
<1>7. ToForget(s, n) = UNION T
  BY DEF ToForget, W
<1> HIDE DEF T
<1>8. IsFiniteSet(ToForget(s, n))
  BY <1>5, <1>6, <1>7, FS_UNION
<1>9. QED
  BY <1>8, FS_CardinalityType

(* Taking a behaviour out takes out what it would forget.                   *)
LEMMA ToForgetShifted ==
  ASSUME NEW s \in Seq(Records), NEW t \in Seq(Records), NEW i, Shifted(s, t, i), NEW n
  PROVE  Cardinality(ToForget(t, n)) =
           Cardinality(ToForget(s, n)) - (IF i \in Waits(s, n) THEN s[i].k ELSE 0)
<1> DEFINE P == {i} \X (1 .. s[i].k)
           S == IF i \in Waits(s, n) THEN ToForget(s, n) \ P ELSE ToForget(s, n)
           f == [z \in ToForget(t, n) |-> <<From(i, z[1]), z[2]>>]
<1>1. /\ \A j \in DOMAIN t : From(i, j) \in DOMAIN s /\ From(i, j) # i /\ t[j] = s[From(i, j)]
      /\ \A j, k \in DOMAIN t : From(i, j) = From(i, k) => j = k
      /\ i \in DOMAIN s
  BY DEF Shifted, From
<1>2. \A k \in DOMAIN s : k # i => \E j \in DOMAIN t : From(i, j) = k
  <2> TAKE k \in DOMAIN s
  <2> HAVE k # i
  <2> DEFINE j == IF k < i THEN k ELSE k - 1
  <2>1. j \in DOMAIN t /\ From(i, j) = k
    BY DEF Shifted, From
  <2>2. QED
    BY <2>1
<1>3. \A j \in DOMAIN t : j \in Waits(t, n) <=> From(i, j) \in Waits(s, n)
  BY <1>1 DEF Waits
<1>4. \A z : z \in S <=> z \in ToForget(s, n) /\ z[1] # i
  <2> TAKE z
  <2>1. z \in ToForget(s, n) => (z \in P <=> z[1] = i)
    BY ToForgetRead
  <2>2. z \in ToForget(s, n) /\ z[1] = i => i \in Waits(s, n)
    BY ToForgetRead
  <2>3. QED
    BY <2>1, <2>2
<1> HIDE DEF S, P
<1>5. f \in [ToForget(t, n) -> S]
  <2> SUFFICES ASSUME NEW z \in ToForget(t, n)
               PROVE  <<From(i, z[1]), z[2]>> \in S
    OBVIOUS
  <2>1. z[1] \in DOMAIN t /\ z[1] \in Waits(t, n) /\ z[2] \in 1 .. t[z[1]].k
    BY ToForgetRead DEF Waits
  <2>2. From(i, z[1]) \in Waits(s, n) /\ From(i, z[1]) # i /\ t[z[1]] = s[From(i, z[1])]
    BY <1>1, <1>3, <2>1
  <2> DEFINE y == <<From(i, z[1]), z[2]>>
  <2>3. y = <<y[1], y[2]>> /\ y[1] = From(i, z[1]) /\ y[2] = z[2]
    OBVIOUS
  <2>4. y \in ToForget(s, n)
    <3>1. y[1] \in Waits(s, n) /\ y[2] \in 1 .. s[y[1]].k
      BY <2>1, <2>2, <2>3
    <3> HIDE DEF y
    <3>2. QED
      BY <2>3, <3>1, ToForgetRead
  <2>5. QED
    BY <1>4, <2>2, <2>3, <2>4
<1>6. \A y, z \in ToForget(t, n) : f[y] = f[z] => y = z
  <2> SUFFICES ASSUME NEW y \in ToForget(t, n), NEW z \in ToForget(t, n), f[y] = f[z]
               PROVE  y = z
    OBVIOUS
  <2>1. y = <<y[1], y[2]>> /\ z = <<z[1], z[2]>> /\ y[1] \in DOMAIN t /\ z[1] \in DOMAIN t
    BY ToForgetRead DEF Waits
  <2>2. From(i, y[1]) = From(i, z[1]) /\ y[2] = z[2]
    OBVIOUS
  <2>3. QED
    BY <1>1, <2>1, <2>2
<1>7. ASSUME NEW z \in S
      PROVE  \E y \in ToForget(t, n) : f[y] = z
  <2>1. z = <<z[1], z[2]>> /\ z[1] \in Waits(s, n) /\ z[2] \in 1 .. s[z[1]].k /\ z[1] # i /\ z[1] \in DOMAIN s
    BY <1>4, <1>7, ToForgetRead DEF Waits
  <2>2. PICK j \in DOMAIN t : From(i, j) = z[1]
    BY <1>2, <2>1
  <2> DEFINE y == <<j, z[2]>>
  <2>3. y = <<y[1], y[2]>> /\ y[1] = j /\ y[2] = z[2]
    OBVIOUS
  <2>4. y[1] \in Waits(t, n) /\ y[2] \in 1 .. t[y[1]].k
    BY <1>1, <1>3, <2>1, <2>2, <2>3
  <2> HIDE DEF y
  <2>5. y \in ToForget(t, n)
    BY <2>3, <2>4, ToForgetRead
  <2>6. f[y] = <<From(i, y[1]), y[2]>>
    BY <2>5
  <2>7. QED
    BY <2>1, <2>2, <2>3, <2>5, <2>6
<1>8. ExistsBijection(ToForget(t, n), S)
  <2>1. f \in Bijection(ToForget(t, n), S)
    BY <1>5, <1>6, <1>7 DEF Bijection, Injection, Surjection, IsInjective
  <2>2. QED
    BY <2>1 DEF ExistsBijection
<1>9. Cardinality(ToForget(t, n)) = Cardinality(S)
  BY <1>8, ToForgetFinite, FS_Bijection
<1>10. CASE i \in Waits(s, n)
  <2>1. s[i].k \in Nat
    <3>1. s[i] \in Records
      BY <1>1, ElementOfSeq, LenProperties
    <3>2. QED
      BY <3>1 DEF Records
  <2>2. IsFiniteSet(P) /\ Cardinality(P) = s[i].k
    BY <2>1, BatchSize DEF P
  <2>3. P \subseteq ToForget(s, n)
    BY <1>10 DEF ToForget, P
  <2>4. Cardinality(ToForget(s, n) \ P) = Cardinality(ToForget(s, n)) - Cardinality(ToForget(s, n) \cap P)
    BY ToForgetFinite, FS_Difference
  <2>5. ToForget(s, n) \cap P = P /\ S = ToForget(s, n) \ P
    BY <1>10, <2>3 DEF S
  <2>6. QED
    BY <1>9, <1>10, <2>2, <2>4, <2>5
<1>11. CASE i \notin Waits(s, n)
  BY <1>9, <1>11, ToForgetFinite DEF S
<1>12. QED
  BY <1>10, <1>11

LEMMA ToForgetGrown ==
  ASSUME NEW s \in Seq(Records), NEW t, NEW x \in Records, Grown(s, t, x), NEW n
  PROVE  Cardinality(ToForget(t, n)) =
           Cardinality(ToForget(s, n)) + (IF x.step = "forget" /\ x.n = n THEN x.k ELSE 0)
<1> DEFINE l == Len(s) + 1  P == {l} \X (1 .. x.k)
<1>1. /\ DOMAIN t = 1 .. l /\ DOMAIN s = 1 .. Len(s) /\ Len(s) \in Nat
      /\ \A j \in DOMAIN s : t[j] = s[j]
      /\ t[l] = x /\ l \notin DOMAIN s /\ DOMAIN t = DOMAIN s \cup {l}
  BY DEF Grown
<1> HIDE DEF l
<1>2. CASE x.step = "forget" /\ x.n = n
  <2>1. Waits(t, n) = Waits(s, n) \cup {l}
    BY <1>1, <1>2 DEF Waits
  <2>2. ToForget(t, n) = ToForget(s, n) \cup P
    BY <1>1, <2>1 DEF ToForget, Waits
  <2>3. ToForget(s, n) \cap P = {}
    BY <1>1, ToForgetRead DEF Waits
  <2>4. x.k \in Nat
    BY DEF Records
  <2>5. IsFiniteSet(P) /\ Cardinality(P) = x.k
    BY <2>4, BatchSize
  <2>6. IsFiniteSet(ToForget(s, n)) /\ Cardinality(ToForget(s, n)) \in Nat
    BY ToForgetFinite
  <2> HIDE DEF P
  <2>7. /\ Cardinality(ToForget(s, n) \cup P)
             = Cardinality(ToForget(s, n)) + Cardinality(P) - Cardinality(ToForget(s, n) \cap P)
    BY <2>5, <2>6, FS_Union
  <2>8. Cardinality(ToForget(s, n) \cap P) = 0
    BY <2>3, FS_EmptySet
  <2>9. QED
    BY <1>2, <2>2, <2>4, <2>5, <2>6, <2>7, <2>8
<1>3. CASE ~(x.step = "forget" /\ x.n = n)
  <2>1. Waits(t, n) = Waits(s, n) /\ \A j \in Waits(s, n) : t[j] = s[j]
    BY <1>1, <1>3 DEF Waits
  <2>2. ToForget(t, n) = ToForget(s, n)
    BY <2>1 DEF ToForget
  <2>3. QED
    BY <1>3, <2>2, ToForgetFinite
<1>4. QED
  BY <1>2, <1>3

------------------------------------------------------------------------------
(* Whether a step waits for an inode.                                       *)
Has(s, step, n) == \E j \in DOMAIN s : s[j].step = step /\ s[j].n = n

LEMMA HasRead ==
  ASSUME NEW n
  PROVE  /\ Adding(n) <=> Has(behaviours, "add", n)
         /\ Adding(n)' <=> Has(behaviours', "add", n)
         /\ Unlinking(n) <=> Has(behaviours, "unlinked", n)
         /\ Unlinking(n)' <=> Has(behaviours', "unlinked", n)
  BY DEF Adding, Unlinking, Waiting, Has

LEMMA HasShifted ==
  ASSUME NEW s, NEW t, NEW i, Shifted(s, t, i), NEW step, NEW n
  PROVE  Has(t, step, n) <=> \E k \in DOMAIN s : k # i /\ s[k].step = step /\ s[k].n = n
<1>1. \A j \in DOMAIN t : From(i, j) \in DOMAIN s /\ From(i, j) # i /\ t[j] = s[From(i, j)]
  BY DEF Shifted, From
<1>2. \A k \in DOMAIN s : k # i => \E j \in DOMAIN t : From(i, j) = k
  <2> TAKE k \in DOMAIN s
  <2> HAVE k # i
  <2> DEFINE j == IF k < i THEN k ELSE k - 1
  <2>1. j \in DOMAIN t /\ From(i, j) = k
    BY DEF Shifted, From
  <2>2. QED
    BY <2>1
<1>3. QED
  BY <1>1, <1>2 DEF Has

LEMMA HasGrown ==
  ASSUME NEW s, NEW t, NEW x, Grown(s, t, x), NEW step, NEW n
  PROVE  Has(t, step, n) <=> Has(s, step, n) \/ (x.step = step /\ x.n = n)
<1>1. /\ DOMAIN t = DOMAIN s \cup {Len(s) + 1} /\ t[Len(s) + 1] = x
      /\ \A j \in DOMAIN s : t[j] = s[j]
  BY DEF Grown
<1>2. QED
  BY <1>1 DEF Has

LEMMA ReplacedSteps ==
  ASSUME NEW s \in Seq(Records), NEW i \in DOMAIN s, NEW x \in Records,
         NEW t, t = Append(RemoveAt(s, i), x)
  PROVE  \E u \in Seq(Records) : Shifted(s, u, i) /\ Grown(u, t, x)
  BY ShiftedSeq, GrownSeq

LEMMA ReplacedIs ==
  ASSUME NEW s \in Seq(Records), NEW t \in Seq(Records), NEW i \in DOMAIN s, NEW x \in Records,
         Replaced(s, t, i, x)
  PROVE  t = Append(RemoveAt(s, i), x)
<1> DEFINE u == Append(RemoveAt(s, i), x)
<1>1. u \in Seq(Records) /\ Replaced(s, u, i, x)
  BY ReplacedSeq
<1> HIDE DEF u
<1>2. DOMAIN t = DOMAIN u /\ \A j \in DOMAIN t : t[j] = u[j]
  BY <1>1 DEF Replaced
<1>3. Len(t) = Len(u) /\ DOMAIN t = 1 .. Len(t)
  BY <1>1, <1>2, LenProperties
<1>4. t = u
  BY <1>1, <1>2, <1>3, SeqEqual
<1>5. QED
  BY <1>4 DEF u

LEMMA HasReplaced ==
  ASSUME NEW s \in Seq(Records), NEW t \in Seq(Records), NEW i \in DOMAIN s, NEW x \in Records,
         Replaced(s, t, i, x), NEW step, NEW n
  PROVE  Has(t, step, n) <=>
           \/ \E k \in DOMAIN s : k # i /\ s[k].step = step /\ s[k].n = n
           \/ x.step = step /\ x.n = n
<1>1. PICK u \in Seq(Records) : Shifted(s, u, i) /\ Grown(u, t, x)
  BY ReplacedIs, ReplacedSteps
<1>2. QED
  BY <1>1, HasShifted, HasGrown

LEMMA ToForgetReplaced ==
  ASSUME NEW s \in Seq(Records), NEW t \in Seq(Records), NEW i \in DOMAIN s, NEW x \in Records,
         Replaced(s, t, i, x), NEW n, s[i].step # "forget", x.step # "forget"
  PROVE  Cardinality(ToForget(t, n)) = Cardinality(ToForget(s, n))
<1>1. PICK u \in Seq(Records) : Shifted(s, u, i) /\ Grown(u, t, x)
  BY ReplacedIs, ReplacedSteps
<1>2. Cardinality(ToForget(u, n)) = Cardinality(ToForget(s, n)) - 0
  BY <1>1, ToForgetShifted DEF Waits
<1>3. Cardinality(ToForget(t, n)) = Cardinality(ToForget(u, n)) + 0
  BY <1>1, ToForgetGrown
<1>4. QED
  BY <1>2, <1>3, ToForgetFinite

------------------------------------------------------------------------------
(* At most one add_inode waits for an inode, and none when a behaviour that *)
(* shares a cown with it runs.                                              *)
LEMMA OneAdd ==
  ASSUME Typed, OwnRequests, AddsFirst, NEW i \in DOMAIN behaviours, NEW j \in DOMAIN behaviours,
         behaviours[i].step = "add", behaviours[j].step = "add", behaviours[i].n = behaviours[j].n
  PROVE  i = j
<1>1. behaviours[i].n \in Inodes
  BY Running DEF FoundOK, Servants
<1>2. behaviours[i].n \in Uses(behaviours[i]) /\ behaviours[j].n \in Uses(behaviours[j])
  BY <1>1 DEF Uses
<1>3. i <= j /\ j <= i
  BY <1>2 DEF AddsFirst
<1>4. i \in Nat /\ j \in Nat
  BY LenProperties DEF Typed
<1>5. QED
  BY <1>3, <1>4

LEMMA NotAdding ==
  ASSUME Typed, OwnRequests, AddsFirst, NEW i \in DOMAIN behaviours,
         \A j \in 1 .. i - 1 : behaviours[j].on \cap behaviours[i].on = {},
         behaviours[i].step # "add",
         NEW n \in Uses(behaviours[i]), {n, TableOf(n)} \cap behaviours[i].on # {}
  PROVE  ~Adding(n)
<1> SUFFICES ASSUME NEW j \in DOMAIN behaviours, behaviours[j].step = "add", behaviours[j].n = n
             PROVE  FALSE
  BY DEF Adding, Waiting
<1>1. j <= i /\ j # i
  BY DEF AddsFirst
<1>2. j \in 1 .. i - 1
  BY <1>1, LenProperties DEF Typed
<1>3. {n, TableOf(n)} \subseteq behaviours[j].on
  BY Running DEF OnOK, Servants
<1>4. QED
  BY <1>2, <1>3

LEMMA PinsUsed ==
  ASSUME Typed, OwnRequests, NEW i \in DOMAIN behaviours, NEW n \in behaviours[i].r.pins
  PROVE  n \in Uses(behaviours[i])
<1>1. behaviours[i].r \in Requests
  BY Running
<1>2. QED
  BY <1>1 DEF Uses, Requests

------------------------------------------------------------------------------
(* The lookups.                                                             *)
Quiet(i) ==   \* runs without counting a lookup
  /\ krefs' = krefs /\ kernel' = kernel /\ tables' = tables /\ made' = made
  /\ behaviours[i].step \notin Servants \cup {"get"}

LEMMA QuietOrNot ==
  ASSUME NEW i, RunBehaviour(i)
  PROVE  \/ Quiet(i) \/ GetInode(i) \/ (\E op \in {"create", "mkdir"} : MakeEntry(i, op))
         \/ AddInode(i) \/ Forget(i)
<1>1. CASE LookupEntry(i) \/ RmdirEntry(i) \/ RenameFind(i) \/ UnlinkEntry(i)
  BY <1>1 DEF LookupEntry, RmdirEntry, RenameFind, UnlinkEntry, counts, Quiet,
              Runs, Servants, ReplyFail, Reply, GoesOn, asked
<1>2. CASE RenameDenied(i) \/ RenameTwo(i) \/ RenameTables(i) \/ Refuse(i) \/ UseInode(i) \/ Setattr(i)
  BY <1>2 DEF RenameDenied, RenameTwo, RenameTables, Refuse, UseInode, Setattr, counts, Quiet,
              Runs, Servants, ReplyFail, Reply, GoesOn, asked
<1>3. CASE UnlinkCount(i) \/ RmdirRemove(i) \/ RenameMove(i) \/ RenameReplace(i)
  BY <1>3 DEF UnlinkCount, RmdirRemove, RenameMove, RenameReplace, Quiet,
              Runs, Servants, ReplyFail, Reply, GoesOn, asked
<1>4. QED
  BY <1>1, <1>2, <1>3 DEF RunBehaviour

(* What waits stays, when a quiet behaviour runs.                           *)
LEMMA QuietWaiting ==
  ASSUME Typed, Typed', NEW i \in DOMAIN behaviours, Quiet(i) \/ GetInode(i), RunKind(i), NEW n
  PROVE  (Adding(n)' <=> Adding(n)) /\ Forgotten(n)' = Forgotten(n)
<1>1. behaviours[i].step \notin Servants /\ made' = made
  BY DEF Quiet, GetInode, Runs, Servants
<1>2. behaviours \in Seq(Records) /\ behaviours' \in Seq(Records)
  BY DEF Typed
<1>3. CASE Shifted(behaviours, behaviours', i)
  <2>1. i \notin Waits(behaviours, n)
    BY <1>1 DEF Waits, Servants
  <2>2. Cardinality(ToForget(behaviours', n)) = Cardinality(ToForget(behaviours, n)) - 0
    BY <1>2, <1>3, <2>1, ToForgetShifted
  <2>3. Has(behaviours', "add", n) <=> Has(behaviours, "add", n)
    BY <1>1, <1>3, HasShifted DEF Has, Servants
  <2>4. QED
    BY <1>2, <2>2, <2>3, HasRead, ForgottenRead, ToForgetFinite
<1>4. ASSUME NEW x \in Records, Replaced(behaviours, behaviours', i, x),
             GoesOnAs(i, x) \/ LeavesAdd(i, x)
      PROVE  (Adding(n)' <=> Adding(n)) /\ Forgotten(n)' = Forgotten(n)
  <2>1. x.step \notin Servants
    BY <1>1, <1>4 DEF GoesOnAs, LeavesAdd
  <2>2. Cardinality(ToForget(behaviours', n)) = Cardinality(ToForget(behaviours, n))
    BY <1>1, <1>2, <1>4, <2>1, ToForgetReplaced DEF Servants
  <2>3. Has(behaviours', "add", n) <=> Has(behaviours, "add", n)
    BY <1>1, <1>2, <1>4, <2>1, HasReplaced DEF Has, Servants
  <2>4. QED
    BY <2>2, <2>3, HasRead, ForgottenRead
<1>5. QED
  BY <1>3, <1>4 DEF RunKind

LEMMA ForgottenNat ==
  ASSUME Typed, NEW n
  PROVE  Forgotten(n) \in Nat
  BY ForgottenRead, ToForgetFinite DEF Typed

Owed(n) == kernel[n] + Forgotten(n) - (IF Adding(n) THEN 1 ELSE 0)
LEMMA LookupsAsk ==
  ASSUME Typed, LookupsCounted, NEW c \in Clients, NEW r, NEW x, AskKind(c, r, x)
  PROVE  LookupsCounted' /\ \A n : (Adding(n)' <=> Adding(n)) /\ (Unlinking(n)' <=> Unlinking(n))
<1>1. /\ Grown(behaviours, behaviours', x) /\ x \in Records /\ x.step \notin {"add", "forget", "unlinked"}
      /\ krefs' = krefs /\ kernel' = kernel
  BY DEF AskKind, Requests, Ops, counts
<1>2. \A n : (Adding(n)' <=> Adding(n)) /\ (Unlinking(n)' <=> Unlinking(n))
  BY <1>1, HasGrown, HasRead
<1>3. ASSUME NEW n
      PROVE  Forgotten(n)' = Forgotten(n)
  <2>1. Cardinality(ToForget(behaviours', n)) = Cardinality(ToForget(behaviours, n)) + 0
    BY <1>1, ToForgetGrown DEF Typed
  <2>2. QED
    BY <2>1, ForgottenRead, ToForgetFinite DEF Typed
<1>4. QED
  BY <1>1, <1>2, <1>3 DEF LookupsCounted

LEMMA LookupsForget ==
  ASSUME Typed, LookupsCounted, NEW n \in Inodes, NEW x, ForgetKindOf(n, x)
  PROVE  /\ LookupsCounted'
         /\ \A m : (Adding(m)' <=> Adding(m)) /\ (Unlinking(m)' <=> Unlinking(m))
<1>1. /\ Grown(behaviours, behaviours', x) /\ x \in Records /\ x.step = "forget" /\ x.n = n
      /\ x.k = kernel[n] /\ krefs' = krefs /\ kernel' = [kernel EXCEPT ![n] = 0]
  BY DEF ForgetKindOf, counts
<1>2. \A m : (Adding(m)' <=> Adding(m)) /\ (Unlinking(m)' <=> Unlinking(m))
  BY <1>1, HasGrown, HasRead
<1>3. ASSUME NEW m \in Inodes
      PROVE  krefs'[m] = kernel'[m] + Forgotten(m)' - (IF Adding(m) THEN 1 ELSE 0)
  <2>1. Cardinality(ToForget(behaviours', m)) =
          Cardinality(ToForget(behaviours, m)) + (IF n = m THEN kernel[n] ELSE 0)
    BY <1>1, ToForgetGrown DEF Typed
  <2>2. Forgotten(m)' = Forgotten(m) + (IF n = m THEN kernel[n] ELSE 0)
    BY <2>1, ForgottenRead
  <2>3. krefs[m] = kernel[m] + Forgotten(m) - (IF Adding(m) THEN 1 ELSE 0)
    BY DEF LookupsCounted
  <2>4. kernel[m] \in Nat /\ Forgotten(m) \in Nat
    BY ForgottenNat DEF Typed
  <2>5. kernel'[m] = IF n = m THEN 0 ELSE kernel[m]
    BY <1>1 DEF Typed
  <2>6. QED
    BY <1>1, <2>2, <2>3, <2>4, <2>5
<1>4. QED
  BY <1>1, <1>2, <1>3 DEF LookupsCounted

LEMMA LookupsRun ==
  ASSUME Typed, OwnRequests, MadeOnes, AddsFirst, RoomToMake, LookupsCounted, Typed',
         NEW i \in DOMAIN behaviours, RunBehaviour(i), RunKind(i)
  PROVE  LookupsCounted'
<1> SUFFICES ASSUME NEW n \in Inodes
             PROVE  krefs'[n] = kernel'[n] + Forgotten(n)' - (IF Adding(n)' THEN 1 ELSE 0)
  BY DEF LookupsCounted
<1>1. /\ krefs[n] = kernel[n] + Forgotten(n) - (IF Adding(n) THEN 1 ELSE 0)
      /\ krefs[n] \in Int /\ kernel[n] \in Nat /\ Forgotten(n) \in Nat
  BY ForgottenNat DEF LookupsCounted, Typed
<1>2. CASE Quiet(i)
  <2>1. (Adding(n)' <=> Adding(n)) /\ Forgotten(n)' = Forgotten(n)
    BY <1>2, QuietWaiting
  <2>2. QED
    BY <1>1, <1>2, <2>1 DEF Quiet
<1>3. CASE GetInode(i)
  <2> DEFINE m == behaviours[i].n
  <2>1. (Adding(n)' <=> Adding(n)) /\ Forgotten(n)' = Forgotten(n)
    BY <1>3, QuietWaiting
  <2>2. krefs' = [krefs EXCEPT ![m] = @ + 1] /\ kernel' = [kernel EXCEPT ![m] = @ + 1]
    BY <1>3 DEF GetInode, ReplyEntry
  <2> HIDE DEF m
  <2>3. /\ krefs'[n] = IF n = m THEN krefs[n] + 1 ELSE krefs[n]
        /\ kernel'[n] = IF n = m THEN kernel[n] + 1 ELSE kernel[n]
    BY <2>2 DEF Typed
  <2>4. CASE Adding(n)
    BY <1>1, <2>1, <2>3, <2>4
  <2>5. CASE ~Adding(n)
    BY <1>1, <2>1, <2>3, <2>5
  <2>6. QED
    BY <2>4, <2>5
<1>4. ASSUME NEW op \in {"create", "mkdir"}, MakeEntry(i, op)
      PROVE  krefs'[n] = kernel'[n] + Forgotten(n)' - (IF Adding(n)' THEN 1 ELSE 0)
  <2> DEFINE m == Makes(op)  y == Behaviour("add", None, Idle, m, None, {m, TableOf(m)})
  <2>1. behaviours[i].step = op
    BY <1>4 DEF MakeEntry, Runs
  <2>2. m \in Inodes /\ m \notin made
    BY <2>1, Room
  <2>3. Follows(i, y) /\ kernel' = [kernel EXCEPT ![m] = @ + 1] /\ krefs' = krefs
    BY <1>4 DEF MakeEntry, ReplyEntry, Makes
  <2>4. y \in Records /\ y.step = "add" /\ y.n = m
    <3>1. "add" \in Steps /\ {m, TableOf(m)} \in SUBSET (Inodes \cup {FilesTable, DirsTable})
      BY <2>2, TableOfType DEF Steps
    <3>2. QED
      BY <2>2, <3>1, RecordMade, IdleRequest
  <2> HIDE DEF m, y
  <2>5. Replaced(behaviours, behaviours', i, y)
    BY <2>3, <2>4, FollowsShape
  <2>0. behaviours \in Seq(Records) /\ behaviours' \in Seq(Records)
    BY DEF Typed
  <2>6. Cardinality(ToForget(behaviours', n)) = Cardinality(ToForget(behaviours, n))
    <3>1. behaviours[i].step # "forget" /\ y.step # "forget"
      BY <2>1, <2>4
    <3>2. QED
      BY ONLY i \in DOMAIN behaviours, <2>0, <2>4, <2>5, <3>1, ToForgetReplaced
  <2>7. Forgotten(n)' = Forgotten(n)
    BY <2>6, ForgottenRead
  <2>8. Has(behaviours', "add", n) <=> Has(behaviours, "add", n) \/ n = m
    <3>1. Has(behaviours', "add", n) <=>
            \/ \E k \in DOMAIN behaviours : k # i /\ behaviours[k].step = "add" /\ behaviours[k].n = n
            \/ y.step = "add" /\ y.n = n
      BY ONLY i \in DOMAIN behaviours, <2>0, <2>4, <2>5, HasReplaced
    <3>2. behaviours[i].step # "add"
      BY <2>1
    <3>3. QED
      BY <2>4, <3>1, <3>2 DEF Has
  <2>9. ~Adding(m)
    BY <2>2, NoneApart DEF Adding, Waiting, MadeOnes
  <2>10. kernel'[n] = IF n = m THEN kernel[n] + 1 ELSE kernel[n]
    BY <2>3 DEF Typed
  <2>11. CASE n = m
    BY <1>1, <2>3, <2>7, <2>8, <2>9, <2>10, <2>11, HasRead
  <2>12. CASE n # m
    BY <1>1, <2>3, <2>7, <2>8, <2>10, <2>12, HasRead
  <2>13. QED
    BY <2>11, <2>12
<1>5. CASE AddInode(i)
  <2> DEFINE m == behaviours[i].n
  <2>1. behaviours[i].step = "add" /\ Ends(i) /\ kernel' = kernel /\ krefs' = [krefs EXCEPT ![m] = @ + 1]
    BY <1>5 DEF AddInode, Runs, asked
  <2>2. Shifted(behaviours, behaviours', i)
    BY <2>1, EndsShape
  <2>3. Forgotten(n)' = Forgotten(n)
    <3>1. i \notin Waits(behaviours, n)
      BY <2>1 DEF Waits
    <3>2. Cardinality(ToForget(behaviours', n)) = Cardinality(ToForget(behaviours, n)) - 0
      BY <2>2, <3>1, ToForgetShifted DEF Typed
    <3>3. QED
      BY <1>1, <3>2, ForgottenRead
  <2>4. Adding(m)
    BY <2>1 DEF Adding, Waiting
  <2>5. Adding(n)' <=> Adding(n) /\ n # m
    <3>1. Adding(n)' <=> \E k \in DOMAIN behaviours : k # i /\ behaviours[k].step = "add" /\ behaviours[k].n = n
      BY <2>2, HasShifted, HasRead
    <3>2. QED
      BY <2>1, <3>1, OneAdd DEF Adding, Waiting
  <2> HIDE DEF m
  <2>6. krefs'[n] = IF n = m THEN krefs[n] + 1 ELSE krefs[n]
    BY <2>1 DEF Typed
  <2>7. CASE n = m
    BY <1>1, <2>1, <2>3, <2>4, <2>5, <2>6, <2>7
  <2>8. CASE n # m
    BY <1>1, <2>1, <2>3, <2>5, <2>6, <2>8
  <2>9. QED
    BY <2>7, <2>8
<1>6. CASE Forget(i)
  <2> DEFINE m == behaviours[i].n  k == behaviours[i].k
  <2>1. behaviours[i].step = "forget" /\ Ends(i) /\ kernel' = kernel
        /\ krefs' = [krefs EXCEPT ![m] = krefs[m] - k]
    BY <1>6 DEF Forget, Runs, asked
  <2>2. Shifted(behaviours, behaviours', i)
    BY <2>1, EndsShape
  <2>3. k \in Nat
    BY Running DEF Records
  <2>4. Forgotten(n)' = Forgotten(n) - (IF n = m THEN k ELSE 0)
    <3>1. i \in Waits(behaviours, n) <=> n = m
      BY <2>1 DEF Waits
    <3>2. QED
      BY <2>2, <3>1, ToForgetShifted, ForgottenRead DEF Typed
  <2>5. Adding(n)' <=> Adding(n)
    BY <2>1, <2>2, HasShifted, HasRead DEF Has
  <2> HIDE DEF m, k
  <2>6. krefs'[n] = IF n = m THEN krefs[n] - k ELSE krefs[n]
    BY <2>1 DEF Typed
  <2>7. CASE Adding(n)
    BY <1>1, <2>1, <2>3, <2>4, <2>5, <2>6, <2>7
  <2>8. CASE ~Adding(n)
    BY <1>1, <2>1, <2>3, <2>4, <2>5, <2>6, <2>8
  <2>9. QED
    BY <2>7, <2>8
<1>7. QED
  BY <1>2, <1>3, <1>4, <1>5, <1>6, QuietOrNot

------------------------------------------------------------------------------
(* What a behaviour may write into the directories: for a request that      *)
(* changes names, into directories and about inodes that it has pinned.     *)
Puts(i) ==
  /\ Target(i) = None /\ request'[Client(i)] = Idle
  /\ \E n \in Inodes \ made : entries' = With(R(i).p, R(i).a, n)
Cuts(i) ==
  /\ Target(i) \in R(i).pins \cap Inodes
  /\ request'[Client(i)] = Idle \/ Target(i) \in Files
  /\ entries' = With(R(i).p, R(i).a, None)
MovesTo(i, m) ==
  /\ Target(i) \in R(i).pins \cap Inodes /\ request'[Client(i)] = Idle
  /\ R(i).q \in Dirs /\ R(i).b \in Names /\ R(i).q \in R(i).pins
  /\ entries[R(i).q][R(i).b] = m /\ m \in {None} \cup (Files \cap R(i).pins)
  /\ <<R(i).p, R(i).a>> # <<R(i).q, R(i).b>>
  /\ entries' = Moved(R(i), Target(i), R(i).b)
Writes(i) ==
  /\ behaviours[i].step \notin Servants \cup {"use", "setattr", "lookup", "get"}
  /\ Puts(i) \/ Cuts(i) \/ \E m \in Inodes \cup {None} : MovesTo(i, m)
EntryStep(i) == entries' = entries \/ Writes(i)

LEMMA WriterFacts ==
  ASSUME Typed, OwnRequests, NEW i \in DOMAIN behaviours,
         behaviours[i].step \notin Servants \cup {"use", "setattr", "lookup", "get"}
  PROVE  /\ Client(i) \in Clients /\ R(i) = request[Client(i)] /\ R(i).op \in Changing
         /\ R(i).p \in Dirs /\ R(i).a \in Names /\ R(i).p \in R(i).pins
         /\ R(i).pins \subseteq Inodes
<1>1. behaviours[i] \in Records /\ R(i) = behaviours[i].r /\ R(i) \in Requests /\ R(i).op = OpOf(behaviours[i].step)
      /\ Client(i) \in Clients /\ R(i) = request[Client(i)]
  BY Running
<1>2. behaviours[i].step \in Steps
  BY <1>1 DEF Records
<1>3. R(i).op \in Changing
  BY <1>1, <1>2 DEF Steps, OpOf, RenameSteps, Changing, Servants
<1>4. R(i).pins \subseteq Inodes
  BY <1>1 DEF Requests
<1>5. QED
  BY <1>1, <1>3, <1>4, RunningPlaces

(* Directories that are not pinned by the writer keep their entries.        *)
LEMMA WritesFrame ==
  ASSUME Typed, OwnRequests, NEW i \in DOMAIN behaviours, Writes(i),
         NEW d \in Dirs, d \notin R(i).pins, NEW a \in Names
  PROVE  entries'[d][a] = entries[d][a]
<1>1. R(i).p \in Dirs /\ R(i).a \in Names /\ R(i).p \in R(i).pins
  BY WriterFacts DEF Writes
<1>2. CASE Puts(i)
  <2>1. PICK n \in Inodes \ made : entries' = With(R(i).p, R(i).a, n)
    BY <1>2 DEF Puts
  <2>2. QED
    BY <1>1, <2>1, WithType
<1>3. CASE Cuts(i)
  BY <1>1, <1>3, WithType DEF Cuts
<1>4. ASSUME NEW m \in Inodes \cup {None}, MovesTo(i, m)
      PROVE  entries'[d][a] = entries[d][a]
  BY <1>1, <1>4, MovedType DEF MovesTo
<1>5. QED
  BY <1>2, <1>3, <1>4 DEF Writes

(* Inodes that are not pinned by the writer keep their names.               *)
LEMMA WritesNames ==
  ASSUME Typed, OwnRequests, OneName, NEW i \in DOMAIN behaviours, Writes(i), NEW k \in made
  PROVE  /\ k \notin R(i).pins => (Named(k)' <=> Named(k))
         /\ k \in Dirs /\ request'[Client(i)] # Idle => (Named(k)' <=> Named(k))
<1> DEFINE p == R(i).p  a == R(i).a
<1>1. p \in Dirs /\ a \in Names /\ p \in R(i).pins
  BY WriterFacts DEF Writes
<1>2. k \in Inodes /\ k # None
  BY NoneApart DEF Typed
<1>3. CASE Puts(i)
  <2>1. PICK n \in Inodes \ made : entries' = With(p, a, n)
    BY <1>3 DEF Puts
  <2>2. /\ \A d \in Dirs, b \in Names : entries'[d][b] = IF <<d, b>> = <<p, a>> THEN n ELSE entries[d][b]
        /\ entries[p][a] = None
    BY <1>1, <1>3, <2>1, WithType DEF Puts, Target
  <2> HIDE DEF p, a
  <2>3. Named(k)' <=> Named(k)
    BY <1>1, <1>2, <2>2 DEF Named
  <2>4. QED
    BY <2>3
<1>4. CASE Cuts(i)
  <2>1. /\ \A d \in Dirs, b \in Names : entries'[d][b] = IF <<d, b>> = <<p, a>> THEN None ELSE entries[d][b]
        /\ entries[p][a] \in R(i).pins /\ (request'[Client(i)] = Idle \/ entries[p][a] \in Files)
    BY <1>1, <1>4, WithType DEF Cuts, Target
  <2>2. k # entries[p][a] => (Named(k)' <=> Named(k))
    <3> HIDE DEF p, a
    <3>1. QED
      BY <1>1, <1>2, <2>1 DEF Named
  <2>3. QED
    BY <2>1, <2>2, NamespaceAssumption
<1>5. ASSUME NEW m \in Inodes \cup {None}, MovesTo(i, m)
      PROVE  /\ request'[Client(i)] = Idle
             /\ k \notin R(i).pins => (Named(k)' <=> Named(k))
  <2> DEFINE q == R(i).q  b == R(i).b
  <2>1. /\ \A d \in Dirs, c \in Names :
             entries'[d][c] = IF <<d, c>> = <<q, b>> THEN entries[p][a]
                              ELSE IF <<d, c>> = <<p, a>> THEN None ELSE entries[d][c]
        /\ entries[p][a] \in R(i).pins /\ (entries[q][b] = None \/ entries[q][b] \in R(i).pins)
        /\ q \in Dirs /\ b \in Names
    <3>1. Target(i) = entries[p][a] /\ Target(i) \in Inodes \cup {None}
      BY <1>5 DEF MovesTo, Target
    <3>2. QED
      BY <1>1, <1>5, <3>1, MovedType DEF MovesTo
  <2> HIDE DEF p, a, q, b
  <2>2. k \notin R(i).pins => (Named(k)' <=> Named(k))
    BY <1>1, <1>2, <2>1 DEF Named
  <2>3. QED
    BY <1>5, <2>2 DEF MovesTo
<1>6. QED
  BY <1>3, <1>4, <1>5 DEF Writes

LEMMA OneNameStep ==
  ASSUME Typed, OwnRequests, MadeOnes, OneName, NEW i \in DOMAIN behaviours, EntryStep(i)
  PROVE  OneName'
<1> DEFINE p == R(i).p  a == R(i).a
<1>1. CASE entries' = entries
  BY <1>1 DEF OneName
<1>2. CASE Writes(i)
  <2>1. p \in Dirs /\ a \in Names
    BY <1>2, WriterFacts DEF Writes
  <2>2. CASE Puts(i)
    <3>1. PICK n \in Inodes \ made : entries' = With(p, a, n)
      BY <2>2 DEF Puts
    <3>2. \A d \in Dirs, b \in Names : entries'[d][b] = IF <<d, b>> = <<p, a>> THEN n ELSE entries[d][b]
      BY <2>1, <3>1, WithType
    <3>3. n # Root /\ \A d \in Dirs, b \in Names : entries[d][b] # n
      BY <3>1, NoneApart DEF Typed, MadeOnes
    <3> HIDE DEF p, a
    <3>4. QED
      BY <3>2, <3>3 DEF OneName
  <2>3. CASE Cuts(i)
    <3>1. \A d \in Dirs, b \in Names : entries'[d][b] = IF <<d, b>> = <<p, a>> THEN None ELSE entries[d][b]
      BY <2>1, <2>3, WithType DEF Cuts
    <3> HIDE DEF p, a
    <3>2. QED
      BY <3>1 DEF OneName
  <2>4. ASSUME NEW m \in Inodes \cup {None}, MovesTo(i, m)
        PROVE  OneName'
    <3> DEFINE q == R(i).q  b == R(i).b
    <3>1. /\ \A d \in Dirs, c \in Names :
               entries'[d][c] = IF <<d, c>> = <<q, b>> THEN entries[p][a]
                                ELSE IF <<d, c>> = <<p, a>> THEN None ELSE entries[d][c]
          /\ q \in Dirs /\ b \in Names
      <4>1. Target(i) = entries[p][a] /\ Target(i) \in Inodes \cup {None}
        BY <2>4 DEF MovesTo, Target
      <4>2. QED
        BY <2>1, <2>4, <4>1, MovedType DEF MovesTo
    <3> HIDE DEF p, a, q, b
    <3>2. \A d, e \in Dirs, c, f \in Names :
            entries[d][c] # None =>
              entries[d][c] # Root /\ (entries[d][c] = entries[e][f] => d = e /\ c = f)
      BY DEF OneName
    <3>3. ASSUME NEW d \in Dirs, NEW e \in Dirs, NEW c \in Names, NEW f \in Names, entries'[d][c] # None
          PROVE  entries'[d][c] # Root /\ (entries'[d][c] = entries'[e][f] => d = e /\ c = f)
      <4>1. CASE d = q /\ c = b
        BY <2>1, <3>1, <3>2, <3>3, <4>1
      <4>2. CASE ~(d = q /\ c = b)
        BY <2>1, <3>1, <3>2, <3>3, <4>2
      <4>3. QED
        BY <4>1, <4>2
    <3>4. QED
      BY <3>3 DEF OneName
  <2>5. QED
    BY <1>2, <2>2, <2>3, <2>4 DEF Writes
<1>3. QED
  BY <1>1, <1>2 DEF EntryStep

------------------------------------------------------------------------------
(* What a behaviour that runs writes, and what the next one has captured.   *)
NewCaptured(i) ==
  Ends(i) \/ \E y : Follows(i, y) /\ CapturedOK(y)' /\ (y.step = "get" => Named(y.n)')

LEMMA SpawnsFields ==
  ASSUME NEW i, NEW step, NEW n, NEW m, NEW on, Spawns(i, step, n, m, on)
  PROVE  \E y : /\ Follows(i, y) /\ y.step = step /\ y.c = Client(i) /\ y.r = R(i)
                /\ y.n = n /\ y.m = m
<1> DEFINE y == Behaviour(step, Client(i), R(i), n, m, on)
<1>1. Follows(i, y)
  BY DEF Spawns
<1>2. y.step = step /\ y.c = Client(i) /\ y.r = R(i) /\ y.n = n /\ y.m = m
  BY DEF Behaviour
<1> HIDE DEF y
<1>3. QED
  BY <1>1, <1>2

(* A behaviour that has captured nothing.                                   *)
LEMMA NothingCaptured ==
  ASSUME NEW y, y.step \notin {"unlink", "rmdir", "remove", "unlinked"} \cup RenameSteps
  PROVE  CapturedOK(y) /\ CapturedOK(y)'
<1>1. y.step \notin {"remove", "move", "tables", "replace"} /\ y.step \notin {"tables", "replace"}
  BY DEF RenameSteps
<1>2. QED
  BY <1>1 DEF CapturedOK

LEMMA EndCaptures ==
  ASSUME NEW i, \/ GetInode(i) \/ Refuse(i) \/ AddInode(i) \/ UnlinkCount(i)
                \/ RenameDenied(i) \/ Forget(i) \/ UseInode(i) \/ Setattr(i)
  PROVE  EntryStep(i) /\ NewCaptured(i)
  BY DEF GetInode, Refuse, AddInode, UnlinkCount, RenameDenied, Forget, UseInode, Setattr,
         EntryStep, NewCaptured

LEMMA LookupCaptures ==
  ASSUME Typed, OwnRequests, NEW i \in DOMAIN behaviours, LookupEntry(i)
  PROVE  EntryStep(i) /\ NewCaptured(i)
<1>1. entries' = entries
  BY DEF LookupEntry
<1>2. CASE Target(i) = None
  BY <1>1, <1>2 DEF LookupEntry, EntryStep, NewCaptured
<1>3. CASE Target(i) # None
  <2>1. Spawns(i, "get", Target(i), None, {Target(i), TableOf(Target(i))})
    BY <1>3 DEF LookupEntry
  <2>2. PICK y : Follows(i, y) /\ y.step = "get" /\ y.n = Target(i)
    BY <2>1, SpawnsFields
  <2>3. CapturedOK(y)'
    BY <2>2, NothingCaptured DEF RenameSteps
  <2>4. R(i).p \in Dirs /\ R(i).a \in Names
    BY RunningPlaces DEF LookupEntry, Runs, Servants, R
  <2>5. Named(y.n)'
    BY <1>1, <2>2, <2>4 DEF Named, Target
  <2>6. QED
    BY <1>1, <2>2, <2>3, <2>5 DEF EntryStep, NewCaptured
<1>4. QED
  BY <1>2, <1>3

LEMMA MakeCaptures ==
  ASSUME Typed, OwnRequests, MadeOnes, RoomToMake, NEW i \in DOMAIN behaviours,
         NEW op \in {"create", "mkdir"}, MakeEntry(i, op)
  PROVE  EntryStep(i) /\ NewCaptured(i)
<1> DEFINE n == Makes(op)  z == Behaviour("add", None, Idle, n, None, {n, TableOf(n)})
<1>1. /\ behaviours[i].step = op /\ Target(i) = None
      /\ entries' = With(R(i).p, R(i).a, n) /\ Follows(i, z)
      /\ request' = [request EXCEPT ![Client(i)] = Idle]
  BY DEF MakeEntry, Runs, Refused, ReplyEntry, Makes
<1>2. n \in Inodes \ made
  BY <1>1, Room
<1> HIDE DEF n
<1>3. PICK y : Follows(i, y) /\ y.step = "add"
  <2>1. z.step = "add"
    BY DEF Behaviour
  <2> HIDE DEF z
  <2>2. QED
    BY <1>1, <2>1
<1> HIDE DEF z
<1>4. CapturedOK(y)'
  BY <1>3, NothingCaptured DEF RenameSteps
<1>5. behaviours[i].step \notin Servants \cup {"use", "setattr", "lookup", "get"}
  BY <1>1 DEF Servants
<1>6. request'[Client(i)] = Idle
  BY <1>1, <1>5, WriterFacts DEF Typed
<1>7. Puts(i)
  BY <1>1, <1>2, <1>6 DEF Puts
<1>8. QED
  BY <1>3, <1>4, <1>5, <1>7 DEF EntryStep, Writes, NewCaptured

LEMMA ReplyIdle ==
  ASSUME Typed, OwnRequests, NEW i \in DOMAIN behaviours, Reply(i),
         behaviours[i].step \notin Servants
  PROVE  request'[Client(i)] = Idle
<1>1. Client(i) \in Clients
  BY Running
<1>2. QED
  BY <1>1 DEF Typed, Reply

LEMMA UnlinkCaptures ==
  ASSUME Typed, OwnRequests, Captured, NEW i \in DOMAIN behaviours, UnlinkEntry(i)
  PROVE  EntryStep(i) /\ NewCaptured(i)
<1>1. behaviours[i].step = "unlink" /\ behaviours[i].step \notin Servants \cup {"use", "setattr", "lookup", "get"}
  BY DEF UnlinkEntry, Runs, Servants
<1>2. Old(behaviours[i]) \in behaviours[i].r.pins \cup {None} /\ Target(i) = Old(behaviours[i])
  BY <1>1 DEF Captured, CapturedOK, Old, Target, R
<1>3. CASE ~(Target(i) \in Files /\ ~Denied(i, R(i).p))
  BY <1>3 DEF UnlinkEntry, EntryStep, NewCaptured
<1>4. CASE Target(i) \in Files /\ ~Denied(i, R(i).p)
  <2>1. entries' = With(R(i).p, R(i).a, None)
        /\ Spawns(i, "unlinked", Target(i), None, {Target(i), R(i).p})
    BY <1>4 DEF UnlinkEntry
  <2>2. Target(i) \in R(i).pins /\ Target(i) \in Inodes
    BY <1>2, <1>4, NoneApart DEF R, Inodes
  <2>3. Writes(i)
    BY <1>1, <1>4, <2>1, <2>2 DEF Writes, Cuts
  <2>4. PICK y : Follows(i, y) /\ y.step = "unlinked" /\ y.n = Target(i) /\ y.r = R(i)
    BY <2>1, SpawnsFields
  <2>5. CapturedOK(y)'
    <3>1. /\ y.step \notin {"unlink", "rmdir", "remove"} \cup RenameSteps
          /\ y.step \notin {"remove", "move", "tables", "replace"}
          /\ y.step \notin RenameSteps /\ y.step \notin {"tables", "replace"}
          /\ y.n \in y.r.pins
      BY <2>2, <2>4 DEF RenameSteps
    <3>2. QED
      BY <3>1 DEF CapturedOK
  <2>6. QED
    BY <2>3, <2>4, <2>5 DEF EntryStep, NewCaptured
<1>5. QED
  BY <1>3, <1>4

LEMMA RmdirCaptures ==
  ASSUME Typed, OwnRequests, Captured, NEW i \in DOMAIN behaviours, RmdirEntry(i)
  PROVE  EntryStep(i) /\ NewCaptured(i)
<1>1. behaviours[i].step = "rmdir" /\ entries' = entries
  BY DEF RmdirEntry, Runs
<1>2. Old(behaviours[i]) \in behaviours[i].r.pins \cup {None} /\ Target(i) = Old(behaviours[i])
  BY <1>1 DEF Captured, CapturedOK, Old, Target, R
<1>3. CASE Target(i) \notin Dirs
  BY <1>1, <1>3 DEF RmdirEntry, EntryStep, NewCaptured
<1>4. CASE Target(i) \in Dirs
  <2>1. Spawns(i, "remove", Target(i), None, {Target(i), R(i).p})
    BY <1>4 DEF RmdirEntry
  <2>2. PICK y : Follows(i, y) /\ y.step = "remove" /\ y.n = Target(i) /\ y.r = R(i)
    BY <2>1, SpawnsFields
  <2>3. CapturedOK(y)'
    <3>1. /\ y.step \notin RenameSteps /\ y.step # "unlinked" /\ y.step \notin {"tables", "replace"}
          /\ y.n # None
      BY <1>4, <2>2, NoneApart DEF RenameSteps, Inodes
    <3>2. entries'[y.r.p][y.r.a] \in y.r.pins \cup {None} /\ entries'[y.r.p][y.r.a] = y.n
      BY <1>1, <1>2, <2>2 DEF Target, R
    <3>3. QED
      BY <3>1, <3>2 DEF CapturedOK, Old
  <2>4. QED
    BY <1>1, <2>2, <2>3 DEF EntryStep, NewCaptured
<1>5. QED
  BY <1>3, <1>4

LEMMA RemoveCaptures ==
  ASSUME Typed, OwnRequests, Captured, NEW i \in DOMAIN behaviours, RmdirRemove(i)
  PROVE  EntryStep(i) /\ NewCaptured(i)
<1>1. /\ behaviours[i].step = "remove" /\ Ends(i)
      /\ behaviours[i].step \notin Servants \cup {"use", "setattr", "lookup", "get"}
  BY DEF RmdirRemove, Runs, Servants
<1>2. /\ Old(behaviours[i]) \in behaviours[i].r.pins \cup {None} /\ Target(i) = Old(behaviours[i])
      /\ Old(behaviours[i]) # None
  BY <1>1 DEF Captured, CapturedOK, Old, Target, R
<1>3. Target(i) \in R(i).pins \cap Inodes
  BY <1>1, <1>2, RunningPlaces DEF R
<1>4. CASE entries' = entries
  BY <1>1, <1>4 DEF EntryStep, NewCaptured
<1>5. CASE IsEmpty(behaviours[i].n)
  <2>1. entries' = With(R(i).p, R(i).a, None) /\ Reply(i)
    BY <1>5 DEF RmdirRemove
  <2>2. request'[Client(i)] = Idle
    BY <1>1, <2>1, ReplyIdle
  <2>3. QED
    BY <1>1, <1>3, <2>1, <2>2 DEF Cuts, Writes, EntryStep, NewCaptured
<1>6. QED
  BY <1>4, <1>5 DEF RmdirRemove

(* What a rename that goes on has captured, while nobody writes.            *)
LEMMA RenameGoesOn ==
  ASSUME Typed, OwnRequests, Captured, NEW i \in DOMAIN behaviours, entries' = entries,
         behaviours[i].step \in RenameSteps, Target(i) # None,
         NEW y, y.c = Client(i), y.r = R(i), y.step \in RenameSteps, y.n = Target(i),
         y.step \in {"tables", "replace"} => y.m = entries[R(i).q][R(i).b] /\ y.m # None
  PROVE  CapturedOK(y)'
<1> DEFINE x == behaviours[i]
<1>1. Old(x) \in x.r.pins \cup {None} /\ NewOK(x)
  BY DEF Captured, CapturedOK
<1>2. y.c = x.c /\ y.r = x.r /\ y.n = Old(x)
  BY DEF Client, R, Target, Old
<1> HIDE DEF x
<1>3. NewOK(y)'
  BY <1>1, <1>2 DEF NewOK, New, Old, Mistaken
<1>4. Old(y)' = Old(x) /\ New(y)' = New(x)
  BY <1>2 DEF Old, New
<1>5. Old(x) = Target(i) /\ New(x) = entries[R(i).q][R(i).b]
  BY DEF x, Old, New, Target, R
<1>6. y.step # "unlinked"
  BY DEF RenameSteps
<1>7. QED
  BY <1>1, <1>2, <1>3, <1>4, <1>5, <1>6 DEF CapturedOK

LEMMA FindCaptures ==
  ASSUME Typed, OwnRequests, Captured, NEW i \in DOMAIN behaviours, RenameFind(i)
  PROVE  EntryStep(i) /\ NewCaptured(i)
<1>1. behaviours[i].step = "rename" /\ entries' = entries
  BY DEF RenameFind, Runs
<1>2. CASE Ends(i)
  BY <1>1, <1>2 DEF EntryStep, NewCaptured
<1>3. CASE ~Ends(i)
  <2>1. Target(i) # None /\ Spawns(i, "move", Target(i), None, {Target(i), R(i).p, R(i).q})
    BY <1>3 DEF RenameFind
  <2>2. PICK y : Follows(i, y) /\ y.step = "move" /\ y.n = Target(i) /\ y.r = R(i) /\ y.c = Client(i)
    BY <2>1, SpawnsFields
  <2>3. CapturedOK(y)'
    BY <1>1, <2>1, <2>2, RenameGoesOn DEF RenameSteps
  <2>4. QED
    BY <1>1, <2>2, <2>3 DEF EntryStep, NewCaptured
<1>4. QED
  BY <1>2, <1>3

LEMMA TwoCaptures ==
  ASSUME Typed, OwnRequests, Captured, NEW i \in DOMAIN behaviours, RenameTwo(i)
  PROVE  EntryStep(i) /\ NewCaptured(i)
<1> DEFINE n == behaviours[i].n  m == entries[R(i).q][R(i).b]
<1>1. /\ behaviours[i].step = "move" /\ entries' = entries /\ m # None
      /\ Spawns(i, "tables", n, m, {FilesTable, DirsTable})
  BY DEF RenameTwo, Runs
<1>2. n = Target(i) /\ n # None
  BY <1>1 DEF Captured, CapturedOK, Old, Target, R
<1> HIDE DEF n, m
<1>3. PICK y : /\ Follows(i, y) /\ y.step = "tables" /\ y.n = n /\ y.m = m /\ y.r = R(i) /\ y.c = Client(i)
  BY <1>1, SpawnsFields
<1>4. CapturedOK(y)'
  BY <1>1, <1>2, <1>3, RenameGoesOn DEF RenameSteps, m
<1>5. QED
  BY <1>1, <1>3, <1>4 DEF EntryStep, NewCaptured

LEMMA NoLongNames ==
  ASSUME ~AllRequests
  PROVE  \A b, v, S : Reread(b, v, S) = {v}
  BY NamespaceAssumption DEF Reread

LEMMA MoveCaptures ==
  ASSUME ~AllRequests, Typed, OwnRequests, Captured, NEW i \in DOMAIN behaviours, RenameMove(i)
  PROVE  EntryStep(i) /\ NewCaptured(i)
<1>1. /\ behaviours[i].step = "move" /\ Ends(i) /\ Reply(i)
      /\ behaviours[i].step \notin Servants \cup {"use", "setattr", "lookup", "get"}
      /\ behaviours[i].step \in RenameSteps
      /\ entries[R(i).q][R(i).b] = None /\ entries' = Moved(R(i), behaviours[i].n, R(i).b)
  BY NoLongNames DEF RenameMove, Runs, Servants, RenameSteps
<1>2. /\ Old(behaviours[i]) \in behaviours[i].r.pins \cup {None} /\ Target(i) = Old(behaviours[i])
      /\ Old(behaviours[i]) = behaviours[i].n /\ Old(behaviours[i]) # None
  BY <1>1 DEF Captured, CapturedOK, Old, Target, R
<1>3. /\ Target(i) \in R(i).pins \cap Inodes
      /\ R(i).q \in Dirs /\ R(i).b \in Names /\ R(i).q \in R(i).pins
  BY <1>1, <1>2, RunningPlaces DEF R
<1>4. request'[Client(i)] = Idle
  BY <1>1, ReplyIdle
<1>5. <<R(i).p, R(i).a>> # <<R(i).q, R(i).b>>
  BY <1>1, <1>2 DEF Target
<1>6. MovesTo(i, None)
  BY <1>1, <1>2, <1>3, <1>4, <1>5 DEF MovesTo
<1>7. QED
  BY <1>1, <1>6 DEF Writes, EntryStep, NewCaptured

(* Across directories nothing is replaced, and a directory only by an      *)
(* empty one: what Mistaken leaves is a file that replaces a file.          *)
LEMMA ReplaceCaptures ==
  ASSUME ~AllRequests, Typed, OwnRequests, Captured, NEW i \in DOMAIN behaviours, RenameReplace(i)
  PROVE  /\ EntryStep(i) /\ NewCaptured(i)
         /\ \/ entries' = entries /\ nlink' = nlink /\ request' = [request EXCEPT ![Client(i)] = Idle]
            \/ /\ behaviours[i].m \in Files /\ Target(i) \in Files /\ MovesTo(i, behaviours[i].m)
               /\ nlink' = [nlink EXCEPT ![behaviours[i].m] = @ - 1]
<1> DEFINE x == behaviours[i]  n == behaviours[i].n  m == behaviours[i].m  r == R(i)
<1>1. /\ x.step = "replace" /\ x.step \in RenameSteps /\ Ends(i)
      /\ x.step \notin Servants \cup {"use", "setattr", "lookup", "get"} /\ x.step \notin Servants
  BY DEF RenameReplace, Runs, Servants, RenameSteps
<1>2. /\ n = Target(i) /\ n \in r.pins /\ n # None
      /\ m = entries[r.q][r.b] /\ m \in r.pins /\ m # None /\ n # m
      /\ n \in Dirs <=> m \in Dirs
      /\ ~Mistaken(Client(i), r.p, n, r.q, m)
  <2>1. /\ Old(x) = n /\ n # None /\ New(x) = m /\ m # None /\ NewOK(x)
        /\ Old(x) \in x.r.pins \cup {None}
    BY <1>1 DEF Captured, CapturedOK
  <2>2. Old(x) = Target(i) /\ New(x) = entries[r.q][r.b] /\ x.r = r /\ x.c = Client(i)
    BY DEF Old, New, Target, R, Client
  <2> HIDE DEF x, n, m, r
  <2>3. QED
    BY <2>1, <2>2 DEF NewOK
<1>3. r.p = r.q /\ ~(m \in Dirs /\ IsEmpty(m))
  BY <1>2 DEF Mistaken, IsEmpty
<1>4. n \in Inodes /\ m \in Inodes /\ r.q \in Dirs /\ r.b \in Names /\ r.q \in r.pins
  BY <1>1, <1>2, RunningPlaces DEF R
<1>5. CASE n \in Dirs
  <2>1. entries' = entries /\ nlink' = nlink /\ Reply(i)
    BY <1>2, <1>3, <1>5 DEF RenameReplace, ReplyFail
  <2>2. QED
    BY <1>1, <2>1 DEF EntryStep, NewCaptured, Reply
<1>6. CASE n \notin Dirs
  <2>1. m \in Files /\ m \notin Dirs /\ Target(i) \in Files
    BY <1>2, <1>4, <1>6 DEF Inodes
  <2>2. /\ entries' = Moved(r, Target(i), r.b) /\ Reply(i)
        /\ nlink' = [nlink EXCEPT ![m] = @ - 1]
    <3>1. (IF r.p = r.q THEN r.b ELSE r.a) = r.b
      BY <1>3
    <3>2. /\ \E b \in Reread(r.b, r.b, Names), y \in Reread(r.b, Target(i), made) :
                entries' = Insert(Moved(r, None, r.b), r.q, b, y)
          /\ Reply(i) /\ nlink' = [nlink EXCEPT ![m] = @ - 1]
      BY <1>3, <1>6, <2>1, <3>1 DEF RenameReplace, Target
    <3>3. entries' = Insert(Moved(r, None, r.b), r.q, r.b, Target(i))
      BY <3>2, NoLongNames
    <3>4. /\ r.p \in Dirs /\ r.a \in Names /\ r.q \in Dirs /\ r.b \in Names
          /\ Target(i) \in Inodes \cup {None}
      BY <1>1, RunningPlaces DEF R
    <3>5. Insert(Moved(r, None, r.b), r.q, r.b, Target(i)) = Moved(r, Target(i), r.b)
      BY ONLY Typed, <3>4, InsertMoves
    <3>6. QED
      BY <3>2, <3>3, <3>5
  <2>3. request'[Client(i)] = Idle
    BY <1>1, <2>2, ReplyIdle
  <2>4. <<r.p, r.a>> # <<r.q, r.b>>
    BY <1>2 DEF Target
  <2>5. MovesTo(i, m)
    BY <1>2, <1>4, <2>1, <2>2, <2>3, <2>4 DEF MovesTo
  <2>6. QED
    BY <1>1, <1>4, <2>1, <2>2, <2>5 DEF Writes, EntryStep, NewCaptured
<1>7. QED
  BY <1>5, <1>6

(* An inode that a request in progress has pinned is in its table.          *)
LEMMA PinnedInTable ==
  ASSUME Typed, OwnRequests, PinsKnown, MadeOnes, AddsFirst, LookupsCounted, TablesExact,
         NEW i \in DOMAIN behaviours,
         \A j \in 1 .. i - 1 : behaviours[j].on \cap behaviours[i].on = {},
         behaviours[i].step \notin Servants,
         NEW n \in behaviours[i].r.pins, {n, TableOf(n)} \cap behaviours[i].on # {}
  PROVE  n \in Inodes /\ n \in made /\ ~Adding(n) /\ krefs[n] > 0 /\ n \in tables
<1>1. behaviours[i].r \in Requests /\ behaviours[i].c \in Clients
      /\ behaviours[i].r = request[behaviours[i].c]
  BY Running
<1>2. n \in Inodes
  BY <1>1 DEF Requests
<1>3. kernel[n] > 0 /\ n \in made
  BY <1>1, <1>2 DEF PinsKnown, MadeOnes, Known
<1>4. ~Adding(n)
  BY PinsUsed, NotAdding DEF Servants
<1>5. krefs[n] = kernel[n] + Forgotten(n) /\ Forgotten(n) \in Nat /\ kernel[n] \in Nat
  BY <1>2, <1>4, ForgottenNat DEF LookupsCounted, Typed
<1>6. krefs[n] > 0
  BY <1>3, <1>5
<1>7. QED
  BY <1>2, <1>3, <1>4, <1>6 DEF TablesExact

LEMMA TablesCaptures ==
  ASSUME Typed, OwnRequests, PinsKnown, MadeOnes, AddsFirst, LookupsCounted, TablesExact, Captured,
         NEW i \in DOMAIN behaviours, RenameTables(i)
  PROVE  EntryStep(i) /\ NewCaptured(i)
<1> DEFINE x == behaviours[i]  n == behaviours[i].n  m == behaviours[i].m
<1>1. /\ x.step = "tables" /\ x.step \in RenameSteps /\ entries' = entries
      /\ x.step \notin Servants /\ \A j \in 1 .. i - 1 : behaviours[j].on \cap x.on = {}
      /\ Spawns(i, "replace", InTable(n), InTable(m), {R(i).p, R(i).q, InTable(n), InTable(m)} \ {None})
  BY DEF RenameTables, Runs, RenameSteps, Servants
<1>2. /\ n = Target(i) /\ n \in x.r.pins /\ n # None
      /\ m = entries[R(i).q][R(i).b] /\ m \in x.r.pins /\ m # None
  <2>1. /\ Old(x) = n /\ n # None /\ New(x) = m /\ m # None /\ NewOK(x)
        /\ Old(x) \in x.r.pins \cup {None}
    BY <1>1 DEF Captured, CapturedOK
  <2>2. Old(x) = Target(i) /\ New(x) = entries[R(i).q][R(i).b]
    BY DEF Old, New, Target, R
  <2> HIDE DEF x, n, m
  <2>3. QED
    BY <2>1, <2>2 DEF NewOK
<1>3. {FilesTable, DirsTable} \subseteq x.on
  BY <1>1, Running DEF OnOK
<1>4. n \in tables /\ m \in tables
  <2>1. {n, TableOf(n)} \cap x.on # {} /\ {m, TableOf(m)} \cap x.on # {}
    BY <1>3, TableOfType
  <2>2. QED
    BY <1>1, <1>2, <2>1, PinnedInTable
<1>5. Spawns(i, "replace", n, m, {R(i).p, R(i).q, n, m} \ {None})
  BY <1>1, <1>4 DEF InTable
<1> HIDE DEF x, n, m
<1>6. PICK y : /\ Follows(i, y) /\ y.step = "replace" /\ y.n = n /\ y.m = m /\ y.r = R(i) /\ y.c = Client(i)
  BY <1>5, SpawnsFields
<1>7. CapturedOK(y)'
  BY <1>1, <1>2, <1>6, RenameGoesOn DEF RenameSteps, x
<1>8. QED
  BY <1>1, <1>6, <1>7 DEF EntryStep, NewCaptured

LEMMA RunCaptures ==
  ASSUME ~AllRequests, Shape, Places, LookupsCounted, TablesExact, NEW i \in DOMAIN behaviours, RunBehaviour(i)
  PROVE  EntryStep(i) /\ NewCaptured(i)
<1>1. CASE LookupEntry(i) \/ GetInode(i) \/ Refuse(i) \/ AddInode(i) \/ UnlinkCount(i)
           \/ RenameDenied(i) \/ Forget(i) \/ UseInode(i) \/ Setattr(i)
  BY <1>1, LookupCaptures, EndCaptures DEF Shape
<1>2. CASE \E op \in {"create", "mkdir"} : MakeEntry(i, op)
  BY <1>2, MakeCaptures DEF Shape
<1>3. CASE UnlinkEntry(i) \/ RmdirEntry(i) \/ RmdirRemove(i)
  BY <1>3, UnlinkCaptures, RmdirCaptures, RemoveCaptures DEF Shape, Places
<1>4. CASE RenameFind(i) \/ RenameMove(i) \/ RenameTwo(i)
  BY <1>4, FindCaptures, MoveCaptures, TwoCaptures DEF Shape, Places
<1>5. CASE RenameTables(i) \/ RenameReplace(i)
  BY <1>5, TablesCaptures, ReplaceCaptures DEF Shape, Places
<1>6. QED
  BY <1>1, <1>2, <1>3, <1>4, <1>5 DEF RunBehaviour

(* What others have captured stays, whatever is written.                    *)
LEMMA OthersPins ==
  ASSUME Typed, OwnRequests, PinsLocked, NEW i \in DOMAIN behaviours, Writes(i),
         NEW c \in Clients, c # Client(i), request[c].op \in Changing
  PROVE  /\ \A d \in Dirs, a \in Names : d \in request[c].pins => entries'[d][a] = entries[d][a]
         /\ \A n \in request[c].pins : n \notin R(i).pins
<1>1. Client(i) \in Clients /\ R(i) = request[Client(i)] /\ R(i).op \in Changing
  BY WriterFacts DEF Writes
<1>2. request[c].pins \cap R(i).pins = {}
  BY <1>1 DEF PinsLocked
<1>3. QED
  BY <1>2, WritesFrame

LEMMA CapturedStays ==
  ASSUME Typed, OwnRequests, PinsLocked, Captured, NEW i \in DOMAIN behaviours, EntryStep(i),
         NEW j \in DOMAIN behaviours, j # i, NEW x, x = behaviours[j]
  PROVE  CapturedOK(x)'
<1>1. CapturedOK(x)
  BY DEF Captured
<1>2. CASE x.step \notin {"unlink", "rmdir", "remove"} \cup RenameSteps
  <2>1. /\ x.step \notin {"remove", "move", "tables", "replace"} /\ x.step \notin {"tables", "replace"}
        /\ x.step \notin RenameSteps
    BY <1>2 DEF RenameSteps
  <2>2. x.step = "unlinked" => x.n \in x.r.pins
    BY <1>1 DEF CapturedOK
  <2>3. QED
    BY <1>2, <2>1, <2>2 DEF CapturedOK
<1>3. CASE entries' = entries
  <2>1. /\ Old(x)' = Old(x) /\ New(x)' = New(x)
    BY <1>3 DEF Old, New
  <2>2. NewOK(x)' <=> NewOK(x)
    BY <1>3 DEF NewOK, Old, New, Mistaken
  <2>3. QED
    BY <1>1, <2>1, <2>2 DEF CapturedOK
<1>4. CASE Writes(i) /\ x.step \in {"unlink", "rmdir", "remove"} \cup RenameSteps
  <2>1. x.step \notin Servants /\ x.step \notin Servants \cup {"use", "setattr"}
    BY <1>4 DEF Servants, RenameSteps
  <2>2. x.c \in Clients /\ x.r = request[x.c] /\ x.r.op = OpOf(x.step) /\ x.r \in Requests
    BY <2>1, Running
  <2>3. x.r.op \in Changing
    BY <1>4, <2>2 DEF OpOf, RenameSteps, Changing
  <2>4. x.c # Client(i)
    BY <1>4, <2>1 DEF OwnRequests, Client, Writes
  <2>5. /\ x.r.p \in Dirs /\ x.r.a \in Names /\ x.r.p \in x.r.pins
        /\ x.step \in RenameSteps => x.r.q \in Dirs /\ x.r.b \in Names /\ x.r.q \in x.r.pins
    BY <2>1, RunningPlaces
  <2>6. /\ \A d \in Dirs, a \in Names : d \in x.r.pins => entries'[d][a] = entries[d][a]
    BY <1>4, <2>2, <2>3, <2>4, OthersPins
  <2>7. Old(x)' = Old(x) /\ (x.step \in RenameSteps => New(x)' = New(x))
    BY <2>5, <2>6 DEF Old, New
  <2>8. x.step \in RenameSteps => NewOK(x)'
    <3> HAVE x.step \in RenameSteps
    <3>1. NewOK(x) /\ New(x)' = New(x) /\ Old(x)' = Old(x)
      BY <1>1, <2>7 DEF CapturedOK
    <3>2. New(x) \in x.r.pins \cup {None}
      BY <3>1 DEF NewOK
    <3>3. New(x) \in Dirs => \A a \in Names : entries'[New(x)][a] = entries[New(x)][a]
      BY <2>6, <3>2, NoneApart DEF Inodes
    <3>4. ASSUME NEW n, NEW m, m = New(x), n = Old(x)
          PROVE  Mistaken(x.c, x.r.p, n, x.r.q, m)' <=> Mistaken(x.c, x.r.p, n, x.r.q, m)
      BY <3>3, <3>4 DEF Mistaken
    <3>5. QED
      BY <3>1, <3>4 DEF NewOK
  <2>9. QED
    BY <1>1, <2>7, <2>8 DEF CapturedOK, RenameSteps
<1>5. QED
  BY <1>2, <1>3, <1>4 DEF EntryStep

(* The behaviours after a step are those that were there, but the one that  *)
(* ran, and perhaps one more.                                               *)
LEMMA AfterEnd ==
  ASSUME Typed, NEW i \in DOMAIN behaviours, Ends(i), NEW j \in DOMAIN behaviours'
  PROVE  \E k \in DOMAIN behaviours : k # i /\ behaviours'[j] = behaviours[k]
<1>1. Shifted(behaviours, behaviours', i)
  BY EndsShape
<1>2. QED
  BY <1>1 DEF Shifted, From

LEMMA AfterFollow ==
  ASSUME Typed, NEW i \in DOMAIN behaviours, NEW y, Follows(i, y), NEW j \in DOMAIN behaviours'
  PROVE  \/ \E k \in DOMAIN behaviours : k # i /\ behaviours'[j] = behaviours[k]
         \/ behaviours'[j] = y
<1> DEFINE S == Records \cup {y}  t == RemoveAt(behaviours, i)
<1>1. behaviours \in Seq(S) /\ y \in S
  BY DEF Typed
<1> HIDE DEF S
<1>2. t \in Seq(S) /\ Shifted(behaviours, t, i)
  BY <1>1, ShiftedSeq
<1>3. behaviours' = Append(t, y)
  BY DEF Follows
<1> HIDE DEF t
<1>4. Grown(t, behaviours', y)
  BY <1>1, <1>2, <1>3, GrownSeq
<1>5. j \in DOMAIN t \/ behaviours'[j] = y
  BY <1>4 DEF Grown
<1>6. CASE j \in DOMAIN t
  <2>1. behaviours'[j] = t[j] /\ t[j] = behaviours[From(i, j)]
    BY <1>2, <1>4, <1>6 DEF Shifted, Grown
  <2>2. From(i, j) \in DOMAIN behaviours /\ From(i, j) # i
    BY <1>2, <1>6 DEF Shifted, From
  <2>3. QED
    BY <2>1, <2>2
<1>7. QED
  BY <1>5, <1>6

LEMMA CapturedRun ==
  ASSUME Typed, OwnRequests, PinsLocked, Captured, NEW i \in DOMAIN behaviours,
         EntryStep(i), NewCaptured(i)
  PROVE  Captured'
<1>1. ASSUME NEW j \in DOMAIN behaviours', NEW x, x = behaviours'[j]
      PROVE  CapturedOK(x)'
  <2>1. ASSUME NEW k \in DOMAIN behaviours, k # i, x = behaviours[k]
        PROVE  CapturedOK(x)'
    BY <2>1, CapturedStays
  <2>2. CASE Ends(i)
    BY <1>1, <2>1, <2>2, AfterEnd
  <2>3. ASSUME NEW y, Follows(i, y), CapturedOK(y)'
        PROVE  CapturedOK(x)'
    <3>1. CASE x = y
      BY <2>3, <3>1
    <3>2. CASE x # y
      BY <1>1, <2>1, <2>3, <3>2, AfterFollow
    <3>3. QED
      BY <3>1, <3>2
  <2>4. QED
    BY <2>2, <2>3 DEF NewCaptured
<1>2. QED
  BY <1>1 DEF Captured

(* A directory that a request changes keeps its place.                      *)
LEMMA LinkedRead ==
  ASSUME NEW p \in Inodes
  PROVE  Linked(p) <=> p = Root \/ Named(p)
  BY NoneApart DEF Linked, NamedIn, Named

LEMMA InPlaceRun ==
  ASSUME Typed, OwnRequests, PinsLocked, MadeOnes, OneName, InPlace, NEW i \in DOMAIN behaviours,
         EntryStep(i), Quits(i)
  PROVE  InPlace'
<1>1. ASSUME NEW c \in Clients, request'[c] = request[c], request[c].op \in Changing,
             NEW d \in Dirs, d \in request[c].pins, Linked(d)
      PROVE  Linked(d)'
  <2>1. d \in Inodes /\ (d = Root \/ Named(d))
    BY <1>1, LinkedRead DEF Inodes
  <2>2. CASE d = Root
    BY <2>2 DEF Linked
  <2>3. CASE entries' = entries
    BY <1>1, <2>3 DEF Linked, NamedIn
  <2>4. CASE d # Root /\ Writes(i)
    <3>1. Named(d) /\ d \in made
      BY <2>1, <2>4, NoneApart DEF Named, MadeOnes
    <3>2. CASE c # Client(i)
      <4>1. d \notin R(i).pins
        BY <1>1, <2>4, <3>2, OthersPins
      <4>2. Named(d)'
        BY <2>4, <3>1, <4>1, WritesNames
      <4>3. QED
        BY <2>1, <4>2, NoneApart DEF Linked, NamedIn, Named
    <3>3. CASE c = Client(i)
      <4>1. request'[Client(i)] # Idle
        BY <1>1, <3>3, IdleRequest DEF Changing
      <4>2. Named(d)'
        BY <2>4, <3>1, <4>1, WritesNames
      <4>3. QED
        BY <2>1, <4>2, NoneApart DEF Linked, NamedIn, Named
    <3>4. QED
      BY <3>2, <3>3
  <2>5. QED
    BY <2>2, <2>3, <2>4 DEF EntryStep
<1>2. ASSUME NEW c \in Clients, NEW r, r = request'[c], r.op \in Changing
      PROVE  Linked(r.p)' /\ (r.op = "rename" => Linked(r.q)')
  <2>1. request'[c] = request[c] /\ r = request[c]
    BY <1>2, QuitsRead, IdleRequest DEF Changing
  <2>2. RequestOK(r) /\ r.op # "none"
    BY <1>2, <2>1 DEF Typed, Changing
  <2>3. r.p \in r.pins /\ r.p \in Dirs /\ (r.op = "rename" => r.q \in Dirs /\ r.q \in r.pins)
    BY <1>2, <2>2 DEF RequestOK
  <2>4. Linked(r.p) /\ (r.op = "rename" => Linked(r.q))
    BY <1>2, <2>1 DEF InPlace
  <2>5. QED
    BY <1>1, <1>2, <2>1, <2>3, <2>4
<1>3. QED
  BY <1>2 DEF InPlace, Changing

(* The second layer of the invariant.                                       *)
LEMMA OneNameStays ==
  ASSUME OneName, entries' = entries
  PROVE  OneName'
  BY DEF OneName

LEMMA CapturedGrows ==
  ASSUME Captured, entries' = entries, NEW x, Grown(behaviours, behaviours', x), CapturedOK(x)
  PROVE  Captured'
<1>1. ASSUME NEW y, CapturedOK(y)
      PROVE  CapturedOK(y)'
  <2>1. Old(y)' = Old(y) /\ New(y)' = New(y)
    BY DEF Old, New
  <2>2. NewOK(y)' <=> NewOK(y)
    BY DEF NewOK, Old, New, Mistaken
  <2>3. QED
    BY <1>1, <2>1, <2>2 DEF CapturedOK
<1>2. ASSUME NEW j \in DOMAIN behaviours', NEW y, y = behaviours'[j]
      PROVE  CapturedOK(y)'
  <2>1. \/ j = Len(behaviours) + 1 /\ behaviours'[j] = x
        \/ j \in DOMAIN behaviours /\ behaviours'[j] = behaviours[j]
    BY DEF Grown
  <2>2. CapturedOK(y)
    BY <1>2, <2>1 DEF Captured
  <2>3. QED
    BY <1>1, <2>2
<1>3. QED
  BY <1>2 DEF Captured

LEMMA PlacesAsk ==
  ASSUME Typed, Places, NEW c \in Clients, NEW r, NEW x, AskKind(c, r, x), CapturedOK(x)
  PROVE  Places'
<1>1. /\ entries' = entries /\ Grown(behaviours, behaviours', x)
      /\ request'[c] = r /\ \A d \in Clients : d # c => request'[d] = request[d]
      /\ r.op \in Changing => Linked(r.p)
      /\ r.op = "rename" => Linked(r.q)
  BY DEF AskKind, Typed
<1>2. OneName' /\ Captured'
  BY <1>1, OneNameStays, CapturedGrows DEF Places
<1>3. ASSUME NEW p, Linked(p)
      PROVE  Linked(p)'
  BY <1>1, <1>3 DEF Linked, NamedIn
<1>4. ASSUME NEW d \in Clients, NEW z, z = request'[d]
      PROVE  (z.op \in Changing => Linked(z.p)') /\ (z.op = "rename" => Linked(z.q)')
  <2>1. (z.op \in Changing => Linked(z.p)) /\ (z.op = "rename" => Linked(z.q))
    BY <1>1, <1>4 DEF Places, InPlace
  <2>2. QED
    BY <1>3, <2>1
<1>5. InPlace'
  BY <1>4 DEF InPlace, Changing
<1>6. QED
  BY <1>2, <1>5 DEF Places

LEMMA PlacesStay ==
  ASSUME Places, entries' = entries, request' = request, Captured'
  PROVE  Places'
<1>1. OneName'
  BY OneNameStays DEF Places
<1>2. InPlace'
  BY DEF Places, InPlace, Linked, NamedIn, Changing
<1>3. QED
  BY <1>1, <1>2 DEF Places

LEMMA PlacesForget ==
  ASSUME Places, NEW n \in Inodes, NEW x, ForgetKindOf(n, x)
  PROVE  Places'
<1>1. /\ entries' = entries /\ request' = request /\ Grown(behaviours, behaviours', x)
      /\ x.step = "forget"
  BY DEF ForgetKindOf
<1>2. CapturedOK(x)
  BY <1>1, NothingCaptured DEF RenameSteps
<1>3. Captured'
  BY <1>1, <1>2, CapturedGrows DEF Places
<1>4. QED
  BY <1>1, <1>3, PlacesStay

LEMMA PlacesRun ==
  ASSUME ~AllRequests, Shape, Places, LookupsCounted, TablesExact, NEW i \in DOMAIN behaviours, RunBehaviour(i)
  PROVE  Places'
<1>1. EntryStep(i) /\ NewCaptured(i)
  BY RunCaptures
<1>2. Quits(i)
  BY RunIsKind DEF Shape, RunKind
<1>3. OneName' /\ InPlace' /\ Captured'
  BY <1>1, <1>2, OneNameStep, InPlaceRun, CapturedRun DEF Shape, Places
<1>4. QED
  BY <1>3 DEF Places

------------------------------------------------------------------------------
(* Names and subdirectories, when an entry is put, cut or moved.            *)
SubdirNames(e, d) == {a \in Names : e[d][a] \in Dirs}

LEMMA SubdirsRead ==
  ASSUME NEW d
  PROVE  /\ Subdirs(d) = Cardinality(SubdirNames(entries, d))
         /\ Subdirs(d)' = Cardinality(SubdirNames(entries', d))
         /\ \A e : IsFiniteSet(SubdirNames(e, d)) /\ Cardinality(SubdirNames(e, d)) \in Nat
<1>1. ASSUME NEW e
      PROVE  IsFiniteSet(SubdirNames(e, d)) /\ Cardinality(SubdirNames(e, d)) \in Nat
  <2>1. IsFiniteSet(Names) /\ SubdirNames(e, d) \in SUBSET Names
    BY NamespaceAssumption DEF SubdirNames
  <2>2. QED
    BY <2>1, FS_Subset, FS_CardinalityType
<1>2. QED
  BY <1>1 DEF Subdirs, SubdirNames

LEMMA NotBoth ==
  ASSUME NEW n \in Files
  PROVE  n \notin Dirs /\ n \in Inodes /\ TableOf(n) = FilesTable
  BY NamespaceAssumption DEF Inodes, TableOf

LEMMA PutRead ==
  ASSUME Typed, NEW p \in Dirs, NEW a \in Names, NEW n \in Inodes,
         entries[p][a] = None, entries' = With(p, a, n)
  PROVE  /\ \A k \in Inodes : Named(k)' <=> Named(k) \/ k = n
         /\ \A d \in Dirs : Subdirs(d)' = Subdirs(d) + (IF d = p /\ n \in Dirs THEN 1 ELSE 0)
         /\ \A d \in Dirs : d # p => (IsEmpty(d)' <=> IsEmpty(d))
<1>1. \A d \in Dirs, b \in Names : entries'[d][b] = IF <<d, b>> = <<p, a>> THEN n ELSE entries[d][b]
  BY WithType
<1>2. None \notin Inodes /\ None \notin Dirs
  BY NoneApart DEF Inodes
<1>3. \A k \in Inodes : Named(k)' <=> Named(k) \/ k = n
  BY <1>1, <1>2 DEF Named
<1>4. \A d \in Dirs : d # p => (IsEmpty(d)' <=> IsEmpty(d))
  BY <1>1 DEF IsEmpty
<1>5. ASSUME NEW d \in Dirs
      PROVE  Subdirs(d)' = Subdirs(d) + (IF d = p /\ n \in Dirs THEN 1 ELSE 0)
  <2>1. CASE d = p /\ n \in Dirs
    <3>1. SubdirNames(entries', d) = SubdirNames(entries, d) \cup {a} /\ a \notin SubdirNames(entries, d)
      BY <1>1, <1>2, <2>1 DEF SubdirNames
    <3>2. QED
      BY <2>1, <3>1, SubdirsRead, FS_AddElement
  <2>2. CASE ~(d = p /\ n \in Dirs)
    <3>1. SubdirNames(entries', d) = SubdirNames(entries, d)
      BY <1>1, <1>2, <2>2 DEF SubdirNames
    <3>2. QED
      BY <2>2, <3>1, SubdirsRead
  <2>3. QED
    BY <2>1, <2>2
<1>6. QED
  BY <1>3, <1>4, <1>5

LEMMA CutRead ==
  ASSUME Typed, OneName, NEW p \in Dirs, NEW a \in Names, NEW n \in Inodes,
         entries[p][a] = n, entries' = With(p, a, None)
  PROVE  /\ \A k \in Inodes : Named(k)' <=> Named(k) /\ k # n
         /\ \A d \in Dirs : Subdirs(d)' = Subdirs(d) - (IF d = p /\ n \in Dirs THEN 1 ELSE 0)
         /\ \A d \in Dirs : IsEmpty(d) => IsEmpty(d)'
<1>1. \A d \in Dirs, b \in Names : entries'[d][b] = IF <<d, b>> = <<p, a>> THEN None ELSE entries[d][b]
  BY WithType
<1>2. None \notin Inodes /\ None \notin Dirs
  BY NoneApart DEF Inodes
<1>3. \A d \in Dirs, b \in Names : entries[d][b] = n => <<d, b>> = <<p, a>>
  BY <1>2 DEF OneName
<1>4. \A k \in Inodes : Named(k)' <=> Named(k) /\ k # n
  BY <1>1, <1>2, <1>3 DEF Named
<1>5. \A d \in Dirs : IsEmpty(d) => IsEmpty(d)'
  BY <1>1 DEF IsEmpty
<1>6. ASSUME NEW d \in Dirs
      PROVE  Subdirs(d)' = Subdirs(d) - (IF d = p /\ n \in Dirs THEN 1 ELSE 0)
  <2>1. CASE d = p /\ n \in Dirs
    <3>1. SubdirNames(entries', d) = SubdirNames(entries, d) \ {a} /\ a \in SubdirNames(entries, d)
      BY <1>1, <1>2, <2>1 DEF SubdirNames
    <3>2. QED
      BY <2>1, <3>1, SubdirsRead, FS_RemoveElement
  <2>2. CASE ~(d = p /\ n \in Dirs)
    <3>1. SubdirNames(entries', d) = SubdirNames(entries, d)
      BY <1>1, <1>2, <2>2 DEF SubdirNames
    <3>2. QED
      BY <2>2, <3>1, SubdirsRead
  <2>3. QED
    BY <2>1, <2>2
<1>7. QED
  BY <1>4, <1>5, <1>6

LEMMA MoveRead ==
  ASSUME Typed, OneName, NEW i \in DOMAIN behaviours, R(i).p \in Dirs, R(i).a \in Names,
         NEW m, MovesTo(i, m)
  PROVE  LET p == R(i).p  q == R(i).q  n == Target(i)
         IN /\ \A k \in Inodes : Named(k)' <=> Named(k) /\ k # m
            /\ \A d \in Dirs : Subdirs(d)' = Subdirs(d) - (IF d = p /\ n \in Dirs THEN 1 ELSE 0)
                                                        + (IF d = q /\ n \in Dirs THEN 1 ELSE 0)
            /\ \A d \in Dirs : d # q => (IsEmpty(d) => IsEmpty(d)')
<1> DEFINE p == R(i).p  q == R(i).q  n == Target(i)  a == R(i).a  b == R(i).b
<1>1. /\ p \in Dirs /\ a \in Names /\ q \in Dirs /\ b \in Names /\ n \in Inodes
      /\ entries[p][a] = n /\ entries[q][b] = m /\ m \in {None} \cup Files /\ <<p, a>> # <<q, b>>
      /\ entries' = Moved(R(i), n, b)
  BY DEF MovesTo, Target
<1>2. \A d \in Dirs, c \in Names :
        entries'[d][c] = IF <<d, c>> = <<q, b>> THEN n
                         ELSE IF <<d, c>> = <<p, a>> THEN None ELSE entries[d][c]
  BY <1>1, MovedType
<1> HIDE DEF p, q, n, a, b
<1>3. None \notin Inodes /\ None \notin Dirs /\ m \notin Dirs
  BY <1>1, NoneApart, NotBoth DEF Inodes
<1>4. /\ \A d \in Dirs, c \in Names : entries[d][c] = n => d = p /\ c = a
      /\ \A d \in Dirs, c \in Names : m # None /\ entries[d][c] = m => d = q /\ c = b
  BY <1>1, <1>3 DEF OneName
<1>5. ASSUME NEW k \in Inodes
      PROVE  Named(k)' <=> Named(k) /\ k # m
  <2>1. CASE k = n
    <3>1. n # m
      BY <1>1, <1>4
    <3>2. Named(k) /\ Named(k)'
      BY <1>1, <1>2, <2>1 DEF Named
    <3>3. QED
      BY <2>1, <3>1, <3>2
  <2>2. CASE k # n
    <3>1. Named(k)' => Named(k) /\ k # m
      BY <1>1, <1>2, <1>3, <1>4, <2>2 DEF Named
    <3>2. Named(k) /\ k # m => Named(k)'
      BY <1>1, <1>2, <2>2 DEF Named
    <3>3. QED
      BY <3>1, <3>2
  <2>3. QED
    BY <2>1, <2>2
<1>6. \A d \in Dirs : d # q => (IsEmpty(d) => IsEmpty(d)')
  BY <1>2 DEF IsEmpty
<1>7. ASSUME NEW d \in Dirs
      PROVE  Subdirs(d)' = Subdirs(d) - (IF d = p /\ n \in Dirs THEN 1 ELSE 0)
                                      + (IF d = q /\ n \in Dirs THEN 1 ELSE 0)
  <2> DEFINE S == SubdirNames(entries, d)  T == IF d = p THEN S \ {a} ELSE S
  <2>1. CASE n \notin Dirs
    <3>1. SubdirNames(entries', d) = S
      BY <1>1, <1>2, <1>3, <2>1 DEF SubdirNames
    <3>2. QED
      BY <2>1, <3>1, SubdirsRead
  <2>2. CASE n \in Dirs
    <3>1. /\ d = p => a \in S
          /\ d = q => b \notin S
          /\ SubdirNames(entries', d) = IF d = q THEN T \cup {b} ELSE T
      BY <1>1, <1>2, <1>3, <2>2 DEF SubdirNames
    <3>2. IsFiniteSet(S) /\ Cardinality(S) \in Nat
      BY SubdirsRead
    <3>3. IsFiniteSet(T) /\ Cardinality(T) = Cardinality(S) - (IF d = p THEN 1 ELSE 0)
      <4> HIDE DEF S
      <4>1. QED
        BY <3>1, <3>2, FS_RemoveElement
    <3>4. Cardinality(SubdirNames(entries', d)) = Cardinality(T) + (IF d = q THEN 1 ELSE 0)
      <4>1. d = q => b \notin T
        BY <3>1
      <4>2. SubdirNames(entries', d) = IF d = q THEN T \cup {b} ELSE T
        BY <3>1
      <4>3. IsFiniteSet(T)
        BY <3>3
      <4> HIDE DEF T, S
      <4>4. Cardinality(T) \in Nat
        BY <4>3, FS_CardinalityType
      <4>5. d = q => Cardinality(T \cup {b}) = Cardinality(T) + 1
        BY <4>1, <4>3, FS_AddElement
      <4>6. QED
        BY <4>2, <4>4, <4>5
    <3> HIDE DEF T
    <3>5. QED
      BY <2>2, <3>2, <3>3, <3>4, SubdirsRead
  <2>3. QED
    BY <2>1, <2>2
<1>8. QED
  BY <1>5, <1>6, <1>7 DEF p, q, n

------------------------------------------------------------------------------
(* The links.                                                               *)
LEMMA HasEnds ==
  ASSUME Typed, NEW i \in DOMAIN behaviours, Ends(i), NEW step, NEW n
  PROVE  Has(behaviours', step, n) <=>
           \E k \in DOMAIN behaviours : k # i /\ behaviours[k].step = step /\ behaviours[k].n = n
  BY EndsShape, HasShifted

LEMMA HasFollows ==
  ASSUME Typed, NEW i \in DOMAIN behaviours, NEW y, Follows(i, y), NEW step, NEW n
  PROVE  Has(behaviours', step, n) <=>
           \/ \E k \in DOMAIN behaviours : k # i /\ behaviours[k].step = step /\ behaviours[k].n = n
           \/ y.step = step /\ y.n = n
<1> DEFINE S == Records \cup {y}  t == RemoveAt(behaviours, i)
<1>1. behaviours \in Seq(S) /\ y \in S
  BY DEF Typed
<1> HIDE DEF S
<1>2. t \in Seq(S) /\ Shifted(behaviours, t, i)
  BY <1>1, ShiftedSeq
<1>3. behaviours' = Append(t, y)
  BY DEF Follows
<1> HIDE DEF t
<1>4. Grown(t, behaviours', y)
  BY <1>1, <1>2, <1>3, GrownSeq
<1>5. QED
  BY <1>2, <1>4, HasShifted, HasGrown

(* A behaviour that runs without a change of names or links.                *)
Calm(i) ==
  /\ entries' = entries /\ nlink' = nlink
  /\ behaviours[i].step \notin {"add", "unlinked"}
  /\ Ends(i) \/ \E y : Follows(i, y) /\ y.step \notin {"add", "unlinked"}

LEMMA CalmWaits ==
  ASSUME Typed, NEW i \in DOMAIN behaviours, Calm(i), NEW n
  PROVE  (Adding(n)' <=> Adding(n)) /\ (Unlinking(n)' <=> Unlinking(n))
<1>1. ASSUME NEW step \in {"add", "unlinked"}
      PROVE  Has(behaviours', step, n) <=> Has(behaviours, step, n)
  <2>1. behaviours[i].step # step
    BY DEF Calm
  <2>2. CASE Ends(i)
    BY <2>1, <2>2, HasEnds DEF Has
  <2>3. ASSUME NEW y, Follows(i, y), y.step \notin {"add", "unlinked"}
        PROVE  Has(behaviours', step, n) <=> Has(behaviours, step, n)
    BY <2>1, <2>3, HasFollows DEF Has
  <2>4. QED
    BY <2>2, <2>3 DEF Calm
<1>2. QED
  BY <1>1, HasRead

LEMMA LinksSame ==
  ASSUME LinksCounted, entries' = entries, nlink' = nlink,
         \A n \in Inodes : (Adding(n)' <=> Adding(n)) /\ (Unlinking(n)' <=> Unlinking(n))
  PROVE  LinksCounted'
<1>1. ASSUME NEW n \in Files
      PROVE  FileLinks(n)'
  <2>1. FileLinks(n) /\ n \in Inodes
    BY DEF LinksCounted, Inodes
  <2>2. Named(n)' <=> Named(n)
    BY DEF Named
  <2>3. (Adding(n)' <=> Adding(n)) /\ (Unlinking(n)' <=> Unlinking(n))
    BY <2>1
  <2>4. QED
    BY <2>1, <2>2, <2>3 DEF FileLinks
<1>2. ASSUME NEW n \in Dirs
      PROVE  DirLinks(n)'
  <2>1. DirLinks(n) /\ n \in Inodes
    BY DEF LinksCounted, Inodes
  <2>2. (Named(n)' <=> Named(n)) /\ (IsEmpty(n)' <=> IsEmpty(n)) /\ Subdirs(n)' = Subdirs(n)
    BY DEF Named, IsEmpty, Subdirs
  <2>3. Adding(n)' <=> Adding(n)
    BY <2>1
  <2>4. QED
    BY <2>1, <2>2, <2>3 DEF DirLinks
<1>3. QED
  BY <1>1, <1>2 DEF LinksCounted

LEMMA CalmSpawns ==
  ASSUME NEW i, NEW step, NEW n, NEW m, NEW on, Spawns(i, step, n, m, on),
         entries' = entries, nlink' = nlink,
         behaviours[i].step \notin {"add", "unlinked"}, step \notin {"add", "unlinked"}
  PROVE  Calm(i)
  BY SpawnsFields DEF Calm

(* What else may happen, when the behaviour at i runs.                      *)
Cutting(i) == UnlinkEntry(i) /\ Target(i) \in Files /\ ~Denied(i, R(i).p)
Removing(i) == RmdirRemove(i) /\ IsEmpty(behaviours[i].n)
Replacing(i) ==
  /\ RenameReplace(i) /\ behaviours[i].m \in Files /\ Target(i) \in Files
  /\ MovesTo(i, behaviours[i].m)
  /\ nlink' = [nlink EXCEPT ![behaviours[i].m] = @ - 1]

LEMMA CalmOrNot ==
  ASSUME ~AllRequests, Typed, OwnRequests, Captured, NEW i \in DOMAIN behaviours, RunBehaviour(i)
  PROVE  \/ Calm(i) \/ (\E op \in {"create", "mkdir"} : MakeEntry(i, op)) \/ AddInode(i)
         \/ Cutting(i) \/ UnlinkCount(i) \/ Removing(i) \/ RenameMove(i) \/ Replacing(i)
<1>1. CASE LookupEntry(i)
  <2>1. behaviours[i].step = "lookup" /\ entries' = entries /\ nlink' = nlink
    BY <1>1 DEF LookupEntry, Runs, counts
  <2>2. Ends(i) \/ Spawns(i, "get", Target(i), None, {Target(i), TableOf(Target(i))})
    BY <1>1 DEF LookupEntry
  <2>3. QED
    BY <2>1, <2>2, CalmSpawns DEF Calm
<1>2. CASE GetInode(i) \/ Refuse(i) \/ RenameDenied(i) \/ Forget(i) \/ UseInode(i) \/ Setattr(i)
  BY <1>2 DEF GetInode, Refuse, RenameDenied, Forget, UseInode, Setattr, Runs, counts, Calm
<1>3. CASE UnlinkEntry(i)
  BY <1>3 DEF UnlinkEntry, Runs, counts, Calm, Cutting
<1>4. CASE RmdirEntry(i)
  <2>1. behaviours[i].step = "rmdir" /\ entries' = entries /\ nlink' = nlink
    BY <1>4 DEF RmdirEntry, Runs, counts
  <2>2. Ends(i) \/ Spawns(i, "remove", Target(i), None, {Target(i), R(i).p})
    BY <1>4 DEF RmdirEntry
  <2>3. QED
    BY <2>1, <2>2, CalmSpawns DEF Calm
<1>5. CASE RmdirRemove(i)
  BY <1>5 DEF RmdirRemove, Runs, Calm, Removing
<1>6. CASE RenameFind(i)
  <2>1. behaviours[i].step = "rename" /\ entries' = entries /\ nlink' = nlink
    BY <1>6 DEF RenameFind, Runs, counts
  <2>2. Ends(i) \/ Spawns(i, "move", Target(i), None, {Target(i), R(i).p, R(i).q})
    BY <1>6 DEF RenameFind
  <2>3. QED
    BY <2>1, <2>2, CalmSpawns DEF Calm
<1>7. CASE RenameTwo(i)
  <2>1. behaviours[i].step = "move" /\ entries' = entries /\ nlink' = nlink
    BY <1>7 DEF RenameTwo, Runs, counts
  <2>2. Spawns(i, "tables", behaviours[i].n, entries[R(i).q][R(i).b], {FilesTable, DirsTable})
    BY <1>7 DEF RenameTwo
  <2>3. QED
    BY <2>1, <2>2, CalmSpawns
<1>8. CASE RenameTables(i)
  <2> DEFINE n == InTable(behaviours[i].n)  m == InTable(behaviours[i].m)
  <2>1. behaviours[i].step = "tables" /\ entries' = entries /\ nlink' = nlink
    BY <1>8 DEF RenameTables, Runs, counts
  <2>2. Spawns(i, "replace", n, m, {R(i).p, R(i).q, n, m} \ {None})
    BY <1>8 DEF RenameTables
  <2> HIDE DEF n, m
  <2>3. QED
    BY <2>1, <2>2, CalmSpawns
<1>9. CASE RenameReplace(i)
  <2>1. behaviours[i].step = "replace" /\ Ends(i)
    BY <1>9 DEF RenameReplace, Runs
  <2>2. \/ entries' = entries /\ nlink' = nlink
        \/ /\ behaviours[i].m \in Files /\ Target(i) \in Files /\ MovesTo(i, behaviours[i].m)
           /\ nlink' = [nlink EXCEPT ![behaviours[i].m] = @ - 1]
    BY <1>9, ReplaceCaptures
  <2>3. QED
    BY <1>9, <2>1, <2>2 DEF Calm, Replacing
<1>10. QED
  BY <1>1, <1>2, <1>3, <1>4, <1>5, <1>6, <1>7, <1>8, <1>9 DEF RunBehaviour

LEMMA TablesStay ==
  ASSUME TablesExact, tables' = tables, made' = made,
         \A n \in made : Adding(n)' <=> Adding(n),
         \A n \in made : krefs'[n] = krefs[n],
         \A n \in made : \/ nlink'[n] = nlink[n]
                         \/ ~Adding(n) /\ n \in tables /\ (nlink'[n] > 0 \/ krefs[n] > 0)
  PROVE  TablesExact'
<1>1. ASSUME NEW n \in made
      PROVE  n \in tables <=> ~Adding(n)' /\ (nlink'[n] > 0 \/ krefs'[n] > 0)
  <2>1. n \in tables <=> ~Adding(n) /\ (nlink[n] > 0 \/ krefs[n] > 0)
    BY DEF TablesExact
  <2>2. Adding(n)' <=> Adding(n)
    OBVIOUS
  <2>3. QED
    BY <2>1, <2>2
<1>2. QED
  BY <1>1 DEF TablesExact

(* The directories that a running behaviour holds, and is about to change. *)
Homes(i) == {R(i).p} \cup (IF behaviours[i].step \in {"rename", "move", "replace"} THEN {R(i).q} ELSE {})
Alone(i) == \A j \in 1 .. i - 1 : behaviours[j].on \cap behaviours[i].on = {}

LEMMA HomeLinks ==
  ASSUME Shape, Places, LookupsCounted, LinksCounted, TablesExact, NEW i \in DOMAIN behaviours, Alone(i),
         behaviours[i].step \notin Servants \cup {"get", "tables", "use", "setattr", "lookup"},
         NEW d \in Homes(i)
  PROVE  /\ d \in Dirs /\ d \in Inodes /\ d \in R(i).pins /\ d \in made /\ d \in tables /\ ~Adding(d)
         /\ d = Root \/ Named(d)
         /\ nlink[d] = 2 + Subdirs(d) /\ Subdirs(d) \in Nat
<1> USE DEF Shape, Places
<1> DEFINE x == behaviours[i]  c == Client(i)
<1>1. c \in Clients /\ R(i) = request[c] /\ R(i).op \in Changing /\ R(i).p \in Dirs /\ R(i).p \in R(i).pins
  BY WriterFacts DEF Servants
<1>2. x \in Records /\ OnOK(x) /\ R(i) = x.r /\ x.r.op = OpOf(x.step)
  BY Running DEF Servants
<1>3. x.step \in {"rename", "move", "replace"} =>
        /\ R(i).q \in Dirs /\ R(i).q \in R(i).pins /\ R(i).q \in x.on /\ R(i).op = "rename"
  BY <1>2, RunningPlaces DEF OnOK, RenameSteps, OpOf, Servants
<1>4. R(i).p \in x.on
  BY <1>2 DEF OnOK, Servants
<1>5. d \in Dirs /\ d \in R(i).pins /\ d \in x.on
  BY <1>1, <1>3, <1>4 DEF Homes
<1>6. Linked(d)
  BY <1>1, <1>3 DEF InPlace, Homes
<1>7. d \in Inodes
  BY <1>5 DEF Inodes
<1>8. d \in made /\ ~Adding(d) /\ d \in tables
  BY <1>2, <1>5, PinnedInTable DEF Alone, Servants
<1>9. d = Root \/ Named(d)
  BY <1>6, <1>7, LinkedRead
<1>10. nlink[d] = 2 + Subdirs(d)
  BY <1>5, <1>8, <1>9 DEF LinksCounted, DirLinks
<1>11. QED
  BY <1>5, <1>7, <1>8, <1>9, <1>10, SubdirsRead

LEMMA RunsAlone ==
  ASSUME NEW i, NEW step, Runs(i, step)
  PROVE  i \in DOMAIN behaviours /\ behaviours[i].step = step /\ Alone(i)
  BY DEF Runs, Alone

LEMMA MakeTally ==
  ASSUME Shape, Places, LookupsCounted, LinksCounted, TablesExact, NEW i \in DOMAIN behaviours,
         NEW op \in {"create", "mkdir"}, MakeEntry(i, op)
  PROVE  LinksCounted' /\ TablesExact'
<1> DEFINE n == Makes(op)  p == R(i).p  z == Behaviour("add", None, Idle, n, None, {n, TableOf(n)})
<1>1. /\ behaviours[i].step = op /\ Alone(i) /\ Target(i) = None
      /\ made' = made \cup {n} /\ entries' = With(p, R(i).a, n)
      /\ nlink' = IF op = "mkdir" THEN [nlink EXCEPT ![p] = @ + 1] ELSE nlink
      /\ Follows(i, z) /\ krefs' = krefs /\ tables' = tables
  BY RunsAlone DEF MakeEntry, Refused, MakesSubdir, Makes
<1>2. op \notin Servants \cup {"get", "tables", "use", "setattr", "lookup"}
  BY DEF Servants
<1>3. n \in Fresh(op) /\ n \notin made /\ n \in Inodes
  BY <1>1, Room DEF Shape
<1>4. PICK y : Follows(i, y) /\ y.step = "add" /\ y.n = n
  <2>1. z.step = "add" /\ z.n = n
    BY DEF Behaviour
  <2> HIDE DEF z
  <2>2. QED
    BY <1>1, <2>1
<1> HIDE DEF n, z
<1>5. /\ p \in Dirs /\ p \in Inodes /\ p \in made /\ p \in tables /\ ~Adding(p)
      /\ p = Root \/ Named(p)
      /\ nlink[p] = 2 + Subdirs(p) /\ Subdirs(p) \in Nat
  BY <1>1, <1>2, HomeLinks DEF Homes
<1>6. R(i).a \in Names /\ Target(i) = entries[p][R(i).a]
  BY <1>1, <1>2, WriterFacts DEF Target, Shape
<1> HIDE DEF p
<1>7. /\ \A k \in Inodes : Named(k)' <=> Named(k) \/ k = n
      /\ \A d \in Dirs : Subdirs(d)' = Subdirs(d) + (IF d = p /\ n \in Dirs THEN 1 ELSE 0)
      /\ \A d \in Dirs : d # p => (IsEmpty(d)' <=> IsEmpty(d))
  BY <1>1, <1>3, <1>5, <1>6, PutRead DEF Shape
<1>8. ASSUME NEW k
      PROVE  (Adding(k)' <=> Adding(k) \/ k = n) /\ (Unlinking(k)' <=> Unlinking(k))
  <2>1. \A step : Has(behaviours', step, k) <=>
           \/ \E j \in DOMAIN behaviours : j # i /\ behaviours[j].step = step /\ behaviours[j].n = k
           \/ "add" = step /\ n = k
    BY <1>4, HasFollows DEF Shape
  <2>2. behaviours[i].step \notin {"add", "unlinked"}
    BY <1>1
  <2>3. QED
    BY <2>1, <2>2, HasRead DEF Has
<1>9. \A k \in Inodes : nlink'[k] = IF op = "mkdir" /\ k = p THEN nlink[k] + 1 ELSE nlink[k]
  <2>1. nlink \in [Inodes -> Int]
    BY DEF Shape, Typed
  <2>2. QED
    BY <1>1, <1>5, <2>1, BumpInt
<1>10. ~Adding(n) /\ ~Unlinking(n) /\ ~Named(n) /\ n # Root /\ n \notin tables
  BY <1>3, NoneApart DEF Shape, MadeOnes, Typed, Adding, Unlinking, Waiting, Named
<1>11. ASSUME NEW k \in Files
       PROVE  FileLinks(k)'
  <2>1. k \in Inodes /\ k # p /\ FileLinks(k)
    BY <1>5, NotBoth DEF LinksCounted
  <2>2. /\ nlink'[k] = nlink[k] /\ (Named(k)' <=> Named(k) \/ k = n)
        /\ (Adding(k)' <=> Adding(k) \/ k = n) /\ (Unlinking(k)' <=> Unlinking(k))
    BY <1>7, <1>8, <1>9, <2>1
  <2>3. CASE k = n
    BY <1>10, <2>2, <2>3 DEF FileLinks
  <2>4. CASE k # n
    BY <2>1, <2>2, <2>4 DEF FileLinks
  <2>5. QED
    BY <2>3, <2>4
<1>12. ASSUME NEW k \in Dirs
       PROVE  DirLinks(k)'
  <2>1. k \in Inodes /\ DirLinks(k)
    BY DEF LinksCounted, Inodes
  <2>2. /\ Named(k)' <=> Named(k) \/ k = n
        /\ Adding(k)' <=> Adding(k) \/ k = n
        /\ Subdirs(k)' = Subdirs(k) + (IF k = p /\ n \in Dirs THEN 1 ELSE 0)
        /\ k # p => (IsEmpty(k)' <=> IsEmpty(k))
        /\ nlink'[k] = IF op = "mkdir" /\ k = p THEN nlink[k] + 1 ELSE nlink[k]
    BY <1>7, <1>8, <1>9, <2>1
  <2>3. n \in Dirs <=> op = "mkdir"
    BY <1>3, NotBoth DEF Fresh
  <2>4. CASE k = n
    <3>1. IsEmpty(n) /\ n # p
      BY <1>3, <1>5, <1>10, <2>1, <2>4 DEF DirLinks
    <3>2. QED
      BY <2>2, <2>4, <3>1 DEF DirLinks
  <2>5. CASE k = p /\ k # n
    BY <1>5, <2>2, <2>3, <2>5 DEF DirLinks
  <2>6. CASE k # p /\ k # n
    <3>1. Subdirs(k)' = Subdirs(k)
      BY <2>2, <2>6, SubdirsRead
    <3>2. QED
      BY <2>1, <2>2, <2>6, <3>1 DEF DirLinks
  <2>7. QED
    BY <2>4, <2>5, <2>6
<1>13. ASSUME NEW k \in made'
       PROVE  k \in tables' <=> ~Adding(k)' /\ (nlink'[k] > 0 \/ krefs'[k] > 0)
  <2>1. CASE k = n
    BY <1>1, <1>8, <1>10, <2>1
  <2>2. CASE k # n
    <3>1. k \in made /\ k \in Inodes
      BY <1>1, <1>13, <2>2 DEF Shape, Typed
    <3>2. k \in tables <=> ~Adding(k) /\ (nlink[k] > 0 \/ krefs[k] > 0)
      BY <3>1 DEF TablesExact
    <3>3. Adding(k)' <=> Adding(k)
      BY <1>8, <2>2
    <3>4. nlink'[k] = IF op = "mkdir" /\ k = p THEN nlink[k] + 1 ELSE nlink[k]
      BY <1>9, <3>1
    <3>5. CASE k = p
      BY <1>1, <1>5, <3>3, <3>4, <3>5
    <3>6. CASE k # p
      BY <1>1, <3>2, <3>3, <3>4, <3>6
    <3>7. QED
      BY <3>5, <3>6
  <2>3. QED
    BY <2>1, <2>2
<1>14. QED
  BY <1>11, <1>12, <1>13 DEF LinksCounted, TablesExact

LEMMA EmptyCounts ==
  ASSUME NEW d, IsEmpty(d)
  PROVE  Subdirs(d) = 0
<1>1. SubdirNames(entries, d) = {}
  BY NoneApart DEF SubdirNames, IsEmpty, Inodes
<1>2. QED
  BY <1>1, SubdirsRead, FS_EmptySet

LEMMA AddTally ==
  ASSUME Shape, LookupsCounted, LinksCounted, TablesExact, LookupsCounted',
         NEW i \in DOMAIN behaviours, AddInode(i)
  PROVE  LinksCounted' /\ TablesExact'
<1> DEFINE n == behaviours[i].n
<1>1. /\ behaviours[i].step = "add" /\ Ends(i) /\ entries' = entries /\ made' = made
      /\ nlink' = [nlink EXCEPT ![n] = IF n \in Files THEN 1 ELSE 2]
      /\ krefs' = [krefs EXCEPT ![n] = @ + 1] /\ tables' = tables \cup {n}
  BY DEF AddInode, Runs
<1>2. n \in Inodes
  BY <1>1, Running DEF FoundOK, Servants, Shape
<1>3. Adding(n)
  BY <1>1 DEF Adding, Waiting
<1>4. ASSUME NEW k
      PROVE  (Adding(k)' <=> Adding(k) /\ k # n) /\ (Unlinking(k)' <=> Unlinking(k))
  <2>1. \A step : Has(behaviours', step, k) <=>
           \E j \in DOMAIN behaviours : j # i /\ behaviours[j].step = step /\ behaviours[j].n = k
    BY <1>1, HasEnds DEF Shape
  <2>2. Unlinking(k)' <=> Unlinking(k)
    BY <1>1, <2>1, HasRead DEF Has
  <2>3. Adding(k)' <=> Adding(k) /\ k # n
    BY <1>1, <2>1, HasRead, OneAdd DEF Has, Shape
  <2>4. QED
    BY <2>2, <2>3
<1> HIDE DEF n
<1>5. ASSUME NEW k \in Inodes
      PROVE  /\ nlink'[k] = IF k = n THEN (IF n \in Files THEN 1 ELSE 2) ELSE nlink[k]
             /\ krefs'[k] = IF k = n THEN krefs[n] + 1 ELSE krefs[k]
  BY <1>1, <1>2 DEF Shape, Typed
<1>6. ASSUME NEW k
      PROVE  (Named(k)' <=> Named(k)) /\ (IsEmpty(k)' <=> IsEmpty(k)) /\ Subdirs(k)' = Subdirs(k)
  BY <1>1 DEF Named, IsEmpty, Subdirs
<1>7. ASSUME NEW k \in Files
      PROVE  FileLinks(k)'
  <2>1. k \in Inodes /\ FileLinks(k)
    BY NotBoth DEF LinksCounted
  <2>2. CASE k = n
    BY <1>3, <1>4, <1>5, <1>6, <2>1, <2>2 DEF FileLinks
  <2>3. CASE k # n
    BY <1>4, <1>5, <1>6, <2>1, <2>3 DEF FileLinks
  <2>4. QED
    BY <2>2, <2>3
<1>8. ASSUME NEW k \in Dirs
      PROVE  DirLinks(k)'
  <2>1. k \in Inodes /\ DirLinks(k) /\ k \notin Files
    BY NotBoth DEF LinksCounted, Inodes
  <2>2. CASE k = n
    <3>1. Named(k) /\ IsEmpty(k) /\ Subdirs(k) = 0
      BY <1>3, <2>1, <2>2, EmptyCounts DEF DirLinks
    <3>2. nlink'[k] = 2
      BY <1>5, <2>1, <2>2
    <3>3. QED
      BY <1>4, <1>6, <2>2, <3>1, <3>2 DEF DirLinks
  <2>3. CASE k # n
    BY <1>4, <1>5, <1>6, <2>1, <2>3 DEF DirLinks
  <2>4. QED
    BY <2>2, <2>3
<1>9. ASSUME NEW k \in made
      PROVE  k \in tables' <=> ~Adding(k)' /\ (nlink'[k] > 0 \/ krefs'[k] > 0)
  <2>1. k \in Inodes /\ (k \in tables <=> ~Adding(k) /\ (nlink[k] > 0 \/ krefs[k] > 0))
    BY DEF TablesExact, Shape, Typed
  <2>2. CASE k = n
    BY <1>1, <1>4, <1>5, <2>1, <2>2
  <2>3. CASE k # n
    BY <1>1, <1>4, <1>5, <2>1, <2>3
  <2>4. QED
    BY <2>2, <2>3
<1>10. QED
  BY <1>1, <1>7, <1>8, <1>9 DEF LinksCounted, TablesExact

LEMMA CutTally ==
  ASSUME Shape, Places, LookupsCounted, LinksCounted, TablesExact,
         NEW i \in DOMAIN behaviours, Cutting(i)
  PROVE  LinksCounted' /\ TablesExact'
<1> DEFINE n == Target(i)  p == R(i).p
<1>1. /\ behaviours[i].step = "unlink" /\ n \in Files /\ entries' = With(p, R(i).a, None)
      /\ Spawns(i, "unlinked", n, None, {n, p}) /\ UNCHANGED counts
  BY RunsAlone DEF Cutting, UnlinkEntry
<1>2. p \in Dirs /\ R(i).a \in Names /\ n = entries[p][R(i).a]
  BY <1>1, WriterFacts DEF Target, Shape, Servants
<1>3. PICK y : Follows(i, y) /\ y.step = "unlinked" /\ y.n = n
  BY <1>1, SpawnsFields
<1> HIDE DEF n, p
<1>4. n \in Inodes /\ n \notin Dirs
  BY <1>1, NotBoth
<1>5. /\ \A k \in Inodes : Named(k)' <=> Named(k) /\ k # n
      /\ \A d \in Dirs : Subdirs(d)' = Subdirs(d) - (IF d = p /\ n \in Dirs THEN 1 ELSE 0)
      /\ \A d \in Dirs : IsEmpty(d) => IsEmpty(d)'
  BY <1>1, <1>2, <1>4, CutRead DEF Shape, Places
<1>6. ASSUME NEW k
      PROVE  (Adding(k)' <=> Adding(k)) /\ (Unlinking(k)' <=> Unlinking(k) \/ k = n)
  <2>1. \A step : Has(behaviours', step, k) <=>
           \/ \E j \in DOMAIN behaviours : j # i /\ behaviours[j].step = step /\ behaviours[j].n = k
           \/ "unlinked" = step /\ n = k
    BY <1>3, HasFollows DEF Shape
  <2>2. behaviours[i].step \notin {"add", "unlinked"}
    BY <1>1
  <2>3. QED
    BY <2>1, <2>2, HasRead DEF Has
<1>7. Named(n)
  BY <1>2 DEF Named
<1>8. nlink' = nlink /\ krefs' = krefs /\ tables' = tables /\ made' = made
  BY <1>1 DEF counts
<1>9. ASSUME NEW k \in Files
      PROVE  FileLinks(k)'
  <2>1. k \in Inodes /\ FileLinks(k)
    BY NotBoth DEF LinksCounted
  <2>2. CASE k = n
    BY <1>5, <1>6, <1>7, <1>8, <2>1, <2>2 DEF FileLinks
  <2>3. CASE k # n
    BY <1>5, <1>6, <1>8, <2>1, <2>3 DEF FileLinks
  <2>4. QED
    BY <2>2, <2>3
<1>10. ASSUME NEW k \in Dirs
       PROVE  DirLinks(k)'
  <2>1. k \in Inodes /\ DirLinks(k) /\ k # n
    BY <1>4 DEF LinksCounted, Inodes
  <2>2. Subdirs(k)' = Subdirs(k)
    BY <1>4, <1>5, SubdirsRead
  <2>3. (Named(k)' <=> Named(k)) /\ (Adding(k)' <=> Adding(k)) /\ (IsEmpty(k) => IsEmpty(k)')
    BY <1>5, <1>6, <2>1
  <2>4. QED
    BY <1>8, <2>1, <2>2, <2>3 DEF DirLinks
<1>11. TablesExact'
  BY <1>6, <1>8, TablesStay
<1>12. QED
  BY <1>9, <1>10, <1>11 DEF LinksCounted

(* One unlink at a time waits to count an inode: its victim is pinned.      *)
LEMMA OneUnlinked ==
  ASSUME Typed, OwnRequests, PinsLocked, Captured, NEW i \in DOMAIN behaviours, NEW j \in DOMAIN behaviours,
         behaviours[i].step = "unlinked", behaviours[j].step = "unlinked",
         behaviours[i].n = behaviours[j].n
  PROVE  i = j
<1>1. ASSUME NEW k \in DOMAIN behaviours, behaviours[k].step = "unlinked"
      PROVE  /\ behaviours[k].n \in request[behaviours[k].c].pins
             /\ behaviours[k].c \in Clients /\ request[behaviours[k].c].op \in Changing
             /\ behaviours[k].step \notin Servants
  <2>1. behaviours[k].n \in behaviours[k].r.pins
    BY <1>1 DEF Captured, CapturedOK
  <2>2. behaviours[k].step \notin Servants /\ OpOf("unlinked") \in Changing
    BY <1>1 DEF Servants, OpOf, Changing, RenameSteps
  <2>3. QED
    BY <1>1, <2>1, <2>2, Running
<1>2. behaviours[i].c = behaviours[j].c
  BY <1>1 DEF PinsLocked
<1>3. QED
  BY <1>1, <1>2 DEF OwnRequests

LEMMA UnlinkTally ==
  ASSUME Shape, Places, LookupsCounted, LinksCounted, TablesExact,
         NEW i \in DOMAIN behaviours, UnlinkCount(i)
  PROVE  LinksCounted' /\ TablesExact'
<1> DEFINE n == behaviours[i].n
<1>1. /\ behaviours[i].step = "unlinked" /\ Ends(i) /\ entries' = entries /\ made' = made /\ Alone(i)
      /\ nlink' = [nlink EXCEPT ![n] = @ - 1] /\ krefs' = krefs /\ tables' = tables
  BY RunsAlone DEF UnlinkCount
<1>2. n \in Files /\ n \in Inodes /\ n \notin Dirs /\ n \in behaviours[i].on
  BY <1>1, Running, NotBoth DEF FoundOK, OnOK, Shape
<1>3. n \in behaviours[i].r.pins
  BY <1>1 DEF Places, Captured, CapturedOK
<1>4. n \in made /\ ~Adding(n) /\ krefs[n] > 0 /\ n \in tables
  BY <1>1, <1>2, <1>3, PinnedInTable DEF Alone, Servants, Shape
<1>5. Unlinking(n)
  BY <1>1 DEF Unlinking, Waiting
<1>6. ASSUME NEW k
      PROVE  (Adding(k)' <=> Adding(k)) /\ (Unlinking(k)' <=> Unlinking(k) /\ k # n)
  <2>1. \A step : Has(behaviours', step, k) <=>
           \E j \in DOMAIN behaviours : j # i /\ behaviours[j].step = step /\ behaviours[j].n = k
    BY <1>1, HasEnds DEF Shape
  <2>2. Adding(k)' <=> Adding(k)
    BY <1>1, <2>1, HasRead DEF Has
  <2>3. Unlinking(k)' <=> Unlinking(k) /\ k # n
    BY <1>1, <2>1, HasRead, OneUnlinked DEF Has, Shape, Places
  <2>4. QED
    BY <2>2, <2>3
<1> HIDE DEF n
<1>7. \A k \in Inodes : nlink'[k] = IF k = n THEN nlink[n] - 1 ELSE nlink[k]
  <2>1. nlink \in [Inodes -> Int]
    BY DEF Shape, Typed
  <2>2. QED
    BY <1>1, <1>2, <2>1, DropInt
<1>8. ASSUME NEW k
      PROVE  (Named(k)' <=> Named(k)) /\ (IsEmpty(k)' <=> IsEmpty(k)) /\ Subdirs(k)' = Subdirs(k)
  BY <1>1 DEF Named, IsEmpty, Subdirs
<1>9. ASSUME NEW k \in Files
      PROVE  FileLinks(k)'
  <2>1. k \in Inodes /\ FileLinks(k)
    BY NotBoth DEF LinksCounted
  <2>2. CASE k = n
    BY <1>4, <1>5, <1>6, <1>7, <1>8, <2>1, <2>2 DEF FileLinks
  <2>3. CASE k # n
    BY <1>6, <1>7, <1>8, <2>1, <2>3 DEF FileLinks
  <2>4. QED
    BY <2>2, <2>3
<1>10. ASSUME NEW k \in Dirs
       PROVE  DirLinks(k)'
  <2>1. k \in Inodes /\ DirLinks(k) /\ k # n
    BY <1>2 DEF LinksCounted, Inodes
  <2>2. QED
    BY <1>6, <1>7, <1>8, <2>1 DEF DirLinks
<1>11. \A k \in made : \/ nlink'[k] = nlink[k]
                       \/ ~Adding(k) /\ k \in tables /\ (nlink'[k] > 0 \/ krefs[k] > 0)
  BY <1>4, <1>7 DEF Shape, Typed
<1>12. TablesExact'
  BY <1>1, <1>6, <1>11, TablesStay
<1>13. QED
  BY <1>9, <1>10, <1>12 DEF LinksCounted

(* The inode that a behaviour has captured, when its request pins it.       *)
LEMMA VictimFacts ==
  ASSUME Shape, Places, LookupsCounted, LinksCounted, TablesExact, NEW i \in DOMAIN behaviours, Alone(i),
         behaviours[i].step \in {"remove", "move", "replace"}
  PROVE  LET n == behaviours[i].n
         IN /\ n = Target(i) /\ n \in R(i).pins /\ n \in Inodes /\ n \in made /\ ~Adding(n)
            /\ krefs[n] > 0 /\ n \in tables
            /\ R(i).p \in Dirs /\ R(i).a \in Names /\ entries[R(i).p][R(i).a] = n
<1> DEFINE x == behaviours[i]  n == behaviours[i].n
<1>1. Old(x) = n /\ n # None /\ Old(x) \in x.r.pins \cup {None}
  BY DEF Places, Captured, CapturedOK, RenameSteps
<1>2. n \in x.r.pins /\ R(i) = x.r /\ n = entries[R(i).p][R(i).a] /\ n = Target(i)
  BY <1>1 DEF R, Old, Target
<1>3. x.step \notin Servants \cup {"get", "use", "setattr", "lookup"}
  BY DEF Servants
<1>4. OnOK(x) /\ FoundOK(x)
  BY Running DEF Shape
<1>5. n \in Inodes
  BY <1>2, <1>3, WriterFacts DEF Shape
<1>6. {n, TableOf(n)} \cap x.on # {}
  <2>1. x.step \in {"remove", "move"} => n \in x.on
    BY <1>4 DEF OnOK
  <2>2. x.step = "replace" => n \in x.on
    BY <1>1, <1>4 DEF OnOK
  <2>3. QED
    BY <2>1, <2>2
<1>7. n \in made /\ ~Adding(n) /\ krefs[n] > 0 /\ n \in tables
  BY <1>2, <1>3, <1>6, PinnedInTable DEF Alone, Shape
<1>8. QED
  BY <1>2, <1>3, <1>5, <1>7, WriterFacts DEF Shape

LEMMA EndsWaits ==
  ASSUME Typed, NEW i \in DOMAIN behaviours, Ends(i), behaviours[i].step \notin {"add", "unlinked"}, NEW k
  PROVE  (Adding(k)' <=> Adding(k)) /\ (Unlinking(k)' <=> Unlinking(k))
<1>1. \A step : Has(behaviours', step, k) <=>
         \E j \in DOMAIN behaviours : j # i /\ behaviours[j].step = step /\ behaviours[j].n = k
  BY HasEnds
<1>2. QED
  BY <1>1, HasRead DEF Has

LEMMA RemoveTally ==
  ASSUME Shape, Places, LookupsCounted, LinksCounted, TablesExact,
         NEW i \in DOMAIN behaviours, Removing(i)
  PROVE  LinksCounted' /\ TablesExact'
<1> DEFINE n == behaviours[i].n  p == R(i).p
<1>1. /\ behaviours[i].step = "remove" /\ Alone(i) /\ IsEmpty(n)
      /\ behaviours[i].step \notin {"add", "unlinked"} /\ Ends(i)
      /\ entries' = With(p, R(i).a, None)
      /\ nlink' = [nlink EXCEPT ![n] = @ - 2, ![p] = @ - 1]
      /\ krefs' = krefs /\ tables' = tables /\ made' = made
  BY RunsAlone DEF Removing, RmdirRemove
<1>2. /\ n \in Dirs /\ n \in Inodes /\ n \in made /\ ~Adding(n) /\ krefs[n] > 0 /\ n \in tables
      /\ R(i).a \in Names /\ entries[p][R(i).a] = n
  <2>1. n \in Dirs
    BY <1>1, Running DEF FoundOK, Shape
  <2>2. QED
    BY <1>1, <2>1, VictimFacts
<1>3. /\ p \in Dirs /\ p \in Inodes /\ p \in tables /\ ~Adding(p) /\ (p = Root \/ Named(p))
      /\ nlink[p] = 2 + Subdirs(p) /\ Subdirs(p) \in Nat
  BY <1>1, HomeLinks DEF Homes, Servants
<1>4. \A k \in Inodes : (Adding(k)' <=> Adding(k)) /\ (Unlinking(k)' <=> Unlinking(k))
  BY <1>1, EndsWaits DEF Shape
<1> HIDE DEF n, p
<1>5. n # p /\ Named(n) /\ n # Root /\ Subdirs(n) = 0
  <2>1. n # None
    BY <1>2, NoneApart
  <2>2. Named(n) /\ n # p
    BY <1>1, <1>2, <1>3, <2>1 DEF Named, IsEmpty
  <2>3. n # Root
    BY <1>2, <1>3, <2>1 DEF Places, OneName
  <2>4. QED
    BY <1>1, <2>2, <2>3, EmptyCounts
<1>6. /\ \A k \in Inodes : Named(k)' <=> Named(k) /\ k # n
      /\ \A d \in Dirs : Subdirs(d)' = Subdirs(d) - (IF d = p /\ n \in Dirs THEN 1 ELSE 0)
      /\ \A d \in Dirs : IsEmpty(d) => IsEmpty(d)'
  BY <1>1, <1>2, <1>3, CutRead DEF Shape, Places
<1>7. \A k \in Inodes : nlink'[k] = IF k = p THEN nlink[p] - 1 ELSE IF k = n THEN nlink[n] - 2 ELSE nlink[k]
  <2>1. nlink \in [Inodes -> Int]
    BY DEF Shape, Typed
  <2>2. QED
    BY <1>1, <1>2, <1>3, <1>5, <2>1, DropTwo
<1>8. ASSUME NEW k \in Files
      PROVE  FileLinks(k)'
  <2>1. k \in Inodes /\ FileLinks(k) /\ k # n /\ k # p
    BY <1>2, <1>3, NotBoth DEF LinksCounted
  <2>2. nlink'[k] = nlink[k] /\ (Named(k)' <=> Named(k))
    BY <1>6, <1>7, <2>1
  <2>3. (Adding(k)' <=> Adding(k)) /\ (Unlinking(k)' <=> Unlinking(k))
    BY <1>4, <2>1
  <2>4. QED
    BY <2>1, <2>2, <2>3 DEF FileLinks
<1>9. ASSUME NEW k \in Dirs
      PROVE  DirLinks(k)'
  <2>1. k \in Inodes /\ DirLinks(k)
    BY DEF LinksCounted, Inodes
  <2>2. /\ Named(k)' <=> Named(k) /\ k # n
        /\ IsEmpty(k) => IsEmpty(k)'
        /\ Subdirs(k)' = IF k = p THEN Subdirs(k) - 1 ELSE Subdirs(k)
    BY <1>2, <1>6, <2>1, SubdirsRead
  <2>3. (Adding(k)' <=> Adding(k)) /\ Subdirs(k)' \in Nat
    BY <1>4, <2>1, SubdirsRead
  <2>4. nlink'[k] = IF k = p THEN nlink[p] - 1 ELSE IF k = n THEN nlink[n] - 2 ELSE nlink[k]
    BY <1>7, <2>1
  <2>5. CASE k = p
    BY <1>3, <1>5, <2>2, <2>3, <2>4, <2>5 DEF DirLinks
  <2>6. CASE k = n
    <3>1. nlink[n] = 2
      BY <1>2, <1>5, <2>1, <2>6 DEF DirLinks
    <3>2. QED
      BY <1>1, <1>2, <1>5, <2>2, <2>3, <2>4, <2>6, <3>1 DEF DirLinks
  <2>7. CASE k # p /\ k # n
    BY <2>1, <2>2, <2>3, <2>4, <2>7 DEF DirLinks
  <2>8. QED
    BY <2>3, <2>5, <2>6, <2>7
<1>10. ASSUME NEW k \in made
       PROVE  \/ nlink'[k] = nlink[k]
              \/ ~Adding(k) /\ k \in tables /\ (nlink'[k] > 0 \/ krefs[k] > 0)
  <2>1. k \in Inodes
    BY DEF Shape, Typed
  <2>2. CASE k = p
    <3>1. Subdirs(k)' \in Nat /\ Subdirs(k)' = Subdirs(k) - 1
      BY <1>2, <1>3, <1>6, <2>2, SubdirsRead
    <3>2. nlink'[k] = nlink[k] - 1
      BY <1>7, <2>1, <2>2
    <3>3. QED
      BY <1>3, <2>2, <3>1, <3>2
  <2>3. CASE k = n
    BY <1>2, <2>3
  <2>4. CASE k # p /\ k # n
    BY <1>7, <2>1, <2>4
  <2>5. QED
    BY <2>2, <2>3, <2>4
<1>11. TablesExact'
  <2>1. \A k \in made : Adding(k)' <=> Adding(k)
    BY <1>4 DEF Shape, Typed
  <2>2. QED
    BY <1>1, <1>10, <2>1, TablesStay
<1>12. QED
  BY <1>8, <1>9, <1>11 DEF LinksCounted

LEMMA MoveTally ==
  ASSUME ~AllRequests, Shape, Places, LookupsCounted, LinksCounted, TablesExact,
         NEW i \in DOMAIN behaviours, RenameMove(i)
  PROVE  LinksCounted' /\ TablesExact'
<1> DEFINE n == behaviours[i].n  p == R(i).p  q == R(i).q
           moves == p # q /\ n \in Dirs
<1>1. /\ behaviours[i].step = "move" /\ Alone(i) /\ Ends(i)
      /\ behaviours[i].step \notin {"add", "unlinked"}
      /\ entries[q][R(i).b] = None /\ entries' = Moved(R(i), n, R(i).b)
      /\ nlink' = IF moves THEN [nlink EXCEPT ![p] = @ - 1, ![q] = @ + 1] ELSE nlink
      /\ krefs' = krefs /\ tables' = tables /\ made' = made /\ Reply(i)
  BY RunsAlone, NoLongNames DEF RenameMove, MovesUp
<1>2. n = Target(i) /\ n \in R(i).pins /\ n \in Inodes /\ R(i).a \in Names /\ p \in Dirs /\ entries[p][R(i).a] = n
  BY <1>1, VictimFacts
<1>3. /\ p \in Dirs /\ p \in Inodes /\ p \in tables /\ ~Adding(p) /\ (p = Root \/ Named(p))
      /\ nlink[p] = 2 + Subdirs(p) /\ Subdirs(p) \in Nat
  BY <1>1, HomeLinks DEF Homes, Servants
<1>4. /\ q \in Dirs /\ q \in Inodes /\ q \in tables /\ ~Adding(q) /\ (q = Root \/ Named(q))
      /\ nlink[q] = 2 + Subdirs(q) /\ Subdirs(q) \in Nat
  BY <1>1, HomeLinks DEF Homes, Servants
<1>5. MovesTo(i, None)
  <2>1. request'[Client(i)] = Idle
    BY <1>1, ReplyIdle DEF Shape, Servants
  <2>2. R(i).b \in Names /\ R(i).q \in R(i).pins
    BY <1>1, RunningPlaces DEF R, RenameSteps, Shape, Servants
  <2>3. <<R(i).p, R(i).a>> # <<R(i).q, R(i).b>>
    BY <1>1, <1>2, NoneApart
  <2>4. QED
    BY <1>1, <1>2, <1>4, <2>1, <2>2, <2>3 DEF MovesTo
<1>6. /\ \A k \in Inodes : Named(k)' <=> Named(k)
      /\ \A d \in Dirs : Subdirs(d)' = Subdirs(d) - (IF d = p /\ n \in Dirs THEN 1 ELSE 0)
                                                  + (IF d = q /\ n \in Dirs THEN 1 ELSE 0)
      /\ \A d \in Dirs : d # q => (IsEmpty(d) => IsEmpty(d)')
  <2> DEFINE m == None
  <2>1. /\ \A k \in Inodes : Named(k)' <=> Named(k) /\ k # m
        /\ \A d \in Dirs : Subdirs(d)' = Subdirs(d) - (IF d = p /\ n \in Dirs THEN 1 ELSE 0)
                                                    + (IF d = q /\ n \in Dirs THEN 1 ELSE 0)
        /\ \A d \in Dirs : d # q => (IsEmpty(d) => IsEmpty(d)')
    BY <1>2, <1>3, <1>5, MoveRead DEF Shape, Places
  <2>2. QED
    BY <2>1, NoneApart
<1>7. \A k \in Inodes : (Adding(k)' <=> Adding(k)) /\ (Unlinking(k)' <=> Unlinking(k))
  BY <1>1, EndsWaits DEF Shape
<1>8. ASSUME NEW k \in Inodes
      PROVE  nlink'[k] = nlink[k] - (IF moves /\ k = p THEN 1 ELSE 0) + (IF moves /\ k = q THEN 1 ELSE 0)
  <2> HIDE DEF n, p, q
  <2>1. nlink \in [Inodes -> Int] /\ nlink[k] \in Int
    BY DEF Shape, Typed
  <2>2. CASE moves
    <3>1. nlink'[k] = IF k = q THEN nlink[q] + 1 ELSE IF k = p THEN nlink[p] - 1 ELSE nlink[k]
      BY <1>1, <1>3, <1>4, <2>1, <2>2, ShiftOne
    <3>2. QED
      BY <2>1, <2>2, <3>1
  <2>3. CASE ~moves
    BY <1>1, <2>1, <2>3
  <2>4. QED
    BY <2>2, <2>3
<1> HIDE DEF n, p, q
<1>9. ASSUME NEW k \in Files
      PROVE  FileLinks(k)'
  <2>1. k \in Inodes /\ FileLinks(k) /\ k # p /\ k # q
    BY <1>3, <1>4, NotBoth DEF LinksCounted
  <2>2. nlink'[k] = nlink[k] - 0 + 0 /\ nlink[k] \in Int
    BY <1>8, <2>1 DEF Shape, Typed
  <2>3. (Adding(k)' <=> Adding(k)) /\ (Unlinking(k)' <=> Unlinking(k)) /\ (Named(k)' <=> Named(k))
    BY <1>6, <1>7, <2>1
  <2>4. QED
    BY <2>1, <2>2, <2>3 DEF FileLinks
<1>10. ASSUME NEW k \in Dirs
       PROVE  /\ nlink'[k] - Subdirs(k)' = nlink[k] - Subdirs(k)
              /\ Subdirs(k) \in Nat /\ Subdirs(k)' \in Nat /\ nlink[k] \in Int /\ nlink'[k] \in Int
  <2>1. k \in Inodes
    BY DEF Inodes
  <2>2. nlink[k] \in Int /\ Subdirs(k) \in Nat /\ Subdirs(k)' \in Nat
    BY <2>1, SubdirsRead DEF Shape, Typed
  <2>3. nlink'[k] = nlink[k] - (IF moves /\ k = p THEN 1 ELSE 0) + (IF moves /\ k = q THEN 1 ELSE 0)
    BY <1>8, <2>1
  <2>4. Subdirs(k)' = Subdirs(k) - (IF k = p /\ n \in Dirs THEN 1 ELSE 0)
                                 + (IF k = q /\ n \in Dirs THEN 1 ELSE 0)
    BY <1>6
  <2>5. QED
    BY <2>2, <2>3, <2>4
<1>11. ASSUME NEW k \in Dirs
       PROVE  DirLinks(k)'
  <2>1. k \in Inodes /\ DirLinks(k)
    BY DEF LinksCounted, Inodes
  <2>2. (Adding(k)' <=> Adding(k)) /\ (Named(k)' <=> Named(k)) /\ (k # q => (IsEmpty(k) => IsEmpty(k)'))
    BY <1>6, <1>7, <2>1
  <2>3. CASE Adding(k)
    BY <1>4, <2>1, <2>2, <2>3 DEF DirLinks
  <2>4. CASE ~Adding(k) /\ (k = Root \/ Named(k))
    <3>1. nlink[k] = 2 + Subdirs(k)
      BY <2>1, <2>4 DEF DirLinks
    <3>2. nlink'[k] = 2 + Subdirs(k)'
      BY <1>10, <3>1
    <3>3. QED
      BY <2>2, <2>4, <3>2 DEF DirLinks
  <2>5. CASE ~Adding(k) /\ ~(k = Root \/ Named(k))
    <3>1. k # p /\ k # q /\ nlink[k] = 0 /\ IsEmpty(k)
      BY <1>3, <1>4, <2>1, <2>5 DEF DirLinks
    <3>2. nlink'[k] = 0
      BY <1>8, <2>1, <3>1
    <3>3. QED
      BY <2>2, <2>5, <3>1, <3>2 DEF DirLinks
  <2>6. QED
    BY <2>3, <2>4, <2>5
<1>12. ASSUME NEW k \in made
       PROVE  \/ nlink'[k] = nlink[k]
              \/ ~Adding(k) /\ k \in tables /\ (nlink'[k] > 0 \/ krefs[k] > 0)
  <2>1. k \in Inodes /\ nlink[k] \in Int
    BY DEF Shape, Typed
  <2>2. CASE k = p \/ k = q
    <3>1. k \in Dirs /\ nlink[k] = 2 + Subdirs(k) /\ ~Adding(k) /\ k \in tables
      BY <1>3, <1>4, <2>2
    <3>2. nlink'[k] = 2 + Subdirs(k)' /\ Subdirs(k)' \in Nat
      BY <1>10, <3>1
    <3>3. QED
      BY <3>1, <3>2
  <2>3. CASE k # p /\ k # q
    BY <1>8, <2>1, <2>3
  <2>4. QED
    BY <2>2, <2>3
<1>13. TablesExact'
  <2>1. \A k \in made : Adding(k)' <=> Adding(k)
    BY <1>7 DEF Shape, Typed
  <2>2. QED
    BY <1>1, <1>12, <2>1, TablesStay
<1>14. QED
  BY <1>9, <1>11, <1>13 DEF LinksCounted

LEMMA ReplaceTally ==
  ASSUME Shape, Places, LookupsCounted, LinksCounted, TablesExact,
         NEW i \in DOMAIN behaviours, Replacing(i)
  PROVE  LinksCounted' /\ TablesExact'
<1> DEFINE n == Target(i)  m == behaviours[i].m  p == R(i).p  q == R(i).q
<1>1. /\ behaviours[i].step = "replace" /\ Alone(i) /\ Ends(i)
      /\ behaviours[i].step \notin {"add", "unlinked"} /\ behaviours[i].step \notin Servants
      /\ n \in Files /\ m \in Files /\ MovesTo(i, m)
      /\ nlink' = [nlink EXCEPT ![m] = @ - 1]
      /\ krefs' = krefs /\ tables' = tables /\ made' = made
  BY RunsAlone DEF Replacing, RenameReplace, Servants
<1>2. n \notin Dirs /\ m \in Inodes /\ m \notin Dirs /\ m # None
  BY <1>1, NotBoth, NoneApart
<1>3. m \in R(i).pins /\ entries[q][R(i).b] = m /\ q \in Dirs /\ R(i).b \in Names
  BY <1>1, <1>2 DEF MovesTo
<1>4. p \in Dirs /\ R(i).a \in Names
  BY <1>1, VictimFacts
<1>5. m \in made /\ ~Adding(m) /\ krefs[m] > 0 /\ m \in tables
  <2>1. m \in behaviours[i].on /\ R(i) = behaviours[i].r
    BY <1>1, <1>2, Running DEF OnOK, Shape
  <2>2. QED
    BY <1>1, <1>3, <2>1, PinnedInTable DEF Alone, Shape
<1>6. \A k \in Inodes : (Adding(k)' <=> Adding(k)) /\ (Unlinking(k)' <=> Unlinking(k))
  BY <1>1, EndsWaits DEF Shape
<1>7. /\ \A k \in Inodes : Named(k)' <=> Named(k) /\ k # m
      /\ \A d \in Dirs : Subdirs(d)' = Subdirs(d) - (IF d = p /\ n \in Dirs THEN 1 ELSE 0)
                                                  + (IF d = q /\ n \in Dirs THEN 1 ELSE 0)
      /\ \A d \in Dirs : d # q => (IsEmpty(d) => IsEmpty(d)')
  BY <1>1, <1>4, MoveRead DEF Shape, Places
<1>8. q \notin Inodes \/ (~Adding(q) /\ (q = Root \/ Named(q)))
  BY <1>1, HomeLinks DEF Homes, Servants
<1> HIDE DEF n, m, p, q
<1>9. \A k \in Inodes : nlink'[k] = IF k = m THEN nlink[m] - 1 ELSE nlink[k]
  <2>1. nlink \in [Inodes -> Int]
    BY DEF Shape, Typed
  <2>2. QED
    BY <1>1, <1>2, <2>1, DropInt
<1>10. Named(m)
  BY <1>3 DEF Named
<1>11. ASSUME NEW k \in Files
       PROVE  FileLinks(k)'
  <2>1. k \in Inodes /\ FileLinks(k)
    BY NotBoth DEF LinksCounted
  <2>2. (Adding(k)' <=> Adding(k)) /\ (Unlinking(k)' <=> Unlinking(k)) /\ (Named(k)' <=> Named(k) /\ k # m)
        /\ nlink'[k] = IF k = m THEN nlink[m] - 1 ELSE nlink[k]
    BY <1>6, <1>7, <1>9, <2>1
  <2>3. CASE k = m
    BY <1>5, <1>10, <2>1, <2>2, <2>3 DEF FileLinks
  <2>4. CASE k # m
    BY <2>1, <2>2, <2>4 DEF FileLinks
  <2>5. QED
    BY <2>3, <2>4
<1>12. ASSUME NEW k \in Dirs
       PROVE  DirLinks(k)'
  <2>1. k \in Inodes /\ DirLinks(k) /\ k # m
    BY <1>2 DEF LinksCounted, Inodes
  <2>2. /\ (Adding(k)' <=> Adding(k)) /\ (Named(k)' <=> Named(k)) /\ nlink'[k] = nlink[k]
        /\ k # q => (IsEmpty(k) => IsEmpty(k)')
    BY <1>6, <1>7, <1>9, <2>1
  <2>3. Subdirs(k)' = Subdirs(k)
    BY <1>2, <1>7, SubdirsRead
  <2>4. k = q => ~Adding(k) /\ (k = Root \/ Named(k))
    BY <1>8, <2>1
  <2>5. QED
    BY <2>1, <2>2, <2>3, <2>4 DEF DirLinks
<1>13. TablesExact'
  <2>1. \A k \in made : Adding(k)' <=> Adding(k)
    BY <1>6 DEF Shape, Typed
  <2>2. \A k \in made : \/ nlink'[k] = nlink[k]
                        \/ ~Adding(k) /\ k \in tables /\ (nlink'[k] > 0 \/ krefs[k] > 0)
    BY <1>5, <1>9 DEF Shape, Typed
  <2>3. QED
    BY <1>1, <2>1, <2>2, TablesStay
<1>14. QED
  BY <1>11, <1>12, <1>13 DEF LinksCounted

LEMMA ForgottenNatNext ==
  ASSUME Typed', NEW n
  PROVE  Forgotten(n)' \in Nat
  BY ForgottenRead, ToForgetFinite DEF Typed

LEMMA CalmTally ==
  ASSUME Shape, LookupsCounted, LinksCounted, TablesExact, LookupsCounted', Typed',
         NEW i \in DOMAIN behaviours, RunBehaviour(i), Calm(i)
  PROVE  LinksCounted' /\ TablesExact'
<1>1. \A n : (Adding(n)' <=> Adding(n)) /\ (Unlinking(n)' <=> Unlinking(n))
  BY CalmWaits DEF Shape
<1>2. LinksCounted' /\ nlink' = nlink
  BY <1>1, LinksSame DEF Calm
<1>3. CASE Quiet(i)
  BY <1>1, <1>2, <1>3, TablesStay DEF Quiet
<1>4. CASE (\E op \in {"create", "mkdir"} : MakeEntry(i, op)) \/ AddInode(i)
  <2>1. ASSUME NEW op \in {"create", "mkdir"}, MakeEntry(i, op)
        PROVE  FALSE
    <3>1. /\ behaviours[i].step = op /\ Target(i) = None
          /\ entries' = With(R(i).p, R(i).a, Makes(op))
      BY <2>1 DEF MakeEntry, Runs, Refused, Makes
    <3>2. Makes(op) \in Inodes /\ R(i).p \in Dirs /\ R(i).a \in Names /\ Target(i) = entries[R(i).p][R(i).a]
      BY <3>1, Room, WriterFacts DEF Shape, Servants, Target
    <3>3. entries'[R(i).p][R(i).a] = Makes(op)
      BY <3>1, <3>2, WithType DEF Shape
    <3>4. QED
      BY <3>1, <3>2, <3>3, NoneApart DEF Calm
  <2>2. QED
    BY <1>4, <2>1 DEF AddInode, Runs, Calm
<1>5. CASE GetInode(i)
  <2> DEFINE n == behaviours[i].n
  <2>1. /\ behaviours[i].step = "get" /\ Alone(i) /\ made' = made
        /\ krefs' = [krefs EXCEPT ![n] = @ + 1] /\ tables' = tables \cup {n}
    BY <1>5, RunsAlone DEF GetInode
  <2>2. n \in Inodes /\ n \in behaviours[i].on
    BY <2>1, Running DEF FoundOK, OnOK, Servants, Shape
  <2>3. ~Adding(n)
    BY <2>1, <2>2, NotAdding DEF Alone, Uses, Shape
  <2>4. krefs[n] = kernel[n] + Forgotten(n) /\ Forgotten(n) \in Nat /\ kernel[n] \in Nat
    <3>1. kernel[n] \in Nat /\ krefs[n] \in Int
      BY <2>2 DEF Shape, Typed
    <3>2. Forgotten(n) \in Nat
      BY ForgottenNat DEF Shape
    <3>3. krefs[n] = kernel[n] + Forgotten(n) - (IF Adding(n) THEN 1 ELSE 0)
      BY <2>2 DEF LookupsCounted
    <3> HIDE DEF n
    <3>4. QED
      BY <2>3, <3>1, <3>2, <3>3
  <2> HIDE DEF n
  <2>5. \A k \in Inodes : krefs'[k] = IF k = n THEN krefs[n] + 1 ELSE krefs[k]
    BY <2>1, <2>2 DEF Shape, Typed
  <2>6. ASSUME NEW k \in made
        PROVE  k \in tables' <=> ~Adding(k)' /\ (nlink'[k] > 0 \/ krefs'[k] > 0)
    <3>1. k \in Inodes /\ (k \in tables <=> ~Adding(k) /\ (nlink[k] > 0 \/ krefs[k] > 0))
          /\ (Adding(k)' <=> Adding(k))
      BY <1>1 DEF TablesExact, Shape, Typed
    <3>2. CASE k = n
      BY <2>1, <2>3, <2>4, <2>5, <3>1, <3>2
    <3>3. CASE k # n
      BY <1>2, <2>1, <2>5, <3>1, <3>3
    <3>4. QED
      BY <3>2, <3>3
  <2>7. QED
    BY <1>2, <2>1, <2>6 DEF TablesExact
<1>6. CASE Forget(i)
  <2> DEFINE n == behaviours[i].n  k == krefs[n] - behaviours[i].k
  <2>1. /\ behaviours[i].step = "forget" /\ Alone(i) /\ made' = made
        /\ krefs' = [krefs EXCEPT ![n] = k]
        /\ tables' = IF k = 0 /\ nlink[n] = 0 THEN tables \ {n} ELSE tables
    BY <1>6, RunsAlone DEF Forget, Gone
  <2>2. n \in Inodes /\ n \in behaviours[i].on /\ behaviours[i].k > 0 /\ behaviours[i].k \in Nat
    <3>1. FoundOK(behaviours[i]) /\ OnOK(behaviours[i]) /\ behaviours[i] \in Records
      BY Running DEF Shape
    <3>2. QED
      BY <2>1, <3>1 DEF FoundOK, OnOK, Servants, Records
  <2>3. ~Adding(n)
    BY <2>1, <2>2, NotAdding DEF Alone, Uses, Shape
  <2>4. k \in Nat
    <3>1. krefs'[n] = k
      <4>1. krefs \in [Inodes -> Int]
        BY DEF Shape, Typed
      <4> HIDE DEF k
      <4>2. QED
        BY <2>1, <2>2, <4>1
    <3>2. ASSUME NEW j \in Inodes, ~Adding(j)
          PROVE  krefs'[j] \in Nat
      <4>1. krefs'[j] = kernel'[j] + Forgotten(j)' - (IF Adding(j)' THEN 1 ELSE 0)
        BY DEF LookupsCounted
      <4>2. Forgotten(j)' \in Nat /\ kernel'[j] \in Nat
        BY ForgottenNatNext DEF Typed
      <4>3. QED
        BY <1>1, <3>2, <4>1, <4>2
    <3>3. QED
      BY <2>2, <2>3, <3>1, <3>2
  <2>5. krefs[n] = k + behaviours[i].k /\ krefs[n] \in Int
    <3>1. krefs[n] \in Int
      BY <2>2 DEF Shape, Typed
    <3>2. QED
      BY <2>2, <3>1
  <2>6. nlink[n] \in Nat
    <3>1. CASE n \in Files
      BY <2>3, <3>1 DEF LinksCounted, FileLinks
    <3>2. CASE n \in Dirs
      BY <2>3, <3>2, SubdirsRead DEF LinksCounted, DirLinks
    <3>3. QED
      BY <2>2, <3>1, <3>2 DEF Inodes
  <2> HIDE DEF n, k
  <2>7. \A j \in Inodes : krefs'[j] = IF j = n THEN k ELSE krefs[j]
    BY <2>1, <2>2 DEF Shape, Typed
  <2>8. ASSUME NEW j \in made
        PROVE  j \in tables' <=> ~Adding(j)' /\ (nlink'[j] > 0 \/ krefs'[j] > 0)
    <3>1. j \in Inodes /\ (j \in tables <=> ~Adding(j) /\ (nlink[j] > 0 \/ krefs[j] > 0))
          /\ (Adding(j)' <=> Adding(j))
      BY <1>1 DEF TablesExact, Shape, Typed
    <3>2. CASE j = n
      <4>1. j \in tables
        BY <2>2, <2>3, <2>4, <2>5, <3>1, <3>2
      <4>2. CASE k = 0 /\ nlink[n] = 0
        BY <1>2, <2>1, <2>7, <3>1, <3>2, <4>2
      <4>3. CASE ~(k = 0 /\ nlink[n] = 0)
        BY <1>2, <2>1, <2>3, <2>4, <2>6, <2>7, <3>1, <3>2, <4>1, <4>3
      <4>4. QED
        BY <4>2, <4>3
    <3>3. CASE j # n
      BY <1>2, <2>1, <2>7, <3>1, <3>3
    <3>4. QED
      BY <3>2, <3>3
  <2>9. QED
    BY <1>2, <2>1, <2>8 DEF TablesExact
<1>7. QED
  BY <1>3, <1>4, <1>5, <1>6, QuietOrNot

------------------------------------------------------------------------------
(* A lookup's second behaviour meets an inode that is still in its table.   *)
LEMMA RunAlone ==
  ASSUME NEW i, RunBehaviour(i)
  PROVE  Alone(i)
<1>1. CASE LookupEntry(i) \/ GetInode(i) \/ Refuse(i) \/ AddInode(i) \/ UseInode(i) \/ Setattr(i)
           \/ (\E op \in {"create", "mkdir"} : MakeEntry(i, op))
  BY <1>1, RunsAlone DEF LookupEntry, GetInode, Refuse, AddInode, UseInode, Setattr, MakeEntry
<1>2. CASE UnlinkEntry(i) \/ UnlinkCount(i) \/ RmdirEntry(i) \/ RmdirRemove(i) \/ Forget(i)
  BY <1>2, RunsAlone DEF UnlinkEntry, UnlinkCount, RmdirEntry, RmdirRemove, Forget
<1>3. CASE RenameFind(i) \/ RenameDenied(i) \/ RenameMove(i)
           \/ RenameTwo(i) \/ RenameTables(i) \/ RenameReplace(i)
  BY <1>3, RunsAlone DEF RenameFind, RenameDenied, RenameMove, RenameTwo, RenameTables, RenameReplace
<1>4. QED
  BY <1>1, <1>2, <1>3 DEF RunBehaviour

LEMMA UnlinkingKnown ==
  ASSUME Typed, OwnRequests, PinsKnown, Captured, NEW n, Unlinking(n)
  PROVE  n \in Inodes /\ Known(n)
<1>1. PICK j \in DOMAIN behaviours : behaviours[j].step = "unlinked" /\ behaviours[j].n = n
  BY DEF Unlinking, Waiting
<1>2. n \in behaviours[j].r.pins
  BY <1>1 DEF Captured, CapturedOK
<1>3. /\ behaviours[j].c \in Clients /\ behaviours[j].r = request[behaviours[j].c]
      /\ behaviours[j].r \in Requests
  BY <1>1, Running DEF Servants
<1>4. QED
  BY <1>2, <1>3 DEF PinsKnown, Requests

LEMMA HeldStays ==
  ASSUME Shape, Places, NEW i \in DOMAIN behaviours, RunBehaviour(i), EntryStep(i),
         NEW n \in Inodes, Held(n)
  PROVE  Held(n)'
<1>1. Known(n) => Known(n)'
  BY RunIsKind DEF Shape, RunKind
<1>2. CASE n = Root
  BY <1>2 DEF Held
<1>3. CASE Unlinking(n) \/ Known(n)
  BY <1>1, <1>3, UnlinkingKnown DEF Held, Shape, Places
<1>4. CASE Named(n)
  <2>1. CASE entries' = entries
    BY <1>4, <2>1 DEF Held, Named
  <2>2. CASE Writes(i) /\ n \notin R(i).pins
    <3>1. n \in made
      BY <1>4, NoneApart DEF Named, Shape, MadeOnes
    <3>2. Named(n)'
      BY <1>4, <2>2, <3>1, WritesNames DEF Shape, Places
    <3>3. QED
      BY <3>2 DEF Held
  <2>3. CASE Writes(i) /\ n \in R(i).pins
    <3>1. Client(i) \in Clients /\ R(i) = request[Client(i)]
      BY <2>3, WriterFacts DEF Writes, Shape
    <3>2. Known(n)
      BY <2>3, <3>1 DEF Shape, PinsKnown
    <3>3. QED
      BY <1>1, <3>2 DEF Held
  <2>4. QED
    BY <2>1, <2>2, <2>3 DEF EntryStep
<1>5. QED
  BY <1>2, <1>3, <1>4 DEF Held

LEMMA FollowsOrder ==
  ASSUME Typed, NEW i \in DOMAIN behaviours, NEW y, Follows(i, y)
  PROVE  Replaced(behaviours, behaviours', i, y)
<1> DEFINE S == Records \cup {y}
<1>1. behaviours \in Seq(S) /\ y \in S
  BY DEF Typed
<1> HIDE DEF S
<1>2. QED
  BY <1>1, ReplacedSeq DEF Follows

LEMMA GetsRun ==
  ASSUME Shape, Places, GetsAlive, NEW i \in DOMAIN behaviours, RunBehaviour(i),
         EntryStep(i), NewCaptured(i)
  PROVE  GetsAlive'
<1>1. ASSUME NEW j \in DOMAIN behaviours', From(i, j) \in DOMAIN behaviours, From(i, j) # i,
             behaviours'[j] = behaviours[From(i, j)], behaviours'[j].step = "get",
             \A g \in DOMAIN behaviours : g # i =>
               \E h \in DOMAIN behaviours' : From(i, h) = g /\ behaviours'[h] = behaviours[g],
             NEW n, n = behaviours'[j].n
      PROVE  Held(n)' \/ \E h \in Waiting("forget", n)' : j < h
  <2> DEFINE f == From(i, j)
  <2>1. behaviours[f].step = "get" /\ behaviours[f].n = n /\ f \in DOMAIN behaviours
    BY <1>1
  <2>2. n \in Inodes /\ n \in behaviours[f].on
    BY <2>1, Running DEF FoundOK, OnOK, Servants, Shape
  <2>3. CASE Held(n)
    BY <2>2, <2>3, HeldStays
  <2>4. ASSUME NEW g \in Waiting("forget", n), f < g
        PROVE  \E h \in Waiting("forget", n)' : j < h
    <3>1. g \in DOMAIN behaviours /\ behaviours[g].step = "forget" /\ behaviours[g].n = n
      BY DEF Waiting
    <3>2. g # i
      <4>1. n \in behaviours[g].on
        BY <3>1, Running DEF OnOK, Servants, Shape
      <4>2. f \in 1 .. g - 1
        BY <2>1, <2>4, <3>1, LenProperties DEF Shape, Typed
      <4>3. Alone(i)
        BY RunAlone
      <4>4. QED
        BY <2>2, <4>1, <4>2, <4>3 DEF Alone
    <3>3. PICK h \in DOMAIN behaviours' : From(i, h) = g /\ behaviours'[h] = behaviours[g]
      BY <1>1, <3>1, <3>2
    <3>4. DOMAIN behaviours' \subseteq Int /\ i \in Int
      <4>1. behaviours' \in Seq(Records) /\ behaviours \in Seq(Records)
        BY RunIsKind DEF Shape, Typed
      <4>2. QED
        BY <4>1, LenProperties
    <3>5. j < h
      BY <2>4, <3>3, <3>4 DEF From
    <3>6. QED
      BY <3>1, <3>3, <3>5 DEF Waiting
  <2>5. QED
    BY <2>1, <2>3, <2>4 DEF GetsAlive
<1>2. CASE Ends(i)
  <2>1. Shifted(behaviours, behaviours', i)
    BY <1>2, EndsShape DEF Shape
  <2>2. \A j \in DOMAIN behaviours' :
          From(i, j) \in DOMAIN behaviours /\ From(i, j) # i /\ behaviours'[j] = behaviours[From(i, j)]
    BY <2>1 DEF Shifted, From
  <2>3. \A g \in DOMAIN behaviours : g # i =>
          \E h \in DOMAIN behaviours' : From(i, h) = g /\ behaviours'[h] = behaviours[g]
    <3> TAKE g \in DOMAIN behaviours
    <3> HAVE g # i
    <3> DEFINE h == IF g < i THEN g ELSE g - 1
    <3>1. h \in DOMAIN behaviours' /\ From(i, h) = g
      BY <2>1 DEF Shifted, From
    <3>2. QED
      BY <2>2, <3>1
  <2>4. QED
    BY <1>1, <2>2, <2>3 DEF GetsAlive
<1>3. ASSUME NEW y, Follows(i, y), y.step = "get" => Named(y.n)'
      PROVE  GetsAlive'
  <2>1. Replaced(behaviours, behaviours', i, y)
    BY <1>3, FollowsOrder DEF Shape
  <2>2. \A j \in DOMAIN behaviours' :
          \/ From(i, j) \in DOMAIN behaviours /\ From(i, j) # i /\ behaviours'[j] = behaviours[From(i, j)]
          \/ behaviours'[j] = y
    BY <2>1 DEF Replaced, From
  <2>3. \A g \in DOMAIN behaviours : g # i =>
          \E h \in DOMAIN behaviours' : From(i, h) = g /\ behaviours'[h] = behaviours[g]
    <3> TAKE g \in DOMAIN behaviours
    <3> HAVE g # i
    <3> DEFINE h == IF g < i THEN g ELSE g - 1
    <3>1. h \in DOMAIN behaviours' /\ From(i, h) = g /\ behaviours'[h] = behaviours[From(i, h)]
      BY <2>1 DEF Replaced, From
    <3>2. QED
      BY <3>1
  <2>4. ASSUME NEW j \in DOMAIN behaviours', behaviours'[j].step = "get", NEW n, n = behaviours'[j].n
        PROVE  Held(n)' \/ \E h \in Waiting("forget", n)' : j < h
    <3>1. CASE behaviours'[j] = y
      <4>1. y.n = n /\ Named(y.n)'
        BY <1>3, <2>4, <3>1
      <4>2. Named(n)'
        BY <4>1
      <4>3. QED
        BY <4>2 DEF Held
    <3>2. CASE behaviours'[j] # y
      BY <1>1, <2>2, <2>3, <2>4, <3>2
    <3>3. QED
      BY <3>1, <3>2
  <2>5. QED
    BY <2>4 DEF GetsAlive
<1>4. QED
  BY <1>2, <1>3 DEF NewCaptured

LEMMA GetsGrow ==
  ASSUME Typed, GetsAlive, NEW x, Grown(behaviours, behaviours', x), x.step # "get",
         \A n \in Inodes : \/ Held(n) => Held(n)'
                           \/ x.step = "forget" /\ x.n = n,
         OwnRequests
  PROVE  GetsAlive'
<1>1. /\ DOMAIN behaviours = 1 .. Len(behaviours) /\ DOMAIN behaviours' = 1 .. Len(behaviours) + 1
      /\ Len(behaviours) \in Nat /\ behaviours'[Len(behaviours) + 1] = x
      /\ \A j \in DOMAIN behaviours : behaviours'[j] = behaviours[j]
  BY DEF Grown
<1>2. ASSUME NEW j \in DOMAIN behaviours', behaviours'[j].step = "get", NEW n, n = behaviours'[j].n
      PROVE  Held(n)' \/ \E h \in Waiting("forget", n)' : j < h
  <2>1. j \in DOMAIN behaviours /\ behaviours[j].step = "get" /\ behaviours[j].n = n
    BY <1>1, <1>2
  <2>2. n \in Inodes
    BY <2>1, Running DEF FoundOK, Servants
  <2>3. CASE Held(n) /\ (Held(n) => Held(n)')
    BY <2>3
  <2>4. CASE x.step = "forget" /\ x.n = n
    <3>1. Len(behaviours) + 1 \in Waiting("forget", n)'
      BY <1>1, <2>4 DEF Waiting
    <3>2. j < Len(behaviours) + 1
      BY <1>1, <2>1
    <3>3. QED
      BY <3>1, <3>2
  <2>5. ASSUME NEW h \in Waiting("forget", n), j < h
        PROVE  h \in Waiting("forget", n)'
    BY <1>1 DEF Waiting
  <2>6. QED
    BY <2>1, <2>2, <2>3, <2>4, <2>5 DEF GetsAlive
<1>3. QED
  BY <1>2 DEF GetsAlive

LEMMA TallyAsk ==
  ASSUME Shape, Tally, NEW c \in Clients, NEW r, NEW x, AskKind(c, r, x)
  PROVE  Tally'
<1>1. LookupsCounted' /\ \A n : (Adding(n)' <=> Adding(n)) /\ (Unlinking(n)' <=> Unlinking(n))
  BY LookupsAsk DEF Shape, Tally
<1>2. /\ entries' = entries /\ nlink' = nlink /\ krefs' = krefs /\ tables' = tables
      /\ made' = made /\ kernel' = kernel
      /\ Grown(behaviours, behaviours', x) /\ x.step # "get"
  BY DEF AskKind, counts, Requests, Ops
<1>3. LinksCounted'
  BY <1>1, <1>2, LinksSame DEF Tally
<1>4. TablesExact'
  BY <1>1, <1>2, TablesStay DEF Tally
<1>5. \A n \in Inodes : Held(n) => Held(n)'
  BY <1>1, <1>2 DEF Held, Named, Known
<1>6. GetsAlive'
  BY <1>2, <1>5, GetsGrow DEF Shape, Tally
<1>7. QED
  BY <1>1, <1>3, <1>4, <1>6 DEF Tally

LEMMA TallyForget ==
  ASSUME Shape, Tally, NEW n \in Inodes, NEW x, ForgetKindOf(n, x)
  PROVE  Tally'
<1>1. LookupsCounted' /\ \A k : (Adding(k)' <=> Adding(k)) /\ (Unlinking(k)' <=> Unlinking(k))
  BY LookupsForget DEF Shape, Tally
<1>2. /\ entries' = entries /\ nlink' = nlink /\ krefs' = krefs /\ tables' = tables
      /\ made' = made /\ kernel' = [kernel EXCEPT ![n] = 0]
      /\ Grown(behaviours, behaviours', x) /\ x.step = "forget" /\ x.n = n
  BY DEF ForgetKindOf, counts
<1>3. LinksCounted'
  BY <1>1, <1>2, LinksSame DEF Tally
<1>4. TablesExact'
  BY <1>1, <1>2, TablesStay DEF Tally
<1>5. ASSUME NEW k \in Inodes, k # n
      PROVE  Held(k) => Held(k)'
  <2>1. kernel'[k] = kernel[k]
    BY <1>2, <1>5 DEF Shape, Typed
  <2>2. QED
    BY <1>1, <1>2, <2>1 DEF Held, Named, Known
<1>6. GetsAlive'
  BY <1>2, <1>5, GetsGrow DEF Shape, Tally
<1>7. QED
  BY <1>1, <1>3, <1>4, <1>6 DEF Tally

LEMMA TallyRun ==
  ASSUME ~AllRequests, Shape, Places, Tally, NEW i \in DOMAIN behaviours, RunBehaviour(i)
  PROVE  Tally'
<1>1. Typed' /\ RunKind(i)
  BY RunIsKind DEF Shape
<1>2. LookupsCounted'
  BY <1>1, LookupsRun DEF Shape, Tally
<1>3. GetsAlive'
  BY RunCaptures, GetsRun DEF Tally
<1>4. ASSUME Calm(i)
      PROVE  LinksCounted' /\ TablesExact'
  BY <1>1, <1>2, <1>4, CalmTally DEF Tally
<1>5. ASSUME (\E op \in {"create", "mkdir"} : MakeEntry(i, op)) \/ AddInode(i)
      PROVE  LinksCounted' /\ TablesExact'
  BY <1>2, <1>5, MakeTally, AddTally DEF Tally
<1>6. ASSUME Cutting(i) \/ UnlinkCount(i) \/ Removing(i)
      PROVE  LinksCounted' /\ TablesExact'
  BY <1>6, CutTally, UnlinkTally, RemoveTally DEF Tally
<1>7. ASSUME RenameMove(i) \/ Replacing(i)
      PROVE  LinksCounted' /\ TablesExact'
  BY <1>7, MoveTally, ReplaceTally DEF Tally
<1>8. LinksCounted' /\ TablesExact'
  <2>1. Typed /\ OwnRequests /\ Captured
    BY DEF Shape, Places
  <2>2. QED
    BY <1>4, <1>5, <1>6, <1>7, <2>1, CalmOrNot DEF Tally
<1>9. QED
  BY <1>2, <1>3, <1>8 DEF Tally

------------------------------------------------------------------------------
(* The start.                                                               *)
LEMMA LinksOfRead ==
  ASSUME NEW n \in Inodes
  PROVE  LinksOf(n) = IF n \in Files THEN (IF Named(n) THEN 1 ELSE 0)
                      ELSE IF n = Root \/ Named(n) THEN 2 + Subdirs(n) ELSE 0
<1>1. n # None /\ Root \in Dirs /\ Dirs \cap Files = {}
  BY NamespaceAssumption
<1>2. n \in NamedIn(entries) <=> Named(n)
  BY <1>1 DEF NamedIn, Named
<1>3. CASE n \in Files
  <2>0. n \notin {Root} \cup (Dirs \cap NamedIn(entries))
    BY <1>1, <1>3
  <2>1. LinksOf(n) = Cardinality({n} \cap NamedIn(entries))
    BY <1>3, <2>0 DEF LinksOf
  <2>2. CASE Named(n)
    <3>1. {n} \cap NamedIn(entries) = {n}
      BY <1>2, <2>2
    <3>2. Cardinality({n}) = 1
      BY FS_Singleton
    <3>3. QED
      BY <1>3, <2>1, <2>2, <3>1, <3>2
  <2>3. CASE ~Named(n)
    <3>1. {n} \cap NamedIn(entries) = {}
      BY <1>2, <2>3
    <3>2. QED
      BY <1>3, <2>1, <2>3, <3>1, FS_EmptySet
  <2>4. QED
    BY <2>2, <2>3
<1>4. CASE n \notin Files
  <2>1. n \in Dirs
    BY <1>4 DEF Inodes
  <2>2. n \in {Root} \cup (Dirs \cap NamedIn(entries)) <=> n = Root \/ Named(n)
    BY <1>2, <2>1
  <2>3. QED
    BY <1>4, <2>2 DEF LinksOf
<1>5. QED
  BY <1>3, <1>4

LEMMA PlacesInit == Init => Places
<1> SUFFICES ASSUME Init PROVE Places
  OBVIOUS
<1>1. entries \in Trees /\ behaviours = <<>> /\ request = [c \in Clients |-> Idle]
  BY DEF Init
<1>2. OneName
  BY <1>1, NamespaceAssumption DEF OneName
<1>3. InPlace
  BY <1>1, IdleRequest DEF InPlace, Changing
<1>4. Captured
  BY <1>1 DEF Captured
<1>5. QED
  BY <1>2, <1>3, <1>4 DEF Places

LEMMA TallyInit == Init => Tally
<1> SUFFICES ASSUME Init PROVE Tally
  OBVIOUS
<1>0. Typed
  BY ShapeInit DEF Shape
<1>1. /\ entries \in Trees /\ made = {Root} \cup NamedIn(entries) /\ tables = made
      /\ nlink = [n \in Inodes |-> LinksOf(n)]
      /\ kernel = [n \in Inodes |-> IF n \in made THEN 1 ELSE 0] /\ krefs = kernel
      /\ behaviours = <<>>
  BY DEF Init
<1>2. \A step, n : Waiting(step, n) = {}
  BY <1>1 DEF Waiting
<1>3. \A n : ~Adding(n) /\ ~Unlinking(n)
  BY <1>2 DEF Adding, Unlinking
<1>4. \A n : Forgotten(n) = 0
  <2>1. \A n : Forgetting(n) = {}
    BY <1>2 DEF Forgetting
  <2>2. QED
    BY <2>1, FS_EmptySet DEF Forgotten
<1>5. LookupsCounted
  BY <1>0, <1>1, <1>3, <1>4 DEF LookupsCounted, Typed
<1>6. \A n \in Inodes : nlink[n] = LinksOf(n)
  BY <1>1
<1>7. ASSUME NEW n \in Files
      PROVE  FileLinks(n)
  <2>1. n \in Inodes
    BY NotBoth
  <2>2. QED
    BY <1>3, <1>6, <2>1, LinksOfRead DEF FileLinks
<1>8. ASSUME NEW n \in Dirs
      PROVE  DirLinks(n)
  <2>1. n \in Inodes /\ n \notin Files
    BY NotBoth DEF Inodes
  <2>2. n = Root \/ Named(n) \/ IsEmpty(n)
    BY <1>1, NamespaceAssumption DEF Named, IsEmpty
  <2>3. QED
    BY <1>3, <1>6, <2>1, <2>2, LinksOfRead DEF DirLinks
<1>9. TablesExact
  <2>1. \A n \in made : krefs[n] = 1
    BY <1>0, <1>1 DEF Typed
  <2>2. QED
    BY <1>1, <1>3, <2>1 DEF TablesExact
<1>10. GetsAlive
  BY <1>1 DEF GetsAlive
<1>11. QED
  BY <1>5, <1>7, <1>8, <1>9, <1>10 DEF Tally, LinksCounted

------------------------------------------------------------------------------
(* The three layers together are inductive.                                 *)
Inv == Shape /\ Places /\ Tally

LEMMA NothingHappens ==
  ASSUME Places, Tally, UNCHANGED vars
  PROVE  Places' /\ Tally'
<1>1. /\ entries' = entries /\ nlink' = nlink /\ krefs' = krefs /\ tables' = tables /\ made' = made
      /\ behaviours' = behaviours /\ request' = request /\ kernel' = kernel
  BY DEF vars, counts, asked
<1>2. ASSUME NEW y, CapturedOK(y)
      PROVE  CapturedOK(y)'
  <2>1. Old(y)' = Old(y) /\ New(y)' = New(y)
    BY <1>1 DEF Old, New
  <2>2. NewOK(y)' <=> NewOK(y)
    BY <1>1 DEF NewOK, Old, New, Mistaken
  <2>3. QED
    BY <1>2, <2>1, <2>2 DEF CapturedOK
<1>3. Captured'
  <2>1. ASSUME NEW j \in DOMAIN behaviours', NEW y, y = behaviours'[j]
        PROVE  CapturedOK(y)'
    BY <1>1, <1>2, <2>1 DEF Places, Captured
  <2>2. QED
    BY <2>1 DEF Captured
<1>4. Places'
  BY <1>1, <1>3, PlacesStay
<1>5. ASSUME NEW n
      PROVE  /\ (Adding(n)' <=> Adding(n)) /\ (Unlinking(n)' <=> Unlinking(n))
             /\ Forgotten(n)' = Forgotten(n)
  BY <1>1, HasRead, ForgottenRead
<1>6. LookupsCounted'
  BY <1>1, <1>5 DEF Tally, LookupsCounted
<1>7. LinksCounted'
  BY <1>1, <1>5, LinksSame DEF Tally
<1>8. TablesExact'
  BY <1>1, <1>5 DEF Tally, TablesExact
<1>9. GetsAlive'
  <2>1. ASSUME NEW n
        PROVE  /\ Held(n)' <=> Held(n)
               /\ Waiting("forget", n)' = Waiting("forget", n)
    <3>1. Named(n)' <=> Named(n)
      BY <1>1 DEF Named
    <3>2. Known(n)' <=> Known(n)
      BY <1>1 DEF Known
    <3>3. QED
      BY <1>1, <1>5, <3>1, <3>2 DEF Held, Waiting
  <2>2. ASSUME NEW j \in DOMAIN behaviours, behaviours[j].step = "get", NEW n, n = behaviours[j].n
        PROVE  Held(n) \/ \E k \in Waiting("forget", n) : j < k
    BY <2>2 DEF Tally, GetsAlive
  <2>3. ASSUME NEW j \in DOMAIN behaviours', behaviours'[j].step = "get", NEW n, n = behaviours'[j].n
        PROVE  Held(n)' \/ \E k \in Waiting("forget", n)' : j < k
    BY <1>1, <2>1, <2>2, <2>3
  <2>4. QED
    BY <2>3 DEF GetsAlive
<1>10. QED
  BY <1>4, <1>6, <1>7, <1>8, <1>9 DEF Tally

LEMMA InvInit == Init => Inv
  BY ShapeInit, PlacesInit, TallyInit DEF Inv

LEMMA InvNext ==
  ASSUME ~AllRequests, Inv, [Next]_vars
  PROVE  Inv'
<1>1. Shape /\ Places /\ Tally /\ Typed
  BY DEF Inv, Shape
<1>2. Shape'
  BY <1>1, ShapeNext
<1>3. CASE UNCHANGED vars
  BY <1>1, <1>2, <1>3, NothingHappens DEF Inv
<1>4. CASE Next
  <2>1. CASE \E i \in DOMAIN behaviours : RunBehaviour(i)
    BY <1>1, <1>2, <2>1, PlacesRun, TallyRun DEF Inv, Tally
  <2>2. CASE \E c \in Clients : \E r, x : AskKind(c, r, x) /\ CapturedOK(x)
    BY <1>1, <1>2, <2>2, PlacesAsk, TallyAsk DEF Inv
  <2>3. CASE \E n \in Inodes : \E x : ForgetKindOf(n, x)
    BY <1>1, <1>2, <2>3, PlacesForget, TallyForget DEF Inv
  <2>4. QED
    BY <1>1, <1>4, <2>1, <2>2, <2>3, NextKinds
<1>5. QED
  BY <1>3, <1>4

------------------------------------------------------------------------------
(* What the invariant says of an inode that somebody refers to.             *)
LEMMA ForgetWaits ==
  ASSUME Typed, OwnRequests, NEW n, NEW j \in Waiting("forget", n)
  PROVE  Forgotten(n) > 0
<1>1. /\ j \in DOMAIN behaviours /\ behaviours[j].step = "forget" /\ behaviours[j].n = n
      /\ j \in Waits(behaviours, n)
  BY DEF Waiting, Waits
<1>2. behaviours[j] \in Records /\ behaviours[j].k > 0
  BY <1>1, Running DEF FoundOK
<1>3. behaviours[j].k \in Nat
  BY <1>2 DEF Records
<1>4. <<j, 1>> \in {j} \X (1 .. behaviours[j].k)
  BY <1>2, <1>3
<1>5. ToForget(behaviours, n) # {}
  BY <1>1, <1>4 DEF ToForget
<1>6. IsFiniteSet(ToForget(behaviours, n)) /\ Cardinality(ToForget(behaviours, n)) \in Nat
  BY ToForgetFinite DEF Typed
<1>7. Cardinality(ToForget(behaviours, n)) # 0
  BY <1>5, <1>6, FS_EmptySet
<1>8. QED
  BY <1>6, <1>7, ForgottenRead

LEMMA Alive ==
  ASSUME Inv, NEW n \in Inodes, Held(n) \/ Waiting("forget", n) # {}
  PROVE  n \in tables \/ Adding(n)
<1> SUFFICES ASSUME ~Adding(n)
             PROVE  n \in tables
  OBVIOUS
<1>1. Typed /\ OwnRequests /\ PinsKnown /\ MadeOnes /\ Captured
  BY DEF Inv, Shape, Places
<1>2. krefs[n] = kernel[n] + Forgotten(n) /\ kernel[n] \in Nat /\ Forgotten(n) \in Nat
  BY <1>1, ForgottenNat DEF Inv, Tally, LookupsCounted, Typed
<1>3. Unlinking(n) => Known(n)
  BY <1>1, UnlinkingKnown
<1>4. CASE Known(n)
  <2>1. n \in made /\ krefs[n] > 0
    BY <1>1, <1>2, <1>4 DEF MadeOnes, Known
  <2>2. QED
    BY <2>1 DEF Inv, Tally, TablesExact
<1>5. CASE n = Root \/ Named(n)
  <2>1. n \in made
    BY <1>1, <1>5, NoneApart DEF MadeOnes, Named, Typed
  <2>2. CASE n \in Files
    <3>1. FileLinks(n) /\ n # Root
      BY <2>2, NamespaceAssumption DEF Inv, Tally, LinksCounted
    <3>2. nlink[n] > 0
      BY <1>5, <3>1 DEF FileLinks
    <3>3. QED
      BY <2>1, <3>2 DEF Inv, Tally, TablesExact
  <2>3. CASE n \in Dirs
    <3>1. nlink[n] = 2 + Subdirs(n)
      BY <1>5, <2>3 DEF Inv, Tally, LinksCounted, DirLinks
    <3>2. Subdirs(n) \in Nat
      BY SubdirsRead
    <3>3. nlink[n] > 0
      BY <3>1, <3>2
    <3>4. QED
      BY <2>1, <3>3 DEF Inv, Tally, TablesExact
  <2>4. QED
    BY <2>2, <2>3 DEF Inodes
<1>6. CASE Waiting("forget", n) # {}
  <2>1. PICK j \in Waiting("forget", n) : TRUE
    BY <1>6
  <2>2. krefs[n] > 0
    BY <1>1, <1>2, <2>1, ForgetWaits
  <2>3. j \in DOMAIN behaviours /\ behaviours[j].n = n /\ n # None
    BY <2>1, NoneApart DEF Waiting
  <2>4. n \in made
    BY <1>1, <2>3 DEF MadeOnes
  <2>5. QED
    BY <2>2, <2>4 DEF Inv, Tally, TablesExact
<1>7. QED
  BY <1>3, <1>4, <1>5, <1>6 DEF Held

LEMMA UsesAlive ==
  ASSUME Inv, NEW i \in DOMAIN behaviours, NEW n \in Uses(behaviours[i])
  PROVE  n \in tables \/ Adding(n)
<1> DEFINE x == behaviours[i]
<1>1. Typed /\ OwnRequests /\ PinsKnown /\ CapturedOK(x) /\ n \in Inodes
  BY DEF Inv, Shape, Places, Captured, Uses
<1>2. /\ x \in Records /\ FoundOK(x)
      /\ x.step \in Servants => x.r = Idle
      /\ x.step \notin Servants => x.c \in Clients /\ x.r = request[x.c]
  BY <1>1, Running
<1>3. x.step \in Steps /\ n # None
  BY <1>1, <1>2, NoneApart DEF Records
<1> HIDE DEF x
<1>4. CASE n \in x.r.pins
  <2>1. Known(n)
    BY <1>1, <1>2, <1>4 DEF PinsKnown, Idle
  <2>2. QED
    BY <1>1, <2>1, Alive DEF Held
<1>5. CASE n = x.n /\ n \notin x.r.pins
  <2>1. x.step \in {"get", "add", "forget"}
    <3>1. x.step \notin {"lookup", "create", "mkdir", "unlink", "rmdir", "rename", "use", "setattr"}
      BY <1>2, <1>3, <1>5 DEF FoundOK
    <3>2. x.step # "unlinked"
      BY <1>1, <1>5 DEF CapturedOK
    <3>3. x.step \notin {"remove", "move", "tables", "replace"}
      BY <1>1, <1>3, <1>5 DEF CapturedOK, RenameSteps
    <3>4. QED
      BY <1>3, <3>1, <3>2, <3>3 DEF Steps
  <2>2. CASE x.step = "get"
    <3>1. Held(n) \/ \E j \in Waiting("forget", n) : i < j
      BY <1>5, <2>2 DEF x, Inv, Tally, GetsAlive
    <3>2. QED
      BY <1>1, <3>1, Alive
  <2>3. CASE x.step = "add"
    BY <1>5, <2>3 DEF x, Adding, Waiting
  <2>4. CASE x.step = "forget"
    <3>1. i \in Waiting("forget", n)
      BY <1>5, <2>4 DEF x, Waiting
    <3>2. QED
      BY <1>1, <3>1, Alive
  <2>5. QED
    BY <2>1, <2>2, <2>3, <2>4
<1>6. CASE n = x.m /\ n \notin x.r.pins
  <2>1. x.step \in {"tables", "replace"}
    BY <1>2, <1>3, <1>6 DEF FoundOK
  <2>2. QED
    BY <1>1, <1>3, <1>6, <2>1 DEF CapturedOK, NewOK, RenameSteps
<1>7. QED
  BY <1>4, <1>5, <1>6 DEF Uses, x

LEMMA InvDangles == Inv => NothingDangles
<1> SUFFICES ASSUME Inv
             PROVE  NothingDangles
  OBVIOUS
<1>1. Typed /\ OwnRequests /\ AddsFirst /\ Captured
  BY DEF Inv, Shape, Places
<1>2. ASSUME NEW n \in NamedIn(entries) \cup {z \in Inodes : Known(z)}
      PROVE  n \in tables \/ Waiting("add", n) # {}
  <2>1. CASE n \in NamedIn(entries)
    <3>1. PICK p \in Dirs, a \in Names : n = entries[p][a] /\ n # None
      BY <2>1 DEF NamedIn
    <3>2. n \in Inodes
      BY <1>1, <3>1 DEF Typed
    <3>3. Held(n)
      BY <3>1 DEF Held, Named
    <3>4. QED
      BY <3>2, <3>3, Alive DEF Adding
  <2>2. CASE n \in Inodes /\ Known(n)
    BY <2>2, Alive DEF Held, Adding
  <2>3. QED
    BY <1>2, <2>1, <2>2
<1>3. ASSUME NEW i \in DOMAIN behaviours, NEW x, x = behaviours[i]
      PROVE  /\ \A n \in Uses(x) : n \in tables \/ \E j \in Waiting("add", n) : j <= i
             /\ x.step \in {"remove", "move", "tables", "replace"} => Target(i) = x.n
             /\ x.step \in {"tables", "replace"} => entries[x.r.q][x.r.b] = x.m
  <2>1. ASSUME NEW n \in Uses(x)
        PROVE  n \in tables \/ \E j \in Waiting("add", n) : j <= i
    <3>1. n \in tables \/ Adding(n)
      BY <1>3, <2>1, UsesAlive
    <3>2. ASSUME NEW j \in Waiting("add", n)
          PROVE  j <= i
      BY <1>1, <1>3, <2>1, <3>2 DEF AddsFirst, Waiting
    <3>3. QED
      BY <3>1, <3>2 DEF Adding
  <2>2. CapturedOK(x)
    BY <1>1, <1>3 DEF Captured
  <2>3. QED
    BY <1>3, <2>1, <2>2 DEF CapturedOK, Old, New, Target, R
<1>4. QED
  BY <1>2, <1>3 DEF NothingDangles

LEMMA InvCounts == Inv => CountsExact
<1> SUFFICES ASSUME Inv
             PROVE  CountsExact
  OBVIOUS
<1>1. Typed /\ OwnRequests /\ AddsFirst
  BY DEF Inv, Shape
<1>2. ASSUME NEW n \in Inodes
      PROVE  krefs[n] = kernel[n] + Forgotten(n) - Cardinality(Waiting("add", n))
  <2>1. CASE Adding(n)
    <3>1. PICK i \in Waiting("add", n) : TRUE
      BY <2>1 DEF Adding
    <3>2. \A j \in Waiting("add", n) : j = i
      BY <1>1, <3>1, OneAdd DEF Waiting
    <3>3. Waiting("add", n) = {i}
      BY <3>1, <3>2
    <3>4. Cardinality(Waiting("add", n)) = 1
      BY <3>3, FS_Singleton
    <3>5. QED
      BY <2>1, <3>4 DEF Inv, Tally, LookupsCounted
  <2>2. CASE ~Adding(n)
    <3>1. Cardinality(Waiting("add", n)) = 0
      BY <2>2, FS_EmptySet DEF Adding
    <3>2. QED
      BY <2>2, <3>1 DEF Inv, Tally, LookupsCounted
  <2>3. QED
    BY <2>1, <2>2
<1>3. ASSUME behaviours = <<>>, NEW n \in made
      PROVE  nlink[n] = LinksOf(n) /\ (n \in tables <=> nlink[n] > 0 \/ krefs[n] > 0)
  <2>1. ~Adding(n) /\ ~Unlinking(n) /\ n \in Inodes
    BY <1>1, <1>3 DEF Adding, Unlinking, Waiting, Typed
  <2>2. n \in tables <=> nlink[n] > 0 \/ krefs[n] > 0
    BY <2>1 DEF Inv, Tally, TablesExact
  <2>3. CASE n \in Files
    BY <2>1, <2>2, <2>3, LinksOfRead DEF Inv, Tally, LinksCounted, FileLinks
  <2>4. CASE n \in Dirs \ Files
    BY <2>1, <2>2, <2>4, LinksOfRead DEF Inv, Tally, LinksCounted, DirLinks
  <2>5. QED
    BY <2>1, <2>2, <2>3, <2>4 DEF Inodes
<1>4. QED
  BY <1>2, <1>3 DEF CountsExact

------------------------------------------------------------------------------
(* The theorems.                                                            *)

(* The layers of the invariant hold in every state, for any number of       *)
(* directories, files, names and clients: the handlers of FileSystem.cpp    *)
(* keep them whatever order their behaviours run in, as long as the         *)
(* kernel sends no rename that replace_entry gets wrong.                    *)
THEOREM NamespaceInvariance == ~AllRequests /\ Spec => []Inv
<1> SUFFICES ASSUME ~AllRequests
             PROVE  Spec => []Inv
  OBVIOUS
<1>1. Init => Inv
  BY InvInit
<1>2. Inv /\ [Next]_vars => Inv'
  BY InvNext
<1>3. QED
  BY <1>1, <1>2, PTL DEF Spec

(* Nothing dangles: an inode number that a directory entry, the kernel or   *)
(* a behaviour has is in its table, or add_inode puts it there before; so   *)
(* the numbers that lookup, get_inode and rename turn into pointers are     *)
(* those of live inodes, and the iterators that rename and rmdir captured   *)
(* still point at the entries that were found.                              *)
THEOREM NothingDanglesHolds == ~AllRequests /\ Spec => []NothingDangles
<1>1. Inv => NothingDangles
  BY InvDangles
<1>2. QED
  BY <1>1, NamespaceInvariance, PTL

(* The counts are exact: krefs is the kernel's lookups, plus those that     *)
(* wait in forget, less the one that add_inode has yet to count; and when   *)
(* every behaviour ran, st_nlink is the number of names and an inode is in  *)
(* its table exactly while it has a link or a lookup.                       *)
THEOREM CountsExactHolds == ~AllRequests /\ Spec => []CountsExact
<1>1. Inv => CountsExact
  BY InvCounts
<1>2. QED
  BY <1>1, NamespaceInvariance, PTL

(* What holds with every rename, also those that replace_entry gets wrong:  *)
(* a client's request has one behaviour at a time, on the cowns it names,   *)
(* what it pins stays known to the kernel, and whatever uses an inode was   *)
(* spawned after the add_inode that puts it in its table.                   *)
THEOREM ShapeInvariance == Spec => []Shape
<1>1. Init => Shape
  BY ShapeInit
<1>2. Shape /\ [Next]_vars => Shape'
  BY ShapeNext
<1>3. QED
  BY <1>1, <1>2, PTL DEF Spec
=============================================================================
