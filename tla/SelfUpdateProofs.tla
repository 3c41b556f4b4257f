-------------------------- MODULE SelfUpdateProofs --------------------------
(***************************************************************************)
(* Proofs about SelfUpdate, for any number of updates and of names.        *)
(***************************************************************************)
EXTENDS SelfUpdate, TLAPS

(***************************************************************************)
(* The inductive invariant, by parts.                                      *)
(***************************************************************************)
Val == Releases \cup {0, Page}

Content == [data : Val \X Val, exec : BOOLEAN]

Places == {"idle", "rename", "create", "get", "copy", "chmod", "updated", "error", "killed"}

TypeOK ==
  /\ UpdateAssumption
  /\ nodes \in Seq(Content)
  /\ fs \in [Names -> 0 .. Len(nodes)]
  /\ up \in [Updates -> [pc : Places, exe : 0 .. MaxName - 1, fd : 0 .. Len(nodes), body : Val, at : Nat]]
  /\ from \in [Updates -> Val]
  /\ alone \subseteq Updates

\* No two names are one file, and a file that is open is there.
FilesApart ==
  /\ \A m, n \in Names : m # n /\ fs[m] = fs[n] => fs[m] = 0
  /\ \A u \in Updates : up[u].pc \in {"get", "copy", "chmod"} => up[u].fd # 0
  /\ \A u \in Updates : up[u].pc = "copy" => up[u].at \in 1 .. 2

\* An update that no other one overlaps finds the files as it left them.
Undisturbed ==
  alone = Updates =>
    /\ \A u, v \in Active : u = v
    /\ \E n \in Names : Runnable(n)
    /\ \A u \in Active :
         /\ from[u] \in Releases
         /\ up[u].pc = "rename" => Holds(up[u].exe, from[u])
         /\ up[u].pc # "rename" => Holds(up[u].exe + 1, from[u])
         /\ up[u].pc = "create" => fs[up[u].exe] = 0
         /\ up[u].pc \in {"get", "copy", "chmod"} => fs[up[u].exe] = up[u].fd

\* Whoever renamed the binary itself is the only one to create it anew.
Renamed(u) == up[u].pc = "create" /\ up[u].exe = 0

OneCreates ==
  \A u \in Updates : Renamed(u) => fs[0] = 0 /\ \A v \in Updates : Renamed(v) => v = u

NoneFailed == \A u \in Updates : up[u].pc \notin {"error", "killed"}

\* The binary is a release that no update has open,
Untouched ==
  /\ \E v \in Releases : Holds(0, v)
  /\ \A u \in Updates : up[u].fd # fs[0]

\* or what u alone is making of it.
MadeBy(u) ==
  /\ up[u].exe = 0 /\ up[u].fd = fs[0]
  /\ \A v \in Updates \ {u} : up[v].fd # fs[0]
  /\ up[u].pc \in {"get", "copy", "chmod", "updated"}
  /\ up[u].pc = "copy" /\ up[u].at = 2 => nodes[fs[0]].data[1] = up[u].body
  /\ up[u].pc \in {"chmod", "updated"} => nodes[fs[0]].data = Data(up[u].body)
  /\ up[u].pc = "updated" => nodes[fs[0]].exec

BinaryIsMade ==
  NoneFailed =>
    /\ fs[0] = 0 => \E u \in Updates : Renamed(u)
    /\ fs[0] # 0 => Untouched \/ \E u \in Updates : MadeBy(u)

IInv == TypeOK /\ FilesApart /\ Undisturbed /\ OneCreates /\ BinaryIsMade

(***************************************************************************)
(* What a step leaves of the variables the invariant is about.             *)
(***************************************************************************)
\* A step that only moves u to another place (a failure, a kill, an answer
\* that has not come) leaves every file and every other update alone.
LEMMA GoKeepsType ==
  ASSUME TypeOK, NEW u \in Updates, NEW at \in Places, Go(u, at)
  PROVE  /\ up' \in [Updates -> [pc : Places, exe : 0 .. MaxName - 1, fd : 0 .. Len(nodes), body : Val, at : Nat]]
         /\ up'[u].pc = at
         /\ up'[u].exe = up[u].exe /\ up'[u].fd = up[u].fd
         /\ up'[u].body = up[u].body /\ up'[u].at = up[u].at
         /\ \A v \in Updates \ {u} : up'[v] = up[v]
BY DEF TypeOK, Go

\* Giving one node new content keeps the length of nodes and every other one.
LEMMA ReplaceNode ==
  ASSUME TypeOK, NEW k \in DOMAIN nodes, NEW c \in Content, nodes' = [nodes EXCEPT ![k] = c]
  PROVE  /\ nodes' \in Seq(Content) /\ Len(nodes') = Len(nodes) /\ nodes'[k] = c
         /\ \A j \in DOMAIN nodes \ {k} : nodes'[j] = nodes[j]
BY DEF TypeOK

\* io.Copy writes one half of one node: the length of nodes, the executable
\* bits and the other nodes stay.
LEMMA CopyEffect ==
  ASSUME TypeOK, NEW k \in DOMAIN nodes, NEW i \in 1 .. 2, NEW b \in Val,
         nodes' = [nodes EXCEPT ![k].data[i] = b]
  PROVE  /\ nodes' \in Seq(Content) /\ Len(nodes') = Len(nodes)
         /\ \A j \in DOMAIN nodes \ {k} : nodes'[j] = nodes[j]
         /\ nodes'[k].exec = nodes[k].exec
         /\ nodes'[k].data[i] = b
         /\ \A j \in 1 .. 2 \ {i} : nodes'[k].data[j] = nodes[k].data[j]
<1> DEFINE d == [nodes[k].data EXCEPT ![i] = b]
           c == [nodes[k] EXCEPT !.data = d]
<1>0. nodes \in Seq(Content) /\ nodes[k] \in Content
  BY DEF TypeOK
<1>1. nodes[k].data \in Val \X Val
  BY <1>0 DEF Content
<1>2. d \in Val \X Val /\ d[i] = b /\ \A j \in 1 .. 2 \ {i} : d[j] = nodes[k].data[j]
  BY <1>1
<1>3. c \in Content /\ c.data = d /\ c.exec = nodes[k].exec
  BY <1>0, <1>1, <1>2 DEF Content
<1>4. nodes' = [nodes EXCEPT ![k] = c]
  OBVIOUS
<1> HIDE DEF c, d
<1> QED BY <1>2, <1>3, <1>4, ReplaceNode

\* A node whose bit is set is the same data, executable.
LEMMA SetMode ==
  ASSUME NEW n \in Content, NEW c, c = [n EXCEPT !.exec = TRUE]
  PROVE  c \in Content /\ c = [data |-> n.data, exec |-> TRUE]
BY DEF Content

\* Chmod sets one bit: every file keeps its data.
LEMMA ChmodEffect ==
  ASSUME TypeOK, NEW k \in DOMAIN nodes, nodes' = [nodes EXCEPT ![k].exec = TRUE]
  PROVE  /\ nodes' \in Seq(Content) /\ Len(nodes') = Len(nodes)
         /\ \A j \in DOMAIN nodes \ {k} : nodes'[j] = nodes[j]
         /\ nodes'[k] = [data |-> nodes[k].data, exec |-> TRUE]
<1> DEFINE c == [nodes[k] EXCEPT !.exec = TRUE]
<1>0. nodes \in Seq(Content) /\ nodes[k] \in Content
  BY DEF TypeOK
<1>1. c \in Content /\ c = [data |-> nodes[k].data, exec |-> TRUE]
  BY <1>0, SetMode, Zenon
<1>2. nodes' = [nodes EXCEPT ![k] = c]
  OBVIOUS
<1> HIDE DEF c
<1>3. /\ nodes' \in Seq(Content) /\ Len(nodes') = Len(nodes) /\ nodes'[k] = c
      /\ \A j \in DOMAIN nodes \ {k} : nodes'[j] = nodes[j]
  BY <1>1, <1>2, ReplaceNode
<1> QED BY <1>1, <1>3, Zenon

\* os.Create on a name that has a file cuts it to nothing and keeps its mode.
LEMMA TruncateEffect ==
  ASSUME TypeOK, NEW k \in DOMAIN nodes, nodes' = [nodes EXCEPT ![k].data = Data(0)]
  PROVE  /\ nodes' \in Seq(Content) /\ Len(nodes') = Len(nodes)
         /\ \A j \in DOMAIN nodes \ {k} : nodes'[j] = nodes[j]
<1> DEFINE c == [nodes[k] EXCEPT !.data = Data(0)]
<1>0. nodes \in Seq(Content) /\ nodes[k] \in Content
  BY DEF TypeOK
<1>1. Data(0) \in Val \X Val
  BY DEF Data, Val
<1>2. c \in Content
  BY <1>0, <1>1 DEF Content
<1>3. nodes' = [nodes EXCEPT ![k] = c]
  OBVIOUS
<1> HIDE DEF c
<1> QED BY <1>2, <1>3, ReplaceNode

\* Names of an update are names of the model.
LEMMA NamesOfUpdate ==
  ASSUME TypeOK, NEW u \in Updates
  PROVE  /\ up[u].exe \in Names /\ up[u].exe + 1 \in Names
         /\ up[u].exe # up[u].exe + 1 /\ up[u].exe + 1 # 0 /\ 0 \in Names
<1>1. up[u].exe \in 0 .. MaxName - 1
  BY DEF TypeOK
<1>2. MaxName \in Nat \ {0}
  BY DEF TypeOK, UpdateAssumption
<1> QED BY <1>1, <1>2 DEF Names

\* Start: the update has a name under which a release can be run.
LEMMA StartStep ==
  ASSUME TypeOK, NEW u \in Updates, Start(u)
  PROVE  /\ up[u].pc = "idle"
         /\ up'[u].pc = "rename" /\ up'[u].fd = up[u].fd
         /\ from'[u] \in Releases /\ Holds(up'[u].exe, from'[u])
         /\ \A v \in Updates \ {u} : up'[v] = up[v] /\ from'[v] = from[v]
         /\ alone' = IF Active = {} THEN alone ELSE alone \ (Active \cup {u})
         /\ UNCHANGED <<fs, nodes>>
<1>1. PICK n \in Names \ {MaxName} :
          /\ Runnable(n)
          /\ up' = [up EXCEPT ![u].pc = "rename", ![u].exe = n]
          /\ from' = [from EXCEPT ![u] = nodes[fs[n]].data[1]]
  BY DEF Start
<1>2. PICK v \in Releases : Holds(n, v)
  BY <1>1 DEF Runnable
<1>3. nodes[fs[n]].data[1] = v
  BY <1>2 DEF Holds, Data
<1>4. from'[u] = v /\ \A w \in Updates \ {u} : from'[w] = from[w]
  BY <1>1, <1>3 DEF TypeOK
<1>5. /\ up'[u].pc = "rename" /\ up'[u].fd = up[u].fd /\ up'[u].exe = n
      /\ \A w \in Updates \ {u} : up'[w] = up[w]
  BY <1>1 DEF TypeOK
<1> QED BY <1>2, <1>4, <1>5 DEF Start

\* prepSourceBinary, when it succeeds: the file moves on to the next name.
LEMMA RenameStep ==
  ASSUME TypeOK, NEW u \in Updates, prepSourceBinary(u), ~ Fail(u)
  PROVE  /\ up[u].pc = "rename" /\ fs[up[u].exe] # 0
         /\ fs'[up[u].exe] = 0 /\ fs'[up[u].exe + 1] = fs[up[u].exe]
         /\ \A n \in Names \ {up[u].exe, up[u].exe + 1} : fs'[n] = fs[n]
         /\ up'[u].pc = "create" /\ up'[u].exe = up[u].exe /\ up'[u].fd = up[u].fd
         /\ \A v \in Updates \ {u} : up'[v] = up[v]
         /\ UNCHANGED <<nodes, from, alone>>
<1>1. /\ up[u].pc = "rename" /\ fs[up[u].exe] # 0
      /\ fs' = [fs EXCEPT ![up[u].exe + 1] = fs[up[u].exe], ![up[u].exe] = 0]
      /\ Go(u, "create")
      /\ UNCHANGED <<nodes, from, alone>>
  BY DEF prepSourceBinary
<1>2. fs \in [Names -> 0 .. Len(nodes)]
  BY DEF TypeOK
<1>3. /\ fs'[up[u].exe] = 0 /\ fs'[up[u].exe + 1] = fs[up[u].exe]
      /\ \A n \in Names \ {up[u].exe, up[u].exe + 1} : fs'[n] = fs[n]
  BY <1>1, <1>2, NamesOfUpdate
<1> QED BY <1>1, <1>3, GoKeepsType DEF Places

\* os.Create, when it succeeds and the name is free: a node of its own.
LEMMA NewFileStep ==
  ASSUME TypeOK, NEW u \in Updates, Create(u), ~ Fail(u), fs[up[u].exe] = 0
  PROVE  /\ up[u].pc = "create"
         /\ Len(nodes') = Len(nodes) + 1
         /\ \A j \in DOMAIN nodes : nodes'[j] = nodes[j]
         /\ fs'[up[u].exe] = Len(nodes) + 1
         /\ \A n \in Names \ {up[u].exe} : fs'[n] = fs[n]
         /\ up'[u].pc = "get" /\ up'[u].exe = up[u].exe /\ up'[u].fd = Len(nodes) + 1
         /\ \A v \in Updates \ {u} : up'[v] = up[v]
         /\ UNCHANGED <<from, alone>>
<1>1. /\ up[u].pc = "create"
      /\ nodes' = Append(nodes, [data |-> Data(0), exec |-> FALSE])
      /\ fs' = [fs EXCEPT ![up[u].exe] = Len(nodes) + 1]
      /\ up' = [up EXCEPT ![u].pc = "get", ![u].fd = Len(nodes) + 1]
      /\ UNCHANGED <<from, alone>>
  BY DEF Create
<1>2. nodes \in Seq(Content) /\ [data |-> Data(0), exec |-> FALSE] \in Content
  BY DEF TypeOK, Content, Data, Val
<1>3. Len(nodes') = Len(nodes) + 1 /\ \A j \in DOMAIN nodes : nodes'[j] = nodes[j]
  BY <1>1, <1>2
<1>4. /\ fs'[up[u].exe] = Len(nodes) + 1
      /\ \A n \in Names \ {up[u].exe} : fs'[n] = fs[n]
  BY <1>1, NamesOfUpdate DEF TypeOK
<1>5. /\ up'[u].pc = "get" /\ up'[u].exe = up[u].exe /\ up'[u].fd = Len(nodes) + 1
      /\ \A v \in Updates \ {u} : up'[v] = up[v]
  BY <1>1 DEF TypeOK
<1> QED BY <1>1, <1>3, <1>4, <1>5

\* os.Create, when it succeeds and the name is taken: that file is cut.
LEMMA CutFileStep ==
  ASSUME TypeOK, NEW u \in Updates, Create(u), ~ Fail(u), fs[up[u].exe] # 0
  PROVE  /\ up[u].pc = "create"
         /\ Len(nodes') = Len(nodes)
         /\ \A j \in DOMAIN nodes \ {fs[up[u].exe]} : nodes'[j] = nodes[j]
         /\ up'[u].pc = "get" /\ up'[u].exe = up[u].exe /\ up'[u].fd = fs[up[u].exe]
         /\ \A v \in Updates \ {u} : up'[v] = up[v]
         /\ UNCHANGED <<fs, from, alone>>
<1>1. /\ up[u].pc = "create"
      /\ nodes' = [nodes EXCEPT ![fs[up[u].exe]].data = Data(0)]
      /\ fs' = [fs EXCEPT ![up[u].exe] = fs[up[u].exe]]
      /\ up' = [up EXCEPT ![u].pc = "get", ![u].fd = fs[up[u].exe]]
      /\ UNCHANGED <<from, alone>>
  BY DEF Create
<1>2. nodes \in Seq(Content) /\ fs \in [Names -> 0 .. Len(nodes)]
  BY DEF TypeOK
<1>3. fs[up[u].exe] \in DOMAIN nodes
  BY <1>2, NamesOfUpdate
<1>4. Len(nodes') = Len(nodes) /\ \A j \in DOMAIN nodes \ {fs[up[u].exe]} : nodes'[j] = nodes[j]
  BY <1>1, <1>3, TruncateEffect
<1>5. fs' = fs
  BY <1>1, <1>2
<1>6. /\ up'[u].pc = "get" /\ up'[u].exe = up[u].exe /\ up'[u].fd = fs[up[u].exe]
      /\ \A v \in Updates \ {u} : up'[v] = up[v]
  BY <1>1 DEF TypeOK
<1> QED BY <1>1, <1>4, <1>5, <1>6

\* GetVersion, when it is answered.
LEMMA AnswerStep ==
  ASSUME TypeOK, NEW u \in Updates, GetVersion(u), ~ Fail(u)
  PROVE  /\ up[u].pc = "get"
         /\ up'[u].pc = "copy" /\ up'[u].exe = up[u].exe /\ up'[u].fd = up[u].fd
         /\ up'[u].at = 1
         /\ \A v \in Updates \ {u} : up'[v] = up[v]
         /\ UNCHANGED <<fs, nodes, from, alone>>
<1>1. PICK b \in Releases \cup {Page} :
          up' = [up EXCEPT ![u].pc = "copy", ![u].body = b, ![u].at = 1]
  BY DEF GetVersion
<1>2. /\ up'[u].pc = "copy" /\ up'[u].exe = up[u].exe /\ up'[u].fd = up[u].fd
      /\ up'[u].at = 1
      /\ \A v \in Updates \ {u} : up'[v] = up[v]
  BY <1>1 DEF TypeOK
<1> QED BY <1>2 DEF GetVersion

\* io.Copy of one half.
LEMMA WriteStep ==
  ASSUME TypeOK, FilesApart, NEW u \in Updates, Copy(u), ~ Fail(u)
  PROVE  /\ up[u].pc = "copy" /\ up[u].at \in 1 .. 2
         /\ up[u].fd \in DOMAIN nodes
         /\ Len(nodes') = Len(nodes)
         /\ \A j \in DOMAIN nodes \ {up[u].fd} : nodes'[j] = nodes[j]
         /\ nodes'[up[u].fd].data[up[u].at] = up[u].body
         /\ \A j \in 1 .. 2 \ {up[u].at} : nodes'[up[u].fd].data[j] = nodes[up[u].fd].data[j]
         /\ up'[u].at = up[u].at + 1
         /\ up'[u].pc = IF up[u].at = 2 THEN "chmod" ELSE "copy"
         /\ up'[u].exe = up[u].exe /\ up'[u].fd = up[u].fd /\ up'[u].body = up[u].body
         /\ \A v \in Updates \ {u} : up'[v] = up[v]
         /\ UNCHANGED <<fs, from, alone>>
<1>1. /\ up[u].pc = "copy"
      /\ nodes' = [nodes EXCEPT ![up[u].fd].data[up[u].at] = up[u].body]
      /\ up' = [up EXCEPT ![u].at = @ + 1,
                          ![u].pc = IF up[u].at = 2 THEN "chmod" ELSE @]
      /\ UNCHANGED <<fs, from, alone>>
  BY DEF Copy
<1>2. nodes \in Seq(Content) /\ up[u].fd \in 0 .. Len(nodes) /\ up[u].body \in Val
  BY DEF TypeOK
<1>3. up[u].fd \in DOMAIN nodes /\ up[u].at \in 1 .. 2
  BY <1>1, <1>2 DEF FilesApart
<1>4. /\ Len(nodes') = Len(nodes)
      /\ \A j \in DOMAIN nodes \ {up[u].fd} : nodes'[j] = nodes[j]
      /\ nodes'[up[u].fd].data[up[u].at] = up[u].body
      /\ \A j \in 1 .. 2 \ {up[u].at} : nodes'[up[u].fd].data[j] = nodes[up[u].fd].data[j]
  <2> DEFINE k == up[u].fd  i == up[u].at  b == up[u].body
  <2>1. k \in DOMAIN nodes /\ i \in 1 .. 2 /\ b \in Val /\ nodes' = [nodes EXCEPT ![k].data[i] = b]
    BY <1>1, <1>2, <1>3
  <2> HIDE DEF k, i, b
  <2>2. /\ Len(nodes') = Len(nodes)
        /\ \A j \in DOMAIN nodes \ {k} : nodes'[j] = nodes[j]
        /\ nodes'[k].data[i] = b
        /\ \A j \in 1 .. 2 \ {i} : nodes'[k].data[j] = nodes[k].data[j]
    BY <2>1, CopyEffect, Zenon
  <2> QED BY <2>2 DEF k, i, b
<1>5. /\ up'[u].at = up[u].at + 1
      /\ up'[u].pc = IF up[u].at = 2 THEN "chmod" ELSE "copy"
      /\ up'[u].exe = up[u].exe /\ up'[u].fd = up[u].fd /\ up'[u].body = up[u].body
      /\ \A v \in Updates \ {u} : up'[v] = up[v]
  BY <1>1 DEF TypeOK
<1> QED BY <1>1, <1>3, <1>4, <1>5

\* Chmod, when there is a file of that name.
LEMMA ModeStep ==
  ASSUME TypeOK, NEW u \in Updates, Chmod(u), ~ Fail(u)
  PROVE  /\ up[u].pc = "chmod" /\ fs[up[u].exe] \in DOMAIN nodes
         /\ Len(nodes') = Len(nodes)
         /\ \A j \in DOMAIN nodes \ {fs[up[u].exe]} : nodes'[j] = nodes[j]
         /\ nodes'[fs[up[u].exe]] = [data |-> nodes[fs[up[u].exe]].data, exec |-> TRUE]
         /\ up'[u].pc = "updated" /\ up'[u].exe = up[u].exe
         /\ up'[u].fd = up[u].fd /\ up'[u].body = up[u].body
         /\ \A v \in Updates \ {u} : up'[v] = up[v]
         /\ UNCHANGED <<fs, from, alone>>
<1>1. /\ up[u].pc = "chmod" /\ fs[up[u].exe] # 0
      /\ nodes' = [nodes EXCEPT ![fs[up[u].exe]].exec = TRUE]
      /\ Go(u, "updated")
      /\ UNCHANGED <<fs, from, alone>>
  BY DEF Chmod
<1>2. nodes \in Seq(Content) /\ fs \in [Names -> 0 .. Len(nodes)]
  BY DEF TypeOK
<1>3. fs[up[u].exe] \in DOMAIN nodes
  BY <1>1, <1>2, NamesOfUpdate
<1> QED BY <1>1, <1>3, ChmodEffect, GoKeepsType DEF Places

\* A failure or a kill.
LEMMA EndStep ==
  ASSUME TypeOK, NEW u \in Updates, Fail(u) \/ Kill(u)
  PROVE  /\ up'[u].pc \in {"error", "killed"}
         /\ up'[u].exe = up[u].exe /\ up'[u].fd = up[u].fd
         /\ \A v \in Updates \ {u} : up'[v] = up[v]
         /\ UNCHANGED <<fs, nodes, from, alone>>
BY GoKeepsType DEF Fail, Kill, Places

(***************************************************************************)
(* The inductive invariant holds at the start and is kept by every action. *)
(***************************************************************************)
\* The installed binary is the only node, and no update has begun.
LEMMA InitInvariant == UpdateAssumption /\ Init => IInv
<1> SUFFICES ASSUME UpdateAssumption, Init PROVE IInv
  OBVIOUS
<1> USE DEF UpdateAssumption
<1>1. PICK v \in Releases : nodes = <<[data |-> Data(v), exec |-> TRUE]>>
  BY DEF Init
<1>2. Len(nodes) = 1 /\ nodes[1] = [data |-> Data(v), exec |-> TRUE]
  BY <1>1
<1>3. [data |-> Data(v), exec |-> TRUE] \in Content
  BY DEF Content, Data, Val
<1>4. nodes \in Seq(Content)
  BY <1>1, <1>3
<1>5. TypeOK
  <2>1. fs \in [Names -> 0 .. Len(nodes)]
    BY <1>2 DEF Init, Names
  <2>2. up \in [Updates -> [pc : Places, exe : 0 .. MaxName - 1, fd : 0 .. Len(nodes), body : Val, at : Nat]]
    BY <1>2 DEF Init, Idle, Places, Val
  <2>3. from \in [Updates -> Val] /\ alone \subseteq Updates
    BY DEF Init, Val
  <2> QED BY <1>4, <2>1, <2>2, <2>3 DEF TypeOK
<1>6. 0 \in Names /\ fs[0] = 1 /\ Holds(0, v)
  BY <1>2 DEF Init, Names, Holds
<1>7. FilesApart /\ OneCreates
  BY DEF FilesApart, OneCreates, Init, Idle, Renamed
<1>8. Active = {}
  BY DEF Active, Init, Idle
<1>9. Undisturbed
  BY <1>6, <1>8 DEF Undisturbed, Runnable
<1>10. BinaryIsMade
  BY <1>6 DEF BinaryIsMade, Untouched, Init, Idle
<1> QED BY <1>5, <1>7, <1>9, <1>10 DEF IInv

\* Every step keeps the types; the set of nodes only grows.
LEMMA TypeStep == TypeOK /\ FilesApart /\ Next => TypeOK'
<1> SUFFICES ASSUME TypeOK, FilesApart, NEW u \in Updates,
                    \/ Start(u) \/ prepSourceBinary(u) \/ Create(u) \/ GetVersion(u)
                    \/ Copy(u) \/ Chmod(u) \/ Kill(u)
             PROVE  TypeOK'
  BY DEF Next
<1>a. UpdateAssumption
  BY DEF TypeOK
<1> USE <1>a DEF UpdateAssumption
<1> DEFINE Ups(n) == [Updates -> [pc : Places, exe : 0 .. MaxName - 1, fd : 0 .. n, body : Val, at : Nat]]
<1>0. /\ nodes \in Seq(Content) /\ Len(nodes) \in Nat
      /\ fs \in [Names -> 0 .. Len(nodes)]
      /\ up \in Ups(Len(nodes))
      /\ from \in [Updates -> Val] /\ alone \subseteq Updates
      /\ up[u] \in [pc : Places, exe : 0 .. MaxName - 1, fd : 0 .. Len(nodes), body : Val, at : Nat]
      /\ up[u].exe \in Names /\ up[u].exe + 1 \in Names
  <2>1. nodes \in Seq(Content) /\ Len(nodes) \in Nat
    BY DEF TypeOK
  <2>2. fs \in [Names -> 0 .. Len(nodes)] /\ from \in [Updates -> Val] /\ alone \subseteq Updates
    BY DEF TypeOK
  <2>3. up \in Ups(Len(nodes))
    BY DEF TypeOK
  <2>4. up[u] \in [pc : Places, exe : 0 .. MaxName - 1, fd : 0 .. Len(nodes), body : Val, at : Nat]
    BY <2>3
  <2>5. up[u].exe \in 0 .. MaxName - 1
    BY <2>4
  <2>6. up[u].exe \in Names /\ up[u].exe + 1 \in Names
    BY <2>5 DEF Names
  <2> QED BY <2>1, <2>2, <2>3, <2>4, <2>6
<1>1. ASSUME NEW at \in {"error", "killed"}, Go(u, at), UNCHANGED <<fs, nodes, from, alone>>
      PROVE  TypeOK'
  <2>1. at \in Places
    BY DEF Places
  <2>2. up' \in Ups(Len(nodes))
    BY <1>1, <2>1, GoKeepsType
  <2> QED BY <1>0, <1>1, <2>2 DEF TypeOK
<1>2. CASE Start(u)
  <2>1. PICK n \in Names \ {MaxName} :
            /\ Runnable(n)
            /\ up' = [up EXCEPT ![u].pc = "rename", ![u].exe = n]
            /\ from' = [from EXCEPT ![u] = nodes[fs[n]].data[1]]
    BY <1>2 DEF Start
  <2>2. PICK v \in Releases : Holds(n, v)
    BY <2>1 DEF Runnable
  <2>3. nodes[fs[n]].data[1] = v
    BY <2>2 DEF Holds, Data
  <2>4. from' \in [Updates -> Val]
    BY <1>0, <2>1, <2>3 DEF Val
  <2>5. up' \in Ups(Len(nodes))
    <3> DEFINE r == [up[u] EXCEPT !.pc = "rename", !.exe = n]
    <3>1. n \in 0 .. MaxName - 1
      BY DEF Names
    <3>2. r \in [pc : Places, exe : 0 .. MaxName - 1, fd : 0 .. Len(nodes), body : Val, at : Nat]
      BY <1>0, <3>1 DEF Places
    <3>3. up' = [up EXCEPT ![u] = r]
      BY <2>1
    <3> HIDE DEF r
    <3> QED BY <1>0, <3>2, <3>3
  <2>6. UNCHANGED <<fs, nodes>> /\ alone' \subseteq Updates
    BY <1>0, <1>2 DEF Start
  <2> QED BY <1>0, <2>4, <2>5, <2>6 DEF TypeOK
<1>3. CASE prepSourceBinary(u)
  <2>1. CASE Fail(u)
    BY <1>1, <2>1 DEF Fail
  <2>2. CASE ~ Fail(u)
    <3>1. /\ fs' = [fs EXCEPT ![up[u].exe + 1] = fs[up[u].exe], ![up[u].exe] = 0]
          /\ Go(u, "create") /\ UNCHANGED <<nodes, from, alone>>
      BY <1>3, <2>2 DEF prepSourceBinary
    <3>2. fs' \in [Names -> 0 .. Len(nodes)]
      <4>1. fs[up[u].exe] \in 0 .. Len(nodes) /\ 0 \in 0 .. Len(nodes)
        BY <1>0
      <4> QED BY <1>0, <3>1, <4>1
    <3>3. up' \in Ups(Len(nodes))
      BY <3>1, GoKeepsType DEF Places
    <3> QED BY <1>0, <3>1, <3>2, <3>3 DEF TypeOK
  <2> QED BY <2>1, <2>2
<1>4. CASE Create(u)
  <2>1. CASE Fail(u)
    BY <1>1, <2>1 DEF Fail
  <2>2. CASE ~ Fail(u) /\ fs[up[u].exe] = 0
    <3>1. /\ nodes' = Append(nodes, [data |-> Data(0), exec |-> FALSE])
          /\ fs' = [fs EXCEPT ![up[u].exe] = Len(nodes) + 1]
          /\ up' = [up EXCEPT ![u].pc = "get", ![u].fd = Len(nodes) + 1]
          /\ UNCHANGED <<from, alone>>
      BY <1>4, <2>2 DEF Create
    <3>2. [data |-> Data(0), exec |-> FALSE] \in Content
      BY DEF Content, Data, Val
    <3>3. nodes' \in Seq(Content) /\ Len(nodes') = Len(nodes) + 1
      BY <1>0, <3>1, <3>2
    <3>4. fs' \in [Names -> 0 .. Len(nodes')]
      BY <1>0, <3>1, <3>3
    <3>5. up' \in Ups(Len(nodes'))
      BY <1>0, <3>1, <3>3 DEF Places
    <3> QED BY <1>0, <3>1, <3>3, <3>4, <3>5 DEF TypeOK
  <2>3. CASE ~ Fail(u) /\ fs[up[u].exe] # 0
    <3>1. /\ nodes' = [nodes EXCEPT ![fs[up[u].exe]].data = Data(0)]
          /\ fs' = [fs EXCEPT ![up[u].exe] = fs[up[u].exe]]
          /\ up' = [up EXCEPT ![u].pc = "get", ![u].fd = fs[up[u].exe]]
          /\ UNCHANGED <<from, alone>>
      BY <1>4, <2>3 DEF Create
    <3>2. fs[up[u].exe] \in DOMAIN nodes
      BY <1>0, <2>3
    <3>3. nodes' \in Seq(Content) /\ Len(nodes') = Len(nodes)
      BY <3>1, <3>2, TruncateEffect
    <3>4. fs' \in [Names -> 0 .. Len(nodes')]
      BY <1>0, <3>1, <3>3
    <3>5. up' \in Ups(Len(nodes'))
      BY <1>0, <3>1, <3>2, <3>3 DEF Places
    <3> QED BY <1>0, <3>1, <3>3, <3>4, <3>5 DEF TypeOK
  <2> QED BY <2>1, <2>2, <2>3
<1>5. CASE GetVersion(u)
  <2>1. CASE Fail(u)
    BY <1>1, <2>1 DEF Fail
  <2>2. CASE ~ Fail(u)
    <3>1. PICK b \in Releases \cup {Page} :
              up' = [up EXCEPT ![u].pc = "copy", ![u].body = b, ![u].at = 1]
      BY <1>5, <2>2 DEF GetVersion
    <3>2. up' \in Ups(Len(nodes))
      BY <1>0, <3>1 DEF Places, Val
    <3> QED BY <1>0, <1>5, <2>2, <3>2 DEF TypeOK, GetVersion
  <2> QED BY <2>1, <2>2
<1>6. CASE Copy(u)
  <2>1. CASE Fail(u)
    BY <1>1, <2>1 DEF Fail
  <2>2. CASE ~ Fail(u)
    <3>1. /\ nodes' = [nodes EXCEPT ![up[u].fd].data[up[u].at] = up[u].body]
          /\ up' = [up EXCEPT ![u].at = @ + 1,
                              ![u].pc = IF up[u].at = 2 THEN "chmod" ELSE @]
          /\ UNCHANGED <<fs, from, alone>>
      BY <1>6, <2>2 DEF Copy
    <3>2. up[u].fd \in DOMAIN nodes /\ up[u].at \in 1 .. 2 /\ up[u].body \in Val
      BY <1>0, <1>6 DEF FilesApart, Copy
    <3>3. nodes' \in Seq(Content) /\ Len(nodes') = Len(nodes)
      BY <3>1, <3>2, CopyEffect
    <3>4. up' \in Ups(Len(nodes))
      <4> DEFINE r == [up[u] EXCEPT !.at = @ + 1, !.pc = IF up[u].at = 2 THEN "chmod" ELSE @]
      <4>0. up[u].at + 1 \in Nat /\ (IF up[u].at = 2 THEN "chmod" ELSE up[u].pc) \in Places
        BY <1>0 DEF Places
      <4>1. r \in [pc : Places, exe : 0 .. MaxName - 1, fd : 0 .. Len(nodes), body : Val, at : Nat]
        BY <1>0, <4>0
      <4>2. up' = [up EXCEPT ![u] = r]
        BY <3>1
      <4> HIDE DEF r
      <4> QED BY <1>0, <4>1, <4>2
    <3> QED BY <1>0, <3>1, <3>3, <3>4 DEF TypeOK
  <2> QED BY <2>1, <2>2
<1>7. CASE Chmod(u)
  <2>1. CASE Fail(u)
    BY <1>1, <2>1 DEF Fail
  <2>2. CASE ~ Fail(u)
    <3>1. /\ fs[up[u].exe] # 0
          /\ nodes' = [nodes EXCEPT ![fs[up[u].exe]].exec = TRUE]
          /\ Go(u, "updated")
          /\ UNCHANGED <<fs, from, alone>>
      BY <1>7, <2>2 DEF Chmod
    <3>2. fs[up[u].exe] \in DOMAIN nodes
      BY <1>0, <3>1
    <3>3. nodes' \in Seq(Content) /\ Len(nodes') = Len(nodes)
      BY <3>1, <3>2, ChmodEffect
    <3>4. up' \in Ups(Len(nodes))
      BY <3>1, GoKeepsType DEF Places
    <3> QED BY <1>0, <3>1, <3>3, <3>4 DEF TypeOK
  <2> QED BY <2>1, <2>2
<1>8. CASE Kill(u)
  BY <1>1, <1>8 DEF Kill
<1> QED BY <1>2, <1>3, <1>4, <1>5, <1>6, <1>7, <1>8

\* Files stay apart: a rename leaves nothing behind, a new file has a node
\* of its own, and whoever opened a file has one.
LEMMA FilesApartStep == TypeOK /\ FilesApart /\ Next => FilesApart'
<1> SUFFICES ASSUME TypeOK, FilesApart, NEW u \in Updates,
                    \/ Start(u) \/ prepSourceBinary(u) \/ Create(u) \/ GetVersion(u)
                    \/ Copy(u) \/ Chmod(u) \/ Kill(u)
             PROVE  FilesApart'
  BY DEF Next
<1>0. Len(nodes) \in Nat /\ \A n \in Names : fs[n] \in 0 .. Len(nodes)
  BY DEF TypeOK
<1>1. CASE Fail(u) \/ Kill(u)
  BY <1>1, EndStep DEF FilesApart
<1>2. CASE Start(u)
  BY <1>2, StartStep DEF FilesApart
<1>3. CASE prepSourceBinary(u) /\ ~ Fail(u)
  <2>1. \A m, n \in Names : m # n /\ fs'[m] = fs'[n] => fs'[m] = 0
    BY <1>3, RenameStep, NamesOfUpdate DEF FilesApart
  <2> QED BY <1>3, <2>1, RenameStep DEF FilesApart
<1>4. CASE Create(u) /\ ~ Fail(u) /\ fs[up[u].exe] = 0
  <2>1. \A m, n \in Names : m # n /\ fs'[m] = fs'[n] => fs'[m] = 0
    BY <1>0, <1>4, NewFileStep DEF FilesApart
  <2>2. \A v \in Updates : up'[v].pc \in {"get", "copy", "chmod"} => up'[v].fd # 0
    BY <1>0, <1>4, NewFileStep DEF FilesApart
  <2>3. \A v \in Updates : up'[v].pc = "copy" => up'[v].at \in 1 .. 2
    BY <1>4, NewFileStep DEF FilesApart
  <2> QED BY <2>1, <2>2, <2>3 DEF FilesApart
<1>5. CASE Create(u) /\ ~ Fail(u) /\ fs[up[u].exe] # 0
  BY <1>5, CutFileStep DEF FilesApart
<1>6. CASE GetVersion(u) /\ ~ Fail(u)
  BY <1>6, AnswerStep DEF FilesApart
<1>7. CASE Copy(u) /\ ~ Fail(u)
  BY <1>7, WriteStep DEF FilesApart
<1>8. CASE Chmod(u) /\ ~ Fail(u)
  <2>1. /\ fs' = fs /\ up'[u].pc = "updated"
        /\ \A v \in Updates \ {u} : up'[v] = up[v]
    BY <1>8, ModeStep, Zenon
  <2> QED BY <2>1 DEF FilesApart
<1> QED BY <1>1, <1>2, <1>3, <1>4, <1>5, <1>6, <1>7, <1>8

\* Once an update has renamed the binary, no other can before it created it.
LEMMA OneCreatesStep == TypeOK /\ FilesApart /\ OneCreates /\ Next => OneCreates'
<1> SUFFICES ASSUME TypeOK, FilesApart, OneCreates, NEW u \in Updates,
                    \/ Start(u) \/ prepSourceBinary(u) \/ Create(u) \/ GetVersion(u)
                    \/ Copy(u) \/ Chmod(u) \/ Kill(u)
             PROVE  OneCreates'
  BY DEF Next
<1>1. CASE Fail(u) \/ Kill(u)
  BY <1>1, EndStep DEF OneCreates, Renamed
<1>2. CASE Start(u)
  BY <1>2, StartStep DEF OneCreates, Renamed
<1>3. CASE prepSourceBinary(u) /\ ~ Fail(u)
  <2>1. CASE up[u].exe = 0
    <3>1. fs[0] # 0 /\ fs'[0] = 0
      BY <1>3, <2>1, RenameStep
    <3>2. \A v \in Updates : ~ Renamed(v)
      BY <3>1 DEF OneCreates
    <3>3. \A v \in Updates : Renamed(v)' => v = u
      BY <1>3, <3>2, RenameStep DEF Renamed
    <3> QED BY <3>1, <3>3 DEF OneCreates
  <2>2. CASE up[u].exe # 0
    <3>1. fs'[0] = fs[0]
      BY <1>3, <2>2, RenameStep, NamesOfUpdate
    <3>2. \A v \in Updates : Renamed(v)' => Renamed(v)
      BY <1>3, <2>2, RenameStep DEF Renamed
    <3> QED BY <3>1, <3>2 DEF OneCreates
  <2> QED BY <2>1, <2>2
<1>4. CASE Create(u) /\ ~ Fail(u) /\ fs[up[u].exe] = 0
  <2>1. \A v \in Updates : Renamed(v)' => Renamed(v) /\ v # u
    BY <1>4, NewFileStep DEF Renamed
  <2>2. CASE up[u].exe = 0
    <3>1. Renamed(u)
      BY <1>4, <2>2, NewFileStep DEF Renamed
    <3> QED BY <2>1, <3>1 DEF OneCreates
  <2>3. CASE up[u].exe # 0
    BY <1>4, <2>1, <2>3, NewFileStep, NamesOfUpdate DEF OneCreates
  <2> QED BY <2>2, <2>3
<1>5. CASE Create(u) /\ ~ Fail(u) /\ fs[up[u].exe] # 0
  BY <1>5, CutFileStep DEF OneCreates, Renamed
<1>6. CASE GetVersion(u) /\ ~ Fail(u)
  BY <1>6, AnswerStep DEF OneCreates, Renamed
<1>7. CASE Copy(u) /\ ~ Fail(u)
  BY <1>7, WriteStep DEF OneCreates, Renamed
<1>8. CASE Chmod(u) /\ ~ Fail(u)
  <2>1. /\ fs' = fs /\ up'[u].pc = "updated"
        /\ \A v \in Updates \ {u} : up'[v] = up[v]
    BY <1>8, ModeStep, Zenon
  <2> QED BY <2>1 DEF OneCreates, Renamed
<1> QED BY <1>1, <1>2, <1>3, <1>4, <1>5, <1>6, <1>7, <1>8

\* An update no other one overlaps: it is the only active one, the release
\* it was started from goes with the rename, and it writes to another file.
LEMMA UndisturbedStep == TypeOK /\ FilesApart /\ Undisturbed /\ Next => Undisturbed'
<1> SUFFICES ASSUME TypeOK, FilesApart, Undisturbed, NEW u \in Updates,
                    \/ Start(u) \/ prepSourceBinary(u) \/ Create(u) \/ GetVersion(u)
                    \/ Copy(u) \/ Chmod(u) \/ Kill(u),
                    alone' = Updates
             PROVE  Undisturbed'
  BY DEF Next, Undisturbed
<1> DEFINE Kept(v) ==
      /\ from[v] \in Releases
      /\ up[v].pc = "rename" => Holds(up[v].exe, from[v])
      /\ up[v].pc # "rename" => Holds(up[v].exe + 1, from[v])
      /\ up[v].pc = "create" => fs[up[v].exe] = 0
      /\ up[v].pc \in {"get", "copy", "chmod"} => fs[up[v].exe] = up[v].fd
<1>0. /\ Len(nodes) \in Nat /\ \A n \in Names : fs[n] \in 0 .. Len(nodes)
      /\ up[u].exe \in Names /\ up[u].exe + 1 \in Names /\ up[u].exe # up[u].exe + 1
      /\ \A n \in Names : fs[n] # 0 => fs[n] \in DOMAIN nodes
  <2>1. nodes \in Seq(Content) /\ fs \in [Names -> 0 .. Len(nodes)]
    BY DEF TypeOK
  <2> QED BY <2>1, NamesOfUpdate
<1>1. alone = Updates /\ (Start(u) => Active = {})
  <2>1. CASE Start(u)
    BY <2>1, StartStep DEF TypeOK
  <2>2. CASE ~ Start(u)
    BY <2>2 DEF prepSourceBinary, Create, GetVersion, Copy, Chmod, Kill, Fail
  <2> QED BY <2>1, <2>2
<1>2. /\ \A v, w \in Active : v = w
      /\ \E n \in Names : Runnable(n)
      /\ \A v \in Active : Kept(v)
  BY <1>1 DEF Undisturbed
<1>3. ~ Start(u) => u \in Active /\ Kept(u) /\ \A v \in Active : v = u
  <2>1. ~ Start(u) => u \in Active
    BY DEF prepSourceBinary, Create, GetVersion, Copy, Chmod, Kill, Active
  <2> QED BY <1>2, <2>1
\* It is enough to look at u and at one file that can be run.
<1>4. ASSUME \A v \in Updates \ {u} : up'[v] = up[v],
             \E n \in Names : Runnable(n)',
             u \in Active' => Kept(u)'
      PROVE  Undisturbed'
  <2>1. Active' \subseteq {u}
    BY <1>1, <1>3, <1>4 DEF Active
  <2> QED BY <1>4, <2>1 DEF Undisturbed
<1>5. CASE Fail(u) \/ Kill(u)
  <2>1. u \notin Active'
    BY <1>5, EndStep DEF Active
  <2>2. \A n \in Names : Runnable(n) => Runnable(n)'
    BY <1>5, EndStep DEF Runnable, Holds
  <2> QED BY <1>2, <1>4, <1>5, <2>1, <2>2, EndStep
<1>6. CASE Start(u)
  <2>1. \A n \in Names : Runnable(n) => Runnable(n)'
    BY <1>6, StartStep DEF Runnable, Holds
  <2>2. Kept(u)'
    BY <1>6, StartStep DEF Holds
  <2> QED BY <1>2, <1>4, <1>6, <2>1, <2>2, StartStep
<1>7. CASE prepSourceBinary(u) /\ ~ Fail(u)
  <2>1. ~ Start(u)
    BY <1>7, RenameStep DEF Start
  <2>2. from[u] \in Releases /\ Holds(up[u].exe, from[u])
    BY <1>3, <1>7, <2>1, RenameStep
  <2>3. Holds(up[u].exe + 1, from[u])'
    BY <1>7, <2>2, RenameStep DEF Holds
  <2>4. Kept(u)'
    BY <1>7, <2>2, <2>3, RenameStep
  <2>5. Runnable(up[u].exe + 1)'
    BY <1>7, <2>2, <2>3, RenameStep DEF Runnable
  <2> QED BY <1>0, <1>4, <1>7, <2>4, <2>5, RenameStep
<1>8. CASE Create(u) /\ ~ Fail(u)
  <2>1. up[u].pc = "create" /\ ~ Start(u)
    BY <1>8 DEF Create, Start
  <2>2. from[u] \in Releases /\ Holds(up[u].exe + 1, from[u]) /\ fs[up[u].exe] = 0
    BY <1>3, <2>1
  <2>3. fs'[up[u].exe + 1] = fs[up[u].exe + 1]
    BY <1>0, <1>8, <2>2, NewFileStep
  <2>4. nodes'[fs[up[u].exe + 1]] = nodes[fs[up[u].exe + 1]]
    BY <1>0, <1>8, <2>2, NewFileStep DEF Holds
  <2>5. Holds(up[u].exe + 1, from[u])'
    BY <1>8, <2>2, <2>3, <2>4, NewFileStep DEF Holds
  <2>6. Kept(u)'
    BY <1>8, <2>2, <2>5, NewFileStep
  <2>7. Runnable(up[u].exe + 1)'
    BY <1>8, <2>2, <2>5, NewFileStep DEF Runnable
  <2> QED BY <1>0, <1>4, <1>8, <2>2, <2>6, <2>7, NewFileStep
<1>9. CASE GetVersion(u) /\ ~ Fail(u)
  <2>1. up[u].pc = "get" /\ ~ Start(u)
    BY <1>9 DEF GetVersion, Start
  <2>2. Kept(u) /\ Holds(up[u].exe + 1, from[u])
    BY <1>3, <2>1
  <2>3. Kept(u)'
    BY <1>9, <2>1, <2>2, AnswerStep DEF Holds
  <2>4. \A n \in Names : Runnable(n) => Runnable(n)'
    BY <1>9, AnswerStep DEF Runnable, Holds
  <2> QED BY <1>2, <1>4, <1>9, <2>3, <2>4, AnswerStep
<1>10. CASE Copy(u) /\ ~ Fail(u)
  <2>1. up[u].pc = "copy" /\ ~ Start(u)
    BY <1>10 DEF Copy, Start
  <2>2. /\ from[u] \in Releases /\ Holds(up[u].exe + 1, from[u])
        /\ fs[up[u].exe] = up[u].fd
    BY <1>3, <2>1
  <2>3. fs[up[u].exe + 1] # up[u].fd /\ fs[up[u].exe + 1] \in DOMAIN nodes
    BY <1>0, <2>2 DEF FilesApart, Holds
  <2>7. nodes'[fs[up[u].exe + 1]] = nodes[fs[up[u].exe + 1]]
    BY <1>10, <2>3, WriteStep
  <2>4. Holds(up[u].exe + 1, from[u])'
    BY <1>10, <2>2, <2>7, WriteStep DEF Holds
  <2>5. Kept(u)'
    BY <1>10, <2>2, <2>4, WriteStep
  <2>6. Runnable(up[u].exe + 1)'
    BY <1>10, <2>2, <2>4, WriteStep DEF Runnable
  <2> QED BY <1>0, <1>4, <1>10, <2>5, <2>6, WriteStep
<1>11. CASE Chmod(u) /\ ~ Fail(u)
  <2>1. up[u].pc = "chmod" /\ ~ Start(u)
    BY <1>11 DEF Chmod, Start
  <2>2. from[u] \in Releases /\ Holds(up[u].exe + 1, from[u])
    BY <1>3, <2>1
  <2>3. fs[up[u].exe + 1] # fs[up[u].exe] /\ fs[up[u].exe + 1] \in DOMAIN nodes
    BY <1>0, <2>2 DEF FilesApart, Holds
  <2>7. nodes'[fs[up[u].exe + 1]] = nodes[fs[up[u].exe + 1]]
    BY <1>11, <2>3, ModeStep
  <2>4. Holds(up[u].exe + 1, from[u])'
    BY <1>11, <2>2, <2>7, ModeStep DEF Holds
  <2>5. u \notin Active'
    BY <1>11, ModeStep DEF Active
  <2>6. Runnable(up[u].exe + 1)'
    BY <1>11, <2>2, <2>4, ModeStep DEF Runnable
  <2> QED BY <1>0, <1>4, <1>11, <2>5, <2>6, ModeStep
<1> QED BY <1>5, <1>6, <1>7, <1>8, <1>9, <1>10, <1>11

\* As long as no update failed, the binary is there, whole and executable
\* or being made by one update that nobody else writes after.
LEMMA BinaryStep ==
  TypeOK /\ FilesApart /\ OneCreates /\ BinaryIsMade /\ Next => BinaryIsMade'
<1> SUFFICES ASSUME TypeOK, FilesApart, OneCreates, BinaryIsMade, NEW u \in Updates,
                    \/ Start(u) \/ prepSourceBinary(u) \/ Create(u) \/ GetVersion(u)
                    \/ Copy(u) \/ Chmod(u) \/ Kill(u),
                    NoneFailed'
             PROVE  BinaryIsMade'
  BY DEF Next, BinaryIsMade
<1>0. /\ nodes \in Seq(Content) /\ Len(nodes) \in Nat
      /\ \A n \in Names : fs[n] \in 0 .. Len(nodes)
      /\ \A v \in Updates : up[v].fd \in 0 .. Len(nodes)
      /\ 0 \in Names /\ up[u].exe \in Names /\ up[u].exe + 1 \in Names /\ up[u].exe + 1 # 0
      /\ fs[0] # 0 => fs[0] \in DOMAIN nodes
  <2>1. nodes \in Seq(Content) /\ fs \in [Names -> 0 .. Len(nodes)]
    BY DEF TypeOK
  <2>2. \A v \in Updates : up[v].fd \in 0 .. Len(nodes)
    BY DEF TypeOK
  <2> QED BY <2>1, <2>2, NamesOfUpdate
\* The update that moves has not ended, and no other one has failed.
<1>1. /\ up[u].pc \notin {"updated", "error", "killed"}
      /\ \A v \in Updates \ {u} : up'[v] = up[v]
      /\ ~ Fail(u) /\ ~ Kill(u)
  <2>1. ~ Fail(u) /\ ~ Kill(u)
    BY EndStep DEF NoneFailed
  <2>2. up[u].pc \notin {"updated", "error", "killed"}
    BY <2>1 DEF Start, prepSourceBinary, Create, GetVersion, Copy, Chmod
  <2>3. \A v \in Updates \ {u} : up'[v] = up[v]
    BY <2>1, StartStep, RenameStep, NewFileStep, CutFileStep, AnswerStep, WriteStep, ModeStep, Zenon
  <2> QED BY <2>1, <2>2, <2>3
<1>2. NoneFailed
  BY <1>1 DEF NoneFailed
<1>3. /\ fs[0] = 0 => \E v \in Updates : Renamed(v)
      /\ fs[0] # 0 => Untouched \/ \E v \in Updates : MadeBy(v)
  BY <1>2 DEF BinaryIsMade
<1>4. \A v \in Updates \ {u} : Renamed(v) => Renamed(v)'
  BY <1>1 DEF Renamed
\* An update that is not making the binary does not have it open, and as
\* long as it leaves the binary alone, nothing changes for it.
<1>5. fs[0] # 0 /\ ~ MadeBy(u) => up[u].fd # fs[0]
  BY <1>3 DEF Untouched, MadeBy
<1>6. ASSUME ~ Renamed(u), ~ MadeBy(u), fs'[0] = fs[0],
             fs[0] # 0 => up'[u].fd # fs[0] /\ nodes'[fs[0]] = nodes[fs[0]]
      PROVE  BinaryIsMade'
  <2>1. CASE fs[0] = 0
    BY <1>3, <1>4, <1>6, <2>1 DEF BinaryIsMade
  <2>2. CASE fs[0] # 0 /\ Untouched
    <3>1. \E v \in Releases : Holds(0, v)'
      BY <1>6, <2>2 DEF Untouched, Holds
    <3>2. Untouched'
      BY <1>1, <1>6, <2>2, <3>1 DEF Untouched
    <3> QED BY <1>6, <2>2, <3>2 DEF BinaryIsMade
  <2>3. CASE fs[0] # 0 /\ ~ Untouched
    <3>1. PICK w \in Updates : MadeBy(w)
      BY <1>3, <2>3
    <3>2. up'[w] = up[w] /\ w # u
      BY <1>1, <1>6, <3>1
    <3>3. MadeBy(w)'
      BY <1>1, <1>6, <2>3, <3>1, <3>2 DEF MadeBy
    <3> QED BY <1>6, <2>3, <3>3 DEF BinaryIsMade
  <2> QED BY <2>1, <2>2, <2>3
<1>7. up[u].pc \in {"idle", "rename", "create"} => ~ MadeBy(u)
  BY DEF MadeBy
<1>8. CASE Start(u)
  <2>1. up[u].pc = "idle" /\ up'[u].fd = up[u].fd /\ UNCHANGED <<fs, nodes>>
    BY <1>8, StartStep
  <2>2. ~ Renamed(u) /\ ~ MadeBy(u)
    BY <1>7, <2>1 DEF Renamed
  <2> QED BY <1>5, <1>6, <2>1, <2>2
<1>9. CASE prepSourceBinary(u)
  <2>1. ~ Renamed(u) /\ ~ MadeBy(u) /\ up'[u].fd = up[u].fd /\ nodes' = nodes
    BY <1>1, <1>7, <1>9, RenameStep DEF Renamed
  <2>2. CASE up[u].exe = 0
    <3>1. fs'[0] = 0 /\ Renamed(u)'
      BY <1>1, <1>9, <2>2, RenameStep DEF Renamed
    <3> QED BY <3>1 DEF BinaryIsMade
  <2>3. CASE up[u].exe # 0
    <3>1. fs'[0] = fs[0]
      BY <1>0, <1>1, <1>9, <2>3, RenameStep
    <3> QED BY <1>5, <1>6, <2>1, <3>1
  <2> QED BY <2>2, <2>3
<1>10. CASE Create(u) /\ fs[up[u].exe] = 0
  <2>1. /\ up[u].pc = "create" /\ up'[u].pc = "get" /\ up'[u].exe = up[u].exe
        /\ up'[u].fd = Len(nodes) + 1 /\ fs'[up[u].exe] = Len(nodes) + 1
        /\ \A j \in DOMAIN nodes : nodes'[j] = nodes[j]
        /\ \A n \in Names \ {up[u].exe} : fs'[n] = fs[n]
    BY <1>1, <1>10, NewFileStep
  <2>2. CASE up[u].exe = 0
    <3>1. \A v \in Updates \ {u} : up'[v].fd # fs'[0]
      BY <1>0, <1>1, <2>1, <2>2
    <3>2. MadeBy(u)'
      BY <2>1, <2>2, <3>1 DEF MadeBy
    <3> QED BY <1>0, <2>1, <2>2, <3>2 DEF BinaryIsMade
  <2>3. CASE up[u].exe # 0
    <3>1. ~ Renamed(u) /\ ~ MadeBy(u) /\ fs'[0] = fs[0]
      BY <1>0, <1>7, <2>1, <2>3 DEF Renamed
    <3>2. fs[0] # 0 => up'[u].fd # fs[0] /\ nodes'[fs[0]] = nodes[fs[0]]
      BY <1>0, <2>1
    <3> QED BY <1>6, <3>1, <3>2
  <2> QED BY <2>2, <2>3
<1>11. CASE Create(u) /\ fs[up[u].exe] # 0
  <2>1. /\ up[u].pc = "create" /\ up'[u].fd = fs[up[u].exe] /\ fs' = fs
        /\ \A j \in DOMAIN nodes \ {fs[up[u].exe]} : nodes'[j] = nodes[j]
    BY <1>1, <1>11, CutFileStep
  <2>2. ~ Renamed(u) /\ ~ MadeBy(u)
    BY <1>7, <1>11, <2>1 DEF OneCreates, Renamed
  <2>3. up[u].exe # 0
    BY <2>1, <2>2 DEF Renamed
  <2>4. fs[up[u].exe] # fs[0]
    BY <1>0, <1>11, <2>3 DEF FilesApart
  <2> QED BY <1>0, <1>6, <2>1, <2>2, <2>4
<1>12. CASE GetVersion(u)
  <2>1. /\ up[u].pc = "get" /\ UNCHANGED <<fs, nodes>>
        /\ up'[u].pc = "copy" /\ up'[u].at = 1
        /\ up'[u].exe = up[u].exe /\ up'[u].fd = up[u].fd
    BY <1>1, <1>12, AnswerStep
  <2>2. CASE MadeBy(u)
    <3>1. MadeBy(u)'
      BY <1>1, <2>1, <2>2 DEF MadeBy
    <3>2. fs[0] # 0
      BY <2>1, <2>2 DEF MadeBy, FilesApart
    <3> QED BY <2>1, <3>1, <3>2 DEF BinaryIsMade
  <2>3. CASE ~ MadeBy(u)
    BY <1>5, <1>6, <2>1, <2>3 DEF Renamed
  <2> QED BY <2>2, <2>3
<1>13. CASE Copy(u)
  <2>1. /\ up[u].pc = "copy" /\ up[u].at \in 1 .. 2 /\ up[u].fd \in DOMAIN nodes
        /\ \A j \in DOMAIN nodes \ {up[u].fd} : nodes'[j] = nodes[j]
        /\ nodes'[up[u].fd].data[up[u].at] = up[u].body
        /\ \A j \in 1 .. 2 \ {up[u].at} : nodes'[up[u].fd].data[j] = nodes[up[u].fd].data[j]
        /\ up'[u].at = up[u].at + 1
        /\ up'[u].pc = IF up[u].at = 2 THEN "chmod" ELSE "copy"
        /\ up'[u].exe = up[u].exe /\ up'[u].fd = up[u].fd /\ up'[u].body = up[u].body
        /\ fs' = fs
    BY <1>1, <1>13, WriteStep
  <2>2. CASE MadeBy(u)
    <3>1. up[u].fd = fs[0] /\ fs[0] # 0
      BY <2>1, <2>2 DEF MadeBy, FilesApart
    <3>2. CASE up[u].at = 1
      <4>1. nodes'[fs[0]].data[1] = up'[u].body
        BY <2>1, <3>1, <3>2
      <4> QED BY <1>1, <2>1, <2>2, <3>1, <3>2, <4>1 DEF MadeBy, BinaryIsMade
    <3>3. CASE up[u].at = 2
      <4>1. nodes'[fs[0]].data[1] = up[u].body /\ nodes'[fs[0]].data[2] = up[u].body
        BY <2>1, <2>2, <3>1, <3>3 DEF MadeBy
      <4>2. nodes' \in Seq(Content) /\ fs[0] \in DOMAIN nodes'
        <5>1. TypeOK'
          BY <1>13, TypeStep DEF Next
        <5>2. nodes' \in Seq(Content) /\ Len(nodes') = Len(nodes)
          BY <1>1, <1>13, <5>1, WriteStep DEF TypeOK
        <5> QED BY <2>1, <3>1, <5>2
      <4>3. nodes'[fs[0]].data \in Val \X Val
        <5>1. nodes'[fs[0]] \in Content
          BY <4>2
        <5> QED BY <5>1 DEF Content
      <4>4. nodes'[fs[0]].data = Data(up[u].body)
        BY <4>1, <4>3 DEF Data
      <4> QED BY <1>1, <2>1, <2>2, <3>1, <3>3, <4>4 DEF MadeBy, BinaryIsMade
    <3> QED BY <2>1, <3>2, <3>3
  <2>3. CASE ~ MadeBy(u)
    BY <1>0, <1>5, <1>6, <2>1, <2>3 DEF Renamed
  <2> QED BY <2>2, <2>3
<1>14. CASE Chmod(u)
  <2>1. /\ up[u].pc = "chmod" /\ fs[up[u].exe] \in DOMAIN nodes /\ fs' = fs
        /\ \A j \in DOMAIN nodes \ {fs[up[u].exe]} : nodes'[j] = nodes[j]
        /\ up'[u].pc = "updated" /\ up'[u].exe = up[u].exe
        /\ up'[u].fd = up[u].fd /\ up'[u].body = up[u].body
    BY <1>1, <1>14, ModeStep, Zenon
  <2>2. nodes'[fs[up[u].exe]] = [data |-> nodes[fs[up[u].exe]].data, exec |-> TRUE]
    BY <1>1, <1>14, ModeStep, Zenon
  <2>3. CASE up[u].exe # 0
    <3>1. fs[up[u].exe] # fs[0] /\ ~ MadeBy(u)
      BY <1>0, <2>1, <2>3 DEF FilesApart, MadeBy
    <3> QED BY <1>0, <1>5, <1>6, <2>1, <3>1 DEF Renamed
  <2>4. CASE up[u].exe = 0
    <3>1. nodes'[fs[0]].data = nodes[fs[0]].data /\ nodes'[fs[0]].exec
      BY <2>2, <2>4
    <3>2. fs[0] # 0
      BY <1>0, <2>1, <2>4
    <3>3. CASE Untouched
      <4>1. PICK v \in Releases : Holds(0, v)
        BY <3>3 DEF Untouched
      <4>2. Holds(0, v)'
        BY <2>1, <2>2, <2>4, <4>1 DEF Holds
      <4>3. Untouched'
        BY <1>1, <2>1, <3>3, <4>2 DEF Untouched
      <4> QED BY <2>1, <3>2, <4>3 DEF BinaryIsMade
    <3>4. CASE ~ Untouched
      <4>1. PICK w \in Updates : MadeBy(w)
        BY <1>3, <3>2, <3>4
      <4>2. MadeBy(w)'
        BY <1>1, <2>1, <3>1, <4>1 DEF MadeBy
      <4> QED BY <2>1, <3>2, <4>2 DEF BinaryIsMade
    <3> QED BY <3>3, <3>4
  <2> QED BY <2>3, <2>4
<1> QED BY <1>1, <1>8, <1>9, <1>10, <1>11, <1>12, <1>13, <1>14

(***************************************************************************)
(* The theorems.                                                           *)
(***************************************************************************)
\* The inductive invariant of the updates: whatever steps fail, in whatever
\* order updates overlap.
THEOREM SelfUpdateInvariant == UpdateAssumption /\ Spec => []IInv
<1>1. UpdateAssumption /\ Init => IInv
  BY InitInvariant
<1>2. IInv /\ [Next]_vars => IInv'
  <2>1. IInv /\ Next => IInv'
    BY TypeStep, FilesApartStep, UndisturbedStep, OneCreatesStep, BinaryStep DEF IInv
  <2>2. IInv /\ UNCHANGED vars => IInv'
    <3> SUFFICES ASSUME IInv, UNCHANGED vars PROVE IInv'
      OBVIOUS
    <3>1. TypeOK' /\ FilesApart'
      BY DEF IInv, vars, TypeOK, FilesApart
    <3>2. Undisturbed'
      BY DEF IInv, vars, Undisturbed, Active, Runnable, Holds
    <3>3. OneCreates' /\ BinaryIsMade'
      BY DEF IInv, vars, OneCreates, BinaryIsMade, Renamed, NoneFailed, Untouched, MadeBy, Holds
    <3> QED BY <3>1, <3>2, <3>3 DEF IInv
  <2> QED BY <2>1, <2>2
<1> QED BY <1>1, <1>2, PTL DEF Spec

\* The release an update was started from is kept until it ends, whatever
\* fails, unless another update overlaps it; overlapping updates that all
\* succeed leave a release in place of the binary.
THEOREM PreviousReleaseIsKept == UpdateAssumption /\ Spec => []PreviousIsKept
<1>1. IInv => PreviousIsKept
  <2> SUFFICES ASSUME IInv PROVE PreviousIsKept
    OBVIOUS
  <2>1. ASSUME alone = Updates
        PROVE  /\ \E n \in Names : Runnable(n)
               /\ \A u \in Active : Holds(up[u].exe, from[u]) \/ Holds(up[u].exe + 1, from[u])
    BY <2>1 DEF IInv, Undisturbed
  <2>2. ASSUME \A u \in Updates : \/ up[u].pc = "idle"
                                  \/ up[u].pc = "updated" /\ up[u].body \in Releases
        PROVE  \E n \in Names : Runnable(n)
    <3>1. NoneFailed /\ \A u \in Updates : ~ Renamed(u)
      BY <2>2 DEF NoneFailed, Renamed
    <3>2. fs[0] # 0 /\ (Untouched \/ \E u \in Updates : MadeBy(u))
      BY <3>1 DEF IInv, BinaryIsMade
    <3>3. 0 \in Names
      BY DEF IInv, TypeOK, UpdateAssumption, Names
    <3>4. CASE Untouched
      BY <3>3, <3>4 DEF Untouched, Runnable
    <3>5. ASSUME NEW u \in Updates, MadeBy(u)
          PROVE  Runnable(0)
      <4>1. up[u].pc = "updated" /\ up[u].body \in Releases
        BY <2>2, <3>5 DEF MadeBy
      <4>2. nodes[fs[0]].data = Data(up[u].body) /\ nodes[fs[0]].exec
        BY <3>5, <4>1 DEF MadeBy
      <4>3. nodes \in Seq(Content) /\ fs[0] \in DOMAIN nodes
        BY <3>2, <3>3 DEF IInv, TypeOK
      <4>4. nodes[fs[0]] \in Content
        BY <4>3
      <4>5. nodes[fs[0]] = [data |-> Data(up[u].body), exec |-> TRUE]
        BY <4>2, <4>4 DEF Content
      <4> QED BY <3>2, <4>1, <4>5 DEF Runnable, Holds
    <3> QED BY <3>2, <3>3, <3>4, <3>5
  <2> QED BY <2>1, <2>2 DEF PreviousIsKept
<1> QED BY <1>1, SelfUpdateInvariant, PTL
=============================================================================
