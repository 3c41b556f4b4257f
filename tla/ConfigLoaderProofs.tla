------------------------- MODULE ConfigLoaderProofs -------------------------
(***************************************************************************)
(* Proofs about ConfigLoader, for all documents, imports, directories, ssh *)
(* environments and repositories, any number of loaders and of failures.   *)
(***************************************************************************)
EXTENDS ConfigLoader, TLAPS, WellFoundedInduction

(***************************************************************************)
(* The inductive invariant, by parts.  What is said of one loader is an    *)
(* operator of the world, of the file that is loaded and of the loader's   *)
(* record, and of nothing else.                                            *)
(***************************************************************************)
Text(w) == Seq(Lines(w) \cup {Garbage})

\* The imports that the documents of a world ask for.
EntriesOf(w) == {l.entry : l \in {l \in Lines(w) : l.line = "import"}}

\* The control points of a loader between its first look at a document and its last.
Loading == {"load", "fetch", "store", "copy", "use", "dest", "write"}

\* A loader that has no more to do and no result.
Over == {"error", "killed", "off"}

\* The fields of a loader's record.
Fields == {"pc", "want", "via", "body", "at", "stack", "visited", "part", "dst", "read"}

\* What a loader's record is.
Shape(w, l) ==
  /\ l = [f \in Fields |-> l[f]]
  /\ l.pc \in Loading \cup Over \cup {"start", "imports", "build", "ok"}
  /\ l.want \in EntriesOf(w) \cup {Plain(s) : s \in DOMAIN w.kind \cup {Empty}}
  /\ l.body \in Text(w)
  /\ l.at \in Nat
  /\ l.part \in Parts
  /\ l.read = [part \in Parts |-> l.read[part]]
  /\ \A part \in Parts : \A s \in DOMAIN l.read[part] : l.read[part][s] \in Text(w)
  /\ l.stack \in Seq(Range(l.stack))

\* What the control point says of the import that is loaded.
Knows(w, l) ==
  LET src == l.want.src IN
  /\ l.pc \in Loading => src \in DOMAIN w.kind \ DOMAIN w.lists
  /\ l.pc \in {"fetch", "store", "copy", "use"} => w.kind[src] \in {"url", "git"}
  /\ l.pc \in {"dest", "write"} /\ l.via = "cache" => w.kind[src] \in {"url", "git"}
  /\ l.pc \in {"store", "copy"} => src \in DOMAIN w.docs /\ l.body \in Range(w.docs[src])
  /\ l.pc = "store" /\ w.kind[src] = "git" =>
       LET c == CommitOf(w.ssh, w.git[src]) IN c # 0 /\ l.body = w.docs[src][c]
  /\ l.pc \in {"dest", "write"} =>
       /\ l.want.dest # Empty
       /\ l.want.hash # Empty => l.want.hash \in DOMAIN w.hashes /\ l.body = w.hashes[l.want.hash]
  /\ l.pc = "write" => l.want.dest \in w.dests
  /\ l.pc \in {"copy", "write"} => l.at <= Len(l.body)

\* Where a definition of a frame, or of a part, is from.
Origin(w, read, root, n, d) ==
  IF d.source = Empty THEN n \in Defines(read, root)
  ELSE /\ d.source \in ImportedBy(w.lists, read, root)
       /\ \E s \in Closure(w.lists, read, {d.source}) : n \in Defines(read, s)

(***************************************************************************)
(* The definitions base that were collected for root are those of docs,    *)
(* once each, and each comes through an import of root.                    *)
(***************************************************************************)
Collected(w, read, part, root, docs, base) ==
  /\ DOMAIN base = Merged(read, docs, root)
  /\ Once(read, docs)
  /\ \A n \in DOMAIN base :
       /\ base[n] = [needs |-> base[n].needs, source |-> base[n].source, part |-> part]
       /\ Origin(w, read, root, n, base[n])

\* A document half resolved: what it has collected is what the documents below it define.
FrameOK(w, l, f) ==
  LET read == l.read[l.part] IN
  /\ f = [src |-> f.src, base |-> f.base, todo |-> f.todo, docs |-> f.docs]
  /\ IF f.src \in DOMAIN w.lists THEN f.todo \subseteq DOMAIN w.lists[f.src]
     ELSE f.src \in f.docs /\ f.todo \subseteq Imports(read[f.src])
  /\ f.src \in DOMAIN w.kind
  /\ f.docs \subseteq DOMAIN read
  /\ f.docs \subseteq Closure(w.lists, read, {f.src})
  /\ Collected(w, read, l.part, f.src, f.docs, f.base)

\* The import a frame has at one place, a line of a document or a file of a directory.
ItemOf(w, l, f, i) ==
  IF f.src \in DOMAIN w.lists THEN Plain(w.lists[f.src][i]) ELSE l.read[l.part][f.src][i].entry

\* A frame of s has still to take an import of src.
ToTake(w, l, s, src) ==
  \E k \in DOMAIN l.stack : l.stack[k].src = s /\ \E i \in l.stack[k].todo : ItemOf(w, l, l.stack[k], i).src = src

\* An import of s is visited, or s has still to take it, or it is a directory whose files are.
Covered(w, l, s, src) ==
  \/ src \in l.visited
  \/ ToTake(w, l, s, src)
  \/ src \in DOMAIN w.lists /\ \A y \in Range(w.lists[src]) : y \in l.visited \/ ToTake(w, l, src, y)

\* What the global file has left behind, once it is done with.
GlobalDone(w, l) ==
  LET read == l.read["global"]
      top  == {w.global} \ {Empty}
  IN  /\ Collected(w, read, "global", w.global, DOMAIN read, l.dst)
      /\ Closure(w.lists, read, top) \ DOMAIN w.lists = DOMAIN read

\* The file at the bottom of the stack.
RootOf(w, root, l) == IF l.part = "global" THEN w.global ELSE root

\* The stack of a loader that is at work.
Walk(w, root, l) ==
  LET read  == l.read[l.part]
      stack == l.stack
      here  == RootOf(w, root, l)
      src   == l.want.src
  IN  /\ \A k \in DOMAIN stack : FrameOK(w, l, stack[k])
      /\ \A k \in DOMAIN stack :
           IF k = 1 THEN stack[k].src = here
           ELSE stack[k].src \in ImportedBy(w.lists, read, stack[k - 1].src)
      /\ DOMAIN read = UNION {stack[k].docs : k \in DOMAIN stack}
      /\ \A s \in DOMAIN read : \A x \in ImportedBy(w.lists, read, s) : Covered(w, l, s, x)
      /\ l.pc \in Loading =>
           /\ src \notin DOMAIN read
           /\ IF stack = <<>> THEN src = here
              ELSE src \in ImportedBy(w.lists, read, stack[Len(stack)].src)
           /\ src \in DOMAIN l.read["global"] => src = root
      /\ l.pc \in {"imports", "build"} => stack # <<>>
      /\ l.pc = "build" => Len(stack) = 1 /\ stack[1].todo = {}

\* The visited sources are those read, and the one that is being loaded.
Visits(w, root, l) ==
  /\ l.visited = DOMAIN l.read["global"] \cup DOMAIN l.read["local"] \cup
                 (IF l.pc \in Loading THEN {l.want.src} ELSE {})
  /\ \A part \in Parts : DOMAIN l.read[part] \subseteq DOMAIN w.kind \ DOMAIN w.lists
  /\ DOMAIN l.read["global"] \cap DOMAIN l.read["local"] \subseteq {root}
  /\ l.part = "global" => DOMAIN l.read["local"] = {} /\ DOMAIN l.dst = {}
  /\ l.pc = "start" => l.stack = <<>> /\ DOMAIN l.read[l.part] = {}

\* What LoadedIsClosure says of one loader.
Loaded(w, root, l) ==
  LET gread  == l.read["global"]
      lread  == l.read["local"]
      gdocs  == Closure(w.lists, gread, {w.global} \ {Empty})
      ldocs  == (Closure(w.lists, lread, {root}) \ gdocs) \cup {root}
      global == Merged(gread, gdocs, w.global)
      local  == Merged(lread, ldocs, root)
  IN  /\ l.visited = DOMAIN gread \cup DOMAIN lread
      /\ gdocs \ DOMAIN w.lists = DOMAIN gread
      /\ ldocs \ DOMAIN w.lists = DOMAIN lread
      /\ DOMAIN l.dst = global \cup local
      /\ Once(gread, gdocs) /\ Once(lread, ldocs)
      /\ \A n \in DOMAIN l.dst :
           /\ l.dst[n].part = "global" <=> n \in global
           /\ Origin(w, l.read[l.dst[n].part], IF l.dst[n].part = "global" THEN w.global ELSE root, n, l.dst[n])

\* All that is said of one loader.
LoaderOK(w, root, l) ==
  /\ Shape(w, l)
  /\ Knows(w, l)
  /\ l.pc \in Loading \cup {"start", "imports", "build"} =>
       /\ Visits(w, root, l)
       /\ l.part = "local" => GlobalDone(w, l)
       /\ l.pc # "start" => Walk(w, root, l)
  /\ l.pc = "ok" => Loaded(w, root, l)

\* The imports that one loader has met.
ReadBy(l) == UNION {UNION {Entries(l.read[part][s]) : s \in DOMAIN l.read[part]} : part \in Parts}

\* The files it may load without being asked to by a document.
Given(w, root) == {w.global, root} \cup UNION {Range(w.lists[d]) : d \in DOMAIN w.lists}

\* All that one loader may have been asked to load.
AskedBy(w, root, l) == ReadBy(l) \cup {Plain(s) : s \in Given(w, root)}

\* A body as far as it is written.
Prefix(body, at) == [i \in 1 .. at |-> body[i]]

\* The types of the variables, and that a file being written exists.
TypeInv ==
  /\ world \in Worlds
  /\ proc = [p \in Processes |-> proc[p]]
  /\ version = [s \in DOMAIN world.docs |-> version[s]]
  /\ \A s \in DOMAIN world.docs : version[s] \in DOMAIN world.docs[s]
  /\ commit = [g \in DOMAIN world.git |-> CommitOf(world.ssh, world.git[g])]
  /\ cache = [s \in {s \in DOMAIN world.kind : Remote(s)} |-> cache[s]]
  /\ \A s \in DOMAIN cache : cache[s] \in Text(world) \cup {None}
  /\ disk = [d \in world.dests |-> disk[d]]
  /\ \A d \in DOMAIN disk : disk[d] \in Text(world) \cup {None}
  /\ \A p \in Processes : /\ proc[p].pc = "copy" => cache[proc[p].want.src] # None
                          /\ proc[p].pc = "write" => disk[proc[p].want.dest] # None

\* Every loader is in order.
LoadersOK == \A p \in Processes : LoaderOK(world, ResolveDefaultConfigFile, proc[p])

\* A cache file of which the history says nothing bad.
CacheOK ==
  \A src \in DOMAIN cache \ spoiled :
    /\ \A p, q \in Processes : Writing(p, src) /\ Writing(q, src) => p = q
    /\ \A p \in Processes : Writing(p, src) => cache[src] = Prefix(proc[p].body, proc[p].at)
    /\ (\A p \in Processes : ~Writing(p, src)) => cache[src] \in {None} \cup Versions(src)

\* All imports that write to the Dest of this one have its hash.
Sole(w, e) == e.hash # Empty /\ \A o \in EntriesOf(w) : o.dest = e.dest => o.hash = e.hash

\* A Dest of which the history says nothing bad.
DiskOK ==
  \A dest \in world.dests \ torn :
    /\ \A p, q \in Processes : WritingTo(p, dest) /\ WritingTo(q, dest) => p = q
    /\ \A p \in Processes : WritingTo(p, dest) => disk[dest] = Prefix(proc[p].body, proc[p].at)
    /\ (\A p \in Processes : ~WritingTo(p, dest)) =>
         \/ disk[dest] = None
         \/ \A e \in EntriesOf(world) : e.dest = dest /\ Sole(world, e) => disk[dest] = world.hashes[e.hash]

\* What an import that is done with has left.
Done(e) == e.dest # Empty => e.dest \in world.dests /\ disk[e.dest] # None

\* A visited source is one that was asked for, and its Dest, if it has one, is written.
VisitsMet ==
  \A p \in Processes : proc[p].pc \notin Over =>
    \A x \in proc[p].visited :
      \E e \in AskedBy(world, ResolveDefaultConfigFile, proc[p]) :
        e.src = x /\ (Done(e) \/ (proc[p].pc \in Loading /\ proc[p].want = e))

\* The inductive invariant.
IInv == TypeInv /\ LoadersOK /\ CacheOK /\ DiskOK /\ VisitsMet
-----------------------------------------------------------------------------
(***************************************************************************)
(* Facts about the operators.                                              *)
(***************************************************************************)
\* A set of numbers that has one has a first one.
LEMMA FirstIs ==
  ASSUME NEW S \in SUBSET Nat, S # {}
  PROVE  First(S) \in S
<1>1. IsWellFoundedOn(OpToRel(<, Nat), Nat)
  BY Zenon, NatLessThanWellFounded
<1>2. PICK x \in S : \A y \in S : ~ (<<y, x>> \in OpToRel(<, Nat))
  <2>1. S \subseteq Nat
    OBVIOUS
  <2> QED BY Zenon, <1>1, <2>1, WFMin
<1>3. \A y \in S : ~ (y < x)
  BY <1>2 DEF OpToRel
<1>4. \A y \in S : x <= y
  BY <1>3
<1> QED BY <1>4 DEF First

\* What a closure is of is in it.
LEMMA ClosureHas ==
  ASSUME NEW lists, NEW read, NEW srcs
  PROVE  srcs \subseteq Closure(lists, read, srcs)
BY DEF Closure

\* A closure is closed.
LEMMA ClosureClosed ==
  ASSUME NEW lists, NEW read, NEW srcs
  PROVE  Closed(lists, read, Closure(lists, read, srcs))
<1> DEFINE all == srcs \cup UNION {ImportedBy(lists, read, s) : s \in DOMAIN read \cup DOMAIN lists}
           closed == {S \in SUBSET all : srcs \subseteq S /\ Closed(lists, read, S)}
           cl == {x \in all : \A S \in closed : x \in S}
<1>1. SUFFICES ASSUME NEW s \in cl, NEW x \in ImportedBy(lists, read, s)
               PROVE  x \in cl
  BY DEF Closure, Closed
<1>2. x \in all
  BY DEF ImportedBy
<1>3. ASSUME NEW S \in closed PROVE x \in S
  BY DEF Closed
<1> QED BY <1>2, <1>3

\* It is the least closed set that has what it is of.
LEMMA ClosureLeast ==
  ASSUME NEW lists, NEW read, NEW srcs, NEW S, srcs \subseteq S, Closed(lists, read, S)
  PROVE  Closure(lists, read, srcs) \subseteq S
<1> DEFINE all == srcs \cup UNION {ImportedBy(lists, read, s) : s \in DOMAIN read \cup DOMAIN lists}
           closed == {T \in SUBSET all : srcs \subseteq T /\ Closed(lists, read, T)}
           T == S \cap all
<1>1. T \in SUBSET all /\ srcs \subseteq T
  OBVIOUS
<1>2. ASSUME NEW s \in T, NEW x \in ImportedBy(lists, read, s) PROVE x \in T
  <2>1. x \in S
    BY DEF Closed
  <2>2. s \in DOMAIN read \cup DOMAIN lists
    BY DEF ImportedBy
  <2> QED BY <2>1, <2>2
<1>3. T \in closed
  BY <1>1, <1>2 DEF Closed
<1>4. ASSUME NEW x \in Closure(lists, read, srcs) PROVE x \in T
  BY <1>3 DEF Closure
<1> QED BY <1>4

\* What is reached from a part of what is reached is reached.
LEMMA ClosureWithin ==
  ASSUME NEW lists, NEW read, NEW srcs, NEW more, more \subseteq Closure(lists, read, srcs)
  PROVE  Closure(lists, read, more) \subseteq Closure(lists, read, srcs)
BY ClosureClosed, ClosureLeast

\* Imports are reached.
LEMMA ClosureStep ==
  ASSUME NEW lists, NEW read, NEW s, NEW x \in ImportedBy(lists, read, s)
  PROVE  Closure(lists, read, {x}) \subseteq Closure(lists, read, {s})
<1>1. s \in Closure(lists, read, {s})
  BY ClosureHas
<1>2. x \in Closure(lists, read, {s})
  BY <1>1, ClosureClosed DEF Closed
<1> QED BY <1>2, ClosureWithin

\* More documents reach more.
LEMMA ClosureGrows ==
  ASSUME NEW lists, NEW read, NEW more, NEW srcs,
         \A s : ImportedBy(lists, read, s) \subseteq ImportedBy(lists, more, s)
  PROVE  Closure(lists, read, srcs) \subseteq Closure(lists, more, srcs)
<1>1. Closed(lists, read, Closure(lists, more, srcs))
  BY ClosureClosed DEF Closed
<1> QED BY <1>1, ClosureHas, ClosureLeast

-----------------------------------------------------------------------------
(***************************************************************************)
(* The stack.                                                              *)
(***************************************************************************)
\* A stack is a sequence of what is on it.
LEMMA StackIs ==
  ASSUME NEW s, s \in Seq(Range(s))
  PROVE  Len(s) \in Nat /\ DOMAIN s = 1 .. Len(s) /\ s = [k \in 1 .. Len(s) |-> s[k]]
OBVIOUS

\* What is a sequence of anything is one of its own elements.
LEMMA OwnRange ==
  ASSUME NEW S, NEW s \in Seq(S)
  PROVE  s \in Seq(Range(s))
<1>1. \A k \in 1 .. Len(s) : s[k] \in Range(s)
  BY DEF Range
<1> QED BY <1>1

\* A frame is put on the stack.
LEMMA PushIs ==
  ASSUME NEW s, s \in Seq(Range(s)), NEW f
  PROVE  LET t == Append(s, f) IN
         /\ t \in Seq(Range(t))
         /\ Len(t) = Len(s) + 1
         /\ DOMAIN t = 1 .. Len(s) + 1
         /\ t # <<>>
         /\ t[Len(s) + 1] = f
         /\ \A k \in 1 .. Len(s) : t[k] = s[k]
<1> DEFINE t == Append(s, f)
<1>1. s \in Seq(Range(s) \cup {f})
  OBVIOUS
<1>2. t \in Seq(Range(s) \cup {f})
  BY <1>1
<1>3. t \in Seq(Range(t))
  BY <1>2, OwnRange
<1>4. Len(t) = Len(s) + 1 /\ t[Len(s) + 1] = f /\ \A k \in 1 .. Len(s) : t[k] = s[k]
  BY <1>1
<1>5. DOMAIN t = 1 .. Len(s) + 1 /\ t # <<>>
  BY <1>2, <1>4
<1> QED BY <1>3, <1>4, <1>5

\* The frame on top changes.
LEMMA SetTopIs ==
  ASSUME NEW s, s \in Seq(Range(s)), s # <<>>, NEW f
  PROVE  LET t == [s EXCEPT ![Len(s)] = f] IN
         /\ t \in Seq(Range(t))
         /\ Len(t) = Len(s)
         /\ DOMAIN t = DOMAIN s
         /\ t # <<>>
         /\ t[Len(s)] = f
         /\ \A k \in 1 .. Len(s) : k # Len(s) => t[k] = s[k]
<1> DEFINE t == [s EXCEPT ![Len(s)] = f]
<1>1. s \in Seq(Range(s) \cup {f})
  OBVIOUS
<1>2. t \in Seq(Range(s) \cup {f}) /\ Len(t) = Len(s) /\ DOMAIN t = DOMAIN s
  BY <1>1
<1>3. t \in Seq(Range(t))
  BY Zenon, <1>2, OwnRange
<1>4. Len(s) \in DOMAIN s
  BY <1>1
<1>5. t[Len(s)] = f /\ \A k \in 1 .. Len(s) : k # Len(s) => t[k] = s[k]
  BY <1>4
<1>6. t # <<>>
  BY <1>2, <1>4
<1> QED BY <1>2, <1>3, <1>5, <1>6

\* The frame on top is taken away and the one below it changes.
LEMMA PopIs ==
  ASSUME NEW s, s \in Seq(Range(s)), Len(s) - 1 # 0, s # <<>>, NEW f
  PROVE  LET t == [SubSeq(s, 1, Len(s) - 1) EXCEPT ![Len(s) - 1] = f] IN
         /\ t \in Seq(Range(t))
         /\ Len(t) = Len(s) - 1
         /\ DOMAIN t = 1 .. Len(s) - 1
         /\ t # <<>>
         /\ t[Len(s) - 1] = f
         /\ \A k \in 1 .. Len(s) - 1 : k # Len(s) - 1 => t[k] = s[k]
<1> DEFINE n == Len(s) - 1
           u == SubSeq(s, 1, n)
<1>1. Len(s) \in Nat /\ n \in Nat \ {0} /\ n \in 1 .. n
  <2>1. Len(s) \in Nat
    OBVIOUS
  <2>2. Len(s) # 0
    OBVIOUS
  <2> QED BY <2>1, <2>2
<1>2. u \in Seq(Range(s)) /\ Len(u) = n /\ \A k \in 1 .. n : u[k] = s[k]
  BY <1>1
<1>3. u \in Seq(Range(u)) /\ u # <<>>
  BY <1>1, <1>2, OwnRange
<1> HIDE DEF u
<1>4. LET t == [u EXCEPT ![Len(u)] = f] IN
      /\ t \in Seq(Range(t))
      /\ Len(t) = Len(u)
      /\ DOMAIN t = DOMAIN u
      /\ t # <<>>
      /\ t[Len(u)] = f
      /\ \A k \in 1 .. Len(u) : k # Len(u) => t[k] = u[k]
  BY <1>3, SetTopIs
<1>5. DOMAIN u = 1 .. n
  BY <1>2, <1>3
<1> QED BY Zenon, <1>1, <1>2, <1>4, <1>5 DEF u

-----------------------------------------------------------------------------
(***************************************************************************)
(* Documents.                                                              *)
(***************************************************************************)
\* What is used of a world.
LEMMA WorldIs ==
  ASSUME NEW w, IsWorld(w)
  PROVE  /\ Empty \notin DOMAIN w.kind
         /\ DOMAIN w.lists \subseteq DOMAIN w.kind
         /\ \A d \in DOMAIN w.lists : /\ w.kind[d] = "dir"
                                      /\ Range(w.lists[d]) \subseteq DOMAIN w.kind \ DOMAIN w.lists
                                      /\ DOMAIN w.lists[d] \subseteq Nat
         /\ DOMAIN w.docs \subseteq DOMAIN w.kind \ DOMAIN w.lists
         /\ \A s \in DOMAIN w.kind : s \in DOMAIN w.lists <=> w.kind[s] = "dir"
<1> DEFINE files == {s \in DOMAIN w.kind : w.kind[s] = "file"}
<1>1. /\ Empty \notin DOMAIN w.kind
      /\ DOMAIN w.lists = {s \in DOMAIN w.kind : w.kind[s] = "dir"}
      /\ \A d \in DOMAIN w.lists : w.lists[d] \in Seq(files)
      /\ DOMAIN w.docs \subseteq DOMAIN w.kind \ DOMAIN w.lists
  BY DEF IsWorld
<1>2. ASSUME NEW d \in DOMAIN w.lists
      PROVE  Range(w.lists[d]) \subseteq files /\ DOMAIN w.lists[d] \subseteq Nat
  <2>1. w.lists[d] \in Seq(files)
    BY <1>1
  <2> HIDE DEF files
  <2> QED BY <2>1 DEF Range
<1> QED BY <1>1, <1>2

\* The imports of what is read are imports of the world's documents.
LEMMA EntryIs ==
  ASSUME NEW w, IsWorld(w), NEW doc \in Text(w), NEW i \in Imports(doc)
  PROVE  /\ doc[i].entry \in EntriesOf(w)
         /\ doc[i].entry.src \in DOMAIN w.kind
         /\ i \in Nat
<1>1. i \in DOMAIN doc /\ doc[i].line = "import"
  BY DEF Imports
<1>2. i \in Nat /\ doc[i] \in Lines(w) \cup {Garbage}
  BY <1>1 DEF Text
<1>3. doc[i] # Garbage
  BY <1>1 DEF Garbage
<1>4. doc[i] \in Lines(w) /\ IsLine(w, doc[i])
  BY <1>2, <1>3 DEF IsWorld
<1> QED BY <1>1, <1>2, <1>3, <1>4 DEF EntriesOf, IsLine

\* One more document, or the same ones.
Extends(read, more) == \A s \in DOMAIN read : s \in DOMAIN more /\ more[s] = read[s]

\* What is known of the documents read stays.
LEMMA ReadKept ==
  ASSUME NEW lists, NEW read, NEW more, Extends(read, more)
  PROVE  /\ \A s : ImportedBy(lists, read, s) \subseteq ImportedBy(lists, more, s)
         /\ \A s \in DOMAIN read \cup DOMAIN lists : ImportedBy(lists, read, s) = ImportedBy(lists, more, s)
         /\ \A s \in DOMAIN read : Defines(read, s) = Defines(more, s)
         /\ \A srcs : Closure(lists, read, srcs) \subseteq Closure(lists, more, srcs)
<1>1. \A s : ImportedBy(lists, read, s) \subseteq ImportedBy(lists, more, s)
  BY DEF Extends, ImportedBy
<1>2. \A s \in DOMAIN read \cup DOMAIN lists : ImportedBy(lists, read, s) = ImportedBy(lists, more, s)
  BY DEF Extends, ImportedBy
<1>3. \A s \in DOMAIN read : Defines(read, s) = Defines(more, s)
  BY DEF Extends, Defines
<1>4. \A srcs : Closure(lists, read, srcs) \subseteq Closure(lists, more, srcs)
  BY <1>1, ClosureGrows
<1> QED BY <1>1, <1>2, <1>3, <1>4

\* Where a definition comes from does not change when more is read.
LEMMA OriginKept ==
  ASSUME NEW w, NEW read, NEW more, Extends(read, more),
         NEW root, root \in DOMAIN read \/ (root \in DOMAIN w.lists /\ root \notin DOMAIN more),
         NEW n, NEW d, Origin(w, read, root, n, d)
  PROVE  Origin(w, more, root, n, d)
<1>1. CASE d.source = Empty
  BY <1>1, ReadKept DEF Origin, Defines
<1>2. CASE d.source # Empty
  <2>1. d.source \in ImportedBy(w.lists, more, root)
    BY <1>2, ReadKept DEF Origin
  <2>2. PICK s \in Closure(w.lists, read, {d.source}) : n \in Defines(read, s)
    BY <1>2 DEF Origin
  <2>3. s \in Closure(w.lists, more, {d.source}) /\ n \in Defines(more, s)
    BY <2>2, ReadKept DEF Defines
  <2> QED BY <1>2, <2>1, <2>3 DEF Origin
<1> QED BY <1>1, <1>2

\* Nor does what a frame has collected.
LEMMA CollectedKept ==
  ASSUME NEW w, NEW read, NEW more, Extends(read, more), NEW part, NEW base,
         NEW root, root \in DOMAIN read \/ (root \in DOMAIN w.lists /\ root \notin DOMAIN more),
         NEW docs, docs \subseteq DOMAIN read,
         Collected(w, read, part, root, docs, base)
  PROVE  Collected(w, more, part, root, docs, base)
<1>1. \A s \in docs : Defines(read, s) = Defines(more, s)
  BY ReadKept
<1>2. Defines(read, root) = Defines(more, root)
  BY ReadKept DEF Defines, Extends
<1>3. Merged(read, docs, root) = Merged(more, docs, root)
  BY <1>1, <1>2 DEF Merged
<1>4. Once(more, docs)
  BY <1>1 DEF Once, Collected
<1>5. \A n \in DOMAIN base : Origin(w, more, root, n, base[n])
  BY OriginKept DEF Collected
<1> QED BY <1>3, <1>4, <1>5 DEF Collected

\* Nor does the frame.
LEMMA FrameKept ==
  ASSUME NEW w, NEW l, NEW l2, l2.part = l.part, Extends(l.read[l.part], l2.read[l.part]),
         DOMAIN l2.read[l.part] \cap DOMAIN w.lists = {},
         NEW f, FrameOK(w, l, f)
  PROVE  FrameOK(w, l2, f)
<1> DEFINE read == l.read[l.part]
           more == l2.read[l.part]
<1>1. f.docs \subseteq DOMAIN read /\ f.docs \subseteq DOMAIN more
  BY DEF FrameOK, Extends
<1>2. f.src \in DOMAIN read \/ (f.src \in DOMAIN w.lists /\ f.src \notin DOMAIN more)
  BY <1>1 DEF FrameOK
<1>3. Collected(w, more, l.part, f.src, f.docs, f.base)
  BY <1>1, <1>2, CollectedKept DEF FrameOK
<1>4. f.docs \subseteq Closure(w.lists, more, {f.src})
  <2>1. Closure(w.lists, read, {f.src}) \subseteq Closure(w.lists, more, {f.src})
    BY ReadKept
  <2> QED BY <2>1 DEF FrameOK
<1>5. f.src \notin DOMAIN w.lists => read[f.src] = more[f.src]
  BY <1>2 DEF Extends
<1> QED BY <1>1, <1>3, <1>4, <1>5 DEF FrameOK

-----------------------------------------------------------------------------
(***************************************************************************)
(* One loader: each thing it does keeps what is known of it.               *)
(***************************************************************************)
\* A document is read and its imports are next (Enter, loader.go:240).
LEMMA EnterOK ==
  ASSUME IsWorld(world), NEW root, NEW p, LoaderOK(world, root, proc[p]),
         proc[p].pc \in Loading, NEW doc \in Text(world)
  PROVE  LoaderOK(world, root, Enter(p, doc))
<1> DEFINE w     == world
           l     == proc[p]
           x     == l.want.src
           read  == l.read[l.part]
           base  == [n \in Names(doc) |-> [needs |-> DefOf(doc, n).needs, source |-> Empty, part |-> l.part]]
           frame == [src |-> x, base |-> base, todo |-> Imports(doc), docs |-> {x}]
           m     == Enter(p, doc)
           more  == m.read[l.part]
           N     == Len(l.stack)
<1>1. Shape(w, l) /\ Knows(w, l) /\ Visits(w, root, l) /\ Walk(w, root, l)
      /\ (l.part = "local" => GlobalDone(w, l))
  BY DEF LoaderOK, Loading
<1>2. /\ m.pc = "imports" /\ m.want = l.want /\ m.via = l.via /\ m.body = l.body /\ m.at = l.at
      /\ m.stack = Append(l.stack, frame)
      /\ m.visited = l.visited /\ m.part = l.part /\ m.dst = l.dst
      /\ m.read = [l.read EXCEPT ![l.part] = WithRead(l.read[l.part], x, doc)]
      /\ m = [f \in Fields |-> m[f]]
  <2>1. l = [f \in Fields |-> l[f]]
    BY <1>1 DEF Shape
  <2>2. m = [l EXCEPT !.pc = "imports", !.stack = Append(l.stack, frame),
                      !.read = [l.read EXCEPT ![l.part] = WithRead(l.read[l.part], x, doc)]]
    BY DEF Enter
  <2> HIDE DEF frame, m, l, x
  <2> QED BY <2>1, <2>2 DEF Fields
<1> HIDE DEF frame, m
<1>3. /\ m.read = [part \in Parts |-> m.read[part]]
      /\ \A part \in Parts : part # l.part => m.read[part] = l.read[part]
      /\ more = WithRead(read, x, doc)
      /\ l.part \in Parts
  BY Zenon, <1>1, <1>2 DEF Shape
<1>4. /\ DOMAIN more = DOMAIN read \cup {x}
      /\ more[x] = doc
      /\ x \notin DOMAIN read
      /\ Extends(read, more)
      /\ x \in DOMAIN w.kind \ DOMAIN w.lists
  <2>1. x \notin DOMAIN read
    BY <1>1 DEF Walk
  <2>2. x \in DOMAIN w.kind \ DOMAIN w.lists
    BY <1>1 DEF Knows
  <2> QED BY <1>3, <2>1, <2>2 DEF WithRead, Extends
<1> HIDE DEF more
<1>5. DOMAIN more \cap DOMAIN w.lists = {}
  BY <1>1, <1>3, <1>4 DEF Visits
<1>6. /\ m.stack \in Seq(Range(m.stack))
      /\ Len(m.stack) = N + 1
      /\ DOMAIN m.stack = 1 .. N + 1
      /\ m.stack # <<>>
      /\ m.stack[N + 1] = frame
      /\ \A k \in 1 .. N : m.stack[k] = l.stack[k]
      /\ DOMAIN l.stack = 1 .. N /\ N \in Nat
  <2>1. l.stack \in Seq(Range(l.stack))
    BY <1>1 DEF Shape
  <2> HIDE DEF l
  <2>2. DOMAIN l.stack = 1 .. N /\ N \in Nat
    BY <2>1, StackIs
  <2> DEFINE t == Append(l.stack, frame)
  <2>3. /\ t \in Seq(Range(t)) /\ Len(t) = N + 1 /\ DOMAIN t = 1 .. N + 1 /\ t # <<>> /\ t[N + 1] = frame
        /\ \A k \in 1 .. N : t[k] = l.stack[k]
    BY <2>1, PushIs
  <2> QED BY <1>2, <2>2, <2>3
<1>7. Shape(w, m)
  <2>1. m.pc \in Loading \cup Over \cup {"start", "imports", "build", "ok"}
    BY <1>2
  <2>2. \A part \in Parts : \A s \in DOMAIN m.read[part] : m.read[part][s] \in Text(w)
    <3>1. \A s \in DOMAIN more : more[s] \in Text(w)
      BY ZenonT(30), <1>1, <1>3, <1>4 DEF Shape, Extends
    <3> QED BY Zenon, <1>1, <1>3, <3>1 DEF Shape, more
  <2> QED BY Zenon, <1>1, <1>2, <1>3, <1>6, <2>1, <2>2 DEF Shape
<1>8. Knows(w, m)
  BY <1>2 DEF Knows, Loading
<1>9. FrameOK(w, m, frame)
  <2>1. Defines(more, x) = Names(doc)
    BY <1>4 DEF Defines
  <2>2. Merged(more, {x}, x) = Names(doc)
    BY <2>1 DEF Merged
  <2>3. Once(more, {x})
    BY DEF Once
  <2>4. \A n \in Names(doc) : Origin(w, more, x, n, base[n])
    BY <2>1 DEF Origin
  <2>5. Collected(w, more, l.part, x, {x}, base)
    BY <2>2, <2>3, <2>4 DEF Collected
  <2>6. {x} \subseteq Closure(w.lists, more, {x})
    BY ClosureHas
  <2>7. frame.src = x /\ frame.base = base /\ frame.todo = Imports(doc) /\ frame.docs = {x}
        /\ frame = [src |-> x, base |-> base, todo |-> Imports(doc), docs |-> {x}]
    BY DEF frame
  <2> QED BY Zenon, <1>2, <1>4, <2>5, <2>6, <2>7 DEF FrameOK, more
<1>10. \A k \in 1 .. N : FrameOK(w, m, l.stack[k])
  <2>1. Extends(l.read[l.part], m.read[l.part]) /\ DOMAIN m.read[l.part] \cap DOMAIN w.lists = {}
    BY <1>4, <1>5 DEF more
  <2> QED BY <1>1, <1>2, <1>6, <2>1, FrameKept DEF Walk
<1>11. \A k \in 1 .. N : l.stack[k].src \in DOMAIN read \cup DOMAIN w.lists
  BY <1>1, <1>6 DEF Walk, FrameOK
<1>12. ASSUME NEW s, NEW y, ToTake(w, l, s, y) PROVE ToTake(w, m, s, y)
  <2>1. PICK k \in 1 .. N : l.stack[k].src = s /\ \E i \in l.stack[k].todo : ItemOf(w, l, l.stack[k], i).src = y
    BY <1>6, <1>12 DEF ToTake
  <2>2. \A i : ItemOf(w, m, l.stack[k], i) = ItemOf(w, l, l.stack[k], i)
    BY <1>2, <1>4, <1>11, <2>1 DEF ItemOf, Extends, more
  <2>3. k \in DOMAIN m.stack /\ m.stack[k] = l.stack[k]
    BY <1>6, <2>1
  <2> QED BY <2>1, <2>2, <2>3 DEF ToTake
<1>13. \A s, y : Covered(w, l, s, y) => Covered(w, m, s, y)
  BY <1>2, <1>12 DEF Covered
<1>14. \A s \in DOMAIN more : \A y \in ImportedBy(w.lists, more, s) : Covered(w, m, s, y)
  <2>1. ASSUME NEW s \in DOMAIN read, NEW y \in ImportedBy(w.lists, more, s) PROVE Covered(w, m, s, y)
    <3>1. y \in ImportedBy(w.lists, read, s)
      BY <1>4, <2>1, ReadKept
    <3> QED BY <1>1, <1>13, <3>1 DEF Walk
  <2>2. ASSUME NEW y \in ImportedBy(w.lists, more, x) PROVE Covered(w, m, x, y)
    <3>1. PICK i \in Imports(doc) : y = doc[i].entry.src
      BY <1>4, <2>2 DEF ImportedBy, Entries
    <3>2. ItemOf(w, m, frame, i).src = y
      BY Zenon, <1>2, <1>4, <3>1 DEF ItemOf, frame, more
    <3>3. N + 1 \in DOMAIN m.stack /\ m.stack[N + 1].src = x /\ i \in m.stack[N + 1].todo
      BY <1>6, <3>1 DEF frame
    <3> QED BY <1>6, <3>2, <3>3 DEF Covered, ToTake
  <2> QED BY <1>4, <2>1, <2>2
<1>15. Walk(w, root, m)
  <2>1. \A k \in DOMAIN m.stack : FrameOK(w, m, m.stack[k])
    BY <1>6, <1>9, <1>10
  <2>2. ASSUME NEW k \in DOMAIN m.stack
        PROVE  IF k = 1 THEN m.stack[k].src = RootOf(w, root, m)
               ELSE m.stack[k].src \in ImportedBy(w.lists, more, m.stack[k - 1].src)
    <3>1. CASE k = N + 1 /\ k = 1
      <4>1. l.stack = <<>>
        BY <1>1, <1>6, <3>1 DEF Shape
      <4>2. x = RootOf(w, root, l)
        BY <1>1, <4>1 DEF Walk
      <4> QED BY <1>2, <1>6, <3>1, <4>2 DEF RootOf, frame
    <3>2. CASE k = N + 1 /\ k # 1
      <4>1. l.stack # <<>> /\ N \in 1 .. N
        BY <1>6, <3>2
      <4>2. x \in ImportedBy(w.lists, read, l.stack[N].src)
        BY <1>1, <4>1 DEF Walk
      <4>3. x \in ImportedBy(w.lists, more, l.stack[N].src)
        BY <1>4, <4>2, ReadKept
      <4> QED BY <1>6, <3>2, <4>1, <4>3 DEF frame
    <3>3. CASE k \in 1 .. N
      <4>1. CASE k = 1
        BY <1>1, <1>2, <1>6, <3>3, <4>1 DEF Walk, RootOf
      <4>2. CASE k # 1
        <5>1. k - 1 \in 1 .. N /\ k \in DOMAIN l.stack
          BY <1>6, <3>3, <4>2
        <5>2. l.stack[k].src \in ImportedBy(w.lists, read, l.stack[k - 1].src)
          BY <1>1, <4>2, <5>1 DEF Walk
        <5>3. l.stack[k].src \in ImportedBy(w.lists, more, l.stack[k - 1].src)
          BY <1>4, <5>2, ReadKept
        <5> QED BY <1>6, <3>3, <4>2, <5>1, <5>3
      <4> QED BY <4>1, <4>2
    <3> QED BY <1>6, <3>1, <3>2, <3>3
  <2>3. DOMAIN more = UNION {m.stack[k].docs : k \in DOMAIN m.stack}
    <3>1. DOMAIN read = UNION {l.stack[k].docs : k \in 1 .. N}
      BY <1>1, <1>6 DEF Walk
    <3>2. m.stack[N + 1].docs = {x}
      BY <1>6 DEF frame
    <3>3. ASSUME NEW y \in DOMAIN more PROVE \E k \in 1 .. N + 1 : y \in m.stack[k].docs
      <4>1. CASE y = x
        BY <1>6, <3>2, <4>1
      <4>2. CASE y \in DOMAIN read
        BY <1>6, <3>1, <4>2
      <4> QED BY <1>4, <4>1, <4>2
    <3>4. ASSUME NEW k \in 1 .. N + 1, NEW y \in m.stack[k].docs PROVE y \in DOMAIN more
      <4>1. CASE k = N + 1
        BY <1>4, <3>2, <3>4, <4>1
      <4>2. CASE k \in 1 .. N
        BY <1>4, <1>6, <3>1, <3>4, <4>2
      <4> QED BY <1>6, <4>1, <4>2
    <3> QED BY <1>6, <3>3, <3>4
  <2> QED BY <1>2, <1>6, <1>14, <2>1, <2>2, <2>3 DEF Walk, Loading, more
<1>16. Visits(w, root, m)
  <2>1. l.visited = DOMAIN l.read["global"] \cup DOMAIN l.read["local"] \cup {x}
    BY <1>1 DEF Visits
  <2>2. m.visited = DOMAIN m.read["global"] \cup DOMAIN m.read["local"]
    BY <1>2, <1>3, <1>4, <2>1 DEF Parts, more
  <2>3. \A part \in Parts : DOMAIN m.read[part] \subseteq DOMAIN w.kind \ DOMAIN w.lists
    BY <1>1, <1>3, <1>4 DEF Visits, more
  <2>4. DOMAIN m.read["global"] \cap DOMAIN m.read["local"] \subseteq {root}
    <3>1. CASE l.part = "local"
      BY <1>1, <1>3, <1>4, <3>1 DEF Visits, Walk, Parts, more
    <3>2. CASE l.part = "global"
      BY <1>1, <1>3, <3>2 DEF Visits, Parts
    <3> QED BY <1>3, <3>1, <3>2 DEF Parts
  <2>5. m.part = "global" => DOMAIN m.read["local"] = {} /\ DOMAIN m.dst = {}
    BY <1>1, <1>2, <1>3 DEF Visits, Parts
  <2> QED BY <1>2, <2>2, <2>3, <2>4, <2>5 DEF Visits, Loading
<1>17. m.part = "local" => GlobalDone(w, m)
  <2>1. ASSUME m.part = "local" PROVE m.read["global"] = l.read["global"]
    BY <1>2, <1>3, <2>1 DEF Parts
  <2> QED BY <1>1, <1>2, <2>1 DEF GlobalDone
<1> QED BY <1>2, <1>7, <1>8, <1>15, <1>16, <1>17 DEF LoaderOK, m

\* A loader that ends badly owes nothing.
LEMMA OverOK ==
  ASSUME NEW w, NEW root, NEW l, LoaderOK(w, root, l), NEW how \in Over
  PROVE  LoaderOK(w, root, [l EXCEPT !.pc = how])
<1> DEFINE m == [l EXCEPT !.pc = how]
<1>1. Shape(w, l)
  BY DEF LoaderOK
<1>2. /\ m.pc = how /\ m.want = l.want /\ m.via = l.via /\ m.body = l.body /\ m.at = l.at
      /\ m.stack = l.stack /\ m.visited = l.visited /\ m.part = l.part /\ m.dst = l.dst /\ m.read = l.read
      /\ m = [f \in Fields |-> m[f]]
  BY <1>1 DEF Shape, Fields
<1> HIDE DEF m
<1>3. Shape(w, m)
  BY <1>1, <1>2 DEF Shape
<1>4. Knows(w, m) /\ m.pc \notin Loading \cup {"start", "imports", "build"} /\ m.pc # "ok"
  BY <1>2 DEF Knows, Over, Loading
<1> QED BY <1>3, <1>4 DEF LoaderOK, m

\* While one import is loaded the rest of the loader stays as it is.
LEMMA QuietOK ==
  ASSUME NEW w, NEW root, NEW l, NEW m, LoaderOK(w, root, l), l.pc \in Loading, m.pc \in Loading,
         Shape(w, m), Knows(w, m),
         m.want = l.want, m.stack = l.stack, m.visited = l.visited, m.part = l.part, m.dst = l.dst,
         m.read = l.read
  PROVE  LoaderOK(w, root, m)
<1>1. Visits(w, root, l) /\ Walk(w, root, l) /\ (l.part = "local" => GlobalDone(w, l))
  BY DEF LoaderOK, Loading
<1>2. Visits(w, root, m)
  BY <1>1 DEF Visits, Loading
<1>3. m.part = "local" => GlobalDone(w, m)
  BY <1>1 DEF GlobalDone
<1>4. \A s, y : Covered(w, l, s, y) => Covered(w, m, s, y)
  <2>1. \A f, i : ItemOf(w, l, f, i) = ItemOf(w, m, f, i)
    BY DEF ItemOf
  <2>2. \A s, y : ToTake(w, l, s, y) => ToTake(w, m, s, y)
    BY <2>1 DEF ToTake
  <2> QED BY <2>2 DEF Covered
<1>5. \A f : FrameOK(w, l, f) => FrameOK(w, m, f)
  BY DEF FrameOK
<1>6. Walk(w, root, m)
  BY <1>1, <1>4, <1>5 DEF Walk, RootOf, Loading
<1> QED BY <1>2, <1>3, <1>6 DEF LoaderOK, Loading

\* The files that loads begin with.
LEMMA RootsAre ==
  ASSUME IsWorld(world)
  PROVE  /\ ResolveDefaultConfigFile # Empty =>
              ResolveDefaultConfigFile \in DOMAIN world.docs /\ ResolveDefaultConfigFile \in DOMAIN world.kind \ DOMAIN world.lists
         /\ world.global # Empty => world.global \in DOMAIN world.kind \ DOMAIN world.lists
<1> DEFINE found == {i \in DOMAIN world.local : world.local[i] \in DOMAIN world.docs}
<1>1. found \in SUBSET Nat
  <2> DEFINE files == {s \in DOMAIN world.kind : world.kind[s] = "file"}
  <2>1. world.local \in Seq(files)
    BY DEF IsWorld
  <2> HIDE DEF files
  <2> QED BY <2>1
<1>2. found # {} => First(found) \in found
  BY <1>1, FirstIs
<1>3. ResolveDefaultConfigFile # Empty => ResolveDefaultConfigFile \in DOMAIN world.docs
  BY <1>2 DEF ResolveDefaultConfigFile
<1>4. world.global # Empty => world.global \in DOMAIN world.kind /\ world.kind[world.global] = "file"
  BY DEF IsWorld
<1> QED BY <1>3, <1>4, WorldIs

\* A loader begins with the global file or with the local one (Load).
LEMMA StartOK ==
  ASSUME IsWorld(world), NEW p \in Processes, proc = [q \in Processes |-> proc[q]],
         LoaderOK(world, ResolveDefaultConfigFile, proc[p]), Start(p)
  PROVE  LoaderOK(world, ResolveDefaultConfigFile, proc'[p])
<1> DEFINE w      == world
           root   == ResolveDefaultConfigFile
           l      == proc[p]
           global == l.part = "global" /\ w.global # Empty
           next   == IF global THEN w.global ELSE root
           part   == IF global THEN "global" ELSE "local"
           m      == [l EXCEPT !.pc = "load", !.want = Plain(next), !.part = part,
                               !.visited = l.visited \cup {next}]
<1>1. l.pc = "start" /\ Shape(w, l) /\ Visits(w, root, l) /\ (l.part = "local" => GlobalDone(w, l))
  BY DEF LoaderOK, Start
<1>2. CASE next = Empty
  <2>1. proc'[p] = [l EXCEPT !.pc = "error"]
    BY <1>2 DEF Start, End, Only, Become
  <2>2. "error" \in Over
    BY DEF Over
  <2>3. LoaderOK(w, root, [l EXCEPT !.pc = "error"])
    BY <2>2, OverOK
  <2> QED BY <2>1, <2>3
<1>3. CASE next # Empty
  <2>1. proc'[p] = m
    BY <1>3 DEF Start, Only, Become
  <2>2. /\ m.pc = "load" /\ m.want = Plain(next) /\ m.via = l.via /\ m.body = l.body /\ m.at = l.at
        /\ m.stack = l.stack /\ m.visited = l.visited \cup {next} /\ m.part = part
        /\ m.dst = l.dst /\ m.read = l.read
        /\ m = [f \in Fields |-> m[f]]
    <3>1. l = [f \in Fields |-> l[f]]
      BY <1>1 DEF Shape
    <3> HIDE DEF l, next, part
    <3> QED BY <3>1 DEF Fields
  <2> HIDE DEF m
  <2>3. next \in DOMAIN w.kind \ DOMAIN w.lists /\ m.want.src = next
    BY <1>3, <2>2, RootsAre DEF Plain
  <2>4. Shape(w, m)
    BY <1>1, <2>2, <2>3 DEF Shape, Loading, Parts
  <2>5. Knows(w, m)
    BY <2>2, <2>3 DEF Knows
  <2>6. m.part \in Parts /\ (m.part = "global" => l.part = "global") /\ DOMAIN m.read[m.part] = {} /\ m.stack = <<>>
    BY <1>1, <2>2 DEF Shape, Visits, Parts
  <2>7. Visits(w, root, m)
    BY <1>1, <2>2, <2>3, <2>6 DEF Visits, Loading
  <2>8. ASSUME m.part = "local" PROVE GlobalDone(w, m)
    <3>1. CASE l.part = "local"
      BY <1>1, <2>2, <3>1 DEF GlobalDone
    <3>2. CASE l.part # "local"
      <4>1. l.part = "global" /\ w.global = Empty
        BY <1>1, <2>2, <2>8, <3>2 DEF Shape, Parts
      <4>2. DOMAIN m.dst = {} /\ DOMAIN m.read["global"] = {}
        BY <1>1, <2>2, <4>1 DEF Visits
      <4>3. Closed(w.lists, m.read["global"], {})
        BY DEF Closed
      <4>4. Closure(w.lists, m.read["global"], {w.global} \ {Empty}) = {}
        BY <4>1, <4>3, ClosureLeast
      <4>5. Collected(w, m.read["global"], "global", w.global, DOMAIN m.read["global"], m.dst)
        BY <4>2 DEF Collected, Merged, Once
      <4> QED BY <4>2, <4>4, <4>5 DEF GlobalDone
    <3> QED BY <3>1, <3>2
  <2>9. Walk(w, root, m)
    <3>1. next = RootOf(w, root, m)
      BY <2>2 DEF RootOf
    <3>2. next \in DOMAIN m.read["global"] => next = root
      BY <2>2, <2>6
    <3>3. DOMAIN m.stack = {}
      BY <2>6
    <3> QED BY <2>2, <2>3, <2>6, <3>1, <3>2, <3>3 DEF Walk
  <2> QED BY <2>1, <2>2, <2>4, <2>5, <2>7, <2>8, <2>9 DEF LoaderOK
<1> QED BY <1>2, <1>3

\* The next import of the frame on top is taken (parseImports, loadDir).
LEMMA TakeOK ==
  ASSUME IsWorld(world), NEW root, NEW p \in Processes, proc = [q \in Processes |-> proc[q]],
         LoaderOK(world, root, proc[p]), ParseImport(p)
  PROVE  LoaderOK(world, root, proc'[p])
<1> DEFINE w    == world
           l    == proc[p]
           read == l.read[l.part]
           N    == Len(l.stack)
           top  == l.stack[N]
           i    == First(top.todo)
           e    == ItemOf(w, l, top, i)
           left == [top EXCEPT !.todo = @ \ {i}]
           rest == [l.stack EXCEPT ![N] = left]
<1>1. /\ l.pc = "imports" /\ top.todo # {}
      /\ Shape(w, l) /\ Visits(w, root, l) /\ Walk(w, root, l) /\ (l.part = "local" => GlobalDone(w, l))
  BY DEF LoaderOK, ParseImport, Top
<1>2. Item(l, top, i) = e /\ rest = [l.stack EXCEPT ![N].todo = @ \ {i}]
  BY DEF Item, ItemOf
<1>3. l.stack \in Seq(Range(l.stack)) /\ l.stack # <<>> /\ N \in Nat /\ N # 0 /\ DOMAIN l.stack = 1 .. N
  <2>1. l.stack \in Seq(Range(l.stack)) /\ l.stack # <<>>
    BY <1>1 DEF Shape, Walk
  <2> HIDE DEF l
  <2>2. N \in Nat /\ DOMAIN l.stack = 1 .. N
    BY <2>1, StackIs
  <2>3. N # 0
    BY <2>1
  <2> QED BY <2>1, <2>2, <2>3
<1>4. FrameOK(w, l, top) /\ top = [src |-> top.src, base |-> top.base, todo |-> top.todo, docs |-> top.docs]
  <2>1. N \in DOMAIN l.stack
    BY <1>3
  <2>2. FrameOK(w, l, top)
    BY <1>1, <2>1 DEF Walk
  <2> QED BY Zenon, <2>2 DEF FrameOK
<1>5. /\ i \in top.todo
      /\ e \in EntriesOf(w) \cup {Plain(s) : s \in DOMAIN w.kind}
      /\ e.src \in DOMAIN w.kind
      /\ e.src \in ImportedBy(w.lists, read, top.src)
  <2>1. CASE top.src \in DOMAIN w.lists
    <3>1. top.todo \in SUBSET Nat /\ top.todo \subseteq DOMAIN w.lists[top.src]
      BY <1>4, <2>1, WorldIs DEF FrameOK
    <3>2. i \in DOMAIN w.lists[top.src] /\ i \in top.todo
      BY <1>1, <3>1, FirstIs
    <3>3. w.lists[top.src][i] \in Range(w.lists[top.src])
      BY <3>2 DEF Range
    <3> QED BY Zenon, <2>1, <3>2, <3>3, WorldIs DEF ItemOf, ImportedBy, Plain
  <2>2. CASE top.src \notin DOMAIN w.lists
    <3>1. top.src \in DOMAIN read /\ top.todo \subseteq Imports(read[top.src])
      BY Zenon, <1>4, <2>2 DEF FrameOK
    <3>2. read[top.src] \in Text(w)
      BY <1>1, <3>1 DEF Shape
    <3>3. top.todo \in SUBSET Nat
      BY <3>1, <3>2, EntryIs
    <3>4. i \in top.todo
      BY <1>1, <3>3, FirstIs
    <3>5. i \in Imports(read[top.src]) /\ e = read[top.src][i].entry
      BY <2>2, <3>1, <3>4 DEF ItemOf
    <3>6. e \in EntriesOf(w) /\ e.src \in DOMAIN w.kind
      BY ZenonT(30), <3>2, <3>5, EntryIs
    <3>7. e \in Entries(read[top.src])
      BY Zenon, <3>5 DEF Entries
    <3> QED BY ZenonT(30), <2>2, <3>1, <3>4, <3>6, <3>7 DEF ImportedBy
  <2> QED BY <2>1, <2>2
<1> HIDE DEF i, e
<1>6. left = [src |-> top.src, base |-> top.base, todo |-> top.todo \ {i}, docs |-> top.docs]
  <2> HIDE DEF top
  <2> QED BY <1>4
<1> HIDE DEF left
<1>7. /\ rest \in Seq(Range(rest)) /\ rest # <<>> /\ Len(rest) = N /\ DOMAIN rest = 1 .. N
      /\ rest[N] = left
      /\ \A k \in 1 .. N : k # N => rest[k] = l.stack[k]
  <2> HIDE DEF l
  <2> QED BY <1>3, SetTopIs
<1> HIDE DEF rest
<1>8. /\ \A k \in 1 .. N : rest[k].src = l.stack[k].src /\ rest[k].docs = l.stack[k].docs
      /\ \A k \in 1 .. N : \A j \in l.stack[k].todo : (k = N /\ j = i) \/ j \in rest[k].todo
  BY <1>6, <1>7
<1>9. \A k \in 1 .. N : FrameOK(w, l, rest[k])
  <2>1. FrameOK(w, l, left)
    BY Zenon, <1>4, <1>6 DEF FrameOK
  <2>2. \A k \in 1 .. N : FrameOK(w, l, l.stack[k])
    BY <1>1, <1>3 DEF Walk
  <2> QED BY <1>7, <2>1, <2>2
\* What follows holds of the loader after the step, whichever of the three it is.
<1>10. ASSUME NEW m, m.part = l.part, m.read = l.read, l.visited \subseteq m.visited,
              N \in Nat, \A k \in 1 .. N : k \in DOMAIN m.stack /\ m.stack[k] = rest[k]
       PROVE  /\ \A f : FrameOK(w, l, f) => FrameOK(w, m, f)
              /\ \A f, j : ItemOf(w, m, f, j) = ItemOf(w, l, f, j)
              /\ \A s, y : ToTake(w, l, s, y) => ToTake(w, m, s, y) \/ y = e.src
  <2>1. \A f : FrameOK(w, l, f) => FrameOK(w, m, f)
    BY <1>10 DEF FrameOK
  <2>2. \A f, j : ItemOf(w, m, f, j) = ItemOf(w, l, f, j)
    BY <1>10 DEF ItemOf
  <2>3. ASSUME NEW s, NEW y, ToTake(w, l, s, y), y # e.src PROVE ToTake(w, m, s, y)
    <3>1. PICK k \in 1 .. N : l.stack[k].src = s /\ \E j \in l.stack[k].todo : ItemOf(w, l, l.stack[k], j).src = y
      BY <1>3, <2>3 DEF ToTake
    <3>2. PICK j \in l.stack[k].todo : ItemOf(w, l, l.stack[k], j).src = y
      BY <3>1
    <3>3. ~ (k = N /\ j = i)
      BY <2>3, <3>2 DEF e
    <3>4. j \in rest[k].todo
      BY <1>8, <3>3
    <3>5. ItemOf(w, m, rest[k], j) = ItemOf(w, l, l.stack[k], j)
      BY <1>8, <1>10 DEF ItemOf
    <3> QED BY <1>8, <1>10, <3>1, <3>2, <3>4, <3>5 DEF ToTake
  <2> QED BY <2>1, <2>2, <2>3
<1>11. \A k \in 1 .. N : IF k = 1 THEN rest[k].src = RootOf(w, root, l)
                         ELSE rest[k].src \in ImportedBy(w.lists, read, rest[k - 1].src)
  <2> SUFFICES ASSUME NEW k \in 1 .. N
               PROVE  IF k = 1 THEN rest[k].src = RootOf(w, root, l)
                      ELSE rest[k].src \in ImportedBy(w.lists, read, rest[k - 1].src)
    OBVIOUS
  <2>1. k # 1 => k - 1 \in 1 .. N
    BY <1>3
  <2>2. IF k = 1 THEN l.stack[k].src = RootOf(w, root, l)
        ELSE l.stack[k].src \in ImportedBy(w.lists, read, l.stack[k - 1].src)
    BY <1>1, <1>3 DEF Walk
  <2> QED BY <1>8, <2>1, <2>2
<1>12. DOMAIN read = UNION {rest[k].docs : k \in 1 .. N}
  BY <1>1, <1>3, <1>8 DEF Walk
<1>13. l = [f \in Fields |-> l[f]]
  BY <1>1 DEF Shape
<1>14. l.visited = DOMAIN l.read["global"] \cup DOMAIN l.read["local"]
  BY <1>1 DEF Visits, Loading
<1>15. CASE AlreadyVisited(p, e.src)
  <2> DEFINE m == [l EXCEPT !.stack = rest]
  <2>1. proc'[p] = m
    BY Zenon, <1>2, <1>15 DEF ParseImport, Only, Become, Top, i, rest
  <2>2. /\ m.pc = l.pc /\ m.want = l.want /\ m.via = l.via /\ m.body = l.body /\ m.at = l.at /\ m.stack = rest
        /\ m.visited = l.visited /\ m.part = l.part /\ m.dst = l.dst /\ m.read = l.read
        /\ m = [f \in Fields |-> m[f]]
    <3> HIDE DEF l
    <3> QED BY <1>13 DEF Fields
  <2> HIDE DEF m
  <2>3. Shape(w, m) /\ Knows(w, m) /\ Visits(w, root, m) /\ (m.part = "local" => GlobalDone(w, m))
    BY Zenon, <1>1, <1>7, <2>2 DEF Shape, Knows, Visits, GlobalDone, Loading
  <2>4. e.src \in m.visited
    BY <1>15, <2>2 DEF AlreadyVisited
  <2>5. \A s, y : ToTake(w, l, s, y) => ToTake(w, m, s, y) \/ y = e.src
    BY <1>3, <1>7, <1>10, <2>2
  <2>6. \A s, y : Covered(w, l, s, y) => Covered(w, m, s, y)
    BY <2>2, <2>4, <2>5 DEF Covered
  <2>7. \A k \in 1 .. N : FrameOK(w, m, m.stack[k])
    BY <1>3, <1>7, <1>9, <1>10, <2>2
  <2>8. Walk(w, root, m)
    BY <1>1, <1>7, <1>11, <1>12, <2>2, <2>6, <2>7 DEF Walk, RootOf, Loading
  <2> QED BY <1>1, <2>1, <2>2, <2>3, <2>8 DEF LoaderOK, Loading
<1>16. CASE ~AlreadyVisited(p, e.src) /\ ~Remote(e.src) /\ ~Stat(p, e.src)
  <2>1. proc'[p] = [l EXCEPT !.pc = "error"]
    BY <1>2, <1>16 DEF ParseImport, End, Only, Become, Top, i
  <2>2. LoaderOK(w, root, [l EXCEPT !.pc = "error"])
    BY OverOK DEF Over
  <2> QED BY <2>1, <2>2
<1>17. CASE /\ ~AlreadyVisited(p, e.src) /\ ~(~Remote(e.src) /\ ~Stat(p, e.src))
            /\ e.src \in DOMAIN w.lists
  <2> DEFINE frame == [src |-> e.src, base |-> <<>>, todo |-> DOMAIN w.lists[e.src], docs |-> {}]
             m     == [l EXCEPT !.stack = Append(rest, frame)]
  <2>1. proc'[p] = m
    BY <1>2, <1>17 DEF ParseImport, Only, Become, Top, i, rest
  <2>2. /\ m.pc = l.pc /\ m.want = l.want /\ m.via = l.via /\ m.body = l.body /\ m.at = l.at
        /\ m.stack = Append(rest, frame)
        /\ m.visited = l.visited /\ m.part = l.part /\ m.dst = l.dst /\ m.read = l.read
        /\ m = [f \in Fields |-> m[f]]
    <3> HIDE DEF l, frame
    <3> QED BY <1>13 DEF Fields
  <2>3. frame.src = e.src /\ frame.base = <<>> /\ frame.todo = DOMAIN w.lists[e.src] /\ frame.docs = {}
        /\ frame = [src |-> frame.src, base |-> frame.base, todo |-> frame.todo, docs |-> frame.docs]
    OBVIOUS
  <2> HIDE DEF m, frame
  <2>4. /\ m.stack \in Seq(Range(m.stack)) /\ m.stack # <<>> /\ DOMAIN m.stack = 1 .. N + 1
        /\ m.stack[N + 1] = frame /\ \A k \in 1 .. N : m.stack[k] = rest[k]
    <3> DEFINE t == Append(rest, frame)
    <3>1. /\ t \in Seq(Range(t)) /\ DOMAIN t = 1 .. Len(rest) + 1 /\ t # <<>> /\ t[Len(rest) + 1] = frame
          /\ \A k \in 1 .. Len(rest) : t[k] = rest[k]
      BY <1>7, PushIs
    <3> QED BY <1>7, <2>2, <3>1
  <2>5. Shape(w, m) /\ Knows(w, m) /\ Visits(w, root, m) /\ (m.part = "local" => GlobalDone(w, m))
    BY Zenon, <1>1, <2>2, <2>4 DEF Shape, Knows, Visits, GlobalDone, Loading
  <2>6. /\ \A k \in 1 .. N : FrameOK(w, m, m.stack[k])
        /\ \A s, y : ToTake(w, l, s, y) => ToTake(w, m, s, y) \/ y = e.src
    <3>1. \A k \in 1 .. N : k \in DOMAIN m.stack /\ m.stack[k] = rest[k]
      BY <1>3, <2>4
    <3> QED BY <1>3, <1>9, <1>10, <2>2, <3>1
  <2>7. FrameOK(w, m, frame)
    <3>1. Collected(w, read, l.part, e.src, {}, <<>>)
      BY DEF Collected, Merged, Once
    <3>2. {} \subseteq Closure(w.lists, read, {e.src})
      OBVIOUS
    <3> QED BY <1>5, <1>17, <2>2, <2>3, <3>1, <3>2 DEF FrameOK
  <2>8. \A y \in Range(w.lists[e.src]) : ToTake(w, m, e.src, y)
    <3> SUFFICES ASSUME NEW y \in Range(w.lists[e.src]) PROVE ToTake(w, m, e.src, y)
      OBVIOUS
    <3>1. PICK j \in DOMAIN w.lists[e.src] : w.lists[e.src][j] = y
      BY DEF Range
    <3>2. ItemOf(w, m, frame, j).src = y
      BY <1>17, <2>3, <3>1 DEF ItemOf, Plain
    <3>3. N + 1 \in DOMAIN m.stack
      BY <1>3, <2>4
    <3> QED BY <2>3, <2>4, <3>1, <3>2, <3>3 DEF ToTake
  <2>9. ASSUME NEW s, NEW y, Covered(w, l, s, y) PROVE Covered(w, m, s, y)
    <3>1. CASE y = e.src
      BY <1>17, <2>8, <3>1 DEF Covered
    <3>2. CASE y # e.src
      <4>1. CASE y \in DOMAIN w.lists /\ \A z \in Range(w.lists[y]) : z \in l.visited \/ ToTake(w, l, y, z)
        <5>1. \A z \in Range(w.lists[y]) : z # e.src
          BY <1>17, <4>1, WorldIs
        <5> QED BY <2>2, <2>6, <4>1, <5>1 DEF Covered
      <4>2. CASE y \in l.visited \/ ToTake(w, l, s, y)
        BY <2>2, <2>6, <3>2, <4>2 DEF Covered
      <4> QED BY <2>9, <4>1, <4>2 DEF Covered
    <3> QED BY <3>1, <3>2
  <2>10. Walk(w, root, m)
    <3>1. \A k \in DOMAIN m.stack : FrameOK(w, m, m.stack[k])
      BY <1>3, <2>4, <2>6, <2>7
    <3>2. ASSUME NEW k \in DOMAIN m.stack
          PROVE  IF k = 1 THEN m.stack[k].src = RootOf(w, root, m)
                 ELSE m.stack[k].src \in ImportedBy(w.lists, read, m.stack[k - 1].src)
      <4>1. CASE k = N + 1
        <5>1. k # 1 /\ k - 1 = N /\ N \in 1 .. N
          BY <1>3, <4>1
        <5> QED BY <1>5, <1>8, <2>3, <2>4, <4>1, <5>1
      <4>2. CASE k \in 1 .. N
        <5>1. k # 1 => k - 1 \in 1 .. N
          BY <1>3, <4>2
        <5> QED BY <1>11, <2>2, <2>4, <4>2, <5>1 DEF RootOf
      <4> QED BY <1>3, <2>4, <4>1, <4>2
    <3>3. DOMAIN read = UNION {m.stack[k].docs : k \in DOMAIN m.stack}
      <4>1. DOMAIN m.stack = (1 .. N) \cup {N + 1}
        BY <1>3, <2>4
      <4>2. \A k \in 1 .. N : m.stack[k].docs = rest[k].docs
        BY <2>4
      <4>3. m.stack[N + 1].docs = {}
        BY <2>3, <2>4
      <4> QED BY <1>12, <4>1, <4>2, <4>3
    <3>4. \A s \in DOMAIN read : \A y \in ImportedBy(w.lists, read, s) : Covered(w, m, s, y)
      BY <1>1, <2>9 DEF Walk
    <3> QED BY <1>1, <2>2, <2>4, <3>1, <3>2, <3>3, <3>4 DEF Walk, Loading
  <2> QED BY <1>1, <2>1, <2>2, <2>5, <2>10 DEF LoaderOK, Loading
<1>18. CASE /\ ~AlreadyVisited(p, e.src) /\ ~(~Remote(e.src) /\ ~Stat(p, e.src))
            /\ e.src \notin DOMAIN w.lists
  <2> DEFINE m == [l EXCEPT !.pc = "load", !.want = e, !.stack = rest, !.visited = l.visited \cup {e.src}]
  <2>1. proc'[p] = m
    BY <1>2, <1>18 DEF ParseImport, Only, Become, Top, i, rest
  <2>2. /\ m.pc = "load" /\ m.want = e /\ m.via = l.via /\ m.body = l.body /\ m.at = l.at /\ m.stack = rest
        /\ m.visited = l.visited \cup {e.src} /\ m.part = l.part /\ m.dst = l.dst /\ m.read = l.read
        /\ m = [f \in Fields |-> m[f]]
    <3> HIDE DEF l
    <3> QED BY <1>13 DEF Fields
  <2> HIDE DEF m
  <2>3. e.src \notin l.visited
    BY <1>18 DEF AlreadyVisited, Reached, Stat
  <2>4. Shape(w, m)
    BY ZenonT(30), <1>1, <1>5, <1>7, <2>2 DEF Shape, Loading
  <2>5. Knows(w, m)
    BY <1>5, <1>18, <2>2 DEF Knows
  <2>6. Visits(w, root, m)
    BY <1>1, <1>14, <2>2 DEF Visits, Loading
  <2>7. m.part = "local" => GlobalDone(w, m)
    BY <1>1, <2>2 DEF GlobalDone
  <2>8. \A s, y : ToTake(w, l, s, y) => ToTake(w, m, s, y) \/ y = e.src
    BY <1>3, <1>7, <1>10, <2>2
  <2>9. \A s, y : Covered(w, l, s, y) => Covered(w, m, s, y)
    BY <2>2, <2>8 DEF Covered
  <2>10. \A k \in 1 .. N : FrameOK(w, m, m.stack[k])
    BY <1>3, <1>7, <1>9, <1>10, <2>2
  <2>11. /\ e.src \notin DOMAIN read /\ e.src \notin DOMAIN l.read["global"]
         /\ e.src \in ImportedBy(w.lists, read, rest[N].src) /\ N \in 1 .. N
    BY <1>1, <1>3, <1>5, <1>8, <1>14, <2>3 DEF Shape, Parts
  <2>12. Walk(w, root, m)
    BY <1>1, <1>7, <1>11, <1>12, <2>2, <2>9, <2>10, <2>11 DEF Walk, RootOf, Loading
  <2> QED BY <2>1, <2>2, <2>4, <2>5, <2>6, <2>7, <2>12 DEF LoaderOK, Loading
<1> QED BY <1>15, <1>16, <1>17, <1>18

\* An imported definition is merged into the one that imports it, unless a
\* name is in both (mergeExistingWithImported).
LEMMA MergeCollected ==
  ASSUME NEW w, NEW read, NEW part,
         NEW root, NEW docs, NEW base, Collected(w, read, part, root, docs, base),
         root \in docs \/ root \notin DOMAIN read,
         NEW path, NEW more, NEW imported, Collected(w, read, part, path, more, imported),
         path # Empty, path \in ImportedBy(w.lists, read, root), more \subseteq Closure(w.lists, read, {path}),
         ~ mergeExistingWithImported(base, imported, path).clash
  PROVE  Collected(w, read, part, root, docs \cup more, mergeExistingWithImported(base, imported, path).base)
<1> DEFINE merged == mergeExistingWithImported(base, imported, path).base
           taken  == Mergeable(imported)
<1>1. /\ DOMAIN merged = DOMAIN base \cup taken
      /\ \A n \in DOMAIN base : merged[n] = base[n]
      /\ \A n \in taken : n \notin DOMAIN base => merged[n] = [imported[n] EXCEPT !.source = path]
  BY DEF mergeExistingWithImported
<1>2. DOMAIN base \cap taken = {}
  BY DEF mergeExistingWithImported
<1> HIDE DEF merged
<1>3. /\ DOMAIN base = Merged(read, docs, root) /\ Once(read, docs)
      /\ DOMAIN imported = Merged(read, more, path) /\ Once(read, more)
  BY DEF Collected
<1>4. taken = {n \in UNION {Defines(read, s) : s \in more} : n[1] # "watcher"}
  BY <1>3 DEF Mergeable, Merged
<1>5. DOMAIN merged = Merged(read, docs \cup more, root)
  <2>1. ASSUME NEW n \in Merged(read, docs \cup more, root) PROVE n \in DOMAIN base \cup taken
    <3>1. PICK s \in docs \cup more : n \in Defines(read, s)
      BY DEF Merged
    <3>2. n[1] = "watcher" => n \in Defines(read, root)
      BY DEF Merged
    <3>3. CASE n[1] = "watcher"
      <4>1. n \in Defines(read, root) /\ root \in docs
        BY <3>2, <3>3 DEF Defines
      <4> QED BY <1>3, <4>1 DEF Merged
    <3>4. CASE n[1] # "watcher" /\ s \in docs
      BY <1>3, <3>1, <3>4 DEF Merged
    <3>5. CASE n[1] # "watcher" /\ s \in more
      BY <1>4, <3>1, <3>5
    <3> QED BY <3>3, <3>4, <3>5
  <2>2. ASSUME NEW n \in DOMAIN base \cup taken PROVE n \in Merged(read, docs \cup more, root)
    BY <1>3, <1>4 DEF Merged
  <2> QED BY <1>1, <2>1, <2>2
<1>6. Once(read, docs \cup more)
  <2> SUFFICES ASSUME NEW s \in docs \cup more, NEW t \in docs \cup more, s # t,
                      NEW n \in Defines(read, s) \cap Defines(read, t), n[1] # "watcher"
               PROVE  FALSE
    BY DEF Once
  <2>1. CASE s \in docs /\ t \in docs
    BY <1>3, <2>1 DEF Once
  <2>2. CASE s \in more /\ t \in more
    BY <1>3, <2>2 DEF Once
  <2>3. \A d \in docs : n \in Defines(read, d) => n \in DOMAIN base
    BY <1>3 DEF Merged
  <2>4. \A d \in more : n \in Defines(read, d) => n \in taken
    BY <1>4
  <2> QED BY <1>2, <2>1, <2>2, <2>3, <2>4
<1>7. ASSUME NEW n \in DOMAIN merged
      PROVE  /\ merged[n] = [needs |-> merged[n].needs, source |-> merged[n].source, part |-> part]
             /\ Origin(w, read, root, n, merged[n])
  <2>1. CASE n \in DOMAIN base
    BY <1>1, <2>1 DEF Collected
  <2>2. CASE n \in taken /\ n \notin DOMAIN base
    <3>1. imported[n] = [needs |-> imported[n].needs, source |-> imported[n].source, part |-> part]
      BY <2>2 DEF Collected, Mergeable
    <3>2. merged[n] = [needs |-> imported[n].needs, source |-> path, part |-> part]
      BY <1>1, <2>2, <3>1
    <3>3. PICK s \in more : n \in Defines(read, s)
      BY <1>4, <2>2
    <3> QED BY <3>2, <3>3 DEF Origin
  <2> QED BY <1>1, <2>1, <2>2
<1> QED BY <1>5, <1>6, <1>7 DEF Collected, merged

\* Two fields of a frame change.
LEMMA FrameSet ==
  ASSUME NEW f, f = [src |-> f.src, base |-> f.base, todo |-> f.todo, docs |-> f.docs], NEW base, NEW docs
  PROVE  [f EXCEPT !.base = base, !.docs = docs] = [src |-> f.src, base |-> base, todo |-> f.todo, docs |-> docs]
<1> DEFINE fields == {"src", "base", "todo", "docs"}
           g == [f EXCEPT !.base = base, !.docs = docs]
           h == [src |-> f.src, base |-> base, todo |-> f.todo, docs |-> docs]
<1>1. DOMAIN f = fields
  OBVIOUS
<1>2. g = [n \in fields |-> g[n]]
  BY <1>1
<1>3. h = [n \in fields |-> h[n]]
  OBVIOUS
<1>4. g.src = f.src /\ g.base = base /\ g.todo = f.todo /\ g.docs = docs
  BY <1>1
<1>5. h.src = f.src /\ h.base = base /\ h.todo = f.todo /\ h.docs = docs
  OBVIOUS
<1> HIDE DEF g, h
<1>6. \A n \in fields : g[n] = h[n]
  BY <1>4, <1>5
<1>7. g = h
  <2> HIDE DEF fields
  <2> QED BY <1>2, <1>3, <1>6
<1> QED BY <1>7 DEF g, h

\* The frame on top is done with (load, loadDir).
LEMMA ReturnOK ==
  ASSUME IsWorld(world), NEW root, NEW p \in Processes, proc = [q \in Processes |-> proc[q]],
         LoaderOK(world, root, proc[p]), Return(p)
  PROVE  LoaderOK(world, root, proc'[p])
<1> DEFINE w      == world
           l      == proc[p]
           read   == l.read[l.part]
           N      == Len(l.stack)
           below  == N - 1
           top    == l.stack[N]
           b      == l.stack[below]
           merged == mergeExistingWithImported(b.base, top.base, top.src)
           frame  == [b EXCEPT !.base = merged.base, !.docs = b.docs \cup top.docs]
           stack  == [SubSeq(l.stack, 1, below) EXCEPT ![below] = frame]
<1>1. /\ l.pc = "imports" /\ top.todo = {}
      /\ Shape(w, l) /\ Visits(w, root, l) /\ Walk(w, root, l) /\ (l.part = "local" => GlobalDone(w, l))
  BY DEF LoaderOK, Return, Top
<1>2. l.stack \in Seq(Range(l.stack)) /\ l.stack # <<>> /\ N \in Nat /\ N # 0 /\ DOMAIN l.stack = 1 .. N
  <2>1. l.stack \in Seq(Range(l.stack)) /\ l.stack # <<>>
    BY <1>1 DEF Shape, Walk
  <2> HIDE DEF l
  <2>2. N \in Nat /\ DOMAIN l.stack = 1 .. N
    BY <2>1, StackIs
  <2>3. N # 0
    BY <2>1
  <2> QED BY <2>1, <2>2, <2>3
<1>3. l = [f \in Fields |-> l[f]]
  BY <1>1 DEF Shape
<1>4. l.visited = DOMAIN l.read["global"] \cup DOMAIN l.read["local"]
  BY <1>1 DEF Visits, Loading
<1>5. CASE below = 0
  <2> DEFINE m == [l EXCEPT !.pc = "build"]
  <2>1. proc'[p] = m
    BY <1>5 DEF Return, End, Only, Become, Top
  <2>2. /\ m.pc = "build" /\ m.want = l.want /\ m.via = l.via /\ m.body = l.body /\ m.at = l.at /\ m.stack = l.stack
        /\ m.visited = l.visited /\ m.part = l.part /\ m.dst = l.dst /\ m.read = l.read
        /\ m = [f \in Fields |-> m[f]]
    <3> HIDE DEF l
    <3> QED BY <1>3 DEF Fields
  <2> HIDE DEF m
  <2>3. Shape(w, m) /\ Knows(w, m) /\ Visits(w, root, m) /\ (m.part = "local" => GlobalDone(w, m))
    BY <1>1, <2>2 DEF Shape, Knows, Visits, GlobalDone, Loading
  <2>4. \A f : FrameOK(w, l, f) => FrameOK(w, m, f)
    BY <2>2 DEF FrameOK
  <2>5. \A s, y : ToTake(w, l, s, y) => ToTake(w, m, s, y)
    <3>1. \A f, i : ItemOf(w, m, f, i) = ItemOf(w, l, f, i)
      BY <2>2 DEF ItemOf
    <3> QED BY <2>2, <3>1 DEF ToTake
  <2>6. \A s, y : Covered(w, l, s, y) => Covered(w, m, s, y)
    BY <2>2, <2>5 DEF Covered
  <2>7. N = 1 /\ m.stack[1].todo = {}
    BY <1>1, <1>2, <1>5, <2>2
  <2>8. Walk(w, root, m)
    BY <1>1, <2>2, <2>4, <2>6, <2>7 DEF Walk, RootOf, Loading
  <2> QED BY <2>1, <2>2, <2>3, <2>8 DEF LoaderOK, Loading
<1>6. CASE below # 0 /\ merged.clash
  <2>1. proc'[p] = [l EXCEPT !.pc = "error"]
    BY <1>6 DEF Return, End, Only, Become, Top
  <2>2. LoaderOK(w, root, [l EXCEPT !.pc = "error"])
    BY OverOK DEF Over
  <2> QED BY <2>1, <2>2
<1>7. CASE below # 0 /\ ~merged.clash
  <2> DEFINE m == [l EXCEPT !.stack = stack]
  <2>1. below \in 1 .. N /\ N \in 1 .. N /\ below # N /\ below \in 1 .. below /\ N # 1
    <3>1. below # 0
      BY <1>7
    <3>2. N \in Nat /\ N # 0
      BY <1>2
    <3> HIDE DEF N
    <3> QED BY <3>1, <3>2
  <2>2. FrameOK(w, l, b) /\ FrameOK(w, l, top)
    BY <1>1, <1>2, <2>1 DEF Walk
  <2>3. proc'[p] = m
    BY <1>7 DEF Return, Only, Become, Top
  <2>4. /\ stack \in Seq(Range(stack)) /\ stack # <<>> /\ DOMAIN stack = 1 .. below
        /\ stack[below] = frame
        /\ \A k \in 1 .. below : k # below => stack[k] = l.stack[k]
    <3> HIDE DEF l, frame
    <3> QED BY ZenonT(30), <1>2, <1>7, PopIs
  <2>5. frame = [src |-> b.src, base |-> merged.base, todo |-> b.todo, docs |-> b.docs \cup top.docs]
    <3>1. b = [src |-> b.src, base |-> b.base, todo |-> b.todo, docs |-> b.docs]
      BY Zenon, <2>2 DEF FrameOK
    <3> HIDE DEF b, top, merged
    <3> QED BY Zenon, <3>1, FrameSet
  <2> HIDE DEF stack, frame
  <2>6. /\ m.pc = "imports" /\ m.want = l.want /\ m.via = l.via /\ m.body = l.body /\ m.at = l.at /\ m.stack = stack
        /\ m.visited = l.visited /\ m.part = l.part /\ m.dst = l.dst /\ m.read = l.read
        /\ m = [f \in Fields |-> m[f]]
    <3>1. l.pc = "imports"
      BY <1>1
    <3> HIDE DEF l
    <3> QED BY <1>3, <3>1 DEF Fields
  <2> HIDE DEF m
  <2>7. Shape(w, m) /\ Knows(w, m) /\ Visits(w, root, m) /\ (m.part = "local" => GlobalDone(w, m))
    BY <1>1, <2>4, <2>6 DEF Shape, Knows, Visits, GlobalDone, Loading
  <2>8. top.src \in ImportedBy(w.lists, read, b.src)
    <3>1. N \in DOMAIN l.stack /\ N # 1
      BY <1>2, <2>1
    <3> QED BY Zenon, <1>1, <3>1 DEF Walk
  <2>9. FrameOK(w, m, frame)
    <3>1. Collected(w, read, l.part, b.src, b.docs \cup top.docs, merged.base)
      <4>1. /\ Collected(w, read, l.part, b.src, b.docs, b.base)
            /\ Collected(w, read, l.part, top.src, top.docs, top.base)
            /\ top.docs \subseteq Closure(w.lists, read, {top.src})
        BY Zenon, <2>2 DEF FrameOK
      <4>2. top.src # Empty
        <5>1. top.src \in DOMAIN w.kind
          BY ZenonT(30), <2>2 DEF FrameOK
        <5> QED BY <5>1, WorldIs
      <4>3. b.src \in b.docs \/ b.src \notin DOMAIN read
        BY ZenonT(30), <1>1, <2>2 DEF FrameOK, Visits, Shape
      <4> QED BY ZenonT(30), <1>7, <2>8, <4>1, <4>2, <4>3, MergeCollected
    <3>2. b.docs \cup top.docs \subseteq Closure(w.lists, read, {b.src})
      BY ZenonT(30), <2>2, <2>8, ClosureStep DEF FrameOK
    <3> HIDE DEF merged
    <3> QED BY Zenon, <2>2, <2>5, <2>6, <3>1, <3>2 DEF FrameOK
  <2>10. \A k \in 1 .. below : FrameOK(w, m, stack[k])
    <3> SUFFICES ASSUME NEW k \in 1 .. below PROVE FrameOK(w, m, stack[k])
      OBVIOUS
    <3>1. CASE k = below
      BY <2>4, <2>9, <3>1
    <3>2. CASE k # below
      <4>1. k \in DOMAIN l.stack /\ stack[k] = l.stack[k]
        BY <1>2, <2>4, <3>2
      <4>2. FrameOK(w, l, stack[k])
        BY <1>1, <4>1 DEF Walk
      <4> QED BY <2>6, <4>2 DEF FrameOK
    <3> QED BY <3>1, <3>2
  <2>11. \A k \in 1 .. below : stack[k].src = l.stack[k].src /\ stack[k].todo = l.stack[k].todo
    BY <2>4, <2>5
  <2>12. \A s, y : ToTake(w, l, s, y) => ToTake(w, m, s, y)
    <3> SUFFICES ASSUME NEW s, NEW y, ToTake(w, l, s, y) PROVE ToTake(w, m, s, y)
      OBVIOUS
    <3>1. PICK k \in 1 .. N : l.stack[k].src = s /\ \E i \in l.stack[k].todo : ItemOf(w, l, l.stack[k], i).src = y
      BY <1>2 DEF ToTake
    <3>2. k \in 1 .. below
      BY <1>1, <1>2, <3>1
    <3>3. \A i : ItemOf(w, m, stack[k], i) = ItemOf(w, l, l.stack[k], i)
      BY <2>6, <2>11, <3>2 DEF ItemOf
    <3> QED BY <2>4, <2>6, <2>11, <3>1, <3>2, <3>3 DEF ToTake
  <2>13. \A s, y : Covered(w, l, s, y) => Covered(w, m, s, y)
    BY <2>6, <2>12 DEF Covered
  <2>14. DOMAIN read = UNION {stack[k].docs : k \in 1 .. below}
    <3>1. DOMAIN read = UNION {l.stack[k].docs : k \in 1 .. N}
      BY <1>1, <1>2 DEF Walk
    <3>2. 1 .. N = (1 .. below) \cup {N}
      BY <1>2, <2>1
    <3>3. below \in 1 .. below
      BY <2>1
    <3>4. \A k \in 1 .. below : k # below => stack[k].docs = l.stack[k].docs
      BY <2>4
    <3>5. stack[below].docs = l.stack[below].docs \cup l.stack[N].docs
      BY <2>4, <2>5
    <3> HIDE DEF read, below, stack
    <3> QED BY <3>1, <3>2, <3>3, <3>4, <3>5
  <2>15. \A k \in 1 .. below : IF k = 1 THEN stack[k].src = RootOf(w, root, m)
                               ELSE stack[k].src \in ImportedBy(w.lists, read, stack[k - 1].src)
    <3> SUFFICES ASSUME NEW k \in 1 .. below
                 PROVE  IF k = 1 THEN stack[k].src = RootOf(w, root, m)
                        ELSE stack[k].src \in ImportedBy(w.lists, read, stack[k - 1].src)
      OBVIOUS
    <3>1. k # 1 => k - 1 \in 1 .. below
      BY <1>2
    <3>2. k \in 1 .. N
      BY <1>2
    <3>3. IF k = 1 THEN l.stack[k].src = RootOf(w, root, l)
          ELSE l.stack[k].src \in ImportedBy(w.lists, read, l.stack[k - 1].src)
      BY <1>1, <1>2, <3>2 DEF Walk
    <3> QED BY <2>6, <2>11, <3>1, <3>3 DEF RootOf
  <2>16. Walk(w, root, m)
    BY <1>1, <2>4, <2>6, <2>10, <2>13, <2>14, <2>15 DEF Walk, Loading
  <2> QED BY <2>3, <2>6, <2>7, <2>16 DEF LoaderOK, Loading
<1> QED BY <1>5, <1>6, <1>7

\* What was not read defines nothing.
LEMMA MergedOf ==
  ASSUME NEW read, NEW docs, NEW more, docs \cap DOMAIN read = more \cap DOMAIN read, NEW root
  PROVE  /\ Merged(read, docs, root) = Merged(read, more, root)
         /\ Once(read, docs) => Once(read, more)
<1>1. \A s, n : n \in Defines(read, s) => s \in DOMAIN read
  BY DEF Defines
<1>2. \A s : s \in DOMAIN read => (s \in docs <=> s \in more)
  OBVIOUS
<1>3. Merged(read, docs, root) = Merged(read, more, root)
  BY <1>1, <1>2 DEF Merged
<1>4. ASSUME Once(read, docs) PROVE Once(read, more)
  BY <1>1, <1>2, <1>4 DEF Once
<1> QED BY <1>3, <1>4

\* A loader that has taken all imports has read what it reaches, what it had
\* read before apart.
LEMMA AllReached ==
  ASSUME NEW w, IsWorld(w), NEW read, NEW seen, NEW root,
         root \in DOMAIN read, DOMAIN read \subseteq seen, seen \cap DOMAIN w.lists = {},
         \A s \in DOMAIN read : \A x \in ImportedBy(w.lists, read, s) :
            x \in seen \/ (x \in DOMAIN w.lists /\ Range(w.lists[x]) \subseteq seen)
  PROVE  Closure(w.lists, read, {root}) \ DOMAIN w.lists \subseteq seen
<1> DEFINE S == seen \cup {x \in DOMAIN w.lists : Range(w.lists[x]) \subseteq seen}
<1>1. Closed(w.lists, read, S)
  <2> SUFFICES ASSUME NEW s \in S, NEW x \in ImportedBy(w.lists, read, s)
               PROVE  x \in S
    BY DEF Closed
  <2>1. CASE s \in DOMAIN w.lists
    <3>1. Range(w.lists[s]) \subseteq seen
      BY <2>1
    <3> QED BY <2>1, <3>1 DEF ImportedBy
  <2>2. CASE s \notin DOMAIN w.lists
    <3>1. s \in DOMAIN read
      BY <2>2 DEF ImportedBy
    <3> QED BY <3>1
  <2> QED BY <2>1, <2>2
<1>2. Closure(w.lists, read, {root}) \subseteq S
  BY <1>1, ClosureLeast
<1> QED BY <1>2

\* A part is built: the definitions of the global file are kept for the local
\* one, those of the local one are merged into them (buildFromDefinition).
LEMMA BuildOK ==
  ASSUME IsWorld(world), NEW p \in Processes, proc = [q \in Processes |-> proc[q]],
         LoaderOK(world, ResolveDefaultConfigFile, proc[p]), Build(p)
  PROVE  LoaderOK(world, ResolveDefaultConfigFile, proc'[p])
<1> DEFINE w     == world
           root  == ResolveDefaultConfigFile
           l     == proc[p]
           here  == RootOf(w, root, l)
           read  == l.read[l.part]
           gread == l.read["global"]
           lread == l.read["local"]
           base  == l.stack[1].base
           dst   == merge(l.dst, base)
           next  == IF l.part = "global" THEN "start" ELSE IF Validate(dst) THEN "ok" ELSE "error"
           m     == [l EXCEPT !.pc = next, !.part = "local", !.dst = dst, !.stack = <<>>]
<1>1. /\ l.pc = "build"
      /\ Shape(w, l) /\ Visits(w, root, l) /\ Walk(w, root, l) /\ (l.part = "local" => GlobalDone(w, l))
  BY DEF LoaderOK, Build
<1>2. Len(l.stack) = 1 /\ l.stack # <<>> /\ DOMAIN l.stack = {1} /\ l.stack[1].todo = {}
  <2>1. Len(l.stack) = 1 /\ l.stack # <<>> /\ l.stack[1].todo = {} /\ l.stack \in Seq(Range(l.stack))
    BY <1>1 DEF Walk, Shape
  <2> HIDE DEF l
  <2>2. DOMAIN l.stack = 1 .. Len(l.stack)
    BY <2>1, StackIs
  <2> QED BY <2>1, <2>2
<1>3. /\ FrameOK(w, l, l.stack[1]) /\ l.stack[1].src = here
      /\ DOMAIN read = l.stack[1].docs
  <2>1. 1 \in DOMAIN l.stack
    BY <1>2
  <2>2. DOMAIN read = UNION {l.stack[k].docs : k \in {1}}
    BY <1>1, <1>2 DEF Walk
  <2>3. FrameOK(w, l, l.stack[1])
    BY <1>1, <2>1 DEF Walk
  <2>4. l.stack[1].src = here
    BY <1>1, <2>1 DEF Walk
  <2> HIDE DEF l
  <2> QED BY <2>2, <2>3, <2>4
<1>4. /\ here \in DOMAIN w.kind /\ here # Empty /\ here \notin DOMAIN w.lists
      /\ here \in DOMAIN read
  <2>1. here \in DOMAIN w.kind
    BY <1>3 DEF FrameOK
  <2>2. here # Empty
    BY <2>1, WorldIs
  <2>3. here \notin DOMAIN w.lists
    BY <2>2, RootsAre DEF RootOf
  <2> QED BY <1>3, <2>1, <2>2, <2>3 DEF FrameOK
<1>5. /\ Collected(w, read, l.part, here, DOMAIN read, base)
      /\ DOMAIN read \subseteq Closure(w.lists, read, {here})
  BY <1>3 DEF FrameOK
<1>6. /\ l.visited = DOMAIN gread \cup DOMAIN lread
      /\ l.visited \cap DOMAIN w.lists = {}
      /\ DOMAIN read \subseteq l.visited
      /\ l.part \in Parts
  BY <1>1 DEF Visits, Loading, Shape, Parts
<1>7. \A s \in DOMAIN read : \A x \in ImportedBy(w.lists, read, s) :
        x \in l.visited \/ (x \in DOMAIN w.lists /\ Range(w.lists[x]) \subseteq l.visited)
  <2>1. \A s, x : ~ToTake(w, l, s, x)
    BY <1>2 DEF ToTake
  <2> QED BY <1>1, <2>1 DEF Walk, Covered
<1>8. Closure(w.lists, read, {here}) \ DOMAIN w.lists \subseteq l.visited
  <2> HIDE DEF l, here, read
  <2> QED BY <1>4, <1>6, <1>7, AllReached
<1>9. CASE ~Builds(base)
  <2>1. proc'[p] = [l EXCEPT !.pc = "error"]
    BY <1>2, <1>9 DEF Build, End, Only, Become, Top
  <2>2. LoaderOK(w, root, [l EXCEPT !.pc = "error"])
    BY OverOK DEF Over
  <2> QED BY <2>1, <2>2
<1>10. CASE Builds(base)
  <2>1. proc'[p] = m
    BY <1>2, <1>10 DEF Build, Only, Become, Top
  <2>2. /\ m.pc = next /\ m.want = l.want /\ m.via = l.via /\ m.body = l.body /\ m.at = l.at /\ m.stack = <<>>
        /\ m.visited = l.visited /\ m.part = "local" /\ m.dst = dst /\ m.read = l.read
        /\ m = [f \in Fields |-> m[f]]
    <3>1. l = [f \in Fields |-> l[f]]
      BY <1>1 DEF Shape
    <3> HIDE DEF l, dst, next
    <3> QED BY <3>1 DEF Fields
  <2> HIDE DEF m
  <2>3. next \in {"start", "ok", "error"}
    OBVIOUS
  <2>4. m.stack \in Seq(Range(m.stack))
    BY <2>2
  <2>5. Shape(w, m)
    <3> HIDE DEF next
    <3> QED BY <1>1, <2>2, <2>3, <2>4 DEF Shape, Over, Parts
  <2>6. Knows(w, m)
    <3> HIDE DEF next
    <3> QED BY <2>2, <2>3 DEF Knows, Loading
  <2>7. /\ DOMAIN dst = DOMAIN l.dst \cup DOMAIN base
        /\ \A n \in DOMAIN base : n \notin DOMAIN l.dst => dst[n] = base[n]
    BY DEF merge
  <2>8. CASE l.part = "global"
    <3>1. m.pc = "start" /\ DOMAIN lread = {} /\ DOMAIN l.dst = {} /\ read = gread /\ here = w.global
      BY <1>1, <2>2, <2>8 DEF Visits, RootOf
    <3> HIDE DEF dst
    <3>2. Collected(w, gread, "global", w.global, DOMAIN gread, dst)
      <4>1. DOMAIN dst = DOMAIN base /\ \A n \in DOMAIN base : dst[n] = base[n]
        BY <2>7, <3>1
      <4>2. Collected(w, gread, "global", w.global, DOMAIN gread, base)
        BY <1>5, <2>8, <3>1
      <4> HIDE DEF base
      <4> QED BY <4>1, <4>2 DEF Collected
    <3>3. Closure(w.lists, gread, {w.global} \ {Empty}) \ DOMAIN w.lists = DOMAIN gread
      <4>1. {w.global} \ {Empty} = {w.global}
        BY <1>4, <3>1
      <4>2. Closure(w.lists, gread, {w.global}) \ DOMAIN w.lists \subseteq DOMAIN gread
        BY <1>6, <1>8, <3>1
      <4>3. DOMAIN gread \subseteq Closure(w.lists, gread, {w.global}) \ DOMAIN w.lists
        BY <1>5, <1>6, <3>1
      <4> QED BY <4>1, <4>2, <4>3
    <3>4. GlobalDone(w, m)
      BY <2>2, <3>2, <3>3 DEF GlobalDone
    <3>5. Visits(w, root, m)
      BY <1>1, <1>6, <2>2, <3>1 DEF Visits, Loading
    <3> QED BY <2>1, <2>5, <2>6, <3>1, <3>4, <3>5 DEF LoaderOK
  <2>9. CASE l.part = "local" /\ next = "error"
    <3>1. m.pc = "error"
      BY <2>2, <2>9
    <3> QED BY <2>1, <2>5, <2>6, <3>1 DEF LoaderOK, Loading
  <2>10. CASE l.part = "local" /\ next = "ok"
    <3> DEFINE gdocs  == Closure(w.lists, gread, {w.global} \ {Empty})
               cl     == Closure(w.lists, lread, {root})
               ldocs  == (cl \ gdocs) \cup {root}
               global == Merged(gread, gdocs, w.global)
               local  == Merged(lread, ldocs, root)
    <3>1. read = lread /\ here = root /\ m.pc = "ok"
      BY <2>2, <2>10 DEF RootOf
    <3>2. gdocs \ DOMAIN w.lists = DOMAIN gread /\ Collected(w, gread, "global", w.global, DOMAIN gread, l.dst)
      BY <1>1, <2>10 DEF GlobalDone
    <3>3. /\ cl \ DOMAIN w.lists \subseteq DOMAIN gread \cup DOMAIN lread
          /\ DOMAIN lread \subseteq cl
          /\ root \in DOMAIN lread
          /\ Collected(w, lread, "local", root, DOMAIN lread, base)
      BY <1>4, <1>5, <1>6, <1>8, <2>10, <3>1
    <3>4. DOMAIN gread \cap DOMAIN lread \subseteq {root}
      BY <1>1 DEF Visits
    <3>5. /\ DOMAIN gread \cap DOMAIN w.lists = {}
          /\ DOMAIN lread \cap DOMAIN w.lists = {}
      BY <1>6
    <3> HIDE DEF cl, gdocs, dst, base
    <3>6. ldocs \ DOMAIN w.lists = DOMAIN lread
      BY <3>2, <3>3, <3>4, <3>5
    <3>7. gdocs \cap DOMAIN gread = DOMAIN gread \cap DOMAIN gread
      BY <3>2
    <3>8. ldocs \cap DOMAIN lread = DOMAIN lread \cap DOMAIN lread
      BY <3>6
    <3> HIDE DEF ldocs
    <3>9. /\ global = Merged(gread, DOMAIN gread, w.global)
          /\ Once(gread, gdocs)
      <4>1. Once(gread, DOMAIN gread)
        BY <3>2 DEF Collected
      <4>2. /\ Merged(gread, DOMAIN gread, w.global) = Merged(gread, gdocs, w.global)
            /\ Once(gread, DOMAIN gread) => Once(gread, gdocs)
        <5>1. DOMAIN gread \cap DOMAIN gread = gdocs \cap DOMAIN gread
          BY <3>7
        <5> HIDE DEF gread
        <5> QED BY <5>1, MergedOf
      <4> QED BY <4>1, <4>2
    <3>10. /\ local = Merged(lread, DOMAIN lread, root)
           /\ Once(lread, ldocs)
      BY <3>3, <3>8, MergedOf DEF Collected
    <3>11. DOMAIN l.dst = global /\ DOMAIN base = local
      BY <3>2, <3>3, <3>9, <3>10 DEF Collected
    <3> HIDE DEF global, local
    <3>12. ASSUME NEW n \in DOMAIN dst
           PROVE  /\ dst[n].part = "global" <=> n \in global
                  /\ Origin(w, l.read[dst[n].part], IF dst[n].part = "global" THEN w.global ELSE root, n, dst[n])
      <4>1. CASE n \in DOMAIN l.dst
        <5>1. /\ l.dst[n] = [needs |-> l.dst[n].needs, source |-> l.dst[n].source, part |-> "global"]
              /\ Origin(w, gread, w.global, n, l.dst[n])
          BY <3>2, <4>1 DEF Collected
        <5>2. dst[n] = l.dst[n] \/ dst[n] = [l.dst[n] EXCEPT !.needs = base[n].needs]
          BY <2>7, <4>1 DEF merge, dst
        <5>3. dst[n].part = "global" /\ dst[n].source = l.dst[n].source
          BY <5>1, <5>2
        <5>4. Origin(w, gread, w.global, n, dst[n])
          BY <5>1, <5>3 DEF Origin
        <5> QED BY <3>11, <4>1, <5>3, <5>4
      <4>2. CASE n \in DOMAIN base /\ n \notin DOMAIN l.dst
        <5>1. /\ base[n] = [needs |-> base[n].needs, source |-> base[n].source, part |-> "local"]
              /\ Origin(w, lread, root, n, base[n])
          BY <3>3, <4>2 DEF Collected
        <5>2. dst[n] = base[n] /\ base[n].part = "local"
          BY <2>7, <4>2, <5>1
        <5> QED BY <3>11, <4>2, <5>1, <5>2
      <4> QED BY <2>7, <4>1, <4>2
    <3>13. Loaded(w, root, m)
      BY <1>6, <2>2, <2>7, <3>2, <3>6, <3>9, <3>10, <3>11, <3>12 DEF Loaded, gdocs, cl, ldocs, global, local
    <3> QED BY <2>1, <2>5, <2>6, <3>1, <3>13 DEF LoaderOK, Loading
  <2> QED BY <1>6, <2>3, <2>8, <2>9, <2>10 DEF Parts
<1> QED BY <1>9, <1>10

-----------------------------------------------------------------------------
(***************************************************************************)
(* What is read, fetched and written.                                      *)
(***************************************************************************)
\* The versions of a document are texts, and what is cut off or put together
\* from texts is one.  No file is none of them.
LEMMA TextIs ==
  ASSUME NEW w, IsWorld(w)
  PROVE  /\ \A s \in DOMAIN w.docs : \A v \in DOMAIN w.docs[s] : w.docs[s][v] \in Text(w)
         /\ \A s \in DOMAIN w.docs : \A doc \in Range(w.docs[s]) : doc \in Text(w)
         /\ None \notin Text(w)
         /\ <<>> \in Text(w)
<1>1. ASSUME NEW s \in DOMAIN w.docs, NEW v \in DOMAIN w.docs[s] PROVE w.docs[s][v] \in Text(w)
  <2>1. w.docs[s] \in Seq(Seq(Lines(w)))
    BY DEF IsWorld
  <2>2. w.docs[s][v] \in Seq(Lines(w))
    BY <2>1
  <2> QED BY <2>2 DEF Text
<1>2. None \notin Text(w)
  BY DEF IsWorld, Text
<1> QED BY <1>1, <1>2 DEF Range, Text

\* A line of a text goes into a file at an offset.
LEMMA WriteAtIs ==
  ASSUME NEW w, NEW file \in Text(w), NEW at \in Nat, NEW body \in Text(w), at < Len(body)
  PROVE  /\ WriteAt(file, at, body[at + 1]) \in Text(w)
         /\ file = Prefix(body, at) => WriteAt(file, at, body[at + 1]) = Prefix(body, at + 1)
<1> DEFINE L == Lines(w) \cup {Garbage}
           line == body[at + 1]
           n == IF Len(file) > at THEN Len(file) ELSE at + 1
<1>1. file \in Seq(L) /\ body \in Seq(L) /\ Garbage \in L
  BY DEF Text
<1> HIDE DEF L
<1>2. line \in L
  BY <1>1
<1>3. n \in Nat
  BY <1>1
<1>4. \A i \in 1 .. n : (IF i = at + 1 THEN line ELSE IF i <= Len(file) THEN file[i] ELSE Garbage) \in L
  BY <1>1, <1>2
<1>5. [i \in 1 .. n |-> IF i = at + 1 THEN line ELSE IF i <= Len(file) THEN file[i] ELSE Garbage] \in Seq(L)
  <2> HIDE DEF n, line
  <2> QED BY <1>3, <1>4
<1>6. WriteAt(file, at, line) \in Text(w)
  BY <1>5 DEF WriteAt, Text, L
<1>7. ASSUME file = Prefix(body, at) PROVE WriteAt(file, at, line) = Prefix(body, at + 1)
  <2>1. DOMAIN file = 1 .. at /\ \A i \in 1 .. at : file[i] = body[i]
    BY <1>7 DEF Prefix
  <2>2. Len(file) = at
    BY <1>1, <2>1
  <2>3. n = at + 1
    BY <2>2
  <2> QED BY <2>1, <2>2, <2>3 DEF WriteAt, Prefix
<1> QED BY <1>6, <1>7

\* A whole text has all its lines, and none of them at first.
LEMMA PrefixIs ==
  ASSUME NEW w, NEW body \in Text(w)
  PROVE  Prefix(body, Len(body)) = body /\ Prefix(body, 0) = <<>>
BY DEF Prefix, Text

\* A git source names a commit of its repository, or none.
LEMMA CommitIs ==
  ASSUME NEW env, NEW src
  PROVE  CommitOf(env, src) \in {0} \cup Commits(src.repo)
<1> DEFINE repo == src.repo
           ref  == src.ref
<1>1. \A names \in {repo.hashes, repo.tags, repo.heads, repo.remotes} :
        Resolve(names, ref) \in {0} \cup Commits(repo)
  BY DEF Resolve, Commits, Range
<1>2. getCommit(repo, ref) \in {0} \cup Commits(repo)
  <2>1. repo.head \in Commits(repo)
    BY DEF Commits
  <2> QED BY <1>1, <2>1 DEF getCommit, ResolveRevision, Or
<1> QED BY <1>2 DEF CommitOf

\* What is used of the invariant of types.
LEMMA TypesIs ==
  ASSUME TypeInv
  PROVE  /\ IsWorld(world)
         /\ proc = [p \in Processes |-> proc[p]]
         /\ DOMAIN cache = {s \in DOMAIN world.kind : Remote(s)}
         /\ \A s \in DOMAIN world.docs : version[s] \in DOMAIN world.docs[s]
BY WorldAssumption DEF TypeInv

-----------------------------------------------------------------------------
(***************************************************************************)
(* One import is loaded: each thing that a loader does to it.              *)
(***************************************************************************)
\* A step of loading changes what is known of the import and nothing else.
Moved(l, m, pc, via, body, at) ==
  /\ m = [f \in Fields |-> m[f]]
  /\ m.want = l.want /\ m.stack = l.stack /\ m.visited = l.visited /\ m.part = l.part
  /\ m.dst = l.dst /\ m.read = l.read
  /\ m.pc = pc /\ m.via = via /\ m.body = body /\ m.at = at

\* A step of loading keeps what is said of the loader.
LEMMA MoveOK ==
  ASSUME NEW w, NEW root, NEW l, LoaderOK(w, root, l), l.pc \in Loading,
         NEW m, NEW pc \in Loading, NEW via, NEW body \in Text(w), NEW at \in Nat,
         Moved(l, m, pc, via, body, at), Knows(w, m)
  PROVE  LoaderOK(w, root, m)
<1>1. Shape(w, m)
  BY DEF Shape, LoaderOK, Moved
<1> QED BY <1>1, QuietOK DEF Moved

\* The fields of a loader that moves.
LEMMA MoveIs ==
  ASSUME NEW l, l = [f \in Fields |-> l[f]], NEW pc, NEW via, NEW body, NEW at
  PROVE  /\ Moved(l, [l EXCEPT !.pc = pc], pc, l.via, l.body, l.at)
         /\ Moved(l, [l EXCEPT !.pc = pc, !.body = body], pc, l.via, body, l.at)
         /\ Moved(l, [l EXCEPT !.pc = pc, !.at = at], pc, l.via, l.body, at)
         /\ Moved(l, [l EXCEPT !.pc = pc, !.via = via], pc, via, l.body, l.at)
         /\ Moved(l, [l EXCEPT !.pc = pc, !.via = via, !.body = body], pc, via, body, l.at)
         /\ Moved(l, [l EXCEPT !.at = at], l.pc, l.via, l.body, at)
BY DEF Fields, Moved

\* A step of one loader.
LEMMA BecomeIs ==
  ASSUME proc = [q \in Processes |-> proc[q]], NEW p \in Processes, NEW l, Become(p, l)
  PROVE  /\ proc'[p] = l
         /\ \A q \in Processes : q # p => proc'[q] = proc[q]
         /\ proc' = [q \in Processes |-> proc'[q]]
BY DEF Become

\* So does the end of a load, in whatever way it fails.
LEMMA EndOK ==
  ASSUME NEW p \in Processes, proc = [q \in Processes |-> proc[q]], NEW root, LoaderOK(world, root, proc[p]),
         NEW how \in Over, Become(p, [proc[p] EXCEPT !.pc = how])
  PROVE  LoaderOK(world, root, proc'[p])
BY BecomeIs, OverOK

\* A file is read, or an import that is to be written is taken from it.
LEMMA ReadFileOK ==
  ASSUME TypeInv, NEW p \in Processes, NEW root, LoaderOK(world, root, proc[p]), ReadFile(p)
  PROVE  LoaderOK(world, root, proc'[p])
<1> DEFINE l   == proc[p]
           e   == l.want
           doc == world.docs[e.src][version[e.src]]
           m   == [l EXCEPT !.pc = "dest", !.via = "disk", !.body = doc]
<1>1. LoaderOK(world, root, l) /\ l.pc = "load" /\ l.pc \in Loading /\ Shape(world, l) /\ Knows(world, l) /\ IsWorld(world)
      /\ proc = [q \in Processes |-> proc[q]]
  BY TypesIs DEF ReadFile, LoaderOK, Loading
<1>2. CASE End(p, "error")
  BY <1>1, <1>2, EndOK DEF End, Only, Over
<1>3. ASSUME e.src \in DOMAIN world.docs PROVE doc \in Text(world)
  BY <1>1, <1>3, TypesIs, TextIs
<1>4. CASE e.src \in DOMAIN world.docs /\ IsFileImport(e) /\ HashFits(e, doc) /\ Become(p, m)
  <2>1. proc'[p] = m
    BY ZenonT(30), <1>1, <1>4, BecomeIs
  <2>2. Moved(l, m, "dest", "disk", doc, l.at)
    <3>1. l = [f \in Fields |-> l[f]]
      BY <1>1 DEF Shape
    <3> HIDE DEF l, doc
    <3> QED BY Zenon, <3>1, MoveIs
  <2> HIDE DEF m
  <2>3. Knows(world, m)
    BY ZenonT(30), <1>1, <1>4, <2>2 DEF Moved, Knows, Loading, IsFileImport, HashFits
  <2>4. doc \in Text(world) /\ l.at \in Nat /\ "dest" \in Loading
    BY Zenon, <1>1, <1>3, <1>4 DEF Shape, Loading
  <2> HIDE DEF l, doc
  <2> QED BY <1>1, <2>1, <2>2, <2>3, <2>4, MoveOK
<1>5. CASE e.src \in DOMAIN world.docs /\ Become(p, Enter(p, doc))
  <2>1. proc'[p] = Enter(p, doc)
    BY <1>1, <1>5, BecomeIs
  <2>2. LoaderOK(world, root, Enter(p, doc))
    BY <1>1, <1>3, <1>5, EnterOK
  <2> QED BY <2>1, <2>2
<1> QED BY <1>2, <1>4, <1>5 DEF ReadFile, Only

\* A remote import is taken from the cache, or it has to be fetched (Cache.Get).
LEMMA CacheGetOK ==
  ASSUME TypeInv, NEW p \in Processes, NEW root, LoaderOK(world, root, proc[p]), CacheGet(p)
  PROVE  LoaderOK(world, root, proc'[p])
<1> DEFINE l   == proc[p]
           e   == l.want
           hit == cache[e.src]
           m   == [l EXCEPT !.pc = "dest", !.via = "cache", !.body = hit]
           n   == [l EXCEPT !.pc = "fetch"]
<1>1. LoaderOK(world, root, l) /\ l.pc = "load" /\ l.pc \in Loading /\ Shape(world, l) /\ Knows(world, l) /\ IsWorld(world)
      /\ proc = [q \in Processes |-> proc[q]] /\ l = [f \in Fields |-> l[f]]
  BY TypesIs DEF CacheGet, LoaderOK, Loading, Shape
<1>2. e.src \in DOMAIN world.kind \ DOMAIN world.lists /\ world.kind[e.src] \in {"url", "git"}
  BY <1>1 DEF CacheGet, Remote, Knows
<1>3. hit # None => hit \in Text(world)
  BY <1>2, TypesIs DEF TypeInv, Remote
<1>4. CASE Become(p, n)
  <2>1. proc'[p] = n
    BY <1>1, <1>4, BecomeIs
  <2>2. Moved(l, n, "fetch", l.via, l.body, l.at)
    <3> HIDE DEF l
    <3> QED BY Zenon, <1>1, MoveIs
  <2> HIDE DEF n
  <2>3. Knows(world, n)
    BY <1>2, <2>2 DEF Moved, Knows, Loading
  <2>4. l.body \in Text(world) /\ l.at \in Nat /\ "fetch" \in Loading
    BY <1>1 DEF Shape, Loading
  <2> HIDE DEF l, hit
  <2> QED BY <1>1, <2>1, <2>2, <2>3, <2>4, MoveOK
<1>5. CASE hit # None /\ CacheServes(e, hit) /\ IsFileImport(e) /\ Become(p, m)
  <2>1. proc'[p] = m
    BY <1>1, <1>5, BecomeIs
  <2>2. Moved(l, m, "dest", "cache", hit, l.at)
    <3> HIDE DEF l, hit
    <3> QED BY Zenon, <1>1, MoveIs
  <2> HIDE DEF m
  <2>3. Knows(world, m)
    BY <1>2, <1>5, <2>2 DEF Moved, Knows, Loading, IsFileImport, HashFits, CacheServes
  <2>4. hit \in Text(world) /\ l.at \in Nat /\ "dest" \in Loading
    BY <1>1, <1>3, <1>5 DEF Shape, Loading
  <2> HIDE DEF l, hit
  <2> QED BY <1>1, <2>1, <2>2, <2>3, <2>4, MoveOK
<1>6. CASE hit # None /\ Become(p, Enter(p, hit))
  <2>1. proc'[p] = Enter(p, hit)
    BY <1>1, <1>6, BecomeIs
  <2>2. LoaderOK(world, root, Enter(p, hit))
    BY <1>1, <1>3, <1>6, EnterOK
  <2> QED BY <2>1, <2>2
<1> QED BY <1>4, <1>5, <1>6 DEF CacheGet, Only, End

\* One step of loading an import.
LEMMA LoadMove ==
  ASSUME IsWorld(world), NEW p \in Processes, proc = [q \in Processes |-> proc[q]],
         NEW root, NEW l, l = proc[p], LoaderOK(world, root, l), l.pc \in Loading,
         NEW m, Become(p, m),
         NEW pc \in Loading, NEW via, NEW body \in Text(world), NEW at \in Nat,
         Moved(l, m, pc, via, body, at), Knows(world, m)
  PROVE  LoaderOK(world, root, proc'[p])
<1>1. proc'[p] = m
  BY BecomeIs
<1> QED BY <1>1, MoveOK

\* What is known of a loader that loads an import.
LEMMA LoadIs ==
  ASSUME TypeInv, NEW p \in Processes, NEW root, LoaderOK(world, root, proc[p]), proc[p].pc \in Loading
  PROVE  LET l == proc[p] IN
         /\ IsWorld(world) /\ proc = [q \in Processes |-> proc[q]]
         /\ l = [f \in Fields |-> l[f]]
         /\ Knows(world, l) /\ l.body \in Text(world) /\ l.at \in Nat
         /\ l.want.src \in DOMAIN world.kind \ DOMAIN world.lists
BY Zenon, TypesIs DEF LoaderOK, Shape, Knows

\* The remote side answers or fails.
LEMMA FetchOK ==
  ASSUME TypeInv, NEW p \in Processes, NEW root, LoaderOK(world, root, proc[p]), Fetch(p) \/ FetchFails(p)
  PROVE  LoaderOK(world, root, proc'[p])
<1> DEFINE l   == proc[p]
           src == l.want.src
           doc == world.docs[src][Published(src)]
           m   == [l EXCEPT !.pc = "store", !.body = doc]
<1>1. /\ LoaderOK(world, root, l) /\ l.pc = "fetch" /\ l.pc \in Loading
      /\ IsWorld(world) /\ proc = [q \in Processes |-> proc[q]] /\ l = [f \in Fields |-> l[f]]
      /\ Knows(world, l) /\ l.at \in Nat /\ src \in DOMAIN world.kind \ DOMAIN world.lists
  BY LoadIs DEF Fetch, FetchFails, Loading
<1>2. CASE Become(p, [l EXCEPT !.pc = "error"])
  BY <1>1, <1>2, EndOK DEF Over
<1>3. CASE src \in DOMAIN world.docs /\ Published(src) # 0 /\ Become(p, m)
  <2>1. world.kind[src] \in {"url", "git"}
    BY <1>1 DEF Knows
  <2>2. world.kind[src] = "git" => Published(src) = CommitOf(world.ssh, world.git[src])
    BY Zenon, <1>1, <1>3 DEF Published, TypeInv, IsWorld
  <2>3. Published(src) \in DOMAIN world.docs[src]
    <3>1. CASE world.kind[src] = "git"
      <4>1. Published(src) \in Commits(world.git[src].repo)
        BY <1>3, <2>2, <3>1, CommitIs
      <4> QED BY <1>1, <1>3, <3>1, <4>1 DEF IsWorld
    <3>2. CASE world.kind[src] # "git"
      BY <1>3, <3>2, TypesIs DEF Published
    <3> QED BY <3>1, <3>2
  <2>4. doc \in Text(world) /\ doc \in Range(world.docs[src])
    BY <1>1, <1>3, <2>3, TextIs DEF Range
  <2>5. Moved(l, m, "store", l.via, doc, l.at)
    <3> HIDE DEF l, doc
    <3> QED BY ZenonT(30), <1>1, MoveIs
  <2> HIDE DEF m
  <2>6. Knows(world, m)
    <3>1. m.want = l.want /\ m.pc = "store" /\ m.body = doc
      BY <2>5 DEF Moved
    <3>2. world.kind[src] = "git" => CommitOf(world.ssh, world.git[src]) # 0
                                     /\ doc = world.docs[src][CommitOf(world.ssh, world.git[src])]
      BY <1>3, <2>2
    <3> HIDE DEF doc
    <3> QED BY Zenon, <1>1, <1>3, <2>1, <2>4, <3>1, <3>2 DEF Knows
  <2>7. "store" \in Loading
    BY DEF Loading
  <2> HIDE DEF l, doc
  <2> QED BY <1>1, <1>3, <2>4, <2>5, <2>6, <2>7, LoadMove DEF l
<1> QED BY <1>2, <1>3 DEF Fetch, FetchFails, Only, End

\* The cache file is created, or it cannot be (createCacheWriter).
LEMMA StoreOK ==
  ASSUME TypeInv, NEW p \in Processes, NEW root, LoaderOK(world, root, proc[p]), Store(p) \/ StoreFails(p)
  PROVE  LoaderOK(world, root, proc'[p])
<1> DEFINE l == proc[p]
           m == [l EXCEPT !.pc = "copy", !.at = 0]
           n == [l EXCEPT !.pc = "use", !.body = <<>>]
<1>1. /\ LoaderOK(world, root, l) /\ l.pc = "store" /\ l.pc \in Loading
      /\ IsWorld(world) /\ proc = [q \in Processes |-> proc[q]] /\ l = [f \in Fields |-> l[f]]
      /\ Knows(world, l) /\ l.body \in Text(world) /\ l.at \in Nat
      /\ "copy" \in Loading /\ "use" \in Loading /\ <<>> \in Text(world)
  BY LoadIs, TextIs DEF Store, StoreFails, Loading
<1>2. CASE Become(p, m)
  <2>1. Moved(l, m, "copy", l.via, l.body, 0)
    <3> HIDE DEF l
    <3> QED BY Zenon, <1>1, MoveIs
  <2> HIDE DEF m
  <2>2. Len(l.body) \in Nat
    BY <1>1 DEF Text
  <2>3. Knows(world, m)
    BY <1>1, <2>1, <2>2 DEF Moved, Knows
  <2> HIDE DEF l
  <2> QED BY <1>1, <1>2, <2>1, <2>3, LoadMove DEF l
<1>3. CASE Become(p, n)
  <2>1. Moved(l, n, "use", l.via, <<>>, l.at)
    <3> HIDE DEF l
    <3> QED BY Zenon, <1>1, MoveIs
  <2> HIDE DEF n
  <2>2. Knows(world, n)
    BY <1>1, <2>1 DEF Moved, Knows
  <2> HIDE DEF l
  <2> QED BY <1>1, <1>3, <2>1, <2>2, LoadMove DEF l
<1> QED BY <1>2, <1>3 DEF Store, StoreFails

\* The document is copied to the cache file, a line at a time.
LEMMA CopyOK ==
  ASSUME TypeInv, NEW p \in Processes, NEW root, LoaderOK(world, root, proc[p]), Copy(p) \/ CopyFails(p)
  PROVE  LoaderOK(world, root, proc'[p])
<1> DEFINE l    == proc[p]
           m    == [l EXCEPT !.at = l.at + 1]
           n    == [l EXCEPT !.pc = "use"]
           part == SubSeq(l.body, 1, l.at + 1)
           k    == [l EXCEPT !.pc = "use", !.body = part]
<1>1. /\ LoaderOK(world, root, l) /\ l.pc = "copy" /\ l.pc \in Loading
      /\ IsWorld(world) /\ proc = [q \in Processes |-> proc[q]] /\ l = [f \in Fields |-> l[f]]
      /\ Knows(world, l) /\ l.body \in Text(world) /\ l.at \in Nat /\ l.at + 1 \in Nat
      /\ "copy" \in Loading /\ "use" \in Loading
  <2>1. LoaderOK(world, root, l) /\ l.pc = "copy" /\ l.pc \in Loading /\ "copy" \in Loading /\ "use" \in Loading
    BY DEF Copy, CopyFails, Loading
  <2>2. /\ IsWorld(world) /\ proc = [q \in Processes |-> proc[q]] /\ l = [f \in Fields |-> l[f]]
        /\ Knows(world, l) /\ l.body \in Text(world) /\ l.at \in Nat
    BY <2>1, LoadIs
  <2>3. \A i \in Nat : i + 1 \in Nat
    OBVIOUS
  <2> HIDE DEF l
  <2> QED BY <2>1, <2>2, <2>3
<1>2. CASE l.at < Len(l.body) /\ Become(p, m)
  <2>1. Moved(l, m, "copy", l.via, l.body, l.at + 1)
    <3> HIDE DEF l
    <3> QED BY Zenon, <1>1, MoveIs
  <2> HIDE DEF m
  <2>2. l.at + 1 <= Len(l.body)
    BY <1>1, <1>2 DEF Text
  <2>3. Knows(world, m)
    BY <1>1, <2>1, <2>2 DEF Moved, Knows
  <2> HIDE DEF l
  <2> QED BY <1>1, <1>2, <2>1, <2>3, LoadMove DEF l
<1>3. CASE Become(p, n)
  <2>1. Moved(l, n, "use", l.via, l.body, l.at)
    <3> HIDE DEF l
    <3> QED BY Zenon, <1>1, MoveIs
  <2> HIDE DEF n
  <2>2. Knows(world, n)
    BY <1>1, <2>1 DEF Moved, Knows
  <2> HIDE DEF l
  <2> QED BY <1>1, <1>3, <2>1, <2>2, LoadMove DEF l
<1>4. CASE l.at < Len(l.body) /\ Become(p, k)
  <2>1. part \in Text(world)
    <3> HIDE DEF l
    <3> QED BY <1>1, <1>4 DEF Text
  <2>2. Moved(l, k, "use", l.via, part, l.at)
    <3> HIDE DEF l, part
    <3> QED BY Zenon, <1>1, MoveIs
  <2> HIDE DEF k
  <2>3. Knows(world, k)
    BY <1>1, <2>2 DEF Moved, Knows
  <2> HIDE DEF l, part
  <2> QED BY <1>1, <1>4, <2>1, <2>2, <2>3, LoadMove DEF l
<1> QED BY <1>2, <1>3, <1>4 DEF Copy, CopyFails

\* What was stored is parsed, or it is written.
LEMMA UseOK ==
  ASSUME TypeInv, NEW p \in Processes, NEW root, LoaderOK(world, root, proc[p]), Use(p)
  PROVE  LoaderOK(world, root, proc'[p])
<1> DEFINE l == proc[p]
           e == l.want
           m == [l EXCEPT !.pc = "dest", !.via = "remote"]
<1>1. /\ LoaderOK(world, root, l) /\ l.pc = "use" /\ l.pc \in Loading /\ "dest" \in Loading
      /\ IsWorld(world) /\ proc = [q \in Processes |-> proc[q]] /\ l = [f \in Fields |-> l[f]]
      /\ Knows(world, l) /\ l.body \in Text(world) /\ l.at \in Nat
      /\ e.src \in DOMAIN world.kind \ DOMAIN world.lists
  BY LoadIs DEF Use, Loading
<1>2. CASE Become(p, [l EXCEPT !.pc = "error"])
  BY Zenon, <1>1, <1>2, EndOK DEF Over
<1>3. CASE IsFileImport(e) /\ HashFits(e, l.body) /\ Become(p, m)
  <2>1. Moved(l, m, "dest", "remote", l.body, l.at)
    <3> HIDE DEF l
    <3> QED BY Zenon, <1>1, MoveIs
  <2> HIDE DEF m
  <2>2. Knows(world, m)
    BY <1>1, <1>3, <2>1 DEF Moved, Knows, IsFileImport, HashFits
  <2> HIDE DEF l
  <2> QED BY <1>1, <1>3, <2>1, <2>2, LoadMove DEF l
<1>4. CASE Become(p, Enter(p, l.body))
  <2>1. proc'[p] = Enter(p, l.body)
    BY <1>1, <1>4, BecomeIs
  <2>2. LoaderOK(world, root, Enter(p, l.body))
    BY <1>1, EnterOK
  <2> QED BY <2>1, <2>2
<1> QED BY <1>2, <1>3, <1>4 DEF Use, Only, End

\* A file is created for the import, or an error is taken for a miss
\* (storeImportedFile).
LEMMA DestOK ==
  ASSUME TypeInv, NEW p \in Processes, NEW root, LoaderOK(world, root, proc[p]),
         StoreImportedFile(p) \/ WriteFails(p)
  PROVE  LoaderOK(world, root, proc'[p])
<1> DEFINE l == proc[p]
           m == [l EXCEPT !.pc = "write", !.at = 0]
           n == [l EXCEPT !.pc = "fetch"]
<1>1. /\ LoaderOK(world, root, l) /\ l.pc \in {"dest", "write"} /\ l.pc \in Loading
      /\ "write" \in Loading /\ "fetch" \in Loading
      /\ IsWorld(world) /\ proc = [q \in Processes |-> proc[q]] /\ l = [f \in Fields |-> l[f]]
      /\ Knows(world, l) /\ l.body \in Text(world) /\ l.at \in Nat /\ 0 \in Nat
      /\ l.want.src \in DOMAIN world.kind \ DOMAIN world.lists
  BY LoadIs DEF StoreImportedFile, WriteFails, Loading
<1>2. CASE Become(p, [l EXCEPT !.pc = "error"])
  BY <1>1, <1>2, EndOK DEF Over
<1>3. CASE l.via = "cache" /\ Become(p, n)
  <2>1. Moved(l, n, "fetch", l.via, l.body, l.at)
    <3> HIDE DEF l
    <3> QED BY Zenon, <1>1, MoveIs
  <2> HIDE DEF n
  <2>2. Knows(world, n)
    BY <1>1, <1>3, <2>1 DEF Moved, Knows
  <2> HIDE DEF l
  <2> QED BY <1>1, <1>3, <2>1, <2>2, LoadMove DEF l
<1>4. CASE l.pc = "dest" /\ l.want.dest \in world.dests /\ Become(p, m)
  <2>1. Moved(l, m, "write", l.via, l.body, 0)
    <3> HIDE DEF l
    <3> QED BY Zenon, <1>1, MoveIs
  <2> HIDE DEF m
  <2>2. Len(l.body) \in Nat
    BY <1>1 DEF Text
  <2>3. Knows(world, m)
    BY <1>1, <1>4, <2>1, <2>2 DEF Moved, Knows
  <2> HIDE DEF l
  <2> QED BY <1>1, <1>4, <2>1, <2>3, LoadMove DEF l
<1> QED BY <1>2, <1>3, <1>4 DEF StoreImportedFile, WriteFails, DestError, End, Only

\* The content is copied to the file, a line at a time.
LEMMA WriteOK ==
  ASSUME TypeInv, NEW p \in Processes, NEW root, LoaderOK(world, root, proc[p]), Write(p)
  PROVE  LoaderOK(world, root, proc'[p])
<1> DEFINE l == proc[p]
           m == [l EXCEPT !.at = l.at + 1]
<1>1. /\ LoaderOK(world, root, l) /\ l.pc = "write" /\ l.pc \in Loading
      /\ IsWorld(world) /\ proc = [q \in Processes |-> proc[q]] /\ l = [f \in Fields |-> l[f]]
      /\ Knows(world, l) /\ l.body \in Text(world) /\ l.at \in Nat /\ <<>> \in Text(world)
  BY LoadIs, TextIs DEF Write, Loading
<1>2. CASE l.at < Len(l.body) /\ Become(p, m)
  <2>1. Moved(l, m, "write", l.via, l.body, l.at + 1)
    <3> HIDE DEF l
    <3> QED BY Zenon, <1>1, MoveIs
  <2> HIDE DEF m
  <2>2. l.at + 1 <= Len(l.body) /\ l.at + 1 \in Nat
    <3> HIDE DEF l
    <3> QED BY <1>1, <1>2 DEF Text
  <2>3. Knows(world, m)
    BY <1>1, <2>1, <2>2 DEF Moved, Knows
  <2>4. "write" \in Loading
    BY DEF Loading
  <2> HIDE DEF l
  <2> QED BY <1>1, <1>2, <2>1, <2>2, <2>3, <2>4, LoadMove DEF l
<1>3. CASE Become(p, Enter(p, <<>>))
  <2>1. proc'[p] = Enter(p, <<>>)
    BY <1>1, <1>3, BecomeIs
  <2>2. LoaderOK(world, root, Enter(p, <<>>))
    BY <1>1, EnterOK
  <2> QED BY <2>1, <2>2
<1> QED BY <1>2, <1>3 DEF Write

\* What every step of a loader does keeps what is known of it.
LEMMA StepOK ==
  ASSUME TypeInv, NEW p \in Processes, LoaderOK(world, ResolveDefaultConfigFile, proc[p]),
         Step(p) \/ FetchFails(p) \/ StoreFails(p) \/ CopyFails(p) \/ WriteFails(p) \/ Kill(p)
  PROVE  /\ LoaderOK(world, ResolveDefaultConfigFile, proc'[p])
         /\ \A q \in Processes : q # p => proc'[q] = proc[q]
         /\ proc' = [q \in Processes |-> proc'[q]]
         /\ world' = world
<1>1. IsWorld(world) /\ proc = [q \in Processes |-> proc[q]]
  BY TypesIs
<1>2. CASE Kill(p)
  <2>1. "killed" \in Over /\ Become(p, [proc[p] EXCEPT !.pc = "killed"])
    BY <1>2 DEF Kill, Over
  <2>2. proc'[p] = [proc[p] EXCEPT !.pc = "killed"]
    BY <1>1, <2>1, BecomeIs
  <2>3. LoaderOK(world, ResolveDefaultConfigFile, proc'[p])
    BY <2>1, <2>2, OverOK
  <2>4. proc' = [proc EXCEPT ![p] = proc'[p]] /\ world' = world
    BY <1>1, <1>2, <2>2 DEF Kill, Become
  <2> QED BY <1>1, <2>3, <2>4
<1>3. ~Kill(p) => LoaderOK(world, ResolveDefaultConfigFile, proc'[p])
  BY <1>1, StartOK, ReadFileOK, CacheGetOK, FetchOK, StoreOK, CopyOK, UseOK, DestOK, WriteOK, TakeOK,
     ReturnOK, BuildOK DEF Step
<1>4. \E l : Become(p, l)
  BY ZenonT(30) DEF Step, Start, ReadFile, CacheGet, Fetch, Store, Copy, Use, StoreImportedFile, Write, ParseImport, Return,
         Build, FetchFails, StoreFails, CopyFails, WriteFails, Kill, Only, End
<1>5. world' = world
  BY Zenon DEF Step, Start, ReadFile, CacheGet, Fetch, Store, Copy, Use, StoreImportedFile, Write, ParseImport, Return,
         Build, FetchFails, StoreFails, CopyFails, WriteFails, Kill, Only, End
<1> QED BY <1>1, <1>2, <1>3, <1>4, <1>5, BecomeIs

\* Where a loader may be after each of its steps, and what it leaves alone.
LEMMA PcIs ==
  ASSUME NEW p \in Processes, proc = [q \in Processes |-> proc[q]], proc[p] = [f \in Fields |-> proc[p][f]]
  PROVE  LET l == proc[p]
             m == proc'[p]
         IN  /\ Start(p) => l.pc = "start" /\ m.pc \in {"load", "error"}
             /\ ReadFile(p) => l.pc = "load" /\ m.pc \in {"error", "dest", "imports"}
             /\ CacheGet(p) => l.pc = "load" /\ m.pc \in {"fetch", "dest", "imports"}
             /\ Fetch(p) => l.pc = "fetch" /\ m.pc \in {"store", "error"}
             /\ FetchFails(p) => l.pc = "fetch" /\ m.pc = "error"
             /\ Store(p) => l.pc = "store" /\ m.pc = "copy"
             /\ StoreFails(p) => l.pc = "store" /\ m.pc = "use"
             /\ Use(p) => l.pc = "use" /\ m.pc \in {"error", "dest", "imports"}
             /\ StoreImportedFile(p) => l.pc = "dest" /\ m.pc \in {"fetch", "error", "write"}
             /\ WriteFails(p) => l.pc \in {"dest", "write"} /\ m.pc \in {"fetch", "error"}
             /\ Write(p) => l.pc = "write" /\ m.pc \in {"write", "imports"}
             /\ ParseImport(p) => l.pc = "imports" /\ m.pc \in {"imports", "error", "load"}
             /\ Return(p) => l.pc = "imports" /\ m.pc \in {"build", "error", "imports"}
             /\ Build(p) => l.pc = "build" /\ m.pc \in {"error", "start", "ok"}
             /\ Copy(p) => l.pc = "copy" /\ m.pc \in {"copy", "use"}
             /\ CopyFails(p) => l.pc = "copy" /\ m.pc = "use"
             /\ Kill(p) => m.pc = "killed"
<1> DEFINE l == proc[p]
           m == proc'[p]
<1>2. \A k : Become(p, k) => m = k
  BY BecomeIs
<1>3. \A doc : Enter(p, doc).pc = "imports"
  BY DEF Enter, Fields
<1>4. \A how : End(p, how) => m.pc = how
  BY <1>2 DEF End, Only, Fields
<1>5. Start(p) => l.pc = "start" /\ m.pc \in {"load", "error"}
  BY <1>2, <1>4 DEF Start, Only, Fields
<1>6. ReadFile(p) => l.pc = "load" /\ m.pc \in {"error", "dest", "imports"}
  BY <1>2, <1>3, <1>4 DEF ReadFile, Only, Fields
<1>7. CacheGet(p) => l.pc = "load" /\ m.pc \in {"fetch", "dest", "imports"}
  BY <1>2, <1>3, <1>4 DEF CacheGet, Only, Fields
<1>8. Fetch(p) => l.pc = "fetch" /\ m.pc \in {"store", "error"}
  BY <1>2, <1>4 DEF Fetch, Only, Fields
<1>9. FetchFails(p) => l.pc = "fetch" /\ m.pc = "error"
  BY <1>2 DEF FetchFails, Fields
<1>10. Store(p) => l.pc = "store" /\ m.pc = "copy"
  BY <1>2 DEF Store, Fields
<1>11. StoreFails(p) => l.pc = "store" /\ m.pc = "use"
  BY <1>2 DEF StoreFails, Fields
<1>12. Use(p) => l.pc = "use" /\ m.pc \in {"error", "dest", "imports"}
  BY <1>2, <1>3, <1>4 DEF Use, Only, Fields
<1>13. StoreImportedFile(p) => l.pc = "dest" /\ m.pc \in {"fetch", "error", "write"}
  BY <1>2, <1>4 DEF StoreImportedFile, DestError, Fields
<1>14. WriteFails(p) => l.pc \in {"dest", "write"} /\ m.pc \in {"fetch", "error"}
  BY <1>2 DEF WriteFails, DestError, Fields
<1>15. Write(p) => l.pc = "write" /\ m.pc \in {"write", "imports"}
  BY <1>2, <1>3 DEF Write, Fields
<1>16. ParseImport(p) => l.pc = "imports" /\ m.pc \in {"imports", "error", "load"}
  BY <1>2, <1>4 DEF ParseImport, Only, Fields
<1>17. Return(p) => l.pc = "imports" /\ m.pc \in {"build", "error", "imports"}
  BY <1>2, <1>4 DEF Return, Only, Fields
<1>18. Build(p) => l.pc = "build" /\ m.pc \in {"error", "start", "ok"}
  BY <1>2, <1>4 DEF Build, Only, Fields
<1>19. Copy(p) => l.pc = "copy" /\ m.pc \in {"copy", "use"}
  BY <1>2 DEF Copy, Fields
<1>20. CopyFails(p) => l.pc = "copy" /\ m.pc = "use"
  BY <1>2 DEF CopyFails, Fields
<1>21. Kill(p) => m.pc = "killed"
  BY <1>2 DEF Kill, Fields
<1> QED BY <1>5, <1>6, <1>7, <1>8, <1>9, <1>10, <1>11, <1>12, <1>13, <1>14, <1>15, <1>16, <1>17, <1>18, <1>19,
           <1>20, <1>21

-----------------------------------------------------------------------------
(***************************************************************************)
(* The cache and the files on disk.                                        *)
(***************************************************************************)
\* A step of some loader.
Acts(p) == Step(p) \/ FetchFails(p) \/ StoreFails(p) \/ CopyFails(p) \/ WriteFails(p) \/ Kill(p)

\* Who changes the cache, and who changes the disk.
LEMMA SidesAre ==
  ASSUME TypeInv, LoadersOK, NEW p \in Processes, Acts(p)
  PROVE  /\ \/ Store(p) \/ Copy(p) \/ CopyFails(p) \/ Kill(p)
            \/ cache' = cache /\ spoiled' = spoiled /\ proc[p].pc # "copy" /\ proc'[p].pc # "copy"
         /\ \/ StoreImportedFile(p) \/ Write(p) \/ WriteFails(p) \/ Kill(p)
            \/ disk' = disk /\ torn' = torn /\ proc[p].pc # "write" /\ proc'[p].pc # "write"
         /\ version' = version /\ commit' = commit
<1>1. proc = [q \in Processes |-> proc[q]] /\ proc[p] = [f \in Fields |-> proc[p][f]]
  BY Zenon, TypesIs DEF LoadersOK, LoaderOK, Shape
<1>2. \/ Store(p) \/ Copy(p) \/ CopyFails(p) \/ Kill(p)
      \/ cache' = cache /\ spoiled' = spoiled
  BY ZenonT(30) DEF Acts, Step, Start, ReadFile, CacheGet, Fetch, Use, StoreImportedFile, Write, ParseImport, Return,
         Build, FetchFails, StoreFails, WriteFails, Only, End
<1>3. \/ StoreImportedFile(p) \/ Write(p) \/ WriteFails(p) \/ Kill(p)
      \/ disk' = disk /\ torn' = torn
  BY ZenonT(30) DEF Acts, Step, Start, ReadFile, CacheGet, Fetch, Store, Copy, Use, ParseImport, Return,
         Build, FetchFails, StoreFails, CopyFails, Only, End
<1>4. version' = version /\ commit' = commit
  BY Zenon DEF Acts, Step, Start, ReadFile, CacheGet, Fetch, Store, Copy, Use, StoreImportedFile, Write, ParseImport,
         Return, Build, FetchFails, StoreFails, CopyFails, WriteFails, Kill, Only, End
<1>5. ~(Store(p) \/ Copy(p) \/ CopyFails(p) \/ Kill(p)) => proc[p].pc # "copy" /\ proc'[p].pc # "copy"
  BY <1>1, PcIs DEF Acts, Step
<1>6. ~(StoreImportedFile(p) \/ Write(p) \/ WriteFails(p) \/ Kill(p)) => proc[p].pc # "write" /\ proc'[p].pc # "write"
  BY <1>1, PcIs DEF Acts, Step
<1> QED BY <1>2, <1>3, <1>4, <1>5, <1>6

\* The fields of a loader that writes to the cache or to the disk.
LEMMA WritersAre ==
  ASSUME TypeInv, LoadersOK, NEW p \in Processes
  PROVE  LET l == proc[p]
             m == proc'[p]
             Same(k) == m.want = l.want /\ m.body = l.body
         IN  /\ Store(p) \/ (StoreImportedFile(p) /\ m.pc = "write") => Same(m) /\ m.at = 0
             /\ Copy(p) /\ l.at < Len(l.body) => Same(m) /\ m.pc = "copy" /\ m.at = l.at + 1
             /\ Copy(p) /\ ~(l.at < Len(l.body)) => m.pc = "use" /\ cache' = cache
             /\ Write(p) /\ l.at < Len(l.body) => Same(m) /\ m.pc = "write" /\ m.at = l.at + 1
             /\ Write(p) /\ ~(l.at < Len(l.body)) => m = Enter(p, <<>>) /\ m.pc = "imports" /\ disk' = disk
<1> DEFINE l == proc[p]
           m == proc'[p]
<1>1. proc = [q \in Processes |-> proc[q]] /\ l = [f \in Fields |-> l[f]]
  BY TypesIs DEF LoadersOK, LoaderOK, Shape
<1>2. \A k : Become(p, k) => m = k
  BY <1>1, BecomeIs
<1>3. Store(p) => m.want = l.want /\ m.body = l.body /\ m.at = 0
  BY <1>1, <1>2 DEF Store, Fields
<1>4. StoreImportedFile(p) /\ m.pc = "write" => m.want = l.want /\ m.body = l.body /\ m.at = 0
  <2>1. CASE Become(p, [l EXCEPT !.pc = "write", !.at = 0])
    BY <1>1, <1>2, <2>1 DEF Fields
  <2>2. CASE End(p, DestError(p))
    BY <1>1, <1>2, <2>2 DEF End, Only, DestError, Fields
  <2> QED BY <2>1, <2>2 DEF StoreImportedFile
<1>5. Copy(p) /\ l.at < Len(l.body) => m.want = l.want /\ m.body = l.body /\ m.pc = "copy" /\ m.at = l.at + 1
  BY <1>1, <1>2 DEF Copy, Fields
<1>6. Copy(p) /\ ~(l.at < Len(l.body)) => m.pc = "use" /\ cache' = cache
  BY <1>1, <1>2 DEF Copy, Fields
<1>7. Write(p) /\ l.at < Len(l.body) => m.want = l.want /\ m.body = l.body /\ m.pc = "write" /\ m.at = l.at + 1
  BY <1>1, <1>2 DEF Write, Fields
<1>8. Write(p) /\ ~(l.at < Len(l.body)) => m = Enter(p, <<>>) /\ m.pc = "imports" /\ disk' = disk
  BY <1>1, <1>2 DEF Write, Enter, Fields
<1> QED BY <1>3, <1>4, <1>5, <1>6, <1>7, <1>8

\* What a cache file owes that nobody spoiled.
CacheFileOK(src) ==
  /\ \A p, q \in Processes : Writing(p, src) /\ Writing(q, src) => p = q
  /\ \A p \in Processes : Writing(p, src) => cache[src] = Prefix(proc[p].body, proc[p].at)
  /\ (\A p \in Processes : ~Writing(p, src)) => cache[src] \in {None} \cup Versions(src)

\* A cache file that nobody spoiled is written by one loader, from its beginning.
LEMMA CacheKept ==
  ASSUME TypeInv, LoadersOK, CacheOK, NEW p \in Processes, Acts(p)
  PROVE  CacheOK'
<1> DEFINE l == proc[p]
           m == proc'[p]
<1>1. /\ \A q \in Processes : q # p => proc'[q] = proc[q]
      /\ world' = world
  BY StepOK DEF LoadersOK, Acts
<1>2. proc = [q \in Processes |-> proc[q]] /\ l = [f \in Fields |-> l[f]]
  BY Zenon, TypesIs DEF LoadersOK, LoaderOK, Shape
<1>3. DOMAIN cache' = DOMAIN cache
  BY Zenon, SidesAre DEF Store, Copy, CopyFails, Kill
<1>4. SUFFICES ASSUME NEW src \in DOMAIN cache, src \notin spoiled' PROVE CacheFileOK(src)'
  BY <1>3 DEF CacheOK, CacheFileOK
<1>5. Versions(src)' = Versions(src)
  BY <1>1 DEF Versions
<1>6. \A q \in Processes : q # p => (Writing(q, src)' <=> Writing(q, src))
  BY <1>1 DEF Writing
<1>7. src \notin spoiled => CacheFileOK(src)
  BY DEF CacheOK, CacheFileOK
<1>8. CASE src \notin spoiled /\ cache'[src] = cache[src] /\ ~Writing(p, src) /\ ~Writing(p, src)'
  <2>1. CacheFileOK(src)
    BY <1>7, <1>8
  <2>2. \A q \in Processes : Writing(q, src)' <=> Writing(q, src)
    BY <1>6, <1>8
  <2>3. \A q \in Processes : Writing(q, src) => proc'[q] = proc[q]
    BY <1>1, <1>8
  <2> QED BY <1>5, <1>8, <2>1, <2>2, <2>3 DEF CacheFileOK
<1>9. CASE Store(p) /\ l.want.src = src
  <2>1. \A q \in Processes : ~Writing(q, src)
    BY <1>4, <1>9 DEF Store
  <2>2. \A q \in Processes : Writing(q, src)' => q = p
    BY <1>6, <2>1
  <2>3. m.want = l.want /\ m.body = l.body /\ m.at = 0 /\ m.pc = "copy"
    BY <1>2, <1>9, WritersAre, PcIs
  <2>4. Writing(p, src)'
    BY <1>9, <2>3 DEF Writing
  <2>5. cache'[src] = <<>>
    BY <1>9 DEF Store
  <2>6. l.body \in Text(world)
    BY DEF LoadersOK, LoaderOK, Shape
  <2>7. cache'[src] = Prefix(m.body, m.at)
    BY <2>3, <2>5, <2>6, PrefixIs
  <2> QED BY <2>2, <2>4, <2>7 DEF CacheFileOK
<1>10. CASE Copy(p) /\ l.want.src = src
  <2>1. src \notin spoiled /\ Writing(p, src) /\ l.pc = "copy"
    BY <1>4, <1>10 DEF Copy, Writing
  <2>2. /\ \A q \in Processes : Writing(q, src) => q = p
        /\ cache[src] = Prefix(l.body, l.at)
    BY <1>7, <2>1 DEF CacheFileOK
  <2>3. \A q \in Processes : Writing(q, src)' => q = p
    BY <1>6, <2>2
  <2>4. l.body \in Text(world) /\ l.at \in Nat /\ l.at <= Len(l.body) /\ Len(l.body) \in Nat
        /\ src \in DOMAIN world.docs /\ l.body \in Range(world.docs[src])
    <3>1. l.body \in Text(world) /\ l.at \in Nat
      BY DEF LoadersOK, LoaderOK, Shape
    <3>2. Knows(world, l)
      BY DEF LoadersOK, LoaderOK
    <3>3. Len(l.body) \in Nat
      BY <3>1 DEF Text
    <3> HIDE DEF l
    <3> QED BY <1>10, <2>1, <3>1, <3>2, <3>3 DEF Knows
  <2>5. CASE l.at < Len(l.body)
    <3>1. m.want = l.want /\ m.body = l.body /\ m.pc = "copy" /\ m.at = l.at + 1
      BY <1>10, <2>5, WritersAre
    <3>2. cache'[src] = WriteAt(cache[src], l.at, l.body[l.at + 1])
      BY <1>10, <2>5 DEF Copy
    <3>3. cache[src] \in Text(world)
      BY <1>10, <2>1, TextIs DEF TypeInv
    <3>4. cache'[src] = Prefix(m.body, m.at)
      <4> HIDE DEF l, m
      <4> QED BY <2>2, <2>4, <2>5, <3>1, <3>2, <3>3, WriteAtIs
    <3>5. Writing(p, src)'
      BY <1>10, <3>1 DEF Writing
    <3> QED BY <2>3, <3>4, <3>5 DEF CacheFileOK
  <2>6. CASE ~(l.at < Len(l.body))
    <3>1. m.pc = "use" /\ cache' = cache
      BY <1>10, <2>6, WritersAre
    <3>2. \A q \in Processes : ~Writing(q, src)'
      BY <2>3, <3>1 DEF Writing
    <3>3. l.at = Len(l.body)
      <4> HIDE DEF l
      <4> QED BY <2>4, <2>6
    <3>4. cache'[src] = l.body
      BY <2>2, <2>4, <3>1, <3>3, PrefixIs
    <3>5. l.body \in Versions(src)
      BY <2>4 DEF Versions
    <3> QED BY <1>5, <3>2, <3>4, <3>5 DEF CacheFileOK
  <2> QED BY <2>5, <2>6
<1>11. CASE Store(p) /\ l.want.src # src
  <2>1. m.want = l.want /\ l.pc = "store"
    BY <1>2, <1>11, WritersAre, PcIs
  <2>2. src \notin spoiled /\ cache'[src] = cache[src]
    BY <1>4, <1>11 DEF Store
  <2> QED BY <1>8, <1>11, <2>1, <2>2 DEF Writing
<1>12. CASE Copy(p) /\ l.want.src # src
  <2>1. src \notin spoiled /\ cache'[src] = cache[src]
    BY <1>4, <1>12 DEF Copy
  <2>2. m.want = l.want \/ m.pc = "use"
    BY <1>12, WritersAre
  <2> QED BY <1>8, <1>12, <2>1, <2>2 DEF Writing
<1>13. CASE CopyFails(p)
  <2>1. src \notin spoiled /\ cache' = cache /\ l.want.src # src
    BY <1>4, <1>13 DEF CopyFails
  <2>2. m.pc = "use"
    BY <1>2, <1>13, PcIs
  <2> QED BY <1>8, <2>1, <2>2 DEF Writing
<1>14. CASE Kill(p)
  <2>1. src \notin spoiled /\ cache' = cache /\ ~Writing(p, src)
    BY <1>4, <1>14 DEF Kill, Writing
  <2>2. m.pc = "killed"
    BY <1>2, <1>14, PcIs
  <2> QED BY <1>8, <2>1, <2>2 DEF Writing
<1>15. CASE cache' = cache /\ spoiled' = spoiled /\ l.pc # "copy" /\ m.pc # "copy"
  BY <1>4, <1>8, <1>15 DEF Writing
<1> QED BY <1>9, <1>10, <1>11, <1>12, <1>13, <1>14, <1>15, SidesAre

\* What a file on disk owes that nobody tore.
DestOf(dest) ==
  /\ \A p, q \in Processes : WritingTo(p, dest) /\ WritingTo(q, dest) => p = q
  /\ \A p \in Processes : WritingTo(p, dest) => disk[dest] = Prefix(proc[p].body, proc[p].at)
  /\ (\A p \in Processes : ~WritingTo(p, dest)) =>
       \/ disk[dest] = None
       \/ \A e \in EntriesOf(world) : e.dest = dest /\ Sole(world, e) => disk[dest] = world.hashes[e.hash]

\* A file that nobody tore is written by one loader, from its beginning, and has
\* in the end the content of the hash that all its imports have.
LEMMA DiskKept ==
  ASSUME TypeInv, LoadersOK, DiskOK, NEW p \in Processes, Acts(p)
  PROVE  DiskOK'
<1> DEFINE l == proc[p]
           m == proc'[p]
<1>1. /\ \A q \in Processes : q # p => proc'[q] = proc[q]
      /\ world' = world
  BY StepOK DEF LoadersOK, Acts
<1>2. proc = [q \in Processes |-> proc[q]] /\ l = [f \in Fields |-> l[f]]
  BY ZenonT(30), TypesIs DEF LoadersOK, LoaderOK, Shape
<1>3. DOMAIN disk = world.dests
  BY DEF TypeInv
<1>4. SUFFICES ASSUME NEW dest \in world.dests, dest \notin torn' PROVE DestOf(dest)'
  BY <1>1 DEF DiskOK, DestOf
<1>5. EntriesOf(world)' = EntriesOf(world) /\ \A e : Sole(world, e)' <=> Sole(world, e)
  BY <1>1
<1>6. \A q \in Processes : q # p => (WritingTo(q, dest)' <=> WritingTo(q, dest))
  BY <1>1 DEF WritingTo
<1>7. dest \notin torn => DestOf(dest)
  BY DEF DiskOK, DestOf
<1>8. CASE dest \notin torn /\ disk'[dest] = disk[dest] /\ ~WritingTo(p, dest) /\ ~WritingTo(p, dest)'
  <2>1. DestOf(dest)
    BY <1>7, <1>8
  <2>2. \A q \in Processes : WritingTo(q, dest)' <=> WritingTo(q, dest)
    BY <1>6, <1>8
  <2>3. \A q \in Processes : WritingTo(q, dest) => proc'[q] = proc[q]
    BY <1>1, <1>8
  <2> QED BY <1>1, <1>8, <2>1, <2>2, <2>3 DEF DestOf
<1>9. CASE StoreImportedFile(p) /\ l.want.dest = dest
  <2>1. Become(p, [l EXCEPT !.pc = "write", !.at = 0])
    BY <1>4, <1>9 DEF StoreImportedFile
  <2>2. m.pc = "write"
    <3>1. m = [l EXCEPT !.pc = "write", !.at = 0]
      BY <1>2, <2>1, BecomeIs
    <3> HIDE DEF l, m
    <3> QED BY <1>2, <3>1 DEF Fields
  <2>3. m.want = l.want /\ m.body = l.body /\ m.at = 0
    BY <1>9, <2>2, WritersAre
  <2>4. \A q \in Processes : ~WritingTo(q, dest)
    BY <1>4, <1>9 DEF StoreImportedFile
  <2>5. \A q \in Processes : WritingTo(q, dest)' => q = p
    BY <1>6, <2>4
  <2>6. WritingTo(p, dest)'
    BY <1>9, <2>2, <2>3 DEF WritingTo
  <2>7. disk'[dest] = <<>>
    BY <1>3, <1>4, <1>9 DEF StoreImportedFile
  <2>8. l.body \in Text(world)
    BY DEF LoadersOK, LoaderOK, Shape
  <2>9. disk'[dest] = Prefix(m.body, m.at)
    BY <2>3, <2>7, <2>8, PrefixIs
  <2> QED BY <2>5, <2>6, <2>9 DEF DestOf
<1>10. CASE Write(p) /\ l.want.dest = dest
  <2>1. dest \notin torn /\ WritingTo(p, dest) /\ l.pc = "write"
    BY <1>4, <1>10 DEF Write, WritingTo
  <2>2. /\ \A q \in Processes : WritingTo(q, dest) => q = p
        /\ disk[dest] = Prefix(l.body, l.at)
    BY <1>7, <2>1 DEF DestOf
  <2>3. \A q \in Processes : WritingTo(q, dest)' => q = p
    BY <1>6, <2>2
  <2>4. l.body \in Text(world) /\ l.at \in Nat /\ l.at <= Len(l.body) /\ Len(l.body) \in Nat
        /\ dest # Empty
        /\ (l.want.hash # Empty => l.body = world.hashes[l.want.hash])
    <3>1. l.body \in Text(world) /\ l.at \in Nat
      BY DEF LoadersOK, LoaderOK, Shape
    <3>2. Knows(world, l)
      BY DEF LoadersOK, LoaderOK
    <3>3. Len(l.body) \in Nat
      BY <3>1 DEF Text
    <3> HIDE DEF l
    <3> QED BY <1>10, <2>1, <3>1, <3>2, <3>3 DEF Knows
  <2>5. CASE l.at < Len(l.body)
    <3>1. m.want = l.want /\ m.body = l.body /\ m.pc = "write" /\ m.at = l.at + 1
      BY <1>10, <2>5, WritersAre
    <3>2. disk'[dest] = WriteAt(disk[dest], l.at, l.body[l.at + 1])
      BY <1>3, <1>10, <2>5 DEF Write
    <3>3. disk[dest] \in Text(world)
      BY <1>3, <1>10, <2>1, TextIs DEF TypeInv
    <3>4. disk'[dest] = Prefix(m.body, m.at)
      <4> HIDE DEF l, m
      <4> QED BY <2>2, <2>4, <2>5, <3>1, <3>2, <3>3, WriteAtIs
    <3>5. WritingTo(p, dest)'
      BY <1>10, <3>1 DEF WritingTo
    <3> QED BY <2>3, <3>4, <3>5 DEF DestOf
  <2>6. CASE ~(l.at < Len(l.body))
    <3>1. m.pc = "imports" /\ disk' = disk
      BY <1>10, <2>6, WritersAre
    <3>2. \A q \in Processes : ~WritingTo(q, dest)'
      BY <2>3, <3>1 DEF WritingTo
    <3>3. l.at = Len(l.body)
      <4> HIDE DEF l
      <4> QED BY <2>4, <2>6
    <3>4. disk'[dest] = l.body
      BY <2>2, <2>4, <3>1, <3>3, PrefixIs
    <3>5. l.want \in EntriesOf(world)
      <4>1. l.want \in EntriesOf(world) \cup {Plain(s) : s \in DOMAIN world.kind \cup {Empty}}
        BY DEF LoadersOK, LoaderOK, Shape
      <4>2. \A s : Plain(s).dest = Empty
        BY DEF Plain
      <4> QED BY <1>10, <2>4, <4>1, <4>2
    <3>6. ASSUME NEW e \in EntriesOf(world), e.dest = dest, Sole(world, e)
          PROVE  disk'[dest] = world.hashes[e.hash]
      BY <1>10, <2>4, <3>4, <3>5, <3>6 DEF Sole
    <3> QED BY <1>1, <3>2, <3>6 DEF DestOf
  <2> QED BY <2>5, <2>6
<1>11. CASE StoreImportedFile(p) /\ l.want.dest # dest
  <2>1. l.pc = "dest"
    BY <1>11 DEF StoreImportedFile
  <2>2. m.pc # "write" \/ m.want = l.want
    BY <1>11, WritersAre
  <2>3. dest \notin torn /\ disk'[dest] = disk[dest]
    BY <1>3, <1>4, <1>11 DEF StoreImportedFile, End, Only
  <2> QED BY <1>8, <1>11, <2>1, <2>2, <2>3 DEF WritingTo
<1>12. CASE Write(p) /\ l.want.dest # dest
  <2>1. dest \notin torn /\ disk'[dest] = disk[dest]
    BY <1>3, <1>4, <1>12 DEF Write
  <2>2. m.want = l.want \/ m.pc = "imports"
    BY <1>12, WritersAre
  <2> QED BY <1>8, <1>12, <2>1, <2>2 DEF WritingTo
<1>13. CASE WriteFails(p)
  <2>1. dest \notin torn /\ disk' = disk /\ ~WritingTo(p, dest)
    BY <1>4, <1>13 DEF WriteFails, WritingTo
  <2>2. m.pc # "write"
    BY <1>2, <1>13, PcIs
  <2> QED BY <1>8, <2>1, <2>2 DEF WritingTo
<1>14. CASE Kill(p)
  <2>1. dest \notin torn /\ disk' = disk /\ ~WritingTo(p, dest)
    BY <1>4, <1>14 DEF Kill, WritingTo
  <2>2. m.pc = "killed"
    BY <1>2, <1>14, PcIs
  <2> QED BY <1>8, <2>1, <2>2 DEF WritingTo
<1>15. CASE disk' = disk /\ torn' = torn /\ l.pc # "write" /\ m.pc # "write"
  BY <1>4, <1>8, <1>15 DEF WritingTo
<1> QED BY <1>9, <1>10, <1>11, <1>12, <1>13, <1>14, <1>15, SidesAre

\* What a writer writes to is there.
LEMMA PlacesAre ==
  ASSUME TypeInv, LoadersOK, NEW p \in Processes
  PROVE  /\ proc[p].pc \in {"store", "copy"} => proc[p].want.src \in DOMAIN cache
         /\ proc[p].pc = "write" => proc[p].want.dest \in DOMAIN disk
         /\ proc[p].body \in Text(world) /\ proc[p].at \in Nat
<1>1. Knows(world, proc[p]) /\ proc[p].body \in Text(world) /\ proc[p].at \in Nat
  BY DEF LoadersOK, LoaderOK, Shape
<1>2. DOMAIN cache = {s \in DOMAIN world.kind : Remote(s)} /\ DOMAIN disk = world.dests
  BY DEF TypeInv
<1> QED BY <1>1, <1>2 DEF Knows, Remote, Loading

\* The cache has texts, and a file that is there stays.
LEMMA CacheTyped ==
  ASSUME TypeInv, LoadersOK, NEW p \in Processes, Acts(p)
  PROVE  /\ cache' = [s \in DOMAIN cache |-> cache'[s]]
         /\ \A s \in DOMAIN cache : /\ cache'[s] \in Text(world) \cup {None}
                                    /\ cache[s] # None => cache'[s] # None
         /\ proc'[p].pc = "copy" => cache'[proc'[p].want.src] # None
<1> DEFINE l   == proc[p]
           m   == proc'[p]
           src == l.want.src
<1>1. /\ cache = [s \in DOMAIN cache |-> cache[s]]
      /\ \A s \in DOMAIN cache : cache[s] \in Text(world) \cup {None}
      /\ None \notin Text(world) /\ <<>> \in Text(world)
      /\ proc = [q \in Processes |-> proc[q]] /\ l = [f \in Fields |-> l[f]]
  BY TypesIs, TextIs DEF TypeInv, LoadersOK, LoaderOK, Shape
<1>2. CASE Store(p)
  <2>1. cache' = [cache EXCEPT ![src] = <<>>] /\ src \in DOMAIN cache
    BY <1>2, PlacesAre DEF Store
  <2>2. m.want = l.want
    BY <1>2, WritersAre
  <2> HIDE DEF l, m, src
  <2>3. cache'[src] = <<>> /\ \A s \in DOMAIN cache : s # src => cache'[s] = cache[s]
    BY <2>1
  <2>4. cache' = [s \in DOMAIN cache |-> cache'[s]] /\ <<>> # None
    BY Zenon, <1>1, <2>1
  <2>5. m.want.src = src
    BY <2>2 DEF src
  <2> QED BY <1>1, <2>3, <2>4, <2>5 DEF m
<1>3. CASE Copy(p) /\ l.at < Len(l.body)
  <2>1. src \in DOMAIN cache /\ cache[src] # None /\ l.body \in Text(world) /\ l.at \in Nat
    BY <1>3, PlacesAre DEF Copy, TypeInv
  <2>2. cache' = [cache EXCEPT ![src] = WriteAt(cache[src], l.at, l.body[l.at + 1])]
    BY <1>3 DEF Copy
  <2>3. WriteAt(cache[src], l.at, l.body[l.at + 1]) \in Text(world)
    <3>1. cache[src] \in Text(world)
      BY <1>1, <2>1
    <3> HIDE DEF l, src
    <3> QED BY <1>3, <2>1, <3>1, WriteAtIs
  <2>4. m.want = l.want
    BY <1>3, WritersAre
  <2> DEFINE file == WriteAt(cache[src], l.at, l.body[l.at + 1])
  <2> HIDE DEF l, m, src, file
  <2>5. cache'[src] = file /\ \A s \in DOMAIN cache : s # src => cache'[s] = cache[s]
    BY <2>1, <2>2 DEF file
  <2> QED BY ZenonT(30), <1>1, <2>1, <2>2, <2>3, <2>4, <2>5 DEF src, l, m, file
<1>4. CASE Copy(p) /\ ~(l.at < Len(l.body))
  BY <1>1, <1>4, WritersAre
<1>5. CASE cache' = cache /\ m.pc # "copy"
  BY <1>1, <1>5
<1>6. CopyFails(p) \/ Kill(p) => cache' = cache /\ m.pc # "copy"
  BY Zenon, <1>1, PcIs DEF CopyFails, Kill
<1> QED BY <1>2, <1>3, <1>4, <1>5, <1>6, SidesAre

\* The disk has texts, and a file that is there stays.
LEMMA DiskTyped ==
  ASSUME TypeInv, LoadersOK, NEW p \in Processes, Acts(p)
  PROVE  /\ disk' = [d \in DOMAIN disk |-> disk'[d]]
         /\ \A d \in DOMAIN disk : /\ disk'[d] \in Text(world) \cup {None}
                                   /\ disk[d] # None => disk'[d] # None
         /\ proc'[p].pc = "write" => disk'[proc'[p].want.dest] # None
<1> DEFINE l    == proc[p]
           m    == proc'[p]
           dest == l.want.dest
<1>1. /\ disk = [d \in DOMAIN disk |-> disk[d]]
      /\ DOMAIN disk = world.dests
      /\ \A d \in DOMAIN disk : disk[d] \in Text(world) \cup {None}
      /\ None \notin Text(world) /\ <<>> \in Text(world)
      /\ proc = [q \in Processes |-> proc[q]] /\ l = [f \in Fields |-> l[f]]
  BY TypesIs, TextIs DEF TypeInv, LoadersOK, LoaderOK, Shape
<1>2. CASE StoreImportedFile(p) /\ dest \in world.dests
  <2>1. disk' = [disk EXCEPT ![dest] = <<>>]
    BY <1>2 DEF StoreImportedFile
  <2>2. m.pc = "write" => m.want = l.want
    BY <1>2, WritersAre
  <2> HIDE DEF l, m, dest
  <2>3. disk'[dest] = <<>> /\ \A d \in DOMAIN disk : d # dest => disk'[d] = disk[d]
    BY <1>1, <1>2, <2>1
  <2>4. disk' = [d \in DOMAIN disk |-> disk'[d]] /\ <<>> # None
    BY <1>1, <2>1
  <2>5. m.pc = "write" => m.want.dest = dest
    BY <2>2 DEF dest
  <2> QED BY <1>1, <2>3, <2>4, <2>5 DEF m
<1>3. CASE StoreImportedFile(p) /\ dest \notin world.dests
  <2>1. disk' = disk /\ Become(p, [l EXCEPT !.pc = DestError(p)])
    BY <1>3 DEF StoreImportedFile, End, Only
  <2>2. m = [l EXCEPT !.pc = DestError(p)]
    BY <1>1, <2>1, BecomeIs
  <2>3. m.pc # "write"
    <3> HIDE DEF l, m
    <3> QED BY <1>1, <2>2 DEF Fields, DestError
  <2> QED BY <1>1, <2>1, <2>3
<1>4. CASE Write(p) /\ l.at < Len(l.body)
  <2>1. dest \in DOMAIN disk /\ disk[dest] # None /\ l.body \in Text(world) /\ l.at \in Nat
    BY <1>4, PlacesAre DEF Write, TypeInv
  <2>2. disk' = [disk EXCEPT ![dest] = WriteAt(disk[dest], l.at, l.body[l.at + 1])]
    BY <1>4 DEF Write
  <2>3. WriteAt(disk[dest], l.at, l.body[l.at + 1]) \in Text(world)
    <3>1. disk[dest] \in Text(world)
      BY <1>1, <2>1
    <3> HIDE DEF l, dest
    <3> QED BY <1>4, <2>1, <3>1, WriteAtIs
  <2>4. m.want = l.want
    BY <1>4, WritersAre
  <2> DEFINE file == WriteAt(disk[dest], l.at, l.body[l.at + 1])
  <2> HIDE DEF l, m, dest, file
  <2>5. disk'[dest] = file /\ \A d \in DOMAIN disk : d # dest => disk'[d] = disk[d]
    BY <2>1, <2>2 DEF file
  <2>6. disk' = [d \in DOMAIN disk |-> disk'[d]] /\ file # None /\ file \in Text(world)
    BY <1>1, <2>2, <2>3 DEF file
  <2>7. m.want.dest = dest
    BY <2>4 DEF dest
  <2> QED BY <1>1, <2>5, <2>6, <2>7 DEF m
<1>5. CASE Write(p) /\ ~(l.at < Len(l.body))
  BY <1>1, <1>5, WritersAre
<1>6. CASE disk' = disk /\ m.pc # "write"
  BY <1>1, <1>6
<1>7. WriteFails(p) \/ Kill(p) => disk' = disk /\ m.pc # "write"
  BY <1>1, PcIs DEF WriteFails, Kill
<1> QED BY <1>2, <1>3, <1>4, <1>5, <1>6, <1>7, SidesAre

\* A step of a loader keeps the types.
LEMMA TypeKept ==
  ASSUME TypeInv, LoadersOK, NEW p \in Processes, Acts(p)
  PROVE  TypeInv'
<1>1. /\ \A q \in Processes : q # p => proc'[q] = proc[q]
      /\ proc' = [q \in Processes |-> proc'[q]]
      /\ world' = world
  BY StepOK DEF LoadersOK, Acts
<1>2. version' = version /\ commit' = commit
  BY SidesAre
<1>3. DOMAIN cache = {s \in DOMAIN world.kind : Remote(s)} /\ DOMAIN disk = world.dests
  BY DEF TypeInv
<1>4. \A s : Remote(s)' <=> Remote(s)
  BY <1>1 DEF Remote
<1>5. Text(world)' = Text(world)
  BY <1>1
<1>6. cache' = [s \in {s \in DOMAIN world.kind : Remote(s)} |-> cache'[s]] /\ DOMAIN cache' = DOMAIN cache
  BY <1>3, CacheTyped
<1>7. disk' = [d \in world.dests |-> disk'[d]] /\ DOMAIN disk' = DOMAIN disk
  BY <1>3, DiskTyped
<1>8. ASSUME NEW q \in Processes
      PROVE  /\ proc'[q].pc = "copy" => cache'[proc'[q].want.src] # None
             /\ proc'[q].pc = "write" => disk'[proc'[q].want.dest] # None
  <2>1. CASE q = p
    BY <2>1, CacheTyped, DiskTyped
  <2>2. CASE q # p
    <3>1. proc'[q] = proc[q]
      BY <1>1, <2>2
    <3>2. proc[q].pc = "copy" => cache[proc[q].want.src] # None /\ proc[q].want.src \in DOMAIN cache
      BY PlacesAre DEF TypeInv
    <3>3. proc[q].pc = "write" => disk[proc[q].want.dest] # None /\ proc[q].want.dest \in DOMAIN disk
      BY PlacesAre DEF TypeInv
    <3> QED BY <3>1, <3>2, <3>3, CacheTyped, DiskTyped
  <2> QED BY <2>1, <2>2
<1>9. \A s \in DOMAIN cache' : cache'[s] \in Text(world) \cup {None}
  BY <1>6, CacheTyped
<1>10. \A d \in DOMAIN disk' : disk'[d] \in Text(world) \cup {None}
  BY <1>7, DiskTyped
<1>11. cache' = [s \in {s \in DOMAIN world'.kind : Remote(s)'} |-> cache'[s]]
  BY <1>1, <1>4, <1>6
<1> QED BY <1>1, <1>2, <1>5, <1>7, <1>8, <1>9, <1>10, <1>11 DEF TypeInv

-----------------------------------------------------------------------------
(***************************************************************************)
(* What is visited was asked for, and is done with when it was loaded.     *)
(***************************************************************************)
\* The imports that a loader has met.
LEMMA AskedHas ==
  ASSUME NEW w, NEW root, NEW l
  PROVE  /\ \A part \in Parts : \A s \in DOMAIN l.read[part] : Entries(l.read[part][s]) \subseteq AskedBy(w, root, l)
         /\ Plain(w.global) \in AskedBy(w, root, l) /\ Plain(root) \in AskedBy(w, root, l)
         /\ \A d \in DOMAIN w.lists : \A x \in Range(w.lists[d]) : Plain(x) \in AskedBy(w, root, l)
<1>1. \A part \in Parts : \A s \in DOMAIN l.read[part] : Entries(l.read[part][s]) \subseteq ReadBy(l)
  <2> DEFINE of(part) == UNION {Entries(l.read[part][s]) : s \in DOMAIN l.read[part]}
  <2>1. \A part \in Parts : of(part) \subseteq ReadBy(l)
    BY DEF ReadBy
  <2>2. \A part \in Parts : \A s \in DOMAIN l.read[part] : Entries(l.read[part][s]) \subseteq of(part)
    OBVIOUS
  <2> HIDE DEF of
  <2> QED BY <2>1, <2>2
<1>2. \A s \in Given(w, root) : Plain(s) \in AskedBy(w, root, l)
  BY DEF AskedBy
<1>3. w.global \in Given(w, root) /\ root \in Given(w, root)
      /\ \A d \in DOMAIN w.lists : \A x \in Range(w.lists[d]) : x \in Given(w, root)
  BY DEF Given
<1>4. ReadBy(l) \subseteq AskedBy(w, root, l)
  BY DEF AskedBy
<1> QED BY <1>1, <1>2, <1>3, <1>4

\* The next import is one that the loader has met.
LEMMA AskedIs ==
  ASSUME IsWorld(world), NEW root, NEW p \in Processes, LoaderOK(world, root, proc[p]),
         proc[p].pc = "imports", Top(p).todo # {}
  PROVE  Item(proc[p], Top(p), First(Top(p).todo)) \in AskedBy(world, root, proc[p])
<1> DEFINE w    == world
           l    == proc[p]
           read == l.read[l.part]
           top  == Top(p)
           i    == First(top.todo)
<1>1. Shape(w, l) /\ Walk(w, root, l)
  BY DEF LoaderOK
<1>2. FrameOK(w, l, top)
  <2>1. l.stack \in Seq(Range(l.stack)) /\ l.stack # <<>>
    BY <1>1 DEF Shape, Walk
  <2>2. Len(l.stack) \in DOMAIN l.stack
    <3> HIDE DEF l
    <3> QED BY <2>1
  <2> QED BY <1>1, <2>2 DEF Walk, Top
<1>3. CASE top.src \in DOMAIN w.lists
  <2>1. top.todo \in SUBSET Nat /\ top.todo \subseteq DOMAIN w.lists[top.src]
    BY <1>2, <1>3, WorldIs DEF FrameOK
  <2>2. i \in DOMAIN w.lists[top.src]
    BY <2>1, FirstIs
  <2>3. w.lists[top.src][i] \in Range(w.lists[top.src])
    BY <2>2 DEF Range
  <2>4. Item(l, top, i) = Plain(w.lists[top.src][i])
    BY <1>3 DEF Item
  <2> HIDE DEF l, top, i
  <2> QED BY <1>3, <2>3, <2>4, AskedHas DEF l, top, i
<1>4. CASE top.src \notin DOMAIN w.lists
  <2>1. top.src \in DOMAIN read /\ top.todo \subseteq Imports(read[top.src]) /\ l.part \in Parts
    BY <1>1, <1>2, <1>4 DEF FrameOK, Shape
  <2>2. read[top.src] \in Text(w)
    BY <1>1, <2>1 DEF Shape
  <2>3. top.todo \in SUBSET Nat
    BY <2>1, <2>2, EntryIs
  <2>4. i \in top.todo
    BY <2>3, FirstIs
  <2>5. read[top.src][i].entry \in Entries(read[top.src])
    BY <2>1, <2>4 DEF Entries
  <2>6. Item(l, top, i) = read[top.src][i].entry
    BY <1>4 DEF Item
  <2>7. Entries(read[top.src]) \subseteq AskedBy(w, root, l)
    BY <2>1, AskedHas
  <2> QED BY ZenonT(30), <2>5, <2>6, <2>7
<1> QED BY <1>3, <1>4

\* What a step of a loader does to its visits.
Goes(p, l, m) ==
  \/ m.pc \in Over
  \/ l.pc \in Loading /\ m.pc \in Loading /\ m.want = l.want /\ m.visited = l.visited /\ m.read = l.read
  \/ l.pc \in Loading /\ (IsFileImport(l.want) => l.pc = "write") /\ \E doc : m = Enter(p, doc)
  \/ l.pc \notin Loading \cup Over /\ m.visited = l.visited /\ m.read = l.read
  \/ /\ l.pc \notin Loading \cup Over /\ m.pc = "load" /\ m.read = l.read
     /\ m.visited = l.visited \cup {m.want.src}
     /\ m.want \in AskedBy(world, ResolveDefaultConfigFile, l)

\* Every step of a loader is one of these.
LEMMA GoesIs ==
  ASSUME TypeInv, LoadersOK, NEW p \in Processes, Acts(p)
  PROVE  Goes(p, proc[p], proc'[p])
<1> DEFINE l == proc[p]
           m == proc'[p]
           root == ResolveDefaultConfigFile
<1>1. proc = [q \in Processes |-> proc[q]] /\ l = [f \in Fields |-> l[f]] /\ IsWorld(world)
      /\ LoaderOK(world, root, l)
  BY TypesIs DEF LoadersOK, LoaderOK, Shape
<1>2. \A k : Become(p, k) => m = k
  BY <1>1, BecomeIs
<1>3. ASSUME NEW how, End(p, how) PROVE m = [l EXCEPT !.pc = how]
  BY <1>2, <1>3 DEF End, Only
<1>4. ASSUME End(p, "error") PROVE m.pc \in Over
  <2>1. m = [l EXCEPT !.pc = "error"]
    BY <1>3, <1>4
  <2> HIDE DEF l, m
  <2> QED BY <1>1, <2>1 DEF Over, Fields
<1>5. ASSUME NEW pc, NEW via, NEW body, NEW at, Moved(l, m, pc, via, body, at), l.pc \in Loading, pc \in Loading
      PROVE  Goes(p, l, m)
  BY <1>5 DEF Goes, Moved
<1>6. CASE Start(p)
  <2> DEFINE global == l.part = "global" /\ world.global # Empty
             next   == IF global THEN world.global ELSE root
  <2>1. CASE next = Empty
    BY <1>4, <1>6, <2>1 DEF Start, Goes
  <2>2. CASE next # Empty
    <3>1. m = [l EXCEPT !.pc = "load", !.want = Plain(next), !.part = IF global THEN "global" ELSE "local",
                        !.visited = @ \cup {next}]
      BY <1>2, <1>6, <2>2 DEF Start, Only
    <3>2. m.pc = "load" /\ m.read = l.read /\ m.want = Plain(next) /\ m.visited = l.visited \cup {next}
      <4> HIDE DEF next, global, l, m
      <4> QED BY <1>1, <3>1 DEF Fields
    <3>3. l.pc = "start"
      BY <1>6 DEF Start
    <3>4. Plain(next) \in AskedBy(world, root, l)
      BY AskedHas
    <3>5. Plain(next).src = next
      BY DEF Plain
    <3>6. l.pc \notin Loading \cup Over
      BY <3>3 DEF Loading, Over
    <3>7. Goes(p, l, m)
      <4> HIDE DEF next, l, m, root
      <4> QED BY <3>2, <3>4, <3>5, <3>6 DEF Goes, root
    <3> QED BY <3>7
  <2> QED BY <2>1, <2>2
<1>7. CASE ReadFile(p)
  <2> DEFINE doc == world.docs[l.want.src][version[l.want.src]]
  <2>1. l.pc = "load" /\ "dest" \in Loading
    BY <1>7 DEF ReadFile, Loading
  <2>2. CASE End(p, "error")
    BY <1>4, <2>2 DEF Goes
  <2>3. CASE Become(p, [l EXCEPT !.pc = "dest", !.via = "disk", !.body = doc])
    <3>1. m = [l EXCEPT !.pc = "dest", !.via = "disk", !.body = doc]
      BY <1>2, <2>3
    <3>2. Moved(l, m, "dest", "disk", doc, l.at)
      <4> HIDE DEF l, m, doc
      <4> QED BY Zenon, <1>1, <3>1, MoveIs
    <3> QED BY <1>5, <2>1, <3>2 DEF Loading
  <2>4. CASE ~IsFileImport(l.want) /\ Become(p, Enter(p, doc))
    BY <1>2, <2>1, <2>4 DEF Goes, Loading
  <2> QED BY <1>7, <2>2, <2>3, <2>4 DEF ReadFile, Only
<1>8. CASE CacheGet(p)
  <2> DEFINE hit == cache[l.want.src]
  <2>1. l.pc = "load"
    BY <1>8 DEF CacheGet
  <2>2. CASE End(p, "fetch")
    <3>1. Moved(l, m, "fetch", l.via, l.body, l.at)
      <4>1. m = [l EXCEPT !.pc = "fetch"]
        BY <1>3, <2>2
      <4> HIDE DEF l, m
      <4> QED BY Zenon, <1>1, <4>1, MoveIs
    <3> QED BY <1>5, <2>1, <3>1 DEF Loading
  <2>3. CASE Become(p, [l EXCEPT !.pc = "dest", !.via = "cache", !.body = hit])
    <3>1. m = [l EXCEPT !.pc = "dest", !.via = "cache", !.body = hit]
      BY <1>2, <2>3
    <3>2. Moved(l, m, "dest", "cache", hit, l.at)
      <4> HIDE DEF l, m, hit
      <4> QED BY Zenon, <1>1, <3>1, MoveIs
    <3> QED BY <1>5, <2>1, <3>2 DEF Loading
  <2>4. CASE ~IsFileImport(l.want) /\ Become(p, Enter(p, hit))
    BY <1>2, <2>1, <2>4 DEF Goes, Loading
  <2> QED BY <1>8, <2>2, <2>3, <2>4 DEF CacheGet, Only
<1>9. CASE Fetch(p)
  <2> DEFINE doc == world.docs[l.want.src][Published(l.want.src)]
  <2>1. CASE Become(p, [l EXCEPT !.pc = "store", !.body = doc])
    <3>1. m = [l EXCEPT !.pc = "store", !.body = doc]
      BY <1>2, <2>1
    <3>2. Moved(l, m, "store", l.via, doc, l.at)
      <4> HIDE DEF l, m, doc
      <4> QED BY Zenon, <1>1, <3>1, MoveIs
    <3> QED BY <1>5, <1>9, <3>2 DEF Loading, Fetch
  <2> QED BY <1>4, <1>9, <2>1 DEF Fetch, Only, Goes
<1>10. CASE FetchFails(p) \/ CopyFails(p) \/ StoreFails(p) \/ Kill(p)
  <2>1. CASE FetchFails(p) \/ Kill(p)
    BY <1>1, <2>1, PcIs DEF Goes, Over
  <2>2. CASE StoreFails(p)
    <3>1. m = [l EXCEPT !.pc = "use", !.body = <<>>] /\ l.pc = "store"
      BY <1>2, <2>2 DEF StoreFails
    <3>2. Moved(l, m, "use", l.via, <<>>, l.at)
      <4> HIDE DEF l, m
      <4> QED BY Zenon, <1>1, <3>1, MoveIs
    <3> QED BY <1>5, <3>1, <3>2 DEF Loading
  <2>3. CASE CopyFails(p)
    <3> DEFINE body == SubSeq(l.body, 1, l.at + 1)
    <3>1. m = [l EXCEPT !.pc = "use", !.body = body] /\ l.pc = "copy"
      BY <1>2, <2>3 DEF CopyFails
    <3>2. Moved(l, m, "use", l.via, body, l.at)
      <4> HIDE DEF l, m, body
      <4> QED BY Zenon, <1>1, <3>1, MoveIs
    <3> QED BY <1>5, <3>1, <3>2 DEF Loading
  <2> QED BY <1>10, <2>1, <2>2, <2>3
<1>11. CASE Store(p)
  <2>1. m = [l EXCEPT !.pc = "copy", !.at = 0] /\ l.pc = "store"
    BY <1>2, <1>11 DEF Store
  <2>2. Moved(l, m, "copy", l.via, l.body, 0)
    <3> HIDE DEF l, m
    <3> QED BY Zenon, <1>1, <2>1, MoveIs
  <2> QED BY <1>5, <2>1, <2>2 DEF Loading
<1>12. CASE Copy(p)
  <2>1. l.pc = "copy"
    BY <1>12 DEF Copy
  <2>2. CASE Become(p, [l EXCEPT !.at = l.at + 1])
    <3>1. m = [l EXCEPT !.at = l.at + 1]
      BY <1>2, <2>2
    <3>2. Moved(l, m, l.pc, l.via, l.body, l.at + 1)
      <4> HIDE DEF l, m
      <4> QED BY Zenon, <1>1, <3>1, MoveIs
    <3> QED BY <1>5, <2>1, <3>2 DEF Loading
  <2>3. CASE Become(p, [l EXCEPT !.pc = "use"])
    <3>1. m = [l EXCEPT !.pc = "use"]
      BY <1>2, <2>3
    <3>2. Moved(l, m, "use", l.via, l.body, l.at)
      <4> HIDE DEF l, m
      <4> QED BY Zenon, <1>1, <3>1, MoveIs
    <3> QED BY <1>5, <2>1, <3>2 DEF Loading
  <2> QED BY <1>12, <2>2, <2>3 DEF Copy
<1>13. CASE Use(p)
  <2>1. l.pc = "use"
    BY <1>13 DEF Use
  <2>2. CASE Become(p, [l EXCEPT !.pc = "dest", !.via = "remote"])
    <3>1. m = [l EXCEPT !.pc = "dest", !.via = "remote"]
      BY <1>2, <2>2
    <3>2. Moved(l, m, "dest", "remote", l.body, l.at)
      <4> HIDE DEF l, m
      <4> QED BY Zenon, <1>1, <3>1, MoveIs
    <3> QED BY <1>5, <2>1, <3>2 DEF Loading
  <2>3. CASE ~IsFileImport(l.want) /\ Become(p, Enter(p, l.body))
    BY <1>2, <2>1, <2>3 DEF Goes, Loading
  <2> QED BY <1>4, <1>13, <2>2, <2>3 DEF Use, Only, Goes
<1>14. CASE StoreImportedFile(p) \/ WriteFails(p)
  <2>1. l.pc \in Loading
    BY <1>14 DEF StoreImportedFile, WriteFails, Loading
  <2>2. CASE Become(p, [l EXCEPT !.pc = "error"])
    BY <1>1, <1>2, <2>2 DEF Goes, Over, Fields
  <2>3. CASE Become(p, [l EXCEPT !.pc = "fetch"])
    <3>1. m = [l EXCEPT !.pc = "fetch"]
      BY <1>2, <2>3
    <3>2. Moved(l, m, "fetch", l.via, l.body, l.at)
      <4> HIDE DEF l, m
      <4> QED BY <1>1, <3>1, MoveIs
    <3> QED BY <1>5, <2>1, <3>2 DEF Loading
  <2>4. CASE Become(p, [l EXCEPT !.pc = "write", !.at = 0])
    <3>1. m = [l EXCEPT !.pc = "write", !.at = 0]
      BY <1>2, <2>4
    <3>2. Moved(l, m, "write", l.via, l.body, 0)
      <4> HIDE DEF l, m
      <4> QED BY Zenon, <1>1, <3>1, MoveIs
    <3> QED BY <1>5, <2>1, <3>2 DEF Loading
  <2> QED BY <1>14, <2>2, <2>3, <2>4 DEF StoreImportedFile, WriteFails, DestError, End, Only
<1>15. CASE Write(p)
  <2>1. l.pc = "write"
    BY <1>15 DEF Write
  <2>2. CASE Become(p, [l EXCEPT !.at = l.at + 1])
    <3>1. m = [l EXCEPT !.at = l.at + 1]
      BY <1>2, <2>2
    <3>2. Moved(l, m, l.pc, l.via, l.body, l.at + 1)
      <4> HIDE DEF l, m
      <4> QED BY <1>1, <3>1, MoveIs
    <3> QED BY <1>5, <2>1, <3>2 DEF Loading
  <2>3. CASE Become(p, Enter(p, <<>>))
    BY <1>2, <2>1, <2>3 DEF Goes, Loading
  <2> QED BY <1>15, <2>2, <2>3 DEF Write
<1>16. CASE ParseImport(p)
  <2> DEFINE e == Item(l, Top(p), First(Top(p).todo))
             rest == [l.stack EXCEPT ![Len(l.stack)].todo = @ \ {First(Top(p).todo)}]
             more == Append(rest, [src |-> e.src, base |-> <<>>, todo |-> DOMAIN world.lists[e.src], docs |-> {}])
  <2>1. l.pc = "imports" /\ l.pc \notin Loading \cup Over
    BY <1>16 DEF ParseImport, Loading, Over
  <2>2. CASE Become(p, [l EXCEPT !.stack = rest]) \/ Become(p, [l EXCEPT !.stack = more])
    <3>1. m = [l EXCEPT !.stack = rest] \/ m = [l EXCEPT !.stack = more]
      BY <1>2, <2>2
    <3>2. m.visited = l.visited /\ m.read = l.read
      <4> HIDE DEF l, m, rest, more
      <4> QED BY <1>1, <3>1 DEF Fields
    <3> QED BY <2>1, <3>2 DEF Goes
  <2>3. CASE Become(p, [l EXCEPT !.pc = "load", !.want = e, !.stack = rest, !.visited = @ \cup {e.src}])
    <3>1. m = [l EXCEPT !.pc = "load", !.want = e, !.stack = rest, !.visited = @ \cup {e.src}]
      BY <1>2, <2>3
    <3>2. m.pc = "load" /\ m.read = l.read /\ m.want = e /\ m.visited = l.visited \cup {e.src}
      <4> HIDE DEF l, m, rest, e
      <4> QED BY <1>1, <3>1 DEF Fields
    <3>3. e \in AskedBy(world, root, l)
      BY <1>1, <1>16, <2>1, AskedIs DEF ParseImport
    <3> HIDE DEF e
    <3> QED BY <2>1, <3>2, <3>3 DEF Goes
  <2> QED BY <1>4, <1>16, <2>2, <2>3 DEF ParseImport, Only, Goes
<1>17. CASE Return(p)
  <2> DEFINE below == Len(l.stack) - 1
             merged == mergeExistingWithImported(l.stack[below].base, Top(p).base, Top(p).src)
             stack == [SubSeq(l.stack, 1, below) EXCEPT ![below] =
                         [l.stack[below] EXCEPT !.base = merged.base, !.docs = @ \cup Top(p).docs]]
  <2>1. l.pc \notin Loading \cup Over
    BY <1>17 DEF Return, Loading, Over
  <2>2. CASE End(p, "build") \/ Become(p, [l EXCEPT !.stack = stack])
    <3>1. m = [l EXCEPT !.pc = "build"] \/ m = [l EXCEPT !.stack = stack]
      BY <1>2, <1>3, <2>2
    <3>2. m.visited = l.visited /\ m.read = l.read
      <4> HIDE DEF l, m, stack
      <4> QED BY <1>1, <3>1 DEF Fields
    <3> QED BY <2>1, <3>2 DEF Goes
  <2> QED BY <1>4, <1>17, <2>2 DEF Return, Only, Goes
<1>18. CASE Build(p)
  <2> DEFINE dst  == merge(l.dst, Top(p).base)
             next == IF l.part = "global" THEN "start" ELSE IF Validate(dst) THEN "ok" ELSE "error"
  <2>1. l.pc \notin Loading \cup Over
    BY <1>18 DEF Build, Loading, Over
  <2>2. CASE Become(p, [l EXCEPT !.pc = next, !.part = "local", !.dst = dst, !.stack = <<>>])
    <3>1. m = [l EXCEPT !.pc = next, !.part = "local", !.dst = dst, !.stack = <<>>]
      BY <1>2, <2>2
    <3>2. m.visited = l.visited /\ m.read = l.read
      <4> HIDE DEF l, m, next, dst
      <4> QED BY <1>1, <3>1 DEF Fields
    <3> QED BY <2>1, <3>2 DEF Goes
  <2> QED BY <1>4, <1>18, <2>2 DEF Build, Only, Goes
<1> QED BY <1>6, <1>7, <1>8, <1>9, <1>10, <1>11, <1>12, <1>13, <1>14, <1>15, <1>16, <1>17, <1>18 DEF Acts, Step

\* A loader that reads more has met more imports.
LEMMA AskedGrows ==
  ASSUME NEW w, NEW root, NEW l, NEW m, \A part \in Parts : Extends(l.read[part], m.read[part])
  PROVE  AskedBy(w, root, l) \subseteq AskedBy(w, root, m)
<1>1. ASSUME NEW part \in Parts, NEW s \in DOMAIN l.read[part]
      PROVE  Entries(l.read[part][s]) \subseteq AskedBy(w, root, m)
  <2>1. s \in DOMAIN m.read[part] /\ m.read[part][s] = l.read[part][s]
    BY DEF Extends
  <2> QED BY <2>1, AskedHas
<1>2. ReadBy(l) \subseteq AskedBy(w, root, m)
  <2> SUFFICES ASSUME NEW e \in ReadBy(l) PROVE e \in AskedBy(w, root, m)
    OBVIOUS
  <2>1. \E part \in Parts : \E s \in DOMAIN l.read[part] : e \in Entries(l.read[part][s])
    BY DEF ReadBy
  <2> QED BY <1>1, <2>1
<1> QED BY <1>2 DEF AskedBy

\* What was done stays done, and what is done with has been done.
LEMMA MetKept ==
  ASSUME TypeInv, LoadersOK, VisitsMet, NEW p \in Processes, Acts(p)
  PROVE  VisitsMet'
<1> DEFINE l    == proc[p]
           m    == proc'[p]
           root == ResolveDefaultConfigFile
<1>1. /\ \A q \in Processes : q # p => proc'[q] = proc[q]
      /\ world' = world
      /\ LoaderOK(world, root, l) /\ LoaderOK(world, root, m)
  BY StepOK DEF LoadersOK, Acts
<1>2. root' = root
  BY <1>1 DEF ResolveDefaultConfigFile
<1>3. DOMAIN disk = world.dests
  BY DEF TypeInv
<1>4. ASSUME NEW e, Done(e) PROVE Done(e)'
  BY <1>1, <1>3, <1>4, DiskTyped DEF Done
<1>5. ASSUME m.pc \notin Over, NEW x \in m.visited
      PROVE  \E e \in AskedBy(world, root, m) : e.src = x /\ (Done(e)' \/ (m.pc \in Loading /\ m.want = e))
  <2>1. \A y \in l.visited : l.pc \notin Over =>
          \E e \in AskedBy(world, root, l) : e.src = y /\ (Done(e) \/ (l.pc \in Loading /\ l.want = e))
    BY DEF VisitsMet
  <2>2. ASSUME m.read = l.read PROVE AskedBy(world, root, m) = AskedBy(world, root, l)
    BY <2>2 DEF AskedBy, ReadBy
  <2>3. CASE l.pc \in Loading /\ m.pc \in Loading /\ m.want = l.want /\ m.visited = l.visited /\ m.read = l.read
    <3>1. l.pc \notin Over
      BY <2>3 DEF Loading, Over
    <3> HIDE DEF l, m, root
    <3> QED BY <1>4, <1>5, <2>1, <2>2, <2>3, <3>1
  <2>4. CASE l.pc \notin Loading \cup Over /\ m.visited = l.visited /\ m.read = l.read
    <3> HIDE DEF l, m, root
    <3> QED BY <1>4, <1>5, <2>1, <2>2, <2>4
  <2>5. CASE /\ l.pc \notin Loading \cup Over /\ m.pc = "load" /\ m.read = l.read
             /\ m.visited = l.visited \cup {m.want.src}
             /\ m.want \in AskedBy(world, root, l)
    <3>1. m.pc \in Loading
      BY <2>5 DEF Loading
    <3>2. CASE x = m.want.src
      <4> HIDE DEF l, m, root
      <4> QED BY <2>2, <2>5, <3>1, <3>2
    <3>3. CASE x \in l.visited
      <4> HIDE DEF l, m, root
      <4> QED BY <1>4, <2>1, <2>2, <2>5, <3>3
    <3> QED BY <1>5, <2>5, <3>2, <3>3
  <2>6. CASE l.pc \in Loading /\ (IsFileImport(l.want) => l.pc = "write") /\ \E doc : m = Enter(p, doc)
    <3>1. PICK doc : m = Enter(p, doc)
      BY <2>6
    <3>2. Shape(world, l) /\ Walk(world, root, l) /\ Knows(world, l)
      BY <1>1, <2>6 DEF LoaderOK, Loading
    <3>3. l.part \in Parts /\ l.read = [part \in Parts |-> l.read[part]] /\ l.want.src \notin DOMAIN l.read[l.part]
      BY <2>6, <3>2 DEF Shape, Walk
    <3>4. m.visited = l.visited /\ m.want = l.want
          /\ m.read = [l.read EXCEPT ![l.part] = WithRead(l.read[l.part], l.want.src, doc)]
      <4>1. l = [f \in Fields |-> l[f]]
        BY <3>2 DEF Shape
      <4> DEFINE frame == [src |-> l.want.src,
                           base |-> [n \in Names(doc) |-> [needs |-> DefOf(doc, n).needs, source |-> Empty,
                                                           part |-> l.part]],
                           todo |-> Imports(doc), docs |-> {l.want.src}]
      <4>2. m = [l EXCEPT !.pc = "imports", !.stack = Append(l.stack, frame),
                          !.read = [l.read EXCEPT ![l.part] = WithRead(l.read[l.part], l.want.src, doc)]]
        BY <3>1 DEF Enter
      <4> HIDE DEF l, m, frame
      <4> QED BY <4>1, <4>2 DEF Fields
    <3>5. \A part \in Parts : Extends(l.read[part], m.read[part])
      <4> HIDE DEF l, m
      <4> QED BY <3>3, <3>4 DEF Extends, WithRead
    <3>6. AskedBy(world, root, l) \subseteq AskedBy(world, root, m)
      BY <3>5, AskedGrows
    <3>7. Done(l.want)
      <4>1. l.want.dest # Empty => l.pc = "write"
        BY <2>6 DEF IsFileImport
      <4>2. l.pc = "write" => l.want.dest \in world.dests /\ disk[l.want.dest] # None
        BY <3>2 DEF Knows, TypeInv
      <4> QED BY <4>1, <4>2 DEF Done
    <3>8. l.pc \notin Over
      BY <2>6 DEF Loading, Over
    <3> HIDE DEF l, m, root
    <3> QED BY <1>4, <1>5, <2>1, <3>4, <3>6, <3>7, <3>8
  <2> QED BY <1>5, <2>3, <2>4, <2>5, <2>6, GoesIs DEF Goes
<1>6. ASSUME NEW q \in Processes, q # p, proc[q].pc \notin Over, NEW x \in proc[q].visited
      PROVE  \E e \in AskedBy(world, root, proc[q]) :
               e.src = x /\ (Done(e)' \/ (proc[q].pc \in Loading /\ proc[q].want = e))
  BY <1>4, <1>6 DEF VisitsMet
<1>7. ASSUME NEW q \in Processes, proc'[q].pc \notin Over, NEW x \in proc'[q].visited
      PROVE  \E e \in AskedBy(world, root, proc'[q]) :
               e.src = x /\ (Done(e)' \/ (proc'[q].pc \in Loading /\ proc'[q].want = e))
  <2>1. CASE q = p
    BY <1>5, <1>7, <2>1
  <2>2. CASE q # p
    BY <1>1, <1>6, <1>7, <2>2
  <2> QED BY <2>1, <2>2
<1> HIDE DEF root
<1>8. \A q \in Processes : proc'[q].pc \notin Over => \A x \in proc'[q].visited :
        \E e \in AskedBy(world', root', proc'[q]) :
          e.src = x /\ (Done(e)' \/ (proc'[q].pc \in Loading /\ proc'[q].want = e))
  BY <1>1, <1>2, <1>7
<1> QED BY <1>8 DEF VisitsMet, root

-----------------------------------------------------------------------------
(***************************************************************************)
(* The invariant.                                                          *)
(***************************************************************************)
\* Every loader keeps what is known of it, whoever takes the step.
LEMMA LoadersKept ==
  ASSUME TypeInv, LoadersOK, NEW p \in Processes, Acts(p)
  PROVE  LoadersOK'
<1>1. /\ LoaderOK(world, ResolveDefaultConfigFile, proc'[p])
      /\ \A q \in Processes : q # p => proc'[q] = proc[q]
      /\ world' = world
  BY StepOK DEF LoadersOK, Acts
<1>2. ResolveDefaultConfigFile' = ResolveDefaultConfigFile
  BY <1>1 DEF ResolveDefaultConfigFile
<1>3. \A q \in Processes : LoaderOK(world, ResolveDefaultConfigFile, proc'[q])
  BY <1>1 DEF LoadersOK
<1>4. \A q \in Processes : LoaderOK(world', ResolveDefaultConfigFile', proc'[q])
  <2> DEFINE root == ResolveDefaultConfigFile
  <2> HIDE DEF root
  <2>1. root' = root /\ \A q \in Processes : LoaderOK(world, root, proc'[q])
    BY <1>2, <1>3 DEF root
  <2>2. \A q \in Processes : LoaderOK(world', root', proc'[q])
    BY <1>1, <2>1
  <2> QED BY <2>2 DEF root
<1> QED BY <1>4 DEF LoadersOK

\* A new version of a document is published: no loader sees it before it reads.
LEMMA PublishKeeps ==
  ASSUME IInv, NEW src \in DOMAIN world.docs, Publish(src)
  PROVE  IInv'
<1>1. /\ world' = world /\ commit' = commit /\ cache' = cache /\ disk' = disk /\ proc' = proc
      /\ spoiled' = spoiled /\ torn' = torn /\ version' = [version EXCEPT ![src] = @ + 1]
      /\ version[src] < Len(world.docs[src])
  BY DEF Publish
<1>2. IsWorld(world) /\ version = [s \in DOMAIN world.docs |-> version[s]]
      /\ \A s \in DOMAIN world.docs : version[s] \in DOMAIN world.docs[s]
  BY TypesIs DEF IInv, TypeInv
<1>3. world.docs[src] \in Seq(Seq(Lines(world)))
  BY <1>2 DEF IsWorld
<1>4. version[src] + 1 \in DOMAIN world.docs[src]
  <2> DEFINE doc == world.docs[src]
             v   == version[src]
  <2>1. doc \in Seq(Seq(Lines(world))) /\ v \in DOMAIN doc /\ v < Len(doc)
    BY <1>1, <1>2, <1>3
  <2> HIDE DEF doc, v
  <2>2. DOMAIN doc = 1 .. Len(doc) /\ Len(doc) \in Nat
    BY <2>1
  <2>3. v + 1 \in DOMAIN doc
    BY <2>1, <2>2
  <2> QED BY <2>3 DEF doc, v
<1>5. version' = [s \in DOMAIN world.docs |-> version'[s]]
      /\ \A s \in DOMAIN world.docs : version'[s] \in DOMAIN world.docs[s]
  BY <1>1, <1>2, <1>4
<1>6. TypeInv'
  BY ZenonT(30), <1>1, <1>5 DEF IInv, TypeInv, Remote
<1>7. LoadersOK'
  BY <1>1 DEF IInv, LoadersOK, ResolveDefaultConfigFile
<1>8. CacheOK'
  BY <1>1 DEF IInv, CacheOK, Writing, Versions
<1>9. DiskOK'
  BY <1>1 DEF IInv, DiskOK, WritingTo
<1>10. VisitsMet'
  <2>1. ResolveDefaultConfigFile' = ResolveDefaultConfigFile /\ \A e : Done(e) => Done(e)'
    BY <1>1 DEF ResolveDefaultConfigFile, Done
  <2> QED BY <1>1, <2>1 DEF IInv, VisitsMet
<1> QED BY <1>6, <1>7, <1>8, <1>9, <1>10 DEF IInv

\* A loader that has not begun.
LEMMA IdleOK ==
  ASSUME NEW w, NEW root, NEW pc \in {"start", "off"}
  PROVE  LoaderOK(w, root, [Idle EXCEPT !.pc = pc])
<1> DEFINE l == [Idle EXCEPT !.pc = pc]
<1>1. /\ l = [f \in Fields |-> l[f]]
      /\ l.pc = pc /\ l.want = Plain(Empty) /\ l.body = <<>> /\ l.at = 0 /\ l.stack = <<>> /\ l.visited = {}
      /\ l.part = "global" /\ l.dst = <<>> /\ l.read = [part \in Parts |-> <<>>]
  BY DEF Idle, Fields
<1> HIDE DEF l
<1>2. DOMAIN l.read["global"] = {} /\ DOMAIN l.read["local"] = {} /\ \A part \in Parts : DOMAIN l.read[part] = {}
  BY <1>1 DEF Parts
<1>3. DOMAIN l.dst = {}
  BY <1>1
<1>4. <<>> \in Text(w) /\ l.stack \in Seq(Range(l.stack))
  <2>1. \A S : <<>> \in Seq(S)
    OBVIOUS
  <2> QED BY <1>1, <2>1 DEF Text
<1>5. Shape(w, l)
  BY <1>1, <1>2, <1>4 DEF Shape, Parts, Over
<1>6. Knows(w, l)
  BY <1>1 DEF Knows, Loading
<1>7. Visits(w, root, l)
  BY <1>1, <1>2, <1>3 DEF Visits, Loading
<1> QED BY <1>1, <1>5, <1>6, <1>7 DEF LoaderOK, Loading, l

\* The invariant holds at the start.
LEMMA InitOK == Init => IInv
<1> SUFFICES ASSUME Init PROVE IInv
  OBVIOUS
<1>1. world \in Worlds /\ IsWorld(world)
  BY WorldAssumption DEF Init
<1>2. /\ proc = [p \in Processes |-> proc[p]]
      /\ \A p \in Processes : \E pc \in {"start", "off"} : proc[p] = [Idle EXCEPT !.pc = pc]
  BY DEF Init
<1>3. \A p \in Processes : proc[p].pc \in {"start", "off"} /\ proc[p].visited = {}
  BY <1>2 DEF Idle
<1>4. \A s \in DOMAIN world.docs : 1 \in DOMAIN world.docs[s]
  BY <1>1 DEF IsWorld
<1>5. TypeInv
  <2>1. version = [s \in DOMAIN world.docs |-> version[s]] /\ \A s \in DOMAIN world.docs : version[s] \in DOMAIN world.docs[s]
    BY <1>4 DEF Init
  <2>2. /\ cache = [s \in {s \in DOMAIN world.kind : Remote(s)} |-> cache[s]]
        /\ \A s \in DOMAIN cache : cache[s] = None
        /\ disk = [d \in world.dests |-> disk[d]]
        /\ \A d \in DOMAIN disk : disk[d] = None
        /\ commit = [g \in DOMAIN world.git |-> CommitOf(world.ssh, world.git[g])]
    BY DEF Init
  <2> QED BY <1>1, <1>2, <1>3, <2>1, <2>2 DEF TypeInv
<1>6. LoadersOK
  <2>1. \A w, root : \A pc \in {"start", "off"} : LoaderOK(w, root, [Idle EXCEPT !.pc = pc])
    BY IdleOK
  <2> QED BY <1>2, <2>1 DEF LoadersOK
<1>7. CacheOK
  BY <1>3 DEF Init, CacheOK, Writing
<1>8. DiskOK
  BY <1>3 DEF Init, DiskOK, WritingTo
<1>9. VisitsMet
  BY <1>3 DEF VisitsMet
<1> QED BY <1>5, <1>6, <1>7, <1>8, <1>9 DEF IInv

\* Every step keeps it.
LEMMA NextKeeps == IInv /\ [Next]_vars => IInv'
<1> SUFFICES ASSUME IInv, [Next]_vars PROVE IInv'
  OBVIOUS
<1>1. CASE UNCHANGED vars
  <2>1. /\ world' = world /\ commit' = commit /\ cache' = cache /\ disk' = disk /\ proc' = proc
        /\ spoiled' = spoiled /\ torn' = torn /\ version' = version
    BY <1>1 DEF vars
  <2>2. TypeInv' /\ LoadersOK'
    BY <2>1 DEF IInv, TypeInv, Remote, LoadersOK, ResolveDefaultConfigFile
  <2>3. CacheOK' /\ DiskOK'
    BY <2>1 DEF IInv, CacheOK, Writing, Versions, DiskOK, WritingTo
  <2>4. VisitsMet'
    <3>1. ResolveDefaultConfigFile' = ResolveDefaultConfigFile /\ \A e : Done(e) => Done(e)'
      BY <2>1 DEF ResolveDefaultConfigFile, Done
    <3> QED BY <2>1, <3>1 DEF IInv, VisitsMet
  <2> QED BY <2>2, <2>3, <2>4 DEF IInv
<1>2. ASSUME NEW p \in Processes, Acts(p) PROVE IInv'
  BY <1>2, TypeKept, LoadersKept, CacheKept, DiskKept, MetKept DEF IInv
<1>3. ASSUME NEW src \in DOMAIN world.docs, Publish(src) PROVE IInv'
  BY <1>3, PublishKeeps
<1> QED BY <1>1, <1>2, <1>3 DEF Next, Acts

(***************************************************************************)
(* The inductive invariant holds of every world: what each loader has read *)
(* and collected, what the cache and the disk owe to those that write      *)
(* them, and that what was visited was asked for (loader.go, cache.go).    *)
(***************************************************************************)
THEOREM ConfigLoaderInvariant == Spec => []IInv
BY InitOK, NextKeeps, PTL DEF Spec

-----------------------------------------------------------------------------
(***************************************************************************)
(* The properties.                                                         *)
(***************************************************************************)
(***************************************************************************)
(* A load that succeeds has read all files that its imports reach, and has *)
(* the definitions of all of them, once each, whatever the cycles and      *)
(* diamonds of imports (parseImports, mergeExistingWithImported).          *)
(***************************************************************************)
THEOREM LoadIsTheClosure == Spec => []LoadedIsClosure
<1>1. IInv => LoadedIsClosure
  <2> SUFFICES ASSUME IInv, NEW p \in Processes, proc[p].pc = "ok"
               PROVE  LET l      == proc[p]
                          root   == ResolveDefaultConfigFile
                          global == Merged(l.read["global"], GlobalDocs(p), world.global)
                          local  == Merged(l.read["local"], LocalDocs(p), root)
                      IN  /\ GlobalDocs(p) \ DOMAIN world.lists = DOMAIN l.read["global"]
                          /\ LocalDocs(p) \ DOMAIN world.lists = DOMAIN l.read["local"]
                          /\ DOMAIN l.dst = global \cup local
                          /\ Once(l.read["global"], GlobalDocs(p)) /\ Once(l.read["local"], LocalDocs(p))
                          /\ \A n \in DOMAIN l.dst : n \in (IF l.dst[n].part = "global" THEN global ELSE local)
                          /\ SourceIsDirectImport(p)
    BY DEF LoadedIsClosure
  <2> DEFINE l     == proc[p]
             root  == ResolveDefaultConfigFile
             gdocs == Closure(world.lists, l.read["global"], {world.global} \ {Empty})
             ldocs == (Closure(world.lists, l.read["local"], {root}) \ gdocs) \cup {root}
  <2>1. Loaded(world, root, l)
    BY DEF IInv, LoadersOK, LoaderOK
  <2>2. GlobalDocs(p) = gdocs /\ LocalDocs(p) = ldocs
    BY DEF GlobalDocs, LocalDocs
  <2>3. SourceIsDirectImport(p)
    BY <2>1 DEF SourceIsDirectImport, Loaded, Origin
  <2> HIDE DEF root
  <2> QED BY <2>1, <2>2, <2>3 DEF Loaded, root
<1> QED BY <1>1, ConfigLoaderInvariant, PTL

(***************************************************************************)
(* A cache file that nobody writes is one whole version of its document,   *)
(* unless two loaders had it open or one gave up on it (cache.go:84).      *)
(***************************************************************************)
THEOREM CacheFilesAreWhole == Spec => []CacheIsWhole
<1>1. IInv => CacheIsWhole
  BY DEF IInv, CacheOK, CacheIsWhole
<1> QED BY <1>1, ConfigLoaderInvariant, PTL

\* What a loader has read, it has an entry of.
LEMMA RequestedIs ==
  ASSUME NEW p
  PROVE  /\ Requested(p) = ReadBy(proc[p])
         /\ \A e \in Requested(p) : \E part \in Parts : \E s \in DOMAIN proc[p].read[part] :
              e \in Entries(proc[p].read[part][s])
<1>1. Requested(p) = ReadBy(proc[p])
  BY DEF Requested, ReadBy
<1>2. \A e \in ReadBy(proc[p]) : \E part \in Parts : \E s \in DOMAIN proc[p].read[part] :
        e \in Entries(proc[p].read[part][s])
  BY DEF ReadBy
<1> QED BY <1>1, <1>2

\* An import of a document that was read and that is no directory was visited,
\* when the load succeeds.
LEMMA RequestedVisited ==
  ASSUME IInv, NEW p \in Processes, proc[p].pc = "ok", NEW e \in Requested(p), e.src \notin DOMAIN world.lists
  PROVE  e.src \in proc[p].visited /\ e \in EntriesOf(world)
<1> DEFINE l     == proc[p]
           root  == ResolveDefaultConfigFile
           gread == l.read["global"]
           lread == l.read["local"]
           gdocs == Closure(world.lists, gread, {world.global} \ {Empty})
           cl    == Closure(world.lists, lread, {root})
           ldocs == (cl \ gdocs) \cup {root}
<1>1. /\ l.visited = DOMAIN gread \cup DOMAIN lread
      /\ gdocs \ DOMAIN world.lists = DOMAIN gread
      /\ ldocs \ DOMAIN world.lists = DOMAIN lread
  BY DEF IInv, LoadersOK, LoaderOK, Loaded
<1>2. PICK part \in Parts : \E s \in DOMAIN l.read[part] : e \in Entries(l.read[part][s])
  BY RequestedIs
<1>3. PICK s \in DOMAIN l.read[part] : e \in Entries(l.read[part][s])
  BY <1>2
<1>4. l.read[part][s] \in Text(world)
  BY DEF IInv, LoadersOK, LoaderOK, Shape
<1>5. e \in EntriesOf(world)
  <2>1. IsWorld(world)
    BY TypesIs DEF IInv
  <2>2. PICK i \in Imports(l.read[part][s]) : e = l.read[part][s][i].entry
    BY <1>3 DEF Entries
  <2> QED BY <1>4, <2>1, <2>2, EntryIs
<1>6. s \notin DOMAIN world.lists
  <2>1. DOMAIN gread \cap DOMAIN world.lists = {} /\ DOMAIN lread \cap DOMAIN world.lists = {}
    <3> HIDE DEF gdocs, ldocs
    <3> QED BY <1>1
  <2> QED BY <2>1 DEF Parts
<1>7. e.src \in ImportedBy(world.lists, l.read[part], s)
  BY <1>3, <1>6 DEF ImportedBy
<1>8. CASE part = "global"
  <2>1. s \in gdocs
    BY <1>1, <1>3, <1>8
  <2>2. e.src \in gdocs
    BY <1>7, <1>8, <2>1, ClosureClosed DEF Closed
  <2> HIDE DEF gdocs, ldocs
  <2> QED BY <1>1, <1>5, <2>2
<1>9. CASE part = "local"
  <2>1. root \in cl
    BY ClosureHas
  <2>2. s \in ldocs
    BY <1>1, <1>3, <1>9
  <2>3. s \in cl
    BY <2>1, <2>2
  <2>4. e.src \in cl
    BY <1>7, <1>9, <2>3, ClosureClosed DEF Closed
  <2> HIDE DEF gdocs, cl
  <2> QED BY <1>1, <1>5, <2>4
<1> QED BY <1>8, <1>9 DEF Parts

\* A hashed file that no other import gets in the way of has the content of
\* its hash when the load succeeds.
LEMMA HashedFileExact == IInv => HashedFileIsExact
<1> SUFFICES ASSUME IInv, NEW p \in Processes, proc[p].pc = "ok",
                    NEW e \in Requested(p), e.dest # Empty, e.hash # Empty, Alone(p, e),
                    e.dest \notin torn, \A q \in Processes : ~WritingTo(q, e.dest)
             PROVE  disk[e.dest] = world.hashes[e.hash]
  BY DEF HashedFileIsExact
<1> DEFINE root == ResolveDefaultConfigFile
<1>1. /\ e.src \notin DOMAIN world.lists \cup Listed \cup {world.global, root}
      /\ \A o \in Requested(p) : o.src = e.src => o = e
      /\ \A o \in WorldEntries : o.dest = e.dest => o.hash = e.hash
  BY DEF Alone, Roots
<1>2. e.src \in proc[p].visited /\ e \in EntriesOf(world)
  BY <1>1, RequestedVisited
<1>3. PICK o \in AskedBy(world, root, proc[p]) : o.src = e.src /\ Done(o)
  <2>1. "ok" \notin Over /\ "ok" \notin Loading
    BY DEF Over, Loading
  <2> QED BY <1>2, <2>1 DEF IInv, VisitsMet
<1>4. o \in Requested(p)
  <2>1. Given(world, root) \subseteq Listed \cup {world.global, root}
    BY DEF Given, Listed
  <2>2. \A s : Plain(s).src = s
    BY DEF Plain
  <2>3. o \in Requested(p) \/ \E s \in Given(world, root) : o = Plain(s)
    BY RequestedIs DEF AskedBy
  <2> HIDE DEF root
  <2> QED BY <1>1, <1>3, <2>1, <2>2, <2>3
<1>5. o = e
  BY <1>1, <1>3, <1>4
<1>6. e.dest \in world.dests /\ disk[e.dest] # None
  BY <1>3, <1>5 DEF Done
<1>7. Sole(world, e)
  BY <1>1 DEF Sole, WorldEntries, EntriesOf
<1> QED BY <1>2, <1>6, <1>7 DEF IInv, DiskOK

\* How the host-key callback is configured: the command line wins over the
\* config file (processSSHConfig, hostKeyCallback).
LEMMA AuthIs ==
  ASSUME NEW env, NEW host
  PROVE  LET command == parseGitSshCommandEnv(env.command)
             file    == IF command.config # Empty THEN command.config
                        ELSE FirstOf(Existing(env, ConfigDefaults), Empty)
             hosts   == IF file # Empty /\ file \in DOMAIN env.config THEN env.config[file] ELSE <<>>
             conf    == processSSHConfig(env, hosts, command, host).conf
             auth    == getGitSSHAuth(env, host)
         IN  /\ ~auth.err => file = Empty \/ file \in DOMAIN env.config
             /\ ~auth.err => ~hostKeyCallback(env, conf).err
             /\ auth.check = hostKeyCallback(env, conf).check
             /\ auth.files = hostKeyCallback(env, conf).files
             /\ conf.user = mergeSSHKnownHostsFile(env, command.user, hosts, "userknownhostsfile").paths
             /\ conf.system = mergeSSHKnownHostsFile(env, command.system, hosts, "globalknownhostsfile").paths
             /\ conf.strict = setSSHConfigValue(command.strict, hosts, "stricthostkeychecking", Empty)
<1> DEFINE command == parseGitSshCommandEnv(env.command)
           file    == IF command.config # Empty THEN command.config
                      ELSE FirstOf(Existing(env, ConfigDefaults), Empty)
           hosts   == IF file # Empty /\ file \in DOMAIN env.config THEN env.config[file] ELSE <<>>
           conf    == processSSHConfig(env, hosts, command, host).conf
           auth    == getGitSSHAuth(env, host)
<1>1. /\ ~auth.err => file = Empty \/ file \in DOMAIN env.config
      /\ ~auth.err => ~hostKeyCallback(env, conf).err
      /\ auth.check = hostKeyCallback(env, conf).check
      /\ auth.files = hostKeyCallback(env, conf).files
  BY DEF getGitSSHAuth, parseDefaultSshConfigFilePaths
<1>2. command = [identity |-> command.identity, config |-> command.config, host |-> command.host,
                 port |-> command.port, strict |-> command.strict, login |-> command.login,
                 user |-> command.user, system |-> command.system]
  BY DEF parseGitSshCommandEnv
<1> HIDE DEF command
<1>3. /\ conf.user = mergeSSHKnownHostsFile(env, command.user, hosts, "userknownhostsfile").paths
      /\ conf.system = mergeSSHKnownHostsFile(env, command.system, hosts, "globalknownhostsfile").paths
      /\ conf.strict = setSSHConfigValue(command.strict, hosts, "stricthostkeychecking", Empty)
  <2> HIDE DEF hosts
  <2> QED BY ZenonT(30), <1>2 DEF processSSHConfig
<1> QED BY <1>1, <1>3 DEF command

\* A commit over ssh is from a host whose key is known, or nobody asked.
LEMMA HostTrusted == IInv => TrustedHost
<1> SUFFICES ASSUME IInv, NEW p \in Processes, GitSrc(p), world.git[proc[p].want.src].proto = "ssh"
             PROVE  LET env      == world.ssh
                        command  == parseGitSshCommandEnv(env.command)
                        file     == IF command.config # Empty THEN command.config
                                    ELSE FirstOf(Existing(env, ConfigDefaults), Empty)
                        hosts    == IF file = Empty THEN <<>> ELSE env.config[file]
                        named(cmd, option) == IF cmd # <<>> THEN cmd ELSE sshConfigPathValues(env, hosts, option).paths
                        user     == named(command.user, "userknownhostsfile")
                        system   == named(command.system, "globalknownhostsfile")
                        trusted  == Range(IF user = <<>> THEN UserHostsDefaults ELSE user) \cup
                                    Range(IF system = <<>> THEN SystemHostsDefaults ELSE system)
                        strict   == IF command.strict # Empty THEN command.strict ELSE Get(hosts, "stricthostkeychecking")
                    IN  \/ strict = "no"
                        \/ /\ Range(user) \cup Range(system) \subseteq env.exists
                           /\ trusted \cap env.exists \cap env.knows # {}
  BY Zenon DEF TrustedHost
<1> DEFINE src     == proc[p].want.src
           git     == world.git[src]
           env     == world.ssh
           auth    == getGitSSHAuth(env, git.host)
           command == parseGitSshCommandEnv(env.command)
           file    == IF command.config # Empty THEN command.config
                      ELSE FirstOf(Existing(env, ConfigDefaults), Empty)
           found   == IF file # Empty /\ file \in DOMAIN env.config THEN env.config[file] ELSE <<>>
           hosts   == IF file = Empty THEN <<>> ELSE env.config[file]
           conf    == processSSHConfig(env, found, command, git.host).conf
           user    == IF command.user # <<>> THEN command.user
                      ELSE sshConfigPathValues(env, hosts, "userknownhostsfile").paths
           system  == IF command.system # <<>> THEN command.system
                      ELSE sshConfigPathValues(env, hosts, "globalknownhostsfile").paths
           strict  == IF command.strict # Empty THEN command.strict ELSE Get(hosts, "stricthostkeychecking")
<1>1. CommitOf(env, git) # 0
  BY DEF IInv, LoadersOK, LoaderOK, Knows, GitSrc
<1>2. ~auth.err /\ Clones(env, auth)
  BY <1>1 DEF CommitOf
<1>3. /\ file = Empty \/ file \in DOMAIN env.config
      /\ ~hostKeyCallback(env, conf).err
      /\ auth.check = hostKeyCallback(env, conf).check
      /\ auth.files = hostKeyCallback(env, conf).files
      /\ conf.user = mergeSSHKnownHostsFile(env, command.user, found, "userknownhostsfile").paths
      /\ conf.system = mergeSSHKnownHostsFile(env, command.system, found, "globalknownhostsfile").paths
      /\ conf.strict = setSSHConfigValue(command.strict, found, "stricthostkeychecking", Empty)
  BY ZenonT(30), <1>2, AuthIs
<1>4. found = hosts
  <2> HIDE DEF file
  <2> QED BY <1>3
<1> HIDE DEF found, hosts, conf, auth, command, env
<1>5. conf.user = user /\ conf.system = system /\ conf.strict = strict
  BY <1>3, <1>4 DEF mergeSSHKnownHostsFile, setSSHConfigValue
<1> HIDE DEF user, system, strict
<1>6. CASE strict = "no"
  BY <1>6 DEF strict, hosts, command, env
<1>7. CASE strict # "no"
  <2>1. Range(user) \cup Range(system) \subseteq env.exists
    BY <1>3, <1>5, <1>7 DEF hostKeyCallback, validateConfiguredKnownHostsFiles
  <2>2. knownHostsFiles(env, conf) \cap env.knows # {}
    BY <1>2, <1>3, <1>5, <1>7 DEF hostKeyCallback, Clones
  <2>3. (Range(IF user = <<>> THEN UserHostsDefaults ELSE user) \cup
         Range(IF system = <<>> THEN SystemHostsDefaults ELSE system)) \cap env.exists \cap env.knows # {}
    BY <1>5, <2>2 DEF knownHostsFiles
  <2> QED BY Zenon, <2>1, <2>3 DEF user, system, hosts, command, env
<1> QED BY Zenon, <1>6, <1>7

\* A git import is of the commit that its ref names (getCommit).
LEMMA RefNamed == IInv => RefNamesCommit
<1> SUFFICES ASSUME IInv, NEW p \in Processes, GitSrc(p)
             PROVE  LET git   == world.git[proc[p].want.src]
                        repo  == git.repo
                        named == {names[git.ref] : names \in {n \in {repo.hashes, repo.tags, repo.heads, repo.remotes} :
                                                                git.ref \in DOMAIN n}}
                        docs  == world.docs[proc[p].want.src]
                    IN  IF git.ref = Empty THEN proc[p].body = docs[repo.head]
                        ELSE /\ \E c \in named : proc[p].body = docs[c]
                             /\ git.ref \in DOMAIN repo.tags \ DOMAIN repo.hashes =>
                                  proc[p].body = docs[repo.tags[git.ref]]
  BY Zenon DEF RefNamesCommit
<1> DEFINE src  == proc[p].want.src
           git  == world.git[src]
           repo == git.repo
           ref  == git.ref
           docs == world.docs[src]
           c    == CommitOf(world.ssh, git)
           maps == {repo.hashes, repo.tags, repo.heads, repo.remotes}
           named == {names[ref] : names \in {n \in maps : ref \in DOMAIN n}}
<1>1. c # 0 /\ proc[p].body = docs[c] /\ src \in DOMAIN world.docs
  BY DEF IInv, LoadersOK, LoaderOK, Knows, GitSrc
<1>2. c = getCommit(repo, ref)
  BY ZenonT(30), <1>1 DEF CommitOf
<1>3. Commits(repo) \subseteq DOMAIN docs /\ docs \in Seq(Seq(Lines(world)))
  <2>1. IsWorld(world) /\ world.kind[src] = "git"
    BY TypesIs DEF IInv, GitSrc
  <2> QED BY Zenon, <1>1, <2>1 DEF IsWorld
<1>4. 0 \notin Commits(repo)
  <2> HIDE DEF docs, repo
  <2> QED BY <1>3
<1> HIDE DEF c, docs
<1>5. CASE ref = Empty
  BY <1>1, <1>2, <1>5 DEF getCommit, docs
<1>6. CASE ref # Empty
  <2> HIDE DEF repo, ref
  <2>1. \A names \in maps : ref \in DOMAIN names => names[ref] \in named
    OBVIOUS
  <2>2. c \in named
    BY <1>1, <1>2, <1>6, <2>1 DEF getCommit, ResolveRevision, Or, Resolve
  <2>3. ASSUME ref \in DOMAIN repo.tags \ DOMAIN repo.hashes PROVE c = repo.tags[ref]
    <3>1. repo.tags[ref] \in Commits(repo)
      BY <2>3 DEF Commits, Range
    <3>2. Resolve(repo.hashes, ref) = 0 /\ Resolve(repo.tags, ref) = repo.tags[ref] /\ repo.tags[ref] # 0
      BY <1>4, <2>3, <3>1 DEF Resolve
    <3> QED BY <1>2, <1>6, <3>2 DEF getCommit, ResolveRevision, Or
  <2>4. (\E d \in named : proc[p].body = docs[d])
        /\ (ref \in DOMAIN repo.tags \ DOMAIN repo.hashes => proc[p].body = docs[repo.tags[ref]])
    BY <1>1, <2>2, <2>3
  <2> QED BY Zenon, <1>6, <2>4 DEF docs, repo, ref
<1> QED BY ZenonT(30), <1>5, <1>6

(***************************************************************************)
(* An import is what its entry names: the content of the hash, the commit  *)
(* of the ref, from a host whose key is known (loader.go:520, getCommit,   *)
(* hostKeyCallback).                                                       *)
(***************************************************************************)
THEOREM ImportsAreAsNamed == Spec => []ImportIsAsNamed
<1>1. IInv => ImportIsAsNamed
  BY HashedFileExact, HostTrusted, RefNamed DEF ImportIsAsNamed
<1> QED BY <1>1, ConfigLoaderInvariant, PTL

(***************************************************************************)
(* A cached config that parses serves all later loads: it is neither       *)
(* fetched again nor changed (Cache.Get, loader.go:190).                   *)
(***************************************************************************)
THEOREM CachedIsOffline == Spec => OfflineOnceCached
<1> DEFINE Offline == \A src \in DOMAIN cache :
                        ConfigOnly(src) /\ Pending(src) = {} /\ cache[src] # None /\ Parses(cache[src]) =>
                          Pending(src)' = {} /\ cache'[src] = cache[src]
<1>1. ASSUME IInv, NEW p \in Processes, Acts(p), NEW src \in DOMAIN cache,
             ConfigOnly(src), Pending(src) = {}, cache[src] # None, Parses(cache[src])
      PROVE  Pending(src)' = {} /\ cache'[src] = cache[src]
  <2> DEFINE l    == proc[p]
             m    == proc'[p]
             held == {"fetch", "store", "copy"}
  <2>1. /\ TypeInv /\ LoadersOK
        /\ proc = [q \in Processes |-> proc[q]] /\ l = [f \in Fields |-> l[f]]
        /\ Shape(world, l) /\ Knows(world, l)
    <3>1. TypeInv /\ LoadersOK
      BY <1>1 DEF IInv
    <3>2. proc = [q \in Processes |-> proc[q]]
      BY <3>1, TypesIs
    <3>3. Shape(world, l) /\ Knows(world, l)
      BY <3>1 DEF LoadersOK, LoaderOK
    <3>4. l = [f \in Fields |-> l[f]]
      BY <3>3 DEF Shape
    <3> QED BY <3>1, <3>2, <3>3, <3>4
  <2>2. \A q \in Processes : q # p => proc'[q] = proc[q]
    BY <1>1, <2>1, StepOK DEF LoadersOK, Acts
  <2>3. \A q \in Processes : ~(proc[q].want.src = src /\ proc[q].pc \in held)
    BY <1>1 DEF Pending
  <2>4. l.want.src = src => l.want.dest = Empty
    <3>1. CASE l.want \in EntriesOf(world)
      <4>1. l.want \in WorldEntries
        BY <3>1 DEF EntriesOf, WorldEntries
      <4> QED BY <1>1, <4>1 DEF ConfigOnly, IsFileImport
    <3>2. CASE l.want \in {Plain(s) : s \in DOMAIN world.kind \cup {Empty}}
      BY <3>2 DEF Plain
    <3> QED BY <2>1, <3>1, <3>2 DEF Shape
  <2>5. l.want.src = src => l.pc \notin {"dest", "write"}
    BY <2>1, <2>4 DEF Knows
  <2>6. ASSUME m.want.src = src, m.pc \in held PROVE FALSE
    <3>1. m.want = l.want \/ m.pc \notin held
      <4>1. \A doc : Enter(p, doc).pc = "imports"
        BY <2>1 DEF Enter, Fields
      <4>2. m.pc \in {"fetch", "store", "copy"} => l.pc \in Loading
        BY <1>1, <2>1, PcIs DEF Acts, Step, Loading
      <4>3. Goes(p, l, m)
        BY <1>1, <2>1, GoesIs
      <4> HIDE DEF l, m
      <4> QED BY <4>1, <4>2, <4>3 DEF Goes, Over
    <3>2. l.want.src = src /\ l.pc \notin held \cup {"dest", "write"}
      BY <2>3, <2>5, <2>6, <3>1
    <3>3. CacheGet(p) /\ m.pc = "fetch"
      BY <1>1, <2>1, <2>6, <3>2, PcIs DEF Acts, Step
    <3>4. ~(cache[src] = None \/ ~CacheServes(l.want, cache[src]))
      BY <1>1, <2>4, <3>2 DEF CacheServes, IsFileImport
    <3>5. l.want.dest = Empty
      BY <2>4, <3>2
    <3>6. Become(p, Enter(p, cache[src]))
      BY <3>2, <3>3, <3>4, <3>5 DEF CacheGet, Only, IsFileImport
    <3>7. m = Enter(p, cache[src])
      BY <2>1, <3>6, BecomeIs
    <3> QED BY <2>1, <3>3, <3>7 DEF Enter, Fields
  <2>7. \A q \in Processes : ~(proc'[q].want.src = src /\ proc'[q].pc \in held)
    BY <2>2, <2>3, <2>6
  <2>8. Pending(src)' = {}
    BY <2>7 DEF Pending
  <2>9. cache'[src] = cache[src]
    <3>1. l.want.src # src \/ l.pc \notin held
      BY <2>3
    <3>2. CASE Store(p) \/ Copy(p)
      BY <3>1, <3>2 DEF Store, Copy
    <3>3. CASE CopyFails(p) \/ Kill(p)
      BY <3>3 DEF CopyFails, Kill
    <3> QED BY <1>1, <2>1, <3>2, <3>3, SidesAre
  <2> QED BY <2>8, <2>9
<1>2. IInv /\ [Next]_vars => [Offline]_vars
  <2> SUFFICES ASSUME IInv, [Next]_vars PROVE Offline \/ UNCHANGED vars
    OBVIOUS
  <2>1. ASSUME NEW p \in Processes, Acts(p) PROVE Offline
    BY <1>1, <2>1
  <2>2. ASSUME NEW s \in DOMAIN world.docs, Publish(s) PROVE Offline
    BY <2>2 DEF Publish, Pending
  <2> QED BY <2>1, <2>2 DEF Next, Acts
<1>3. Spec => []IInv
  BY ConfigLoaderInvariant
<1>4. Spec => [][Offline]_vars
  <2> HIDE DEF Offline
  <2> QED BY <1>2, <1>3, PTL DEF Spec
<1> QED BY <1>4 DEF OfflineOnceCached
=============================================================================
