---------------------------- MODULE ConfigLoader ----------------------------
(***************************************************************************)
(* Loading a configuration (internal/config/loader.go, cache.go and the    *)
(* end of config.go): the global file, the local file, their imports from  *)
(* files, directories, URLs and git, the cache of remote imports in the    *)
(* home directory, and the files that imports write.  Several processes    *)
(* load at the same time and share the cache and the written files; a      *)
(* process may be killed at any step, and the remote side may publish a    *)
(* new version of a document.                                              *)
(*                                                                         *)
(* A document is a sequence of lines, each an import or a definition.  A   *)
(* file is written from its beginning, a line at a time; what lies between *)
(* the end of a file and the offset of a writer reads as garbage.          *)
(***************************************************************************)
EXTENDS GitSource

CONSTANTS
  Worlds,     \* what there is to load: see IsWorld below
  Processes,
  None        \* no file

VARIABLES
  world,
  version,  \* which version of a remote document is published
  commit,   \* the commit of every git source: nothing it depends on changes
  cache,    \* ~/.eirctl/cache, by Src
  disk,     \* the files written by imports, by Dest
  proc,     \* the loaders
  faults,
  spoiled,  \* history: cache files opened by two writers, or left by one
  torn      \* history: the same of the files on disk

vars == <<world, version, commit, cache, disk, proc, faults, spoiled, torn>>

Garbage == [line |-> "garbage"]

(***************************************************************************)
(* A world: kind of every Src ("url", "git", "file", "dir"), docs with the *)
(* versions of every document, lists with the files of a directory, the    *)
(* global file, the files the local one may be, absolute with the files    *)
(* imports name by an absolute path, git with the sources that are git     *)
(* paths, the ssh environment, dests with the places inside the project,   *)
(* hashes with the content that a hash stands for, the processes that      *)
(* load, and a bound on failures and kills.                                *)
(***************************************************************************)
Lines(w) == UNION {UNION {Range(doc) : doc \in Range(w.docs[s])} : s \in DOMAIN w.docs}

IsLine(w, l) ==
  \/ l = Garbage
  \/ l.line = "def"
  \/ /\ l.line = "import"
     /\ l.entry = [src |-> l.entry.src, dest |-> l.entry.dest, hash |-> l.entry.hash]
     /\ l.entry.src \in DOMAIN w.kind

Commits(repo) ==
  {repo.head} \cup UNION {Range(names) : names \in {repo.hashes, repo.tags, repo.heads, repo.remotes}}

IsWorld(w) ==
  LET files == {s \in DOMAIN w.kind : w.kind[s] = "file"} IN
  /\ Empty \notin DOMAIN w.kind
  /\ DOMAIN w.lists = {s \in DOMAIN w.kind : w.kind[s] = "dir"}
  /\ \A d \in DOMAIN w.lists : w.lists[d] \in Seq(files)
  /\ DOMAIN w.docs \subseteq DOMAIN w.kind \ DOMAIN w.lists
  /\ \A s \in DOMAIN w.docs : w.docs[s] \in Seq(Seq(Lines(w))) \ {<<>>}
  /\ \A l \in Lines(w) : IsLine(w, l)
  /\ w.local \in Seq(files)
  /\ w.global \in files \cup {Empty}
  /\ \A s \in DOMAIN w.docs : w.kind[s] = "git" =>
       s \in DOMAIN w.git /\ Commits(w.git[s].repo) \subseteq DOMAIN w.docs[s]
  /\ None \notin Seq(Lines(w) \cup {Garbage})
  /\ w.faults \in Nat

ASSUME WorldAssumption == \A w \in Worlds : IsWorld(w)

Parts == {"global", "local"}

Remote(src) == world.kind[src] \in {"url", "git"}

IsFileImport(e) == e.dest # Empty

\* The places of a document's imports; they are taken in their order.
Imports(doc) == {i \in DOMAIN doc : doc[i].line = "import"}

First(S) == CHOOSE i \in S : \A j \in S : i <= j

Names(doc) == {doc[i].name : i \in {i \in DOMAIN doc : doc[i].line = "def"}}

DefOf(doc, name) == doc[CHOOSE i \in DOMAIN doc : doc[i].line = "def" /\ doc[i].name = name]

\* yaml.Unmarshal takes an empty document, the Decoder does not.
Parses(doc) == Garbage \notin Range(doc)

Decodes(doc) == doc # <<>> /\ Parses(doc)

Plain(src) == [src |-> src, dest |-> Empty, hash |-> Empty]

\* A frame of the stack has the docs its definitions are from, as history.
Idle == [pc |-> "start", want |-> Plain(Empty), via |-> "disk", body |-> <<>>, at |-> 0, stack |-> <<>>,
         visited |-> {}, part |-> "global", dst |-> <<>>, read |-> [part \in Parts |-> <<>>]]

Init ==
  /\ world \in Worlds
  /\ version = [s \in DOMAIN world.docs |-> 1]
  /\ commit = [g \in DOMAIN world.git |-> CommitOf(world.ssh, world.git[g])]
  /\ cache = [s \in {s \in DOMAIN world.kind : Remote(s)} |-> None]
  /\ disk = [d \in world.dests |-> None]
  /\ proc = [p \in Processes |-> [Idle EXCEPT !.pc = IF p \in world.loaders THEN "start" ELSE "off"]]
  /\ faults = 0
  /\ spoiled = {}
  /\ torn = {}

Become(p, l) == proc' = [proc EXCEPT ![p] = l]

Only(p, l) == Become(p, l) /\ UNCHANGED <<world, version, commit, cache, disk, faults, spoiled, torn>>

Fault == faults < world.faults /\ faults' = faults + 1

End(p, how) == Only(p, [proc[p] EXCEPT !.pc = how])

ResolveDefaultConfigFile ==
  LET found == {i \in DOMAIN world.local : world.local[i] \in DOMAIN world.docs} IN
  IF found = {} THEN Empty ELSE world.local[First(found)]

\* Load and LoadGlobalConfig: the global file first, if there is one.
Start(p) ==
  /\ proc[p].pc = "start"
  /\ LET global == proc[p].part = "global" /\ world.global # Empty
         next   == IF global THEN world.global ELSE ResolveDefaultConfigFile
     IN  IF next = Empty THEN End(p, "error")
         ELSE Only(p, [proc[p] EXCEPT !.pc = "load", !.want = Plain(next),
                                      !.part = IF global THEN "global" ELSE "local",
                                      !.visited = @ \cup {next}])
-----------------------------------------------------------------------------
(***************************************************************************)
(* load: the three functions of getGetConfigFunc.                          *)
(***************************************************************************)
WithRead(read, src, doc) == [s \in DOMAIN read \cup {src} |-> IF s = src THEN doc ELSE read[s]]

Enter(p, doc) ==
  LET src  == proc[p].want.src
      part == proc[p].part
      base == [n \in Names(doc) |-> [needs |-> DefOf(doc, n).needs, source |-> Empty, part |-> part]]
  IN  [proc[p] EXCEPT !.pc = "imports",
                      !.stack = Append(@, [src |-> src, base |-> base, todo |-> Imports(doc), docs |-> {src}]),
                      !.read[part] = WithRead(@, src, doc)]

\* HasHash and VerifyHash.  No other algorithm is taken.
HashFitsMutantAny(e, doc) == e.hash = Empty \/ e.hash \in DOMAIN world.hashes

HashFits(e, doc) == e.hash = Empty \/ (e.hash \in DOMAIN world.hashes /\ world.hashes[e.hash] = doc)

ReadFile(p) ==
  LET e   == proc[p].want
      doc == world.docs[e.src][version[e.src]]
  IN  /\ proc[p].pc = "load"
      /\ ~Remote(e.src)
      /\ IF e.src \notin DOMAIN world.docs THEN End(p, "error")
         ELSE IF IsFileImport(e)
         THEN IF HashFits(e, doc) THEN Only(p, [proc[p] EXCEPT !.pc = "dest", !.via = "disk", !.body = doc])
              ELSE End(p, "error")
         ELSE IF Decodes(doc) THEN Only(p, Enter(p, doc)) ELSE End(p, "error")

(***************************************************************************)
(* Cache.Get.  Anything that goes wrong sends the loader to the remote     *)
(* side.                                                                   *)
(***************************************************************************)
CacheServesMutantFresh(e, hit) ==
  IF IsFileImport(e) THEN HashFits(e, hit) ELSE hit = world.docs[e.src][version[e.src]]

CacheServes(e, hit) == IF IsFileImport(e) THEN HashFits(e, hit) ELSE Parses(hit)

CacheGet(p) ==
  LET e   == proc[p].want
      hit == cache[e.src]
  IN  /\ proc[p].pc = "load"
      /\ Remote(e.src)
      /\ IF hit = None \/ ~CacheServes(e, hit) THEN End(p, "fetch")
         ELSE Only(p, IF IsFileImport(e) THEN [proc[p] EXCEPT !.pc = "dest", !.via = "cache", !.body = hit]
                      ELSE Enter(p, hit))

\* What a Src names now.
Published(src) == IF world.kind[src] = "git" THEN commit[src] ELSE version[src]

Fetch(p) ==
  LET src == proc[p].want.src IN
  /\ proc[p].pc = "fetch"
  /\ IF src \in DOMAIN world.docs /\ Published(src) # 0
     THEN Only(p, [proc[p] EXCEPT !.pc = "store", !.body = world.docs[src][Published(src)]])
     ELSE End(p, "error")

FetchFails(p) ==
  /\ proc[p].pc = "fetch"
  /\ Fault
  /\ Become(p, [proc[p] EXCEPT !.pc = "error"])
  /\ UNCHANGED <<world, version, commit, cache, disk, spoiled, torn>>

Writing(q, src) == proc[q].pc = "copy" /\ proc[q].want.src = src

\* createCacheWriter: os.Create empties the file.
StoreMutantKeepsOld(p) ==
  LET src == proc[p].want.src IN
  /\ proc[p].pc = "store"
  /\ cache' = [cache EXCEPT ![src] = IF @ = None THEN <<>> ELSE @]
  /\ spoiled' = IF \E q \in Processes : Writing(q, src) THEN spoiled \cup {src} ELSE spoiled \ {src}
  /\ Become(p, [proc[p] EXCEPT !.pc = "copy", !.at = 0])
  /\ UNCHANGED <<world, version, commit, disk, faults, torn>>

Store(p) ==
  LET src == proc[p].want.src IN
  /\ proc[p].pc = "store"
  /\ cache' = [cache EXCEPT ![src] = <<>>]
  /\ spoiled' = IF \E q \in Processes : Writing(q, src) THEN spoiled \cup {src} ELSE spoiled \ {src}
  /\ Become(p, [proc[p] EXCEPT !.pc = "copy", !.at = 0])
  /\ UNCHANGED <<world, version, commit, disk, faults, torn>>

\* The reader feeds the buffer as the cache drains it: when the file cannot
\* be created the buffer stays empty.
StoreFails(p) ==
  /\ proc[p].pc = "store"
  /\ Fault
  /\ Become(p, [proc[p] EXCEPT !.pc = "use", !.body = <<>>])
  /\ UNCHANGED <<world, version, commit, cache, disk, spoiled, torn>>

WriteAt(file, at, line) ==
  [i \in 1 .. (IF Len(file) > at THEN Len(file) ELSE at + 1) |->
     IF i = at + 1 THEN line ELSE IF i <= Len(file) THEN file[i] ELSE Garbage]

Copy(p) ==
  LET src == proc[p].want.src
      at  == proc[p].at
  IN  /\ proc[p].pc = "copy"
      /\ IF at < Len(proc[p].body)
         THEN /\ cache' = [cache EXCEPT ![src] = WriteAt(@, at, proc[p].body[at + 1])]
              /\ Become(p, [proc[p] EXCEPT !.at = at + 1])
         ELSE cache' = cache /\ Become(p, [proc[p] EXCEPT !.pc = "use"])
      /\ UNCHANGED <<world, version, commit, disk, faults, spoiled, torn>>

CopyFails(p) ==
  /\ proc[p].pc = "copy"
  /\ Fault
  /\ proc[p].at < Len(proc[p].body)
  /\ spoiled' = spoiled \cup {proc[p].want.src}
  /\ Become(p, [proc[p] EXCEPT !.pc = "use", !.body = SubSeq(@, 1, proc[p].at + 1)])
  /\ UNCHANGED <<world, version, commit, cache, disk, torn>>

\* readURL and GitSource.Config after the store.
Use(p) ==
  LET e   == proc[p].want
      doc == proc[p].body
  IN  /\ proc[p].pc = "use"
      /\ IF IsFileImport(e)
         THEN IF HashFits(e, doc) THEN Only(p, [proc[p] EXCEPT !.pc = "dest", !.via = "remote"])
              ELSE End(p, "error")
         ELSE IF Decodes(doc) THEN Only(p, Enter(p, doc)) ELSE End(p, "error")
-----------------------------------------------------------------------------
(***************************************************************************)
(* storeImportedFile: a Dest outside of the project is refused, the others *)
(* are created and copied to.                                              *)
(***************************************************************************)
\* Mutant of DestError: every error is taken for a miss.
DestErrorMutantRetries(p) == "fetch"

\* An error of a write from the cache only means a miss.
DestError(p) == IF proc[p].via = "cache" THEN "fetch" ELSE "error"

WritingTo(q, dest) == proc[q].pc = "write" /\ proc[q].want.dest = dest

StoreImportedFile(p) ==
  LET dest == proc[p].want.dest IN
  /\ proc[p].pc = "dest"
  /\ IF dest \notin world.dests
     THEN End(p, DestError(p))
     ELSE /\ disk' = [disk EXCEPT ![dest] = <<>>]
          /\ torn' = IF \E q \in Processes : WritingTo(q, dest) THEN torn \cup {dest} ELSE torn \ {dest}
          /\ Become(p, [proc[p] EXCEPT !.pc = "write", !.at = 0])
          /\ UNCHANGED <<world, version, commit, cache, faults, spoiled>>

WriteFails(p) ==
  /\ proc[p].pc \in {"dest", "write"}
  /\ Fault
  /\ Become(p, [proc[p] EXCEPT !.pc = DestError(p)])
  /\ torn' = IF proc[p].pc = "write" THEN torn \cup {proc[p].want.dest} ELSE torn
  /\ UNCHANGED <<world, version, commit, cache, disk, spoiled>>

Write(p) ==
  LET dest == proc[p].want.dest
      at   == proc[p].at
  IN  /\ proc[p].pc = "write"
      /\ IF at < Len(proc[p].body)
         THEN /\ disk' = [disk EXCEPT ![dest] = WriteAt(@, at, proc[p].body[at + 1])]
              /\ Become(p, [proc[p] EXCEPT !.at = at + 1])
         ELSE disk' = disk /\ Become(p, Enter(p, <<>>))
      /\ UNCHANGED <<world, version, commit, cache, faults, spoiled, torn>>
-----------------------------------------------------------------------------
(***************************************************************************)
(* parseImports and loadDir: the next import of the file on top.  A file   *)
(* that a remote document asks for is looked for below the document's own  *)
(* address, where there is none, unless its path is absolute.              *)
(***************************************************************************)
Top(p) == proc[p].stack[Len(proc[p].stack)]

Item(l, frame, i) ==
  IF frame.src \in DOMAIN world.lists THEN Plain(world.lists[frame.src][i])
  ELSE l.read[l.part][frame.src][i].entry

Reached(p, src) == Remote(src) \/ src \in world.absolute \/ ~Remote(Top(p).src)

AlreadyVisited(p, src) == Reached(p, src) /\ src \in proc[p].visited

Stat(p, src) == Reached(p, src) /\ src \in DOMAIN world.docs \cup DOMAIN world.lists

ParseImport(p) ==
  LET stack == proc[p].stack
      i     == First(Top(p).todo)
      e     == Item(proc[p], Top(p), i)
      rest  == [stack EXCEPT ![Len(stack)].todo = @ \ {i}]
  IN  /\ proc[p].pc = "imports"
      /\ Top(p).todo # {}
      /\ IF AlreadyVisited(p, e.src) THEN Only(p, [proc[p] EXCEPT !.stack = rest])
         ELSE IF ~Remote(e.src) /\ ~Stat(p, e.src) THEN End(p, "error")
         ELSE IF e.src \in DOMAIN world.lists
         THEN Only(p, [proc[p] EXCEPT !.stack =
                Append(rest, [src |-> e.src, base |-> <<>>, todo |-> DOMAIN world.lists[e.src], docs |-> {}])])
         ELSE Only(p, [proc[p] EXCEPT !.pc = "load", !.want = e, !.stack = rest, !.visited = @ \cup {e.src}])

\* mergeExistingWithImported.  Watchers of imported files are left behind.
Mergeable(base) == {n \in DOMAIN base : n[1] # "watcher"}

mergeExistingWithImported(base, imported, path) ==
  [clash |-> DOMAIN base \cap Mergeable(imported) # {},
   base  |-> [n \in DOMAIN base \cup Mergeable(imported) |->
                IF n \in DOMAIN base THEN base[n] ELSE [imported[n] EXCEPT !.source = path]]]

Return(p) ==
  LET stack  == proc[p].stack
      below  == Len(stack) - 1
      merged == mergeExistingWithImported(stack[below].base, Top(p).base, Top(p).src)
  IN  /\ proc[p].pc = "imports"
      /\ Top(p).todo = {}
      /\ IF below = 0 THEN End(p, "build")
         ELSE IF merged.clash THEN End(p, "error")
         ELSE Only(p, [proc[p] EXCEPT !.stack =
                [SubSeq(stack, 1, below) EXCEPT ![below] =
                   [stack[below] EXCEPT !.base = merged.base, !.docs = @ \cup Top(p).docs]]])
-----------------------------------------------------------------------------
(***************************************************************************)
(* buildFromDefinition: pipelines and watchers find their tasks in the     *)
(* file that was loaded, not in the global one.                            *)
(***************************************************************************)
Builds(base) ==
  \A n \in DOMAIN base : n[1] \in {"pipeline", "watcher"} => base[n].needs \subseteq DOMAIN base

\* mergo.Merge without override: what dst has stays, field by field.
mergeMutantKeepsMap(dst, src) == IF DOMAIN dst = {} THEN src ELSE dst

merge(dst, src) ==
  [n \in DOMAIN dst \cup DOMAIN src |->
     IF n \notin DOMAIN dst THEN src[n]
     ELSE IF n \in DOMAIN src /\ dst[n].needs = {} THEN [dst[n] EXCEPT !.needs = src[n].needs]
     ELSE dst[n]]

Validate(dst) == \A n \in DOMAIN dst : n[1] = "task" => dst[n].needs \subseteq DOMAIN dst

Build(p) ==
  LET base == Top(p).base
      dst  == merge(proc[p].dst, base)
      next == IF proc[p].part = "global" THEN "start" ELSE IF Validate(dst) THEN "ok" ELSE "error"
  IN  /\ proc[p].pc = "build"
      /\ IF ~Builds(base) THEN End(p, "error")
         ELSE Only(p, [proc[p] EXCEPT !.pc = next, !.part = "local", !.dst = dst, !.stack = <<>>])
-----------------------------------------------------------------------------
Running(p) == proc[p].pc \notin {"ok", "error", "killed", "off"}

Kill(p) ==
  /\ Running(p)
  /\ Fault
  /\ Become(p, [proc[p] EXCEPT !.pc = "killed"])
  /\ spoiled' = IF proc[p].pc = "copy" THEN spoiled \cup {proc[p].want.src} ELSE spoiled
  /\ torn' = IF proc[p].pc = "write" THEN torn \cup {proc[p].want.dest} ELSE torn
  /\ UNCHANGED <<world, version, commit, cache, disk>>

Publish(src) ==
  /\ world.kind[src] = "url"
  /\ version[src] < Len(world.docs[src])
  /\ version' = [version EXCEPT ![src] = @ + 1]
  /\ UNCHANGED <<world, commit, cache, disk, proc, faults, spoiled, torn>>

Step(p) ==
  \/ Start(p) \/ ReadFile(p) \/ CacheGet(p) \/ Fetch(p) \/ Store(p) \/ Copy(p) \/ Use(p)
  \/ StoreImportedFile(p) \/ Write(p) \/ ParseImport(p) \/ Return(p) \/ Build(p)

Next ==
  \/ \E p \in Processes :
       Step(p) \/ FetchFails(p) \/ StoreFails(p) \/ CopyFails(p) \/ WriteFails(p) \/ Kill(p)
  \/ \E src \in DOMAIN world.docs : Publish(src)

(***************************************************************************)
(* A loader that is not killed runs on.                                    *)
(***************************************************************************)
Spec == Init /\ [][Next]_vars /\ \A p \in Processes : WF_vars(Step(p))
-----------------------------------------------------------------------------
(***************************************************************************)
(* What the documents say, read without the code.                          *)
(***************************************************************************)
Entries(doc) == {doc[i].entry : i \in Imports(doc)}

ImportedBy(lists, read, src) ==
  IF src \in DOMAIN lists THEN Range(lists[src])
  ELSE IF src \in DOMAIN read THEN {e.src : e \in Entries(read[src])} ELSE {}

Closed(lists, read, S) == \A s \in S : ImportedBy(lists, read, s) \subseteq S

\* What is reached from srcs: the least closed set that has them.
Closure(lists, read, srcs) ==
  LET all    == srcs \cup UNION {ImportedBy(lists, read, s) : s \in DOMAIN read \cup DOMAIN lists}
      closed == {S \in SUBSET all : srcs \subseteq S /\ Closed(lists, read, S)}
  IN  {x \in all : \A S \in closed : x \in S}

Defines(read, src) == IF src \in DOMAIN read THEN Names(read[src]) ELSE {}

GlobalDocs(p) == Closure(world.lists, proc[p].read["global"], {world.global} \ {Empty})

LocalDocs(p) ==
  LET root == ResolveDefaultConfigFile
  IN  (Closure(world.lists, proc[p].read["local"], {root}) \ GlobalDocs(p)) \cup {root}

Merged(read, docs, root) ==
  {n \in UNION {Defines(read, s) : s \in docs} : n[1] = "watcher" => n \in Defines(read, root)}

Once(read, docs) ==
  \A s, t \in docs : s # t => \A n \in Defines(read, s) \cap Defines(read, t) : n[1] = "watcher"

Pending(src) == {p \in Processes : proc[p].want.src = src /\ proc[p].pc \in {"fetch", "store", "copy"}}

WorldEntries == {l.entry : l \in {l \in Lines(world) : l.line = "import"}}

ConfigOnly(src) == \A e \in WorldEntries : e.src = src => ~IsFileImport(e)

Versions(src) == IF src \in DOMAIN world.docs THEN Range(world.docs[src]) ELSE {}

GitSrc(p) == proc[p].pc = "store" /\ world.kind[proc[p].want.src] = "git"

\* The imports a process has read.
Requested(p) ==
  UNION {UNION {Entries(proc[p].read[part][s]) : s \in DOMAIN proc[p].read[part]} : part \in Parts}

Listed == UNION {Range(world.lists[d]) : d \in DOMAIN world.lists}

Roots == {world.global, ResolveDefaultConfigFile}

(***************************************************************************)
(* A Src is visited once, so what shares one with another import may be    *)
(* skipped, and two imports may write different things to one Dest.        *)
(***************************************************************************)
Alone(p, e) ==
  /\ e.src \notin DOMAIN world.lists \cup Listed \cup Roots
  /\ \A o \in Requested(p) : o.src = e.src => o = e
  /\ \A o \in WorldEntries : o.dest = e.dest => o.hash = e.hash
-----------------------------------------------------------------------------
(***************************************************************************)
(* DefinedIn of the show command: the import of the loaded file through    *)
(* which a definition came, not the file that holds it (loader.go:368).    *)
(***************************************************************************)
SourceIsDirectImport(p) ==
  \A n \in DOMAIN proc[p].dst :
    LET d    == proc[p].dst[n]
        root == IF d.part = "global" THEN world.global ELSE ResolveDefaultConfigFile
        read == proc[p].read[d.part]
    IN  IF d.source = Empty THEN n \in Defines(read, root)
        ELSE /\ d.source \in ImportedBy(world.lists, read, root)
             /\ \E s \in Closure(world.lists, read, {d.source}) : n \in Defines(read, s)

(***************************************************************************)
(* A load that succeeds has read every file reached by its imports and has *)
(* their definitions, once each: cycles and diamonds of imports neither    *)
(* lose nor repeat one (loader.go:241, 364).  Watchers come from the files *)
(* that are loaded directly only, and the local part is without what the   *)
(* global file has imported already, its own file apart.                   *)
(***************************************************************************)
LoadedIsClosure ==
  \A p \in Processes : proc[p].pc = "ok" =>
    LET l      == proc[p]
        root   == ResolveDefaultConfigFile
        global == Merged(l.read["global"], GlobalDocs(p), world.global)
        local  == Merged(l.read["local"], LocalDocs(p), root)
    IN  /\ GlobalDocs(p) \ DOMAIN world.lists = DOMAIN l.read["global"]
        /\ LocalDocs(p) \ DOMAIN world.lists = DOMAIN l.read["local"]
        /\ DOMAIN l.dst = global \cup local
        /\ Once(l.read["global"], GlobalDocs(p)) /\ Once(l.read["local"], LocalDocs(p))
        /\ \A n \in DOMAIN l.dst : n \in (IF l.dst[n].part = "global" THEN global ELSE local)
        /\ SourceIsDirectImport(p)

(***************************************************************************)
(* loader.go:118: "Overwrite globally loaded config with locally set       *)
(* config file".  Where both files define a name, what is loaded is the    *)
(* definition of the local one.                                            *)
(***************************************************************************)
LocalOverwritesGlobal ==
  \A p \in Processes : proc[p].pc = "ok" =>
    \A n \in Defines(proc[p].read["local"], ResolveDefaultConfigFile) : proc[p].dst[n].part = "local"

(***************************************************************************)
(* A cache file that nobody writes is one whole version of its document,   *)
(* unless two processes had it open or one of them failed or was killed    *)
(* while writing (cache.go:84).                                            *)
(***************************************************************************)
CacheIsWhole ==
  \A src \in DOMAIN cache \ spoiled :
    (\E p \in Processes : Writing(p, src)) \/ cache[src] \in {None} \cup Versions(src)

(***************************************************************************)
(* Offline access (loader.go:190): a cached config that parses serves all  *)
(* later loads and is never fetched again.  That holds of what a killed    *)
(* process left, and of a version that is out of date.                     *)
(***************************************************************************)
OfflineOnceCached ==
  [][\A src \in DOMAIN cache :
       ConfigOnly(src) /\ Pending(src) = {} /\ cache[src] # None /\ Parses(cache[src]) =>
         Pending(src)' = {} /\ cache'[src] = cache[src]]_vars

(***************************************************************************)
(* A load that succeeds leaves a file whose import has a hash with exactly *)
(* the content of the hash, whatever the cache held and whichever step of  *)
(* storing it failed (loader.go:520), when no other import gets in its way *)
(* and unless another process writes the file or two of them had it open   *)
(* or one of them gave up on it after.                                     *)
(***************************************************************************)
HashedFileIsExact ==
  \A p \in Processes : proc[p].pc = "ok" =>
    \A e \in Requested(p) : e.dest # Empty /\ e.hash # Empty /\ Alone(p, e) =>
      \/ disk[e.dest] = world.hashes[e.hash]
      \/ e.dest \in torn
      \/ \E q \in Processes : WritingTo(q, e.dest)

(***************************************************************************)
(* What is fetched over ssh comes from a host whose key is in a file of    *)
(* the first source that names files (the command, the config, the         *)
(* defaults), every configured file being there; only                      *)
(* StrictHostKeyChecking=no does without (loader_git.go:337).              *)
(***************************************************************************)
TrustedHost ==
  \A p \in Processes : GitSrc(p) /\ world.git[proc[p].want.src].proto = "ssh" =>
    LET env      == world.ssh
        command  == parseGitSshCommandEnv(env.command)
        file     == IF command.config # Empty THEN command.config
                    ELSE FirstOf(Existing(env, ConfigDefaults), Empty)
        hosts    == IF file = Empty THEN <<>> ELSE env.config[file]
        named(cmd, option) == IF cmd # <<>> THEN cmd ELSE sshConfigPathValues(env, hosts, option).paths
        user     == named(command.user, "userknownhostsfile")
        system   == named(command.system, "globalknownhostsfile")
        trusted  == Range(IF user = <<>> THEN UserHostsDefaults ELSE user) \cup
                    Range(IF system = <<>> THEN SystemHostsDefaults ELSE system)
        strict   == IF command.strict # Empty THEN command.strict ELSE Get(hosts, "stricthostkeychecking")
    IN  \/ strict = "no"
        \/ /\ Range(user) \cup Range(system) \subseteq env.exists
           /\ trusted \cap env.exists \cap env.knows # {}

(***************************************************************************)
(* A git import is of the commit its ref names, a tag before a branch of   *)
(* the same name if it is no hash, and of HEAD only when it has no ref     *)
(* (loader_git.go:240).                                                    *)
(***************************************************************************)
RefNamesCommit ==
  \A p \in Processes : GitSrc(p) =>
    LET git   == world.git[proc[p].want.src]
        repo  == git.repo
        named == {names[git.ref] : names \in {n \in {repo.hashes, repo.tags, repo.heads, repo.remotes} :
                                                git.ref \in DOMAIN n}}
        docs  == world.docs[proc[p].want.src]
    IN  IF git.ref = Empty THEN proc[p].body = docs[repo.head]
        ELSE /\ \E c \in named : proc[p].body = docs[c]
             /\ git.ref \in DOMAIN repo.tags \ DOMAIN repo.hashes => proc[p].body = docs[repo.tags[git.ref]]

(***************************************************************************)
(* An import is what its entry names: the content of the hash, the commit  *)
(* of the ref, from a host that is trusted.                                *)
(***************************************************************************)
ImportIsAsNamed == HashedFileIsExact /\ TrustedHost /\ RefNamesCommit

(***************************************************************************)
(* Every load that is not killed comes to an end.                          *)
(***************************************************************************)
LoadEnds == \A p \in Processes : <>~Running(p)
=============================================================================
