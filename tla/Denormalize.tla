---------------------------- MODULE Denormalize -----------------------------
(***************************************************************************)
(* From the pipelines of a configuration to the graph that is scheduled:   *)
(* buildFromDefinition and buildPipeline (internal/config), then           *)
(* ExecutionGraph.Denormalize (scheduler/denormalize.go), which clones     *)
(* every stage under the names of its ancestors and rebuilds the graph     *)
(* from the clones.                                                        *)
(*                                                                         *)
(* The ranges over Go maps are choices: pipelines are built, stages are    *)
(* flattened and clones are added in any order.  Flatten and               *)
(* rebuildFromDenormalized are recursive: calls and frames are their       *)
(* stacks.  Env is a map from keys to the stage or task that set them;     *)
(* variables are merged by the same statements and are not repeated.       *)
(* Envfiles are pointers: file maps each to its paths.                     *)
(***************************************************************************)
EXTENDS ExecutionGraph

CONSTANTS
  Configs,    \* the configurations: [pipelines, tasks]
  Top,        \* the pipeline that is run
  StrPrefix,  \* pairs of segments, the first a proper prefix of the second as a string
  MaxDepth    \* bound on the ancestors of a call, past which the stack of Go is full

VARIABLES
  config,   \* the definitions
  phase,
  built,    \* how many definitions of each pipeline have been built
  graphs,   \* cfg.Pipelines
  stage,    \* the stages of cfg.Pipelines, by pipeline and key
  taskDir,  \* Dir of the tasks of cfg.Tasks
  file,     \* the paths of the envfiles
  calls,    \* the stack of Flatten: sets of calls that may come in any order
  flat,     \* flattenedStages
  frames,   \* the stack of rebuildFromDenormalized
  rebuilt   \* the new graphs, by name

vars == <<config, phase, built, graphs, stage, taskDir, file, calls, flat, frames, rebuilt>>

None == -1

NoName == <<>>

Arrow == <<-2, -2>>  \* the name "->"

Pipelines == DOMAIN config.pipelines

Defs(p) == config.pipelines[p]

MergeMutantKeeps(dst, src) == dst @@ src

Merge(dst, src) == src @@ dst

envfileMerge(dst, src) == dst \o SelectSeq(src, LAMBDA f : f \notin Range(dst))

StageFile(p, key) == <<"stage", p, key>>

TaskFile(t) == <<"task", t>>

SetBy(keys, who) == [k \in keys |-> who]

NewConfig ==
  /\ phase = "build"
  /\ built = [p \in Pipelines |-> 0]
  /\ graphs = [p \in Pipelines |-> NewExecutionGraph]
  /\ stage = <<>>
  /\ taskDir = [t \in DOMAIN config.tasks |-> None]
  /\ file = [f \in {TaskFile(t) : t \in DOMAIN config.tasks} |-> config.tasks[f[2]].file]
  /\ calls = <<>>
  /\ flat = <<>>
  /\ frames = <<>>
  /\ rebuilt = <<>>

Init == config \in Configs /\ NewConfig
-----------------------------------------------------------------------------
(***************************************************************************)
(* buildPipeline.                                                          *)
(***************************************************************************)
StageName(def) ==
  CASE def.name # NoName -> def.name
    [] def.name = NoName /\ def.pipe # None -> <<def.pipe>>
    [] OTHER -> <<def.task>>

Known(def) ==
  IF def.task # None THEN def.task \in DOMAIN config.tasks ELSE def.pipe \in Pipelines

\* One pipeline is built at a time.
Building(p) ==
  /\ phase = "build"
  /\ built[p] <= Len(Defs(p))
  /\ \A q \in Pipelines \ {p} : built[q] \in {0, Len(Defs(q)) + 1}

Answer(result) ==
  /\ phase' = result
  /\ UNCHANGED <<config, built, graphs, stage, taskDir, file, calls, flat, frames, rebuilt>>

BuildStage(p) ==
  /\ Building(p)
  /\ built[p] < Len(Defs(p))
  /\ LET def   == Defs(p)[built[p] + 1]
         name  == StageName(def)
         isTask == def.task # None
         added == AddStage(graphs[p], name, def.deps)
     IN  \/ ~Known(def) /\ Answer("error")
         \/ Known(def) /\ def.dir # None /\ ~isTask /\ Answer("panic")
         \/ /\ Known(def)
            /\ def.dir # None => isTask
            /\ name = Arrow \/ name \in graphs[p].nodes \/ added.cycle
            /\ Answer("error")
         \/ /\ Known(def)
            /\ def.dir # None => isTask
            /\ name # Arrow
            /\ name \notin graphs[p].nodes
            /\ ~added.cycle
            /\ built' = [built EXCEPT ![p] = @ + 1]
            /\ graphs' = [graphs EXCEPT ![p] = added.graph]
            /\ stage' = (<<p, name>> :>
                 [name |-> name, task |-> def.task, pipe |-> IF isTask THEN None ELSE def.pipe,
                  deps |-> def.deps, env |-> SetBy(def.env, <<p, name>>),
                  ptr |-> StageFile(p, name), gen |-> def.gen]) @@ stage
            /\ file' = (StageFile(p, name) :> def.file) @@ file
            /\ taskDir' = IF def.dir # None THEN [taskDir EXCEPT ![def.task] = def.dir] ELSE taskDir
            /\ UNCHANGED <<config, phase, calls, flat, frames, rebuilt>>

DepsExist(g) == \A n \in DOMAIN g.deps : Range(g.deps[n]) \subseteq g.nodes

FinalWalk(p) ==
  /\ Building(p)
  /\ built[p] = Len(Defs(p))
  /\ IF DepsExist(graphs[p])
     THEN /\ built' = [built EXCEPT ![p] = @ + 1]
          /\ UNCHANGED <<config, phase, graphs, stage, taskDir, file, calls, flat, frames, rebuilt>>
     ELSE Answer("error")
-----------------------------------------------------------------------------
(***************************************************************************)
(* Flatten.                                                                *)
(***************************************************************************)
Call(g, n, anc, at) == [g |-> g, n |-> n, anc |-> anc, at |-> at]

Push(frame, stack) == IF frame = {} THEN stack ELSE <<frame>> \o stack

Pop(call) == Push(Head(calls) \ {call}, Tail(calls))

StartFlatten ==
  /\ phase = "build"
  /\ \A p \in Pipelines : built[p] = Len(Defs(p)) + 1
  /\ phase' = "flatten"
  /\ calls' = <<{Call(Top, Root, <<Top>>, "node")}>>
  /\ UNCHANGED <<config, built, graphs, stage, taskDir, file, flat, frames, rebuilt>>

FromStage(original, anc) ==
  [task    |-> original.task,
   taskEnv |-> IF original.task = None THEN <<>>
               ELSE SetBy(config.tasks[original.task].env, <<original.task>>),
   isPipe  |-> original.pipe # None,
   env     |-> original.env,
   deps    |-> [i \in DOMAIN original.deps |-> anc \o original.deps[i]],
   ptr     |-> original.ptr,
   gen     |-> original.gen]

(***************************************************************************)
(* graphClone: when the pipeline of a stage is nothing but one stage with  *)
(* a pipeline, that stage takes over the name, the dependencies and the    *)
(* envfile of the outer one, in the configuration itself.                  *)
(***************************************************************************)
OnlyStage(p) == LET keys == graphs[p].nodes \ {Root} IN IF Cardinality(keys) = 1 THEN keys ELSE {}

Advances(p) == \E k \in OnlyStage(p) : stage[<<p, k>>].pipe # None

Peek(p) == <<p, CHOOSE k \in OnlyStage(p) : TRUE>>

\* The calls for the pipeline of a stage of g.
Inner(g, via, anc) == {Call(via.pipe, k, anc \o via.name, "node") : k \in graphs[via.pipe].nodes}

FlattenStage(c) ==
  LET original == stage[<<c.g, c.n>>]
      clone    == FromStage(original, c.anc)
      unique   == c.anc \o c.n
      advance  == original.pipe # None /\ Advances(original.pipe)
      peek     == Peek(original.pipe)
      peeked   == [stage[peek] EXCEPT !.name = original.name, !.deps = clone.deps,
                                      !.env = Merge(@, original.env), !.ptr = original.ptr]
      via      == IF advance THEN peeked ELSE original
  IN  /\ stage' = IF advance THEN [stage EXCEPT ![peek] = peeked] ELSE stage
      /\ flat' = (unique :> IF advance
                            THEN [clone EXCEPT !.env = Merge(@, peeked.env), !.ptr = peeked.ptr]
                            ELSE clone) @@ flat
      /\ file' = IF original.task = None THEN file
                 ELSE [file EXCEPT ![TaskFile(original.task)] = envfileMerge(@, file[original.ptr])]
      /\ calls' = Push(IF original.pipe = None THEN {} ELSE Inner(c.g, via, c.anc),
                       Push({[c EXCEPT !.at = "children"]}, Pop(c)))
      /\ UNCHANGED <<config, phase, built, graphs, taskDir, frames, rebuilt>>

Flatten(c) ==
  /\ phase = "flatten"
  /\ c.at = "node"
  /\ \/ /\ Len(c.anc) > MaxDepth
        /\ Answer("overflow")
     \/ /\ Len(c.anc) <= MaxDepth
        /\ c.n = Root
        /\ calls' = Push({[c EXCEPT !.at = "children"]}, Pop(c))
        /\ UNCHANGED <<config, phase, built, graphs, stage, taskDir, file, flat, frames, rebuilt>>
     \/ /\ Len(c.anc) <= MaxDepth
        /\ c.n # Root
        /\ c.n \notin graphs[c.g].nodes
        /\ Answer("panic")
     \/ /\ Len(c.anc) <= MaxDepth
        /\ c.n \in graphs[c.g].nodes \ {Root}
        /\ FlattenStage(c)

(***************************************************************************)
(* The children are called by the names their stages have by then.         *)
(***************************************************************************)
FlattenChildren(c) ==
  /\ phase = "flatten"
  /\ c.at = "children"
  /\ calls' = Push({Call(c.g, stage[<<c.g, k>>].name, c.anc, "node") :
                      k \in Range(Lookup(graphs[c.g].children, c.n))}, Pop(c))
  /\ UNCHANGED <<config, phase, built, graphs, stage, taskDir, file, flat, frames, rebuilt>>
-----------------------------------------------------------------------------
(***************************************************************************)
(* rebuildFromDenormalized.                                                *)
(***************************************************************************)
HasPrefix(key, prefix) ==
  /\ Len(key) >= Len(prefix)
  /\ Front(SubSeq(key, 1, Len(prefix))) = Front(prefix)
  /\ \/ key[Len(prefix)] = Last(prefix)
     \/ <<Last(prefix), key[Len(prefix)]>> \in StrPrefix

NthLevelChildrenMutantAnyDepth(prefix, depth) ==
  {key \in DOMAIN flat : HasPrefix(key, prefix) /\ key # prefix}

NthLevelChildren(prefix, depth) ==
  {key \in DOMAIN flat : HasPrefix(key, prefix) /\ key # prefix /\ Len(key) = Len(prefix) + depth}

\* The ancestors of a clone, outermost first.
RecurseParents(name) ==
  LET all == [i \in 1 .. Len(name) - 1 |-> SubSeq(name, 1, i)] IN
  SelectSeq(all, LAMBDA k : k \in DOMAIN flat)

Frame(g) == [graph |-> g, todo |-> NthLevelChildren(g, 1), nested |-> FALSE]

StartRebuild ==
  /\ phase = "flatten"
  /\ calls = <<>>
  /\ phase' = "rebuild"
  /\ frames' = <<Frame(<<Top>>)>>
  /\ rebuilt' = (<<Top>> :> NewExecutionGraph)
  /\ UNCHANGED <<config, built, graphs, stage, taskDir, file, calls, flat>>

(***************************************************************************)
(* A stage with a pipeline is rebuilt before it is added itself.           *)
(***************************************************************************)
RebuildNested(k) ==
  /\ phase = "rebuild"
  /\ ~Head(frames).nested
  /\ flat[k].isPipe
  /\ frames' = <<Frame(k), [Head(frames) EXCEPT !.todo = {k}, !.nested = TRUE],
                 [Head(frames) EXCEPT !.todo = @ \ {k}]>> \o Tail(frames)
  /\ rebuilt' = (k :> NewExecutionGraph) @@ rebuilt
  /\ UNCHANGED <<config, phase, built, graphs, stage, taskDir, file, calls, flat>>

RebuildStage(k) ==
  /\ phase = "rebuild"
  /\ flat[k].isPipe => Head(frames).nested
  /\ LET g       == Head(frames).graph
         parents == RecurseParents(k)
         env     == FoldLeft(LAMBDA acc, p : Merge(acc, flat[p].env), flat[k].env, parents)
         taskEnv == IF flat[k].task = None THEN <<>> ELSE Merge(env, flat[k].taskEnv)
         added   == AddStage(rebuilt[g], k, flat[k].deps)
     IN  \/ added.cycle /\ Answer("error")
         \/ /\ ~added.cycle
            /\ flat' = [flat EXCEPT ![k].env = Merge(env, taskEnv), ![k].taskEnv = taskEnv]
            /\ file' = [file EXCEPT ![flat[k].ptr] =
                          FoldLeft(LAMBDA acc, p : envfileMerge(acc, file[flat[p].ptr]), @, parents)]
            /\ rebuilt' = [rebuilt EXCEPT ![g] = added.graph]
            /\ frames' = [frames EXCEPT ![1].todo = @ \ {k}]
            /\ UNCHANGED <<config, phase, built, graphs, stage, taskDir, calls>>

Return ==
  /\ phase = "rebuild"
  /\ frames # <<>>
  /\ Head(frames).todo = {}
  /\ frames' = Tail(frames)
  /\ phase' = IF Tail(frames) = <<>> THEN "done" ELSE phase
  /\ UNCHANGED <<config, built, graphs, stage, taskDir, file, calls, flat, rebuilt>>

Next ==
  \/ \E p \in Pipelines : BuildStage(p) \/ FinalWalk(p)
  \/ StartFlatten
  \/ calls # <<>> /\ \E c \in Head(calls) : Flatten(c) \/ FlattenChildren(c)
  \/ StartRebuild
  \/ frames # <<>> /\ \E k \in Head(frames).todo : RebuildNested(k) \/ RebuildStage(k)
  \/ Return

Spec == Init /\ [][Next]_vars
-----------------------------------------------------------------------------
(***************************************************************************)
(* The definitions, read without the code.                                 *)
(***************************************************************************)
NamesOf(p) == {StageName(Defs(p)[i]) : i \in DOMAIN Defs(p)}

DefOf(p, name) == Defs(p)[CHOOSE i \in DOMAIN Defs(p) : StageName(Defs(p)[i]) = name]

Bad(p) ==
  LET d     == Defs(p)
      edges == UNION {{<<dep, StageName(d[i])>> : dep \in Range(d[i].deps)} : i \in DOMAIN d}
  IN  \/ \E i \in DOMAIN d : ~Known(d[i]) \/ StageName(d[i]) \in {Root, Arrow}
      \/ Cardinality(NamesOf(p)) # Len(d)
      \/ ~({e[1] : e \in edges} \subseteq NamesOf(p) \cup {Root})
      \/ ~Acyclic(edges)

PipesOf(p) == {Defs(p)[i].pipe : i \in {i \in DOMAIN Defs(p) : Defs(p)[i].task = None}}

References == UNION {{<<p, q>> : q \in PipesOf(p)} : p \in Pipelines}

CyclicReference == \E p \in ReachableIn(References, {Top}) : OnCycle(References, p)

Single(p) == Len(Defs(p)) = 1 /\ Defs(p)[1].task = None

Resolve(p) == IF Single(p) THEN Defs(p)[1].pipe ELSE p

\* The pipelines whose stages are flattened, and those that are passed over.
Flattened == ReachableIn(UNION {{<<p, Resolve(q)>> : q \in PipesOf(p)} : p \in Pipelines}, {Top})

PassedOver == {q \in UNION {PipesOf(p) : p \in Flattened} : Single(q)}

Users(q) == {<<p, i>> \in Pipelines \X (1 .. 9) : i \in DOMAIN Defs(p) /\ Defs(p)[i].pipe = q}

UsedOnce(q) == Cardinality(Users(q)) <= 1

\* The pipeline whose stages the graph named u has.
RECURSIVE Source(_)
Source(u) == IF u = <<Top>> THEN Top
             ELSE LET def == DefOf(Source(Front(u)), <<Last(u)>>) IN Resolve(def.pipe)

PlainNames == \A p \in Pipelines : \A n \in NamesOf(p) : Len(n) = 1

TaskClones == {u \in DOMAIN flat : flat[u].task # None}

\* What the definitions of a stage, and of the one it passes over, set.
OwnEnv(u) ==
  LET p   == Source(Front(u))
      def == DefOf(p, <<Last(u)>>)
      own == SetBy(def.env, <<p, <<Last(u)>>>>)
  IN  IF def.task = None /\ Single(def.pipe)
      THEN own @@ SetBy(Defs(def.pipe)[1].env, <<def.pipe, StageName(Defs(def.pipe)[1])>>)
      ELSE own

\* The siblings of u whose stages HasPrefix takes for stages of u.
Sisters(u) ==
  {v \in DOMAIN flat : Front(v) = Front(u) /\ flat[v].isPipe /\ <<Last(u), Last(v)>> \in StrPrefix}

Ancestors(u) == {SubSeq(u, 1, i) : i \in 2 .. Len(u) - 1}

\* The envfiles a task is run with (scheduler.runStage).
Effective(u) == envfileMerge(file[TaskFile(flat[u].task)], file[flat[u].ptr])
-----------------------------------------------------------------------------
(***************************************************************************)
(* cycleDfs looks from the parent of a new edge only, and dependencies are *)
(* checked after all stages are in: still, a pipeline that is accepted is  *)
(* a graph without cycles in which every dependency exists and every stage *)
(* can be reached from the root (graph.go:198, pipeline.go:93).            *)
(***************************************************************************)
AcceptedIsDag ==
  phase \notin {"build", "error", "panic"} =>
    \A p \in Pipelines :
      LET g == graphs[p] IN
      /\ Acyclic(EdgesOf(g))
      /\ g.nodes \subseteq ReachableIn(EdgesOf(g), {Root})
      /\ \A n \in DOMAIN g.deps : Range(g.deps[n]) \subseteq g.nodes

(***************************************************************************)
(* An error has its cause in the definitions: no order of the map ranges   *)
(* refuses a good pipeline, and rebuilding never meets a cycle             *)
(* (denormalize.go:142, "This should never be hit").                       *)
(***************************************************************************)
RejectedIsBad == phase = "error" => \E p \in Pipelines : Bad(p)

(***************************************************************************)
(* BFSNodesFlattened lists every stage once, and no stage after one of a   *)
(* level below (graph.go:151).                                             *)
(***************************************************************************)
ListedOnceByLevel ==
  phase = "done" =>
    \A u \in DOMAIN rebuilt :
      LET g        == rebuilt[u]
          s        == BFSNodesFlattened(g)
          level(n) == LevelFrom(EdgesOf(g), {Root}, n, 0)
          whole    == \A n \in DOMAIN g.deps : Range(g.deps[n]) \subseteq g.nodes
      IN  whole => /\ IsInjective(s)
                   /\ Range(s) = g.nodes \ {Root}
                   /\ \A i, j \in DOMAIN s : i < j => level(s[i]) <= level(s[j])

(***************************************************************************)
(* Denormalize ends exactly when the pipelines do not refer to one another *)
(* in a circle, which the builder does not look for (config.go:116).       *)
(***************************************************************************)
EndsUnlessCircular ==
  /\ phase = "overflow" => CyclicReference
  /\ phase = "done" => ~CyclicReference

(***************************************************************************)
(* The program is stopped by a nil pointer only when a stage with a        *)
(* pipeline has a dir (pipeline.go:60), or when a pipeline that graphClone *)
(* has renamed the stage of is also flattened itself (denormalize.go:166). *)
(***************************************************************************)
PanicHasCause ==
  phase = "panic" =>
    \/ \E p \in Pipelines : \E i \in DOMAIN Defs(p) : Defs(p)[i].dir # None /\ Defs(p)[i].task = None
    \/ Flattened \cap PassedOver # {}

\* What graphClone and the names it cascades cannot blur: no pipeline is both
\* flattened and passed over, and no name has "->" inside, which the builder
\* lets through (pipeline.go:77).
Separate == Flattened \cap PassedOver = {} /\ PlainNames

(***************************************************************************)
(* The graph of u has the stages of its definition, and a graph for each   *)
(* of them that is a pipeline.                                             *)
(***************************************************************************)
LevelIsKept(u) ==
  LET own == {u \o n : n \in NamesOf(Source(u))} IN
  /\ rebuilt[u].nodes = {Root} \cup own
  /\ \A v \in own : flat[v].isPipe => v \in DOMAIN rebuilt

(***************************************************************************)
(* A graph without siblings whose names begin with its own keeps its       *)
(* stages, at every level and in whatever order the maps come              *)
(* (denormalize.go:55).                                                    *)
(***************************************************************************)
SameStages ==
  phase = "done" /\ Separate =>
    \A u \in DOMAIN rebuilt : Sisters(u) = {} => LevelIsKept(u)

(***************************************************************************)
(* denormalize.go:55 and :101: "The denormalized pipeline will include all *)
(* the same stages and nested pipelines", "Following the same layout as    *)
(* original with same levels of nestedness".                               *)
(***************************************************************************)
LayoutIsKept ==
  phase = "done" /\ Separate => \A u \in DOMAIN rebuilt : LevelIsKept(u)

(***************************************************************************)
(* The env a task gets: its own definition first, then its stage or the    *)
(* innermost pipeline stage above it that sets the key, never one further  *)
(* out; and no key that none of them sets (denormalize.go:117).  This      *)
(* needs every pipeline that graphClone passes over to be used once: it    *)
(* keeps the env of its users.                                             *)
(***************************************************************************)
EnvPrecedence ==
  phase = "done" /\ Separate /\ (\A q \in PassedOver : UsedOnce(q)) =>
    \A u \in TaskClones :
      LET task       == config.tasks[flat[u].task].env
          sets(k)    == {v \in Ancestors(u) \cup {u} : k \in DOMAIN OwnEnv(v)}
          nearest(k) == {v \in sets(k) : v = u \/ \A w \in sets(k) \ {u} : Len(w) <= Len(v)}
      IN  /\ DOMAIN flat[u].taskEnv = task \cup UNION {DOMAIN OwnEnv(v) : v \in Ancestors(u) \cup {u}}
          /\ \A k \in DOMAIN flat[u].taskEnv :
               IF k \in task THEN flat[u].taskEnv[k] = <<flat[u].task>>
               ELSE \E v \in nearest(k) : flat[u].taskEnv[k] = OwnEnv(v)[k]

(***************************************************************************)
(* graph-implementation.adoc:183, "env property specified directly will    *)
(* have the highest precedence": what a stage sets for its task is         *)
(* overwritten by the task's own definition only (:106), not by a pipeline *)
(* further up.                                                             *)
(***************************************************************************)
DirectEnvWins ==
  phase = "done" /\ Separate =>
    \A u \in TaskClones :
      \A k \in DOMAIN OwnEnv(u) \ config.tasks[flat[u].task].env :
        flat[u].taskEnv[k] = OwnEnv(u)[k]

(***************************************************************************)
(* Clones share the envfile of the stage and of the task they were made    *)
(* from (stage.go:110, task.go:170).  When everything is used once a task  *)
(* reads its own files, then those of its stage, then those of its         *)
(* ancestors, outermost first.                                             *)
(***************************************************************************)
FilesInOrder ==
  phase = "done" /\ Separate
    /\ (\A q \in Pipelines : UsedOnce(q))
    /\ (\A t \in DOMAIN config.tasks :
          Cardinality({<<p, i>> \in Pipelines \X (1 .. 9) :
                         i \in DOMAIN Defs(p) /\ Defs(p)[i].task = t}) <= 1) =>
    \A u \in {u \in TaskClones : \A v \in DOMAIN rebuilt : u \in rebuilt[v].nodes => v = Front(u)} :
      LET def(a) == DefOf(Source(Front(a)), <<Last(a)>>)
          above  == [i \in 1 .. Len(u) - 2 |-> def(SubSeq(u, 1, i + 1)).file]
      IN  Effective(u) = config.tasks[flat[u].task].file \o def(u).file \o FlattenSeq(above)

(***************************************************************************)
(* StageList.Less is no order, so a sort by it promises little: of two     *)
(* steps next to each other the first does not depend on the second        *)
(* (stage.go:199).                                                         *)
(***************************************************************************)
NeighboursInOrder ==
  phase = "done" =>
    \A u \in DOMAIN rebuilt :
      LET s == SortedNodes(rebuilt[u]) IN
      \A i \in 1 .. Len(s) - 1 : s[i + 1] \notin Range(rebuilt[u].deps[s[i]])

(***************************************************************************)
(* How it ends: the builder accepts exactly the pipelines the scheduler    *)
(* can run, in whatever order Go ranges over maps, and Denormalize comes   *)
(* to its end unless the definitions refer to one another in a circle or   *)
(* meet one of the two nil pointers.                                       *)
(***************************************************************************)
EndsAsDefined ==
  AcceptedIsDag /\ RejectedIsBad /\ EndsUnlessCircular /\ PanicHasCause

(***************************************************************************)
(* What a task inherits: env and envfiles, from the task, its stage and    *)
(* the pipeline stages above it (denormalize.go:102).                      *)
(***************************************************************************)
Inheritance == EnvPrecedence /\ FilesInOrder

(***************************************************************************)
(* A graph without such siblings has the stages of its definition at every *)
(* level; the list of a graph has each of its stages once, by level, and   *)
(* in the sorted one no step comes right before one it depends on: further *)
(* apart it may.                                                           *)
(***************************************************************************)
StagesAreDefined == SameStages /\ ListedOnceByLevel /\ NeighboursInOrder
=============================================================================
