------------------------------ MODULE GithubCI ------------------------------
(***************************************************************************)
(* The GitHub workflow of a pipeline (internal/genci): the pipeline is     *)
(* denormalized as it is for a run, every top level stage becomes a job    *)
(* and every task below it a step of that job.                             *)
(*                                                                         *)
(* What ci_meta says of a stage is its gen: bad when it is no mapping that *)
(* fits, cond its "if" and env the keys it sets.                           *)
(***************************************************************************)
EXTENDS Denormalize

CONSTANT Machine  \* ghaNameConverter: what the segments with other characters become

VARIABLE workflow

NoWorkflow == [is |-> "none", keys |-> <<>>, jobs |-> <<>>]

ghaNameConverter(name) == [i \in DOMAIN name |-> IF name[i] \in DOMAIN Machine THEN Machine[name[i]] ELSE name[i]]

TailExtract(name) == <<Last(name)>>

Meta(u) == SetBy(flat[u].gen.env, "ci_meta")

\* The stage's name has become the name of its task (denormalize.go:130).
convertTaskToStep(u) ==
  LET env == Merge(flat[u].env, flat[u].taskEnv) IN
  [id   |-> ghaNameConverter(u),
   run  |-> TailExtract(u),
   cond |-> IF flat[u].gen.bad THEN None ELSE flat[u].gen.cond,
   env  |-> IF flat[u].gen.bad THEN env ELSE Merge(env, Meta(u))]

RECURSIVE flattenTasksInPipeline(_)
flattenTasksInPipeline(g) ==
  LET nodes   == SortedNodes(rebuilt[g])
      steps(u) == (IF flat[u].isPipe THEN flattenTasksInPipeline(u) ELSE <<>>) \o
                  (IF flat[u].task # None THEN <<convertTaskToStep(u)>> ELSE <<>>)
  IN  FlattenSeq([i \in DOMAIN nodes |-> steps(nodes[i])])

DefaultSteps == <<"checkout", "install-eirctl">>

StepsOf(u) ==
  IF flat[u].isPipe THEN flattenTasksInPipeline(u) ELSE <<convertTaskToStep(u)>>

NeedsMutantAsWritten(u) == [i \in DOMAIN flat[u].deps |-> TailExtract(flat[u].deps[i])]

Needs(u) == [i \in DOMAIN flat[u].deps |-> ghaNameConverter(TailExtract(flat[u].deps[i]))]

Job(u) ==
  [default |-> DefaultSteps,
   steps   |-> StepsOf(u),
   needs   |-> Needs(u),
   cond    |-> flat[u].gen.cond,
   env     |-> Merge(flat[u].env, Meta(u))]

JobName(u) == ghaNameConverter(TailExtract(u))

(***************************************************************************)
(* Jobs.Add: a name that comes again is written again, and the last job of *)
(* that name is the one that is written for each.                          *)
(***************************************************************************)
jobBuilder ==
  LET nodes   == SortedNodes(rebuilt[<<Top>>])
      Add(acc, u) == [acc EXCEPT !.keys = Append(@, JobName(u)), !.jobs = (JobName(u) :> Job(u)) @@ @]
  IN  FoldLeft(Add, [NoWorkflow EXCEPT !.is = "yaml"], nodes)

\* Convert: without triggers in ci_meta, or with a bad ci_meta on a job, there
\* is no workflow.
Convert ==
  /\ phase = "done"
  /\ workflow = NoWorkflow
  /\ LET nodes == Range(BFSNodesFlattened(rebuilt[<<Top>>]))
         fails == ~config.on \/ \E u \in nodes : flat[u].gen.bad
     IN  workflow' = IF fails THEN [NoWorkflow EXCEPT !.is = "error"] ELSE jobBuilder
  /\ UNCHANGED vars

GenerateInit == Init /\ workflow = NoWorkflow

GenerateNext ==
  \/ Next /\ UNCHANGED workflow
  \/ Convert

GenerateSpec == GenerateInit /\ [][GenerateNext]_<<vars, workflow>>
-----------------------------------------------------------------------------
\* A stage may depend on "root", which no list of stages has.
NoRootDependency == \A p \in Pipelines : \A i \in DOMAIN Defs(p) : Root \notin Range(Defs(p)[i].deps)

\* The workflow was written, for definitions the names of which stay apart.
Written ==
  /\ workflow.is = "yaml"
  /\ Separate
  /\ \A u \in DOMAIN flat : flat[u].isPipe => Sisters(u) = {}
  /\ NoRootDependency

\* The top level stages whose jobs no other job is taken for.
OwnJobs ==
  LET names == NamesOf(Top) IN
  {n \in names : \A m \in names \ {n} : ghaNameConverter(m) # ghaNameConverter(n)}

(***************************************************************************)
(* The workflow has what a run of the pipeline has: a job for every top    *)
(* level stage, which needs the jobs of the stages it depends on, and in   *)
(* it one step for every task the stage runs, in whatever order, with the  *)
(* env a run gives the task where ci_meta sets no other                    *)
(* (githubimpl.go:191).  It can run the task only if the stage has the     *)
(* name of its task, since the name of the stage is what it asks for       *)
(* (denormalize.go:130), and names that differ only in characters GitHub   *)
(* does not allow lose all but one of their jobs.                          *)
(***************************************************************************)
WorkflowIsPipeline ==
  Written =>
    /\ Len(workflow.keys) = Cardinality(NamesOf(Top))
    /\ \A n \in OwnJobs :
         LET job   == workflow.jobs[ghaNameConverter(n)]
             tasks == {u \in TaskClones : IsPrefix(<<Top>> \o n, u)}
         IN  /\ Range(job.needs) = {ghaNameConverter(d) : d \in Range(DefOf(Top, n).deps)}
             /\ Range(job.needs) \subseteq Range(workflow.keys)
             /\ Len(job.steps) = Cardinality(tasks)
             /\ \A u \in tasks : \E i \in DOMAIN job.steps :
                  LET step == job.steps[i] IN
                  /\ step.id = ghaNameConverter(u)
                  /\ Last(u) = flat[u].task => step.run = <<flat[u].task>>
                  /\ \A k \in DOMAIN flat[u].taskEnv :
                       step.env[k] = IF k \in flat[u].gen.env /\ ~flat[u].gen.bad THEN "ci_meta"
                                     ELSE flat[u].taskEnv[k]

(***************************************************************************)
(* githubimpl.go:194, "Respects the order of execution set in tascktl": in *)
(* a job no step comes before a step of a task that its own task depends   *)
(* on.                                                                     *)
(***************************************************************************)
StepsInOrder ==
  Written =>
    \A n \in OwnJobs :
      LET steps == workflow.jobs[ghaNameConverter(n)].steps IN
      \A u, v \in TaskClones : \A i, j \in DOMAIN steps :
        (/\ v \in Range(flat[u].deps)
         /\ steps[i].id = ghaNameConverter(u)
         /\ steps[j].id = ghaNameConverter(v)) => j < i
=============================================================================
