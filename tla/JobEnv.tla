------------------------------- MODULE JobEnv -------------------------------
(***************************************************************************)
(* The environment a command runs with: contextForTask, Run, the task      *)
(* compiler and ProcessEnvfile of runner/, and the env files of            *)
(* internal/utils, for tasks that may run at the same time and share a     *)
(* context.                                                                *)
(*                                                                         *)
(* An env is a function from names to values.  A name is a record of its   *)
(* leading keyword, the rest and the case of the rest, all that modify,    *)
(* include and exclude look at; a value says who set it.  The Env of a     *)
(* context is one shared pointer: it is read, rebuilt and written back in  *)
(* contextForTask without a lock, replaced in ProcessEnvfile under a lock, *)
(* and read by compileCommand after the lock is released.  Each of these   *)
(* is a step of its own.  Hooks of the context and the cancelling of a run *)
(* are in TaskRunner.                                                      *)
(***************************************************************************)
EXTENDS Naturals, Sequences

CONSTANT Configs   \* the configurations explored

\* Every value says who set it, a list is indexed from 1, eirctl.env has a
\* first version, and a task names a context there is or none.
SetBy(e, src, of) == \A n \in DOMAIN e : e[n].src = src /\ e[n].of = of
IsList(l) == Len(l) \in Nat /\ DOMAIN l = 1 .. Len(l)
FilesSetBy(paths, src, of) ==
    /\ IsList(paths)
    /\ \A i \in DOMAIN paths :
        /\ IsList(paths[i].lines)
        /\ \A k \in DOMAIN paths[i].lines :
            paths[i].lines[k].val.src = src /\ paths[i].lines[k].val.of = of

ASSUME ConfigAssumption ==
    \A c \in Configs :
        /\ SetBy(c.os, "os", "") /\ SetBy(c.args, "args", "")
        /\ IsList(c.eirctl) /\ Len(c.eirctl) # 0
        /\ \A i \in DOMAIN c.eirctl : SetBy(c.eirctl[i], "eirctl", "")
        /\ \A k \in DOMAIN c.contexts :
            /\ k # "" /\ SetBy(c.contexts[k].env, "context", k)
            /\ IsList(c.contexts[k].envfile.modify)
            /\ FilesSetBy(c.contexts[k].envfile.paths, "contextfile", k)
        /\ \A t \in DOMAIN c.tasks :
            LET task == c.tasks[t]
            IN  /\ task.context \in DOMAIN c.contexts \cup {""} /\ task.commands \in Nat
                /\ SetBy(task.env, "task", t) /\ FilesSetBy(task.paths, "taskfile", t)
                /\ IsList(task.variations)
                /\ \A i \in DOMAIN task.variations : SetBy(task.variations[i], "variant", t)

VARIABLES
    conf,       \* what is loaded: os, eirctl, contexts and tasks
    file,       \* which version of eirctl.env is on disk
    ctxEnv,     \* ExecutionContext.Env, of a named context or of a task's own
    runnerEnv,  \* TaskRunner.env: ARGS and the artifacts
    pc,         \* per task: the part of Run, the step in it, the command
    snap,       \* per task: the Env contextForTask has read
    env,        \* per task: the env Run has put together
    jobs,       \* per task: the Env of each compiled job
    shell,      \* per task: what the interpreter of its executor holds
    left,       \* per task: artifact values not yet stored
    ran,        \* history: the commands that ran and the env they saw
    met         \* history: tasks of one context that ran at the same time

vars == <<conf, file, ctxEnv, runnerEnv, pc, snap, env, jobs, shell, left,
          ran, met>>

Value(src, of, n) == [src |-> src, of |-> of, n |-> n]
Empty == [n \in {} |-> n]
Unset == Value("unset", "", 0)
NoName == [kw |-> "", var |-> "", up |-> FALSE]

Tasks == DOMAIN conf.tasks
T(t) == conf.tasks[t]

-----------------------------------------------------------------------------
(* Variables and env files. *)

\* variables.Merge: the argument overwrites the receiver.
Merge(dst, src) ==
    [n \in DOMAIN dst \cup DOMAIN src |-> IF n \in DOMAIN src THEN src[n] ELSE dst[n]]

First(S) == CHOOSE i \in S : \A j \in S : i <= j
Last(S) == CHOOSE i \in S : \A j \in S : j <= i

\* A line may refer to a name an earlier line of the same file has set.
AddLine(acc, l) ==
    Merge(acc, [n \in {l.name} |-> CASE l.ref = NoName -> l.val
                                     [] l.ref # NoName /\ l.ref \in DOMAIN acc -> acc[l.ref]
                                     [] OTHER -> Unset])
LinesUpTo(lines) ==
    LET upTo[i \in 0 .. Len(lines)] ==
            IF i = 0 THEN Empty ELSE AddLine(upTo[i - 1], lines[i])
    IN  upTo
ReadEnvFile(lines) == LinesUpTo(lines)[Len(lines)]

\* Files outside the working directory and missing ones are passed over; one
\* that cannot be opened makes all of them unavailable.
ReaderFromPath(paths) ==
    IF \E i \in DOMAIN paths : paths[i].place = "locked" THEN {}
    ELSE {i \in DOMAIN paths : paths[i].place = "inside"}

\* One file after the other.
FilesEnv(paths, from) ==
    LET of(i) == ReadEnvFile(paths[i].lines)
    IN  [n \in UNION {DOMAIN of(i) : i \in from} |->
            of(Last({i \in from : n \in DOMAIN of(i)}))[n]]

\* DefaultTaskctlEnv: eirctl.env as it is on disk now.
DefaultTaskctlEnv == conf.eirctl[file]

-----------------------------------------------------------------------------
(* Contexts. *)

NoEnvfile == [paths |-> <<>>, include |-> {}, exclude |-> {}, modify |-> <<>>]
DefaultContainerExcludes ==
    {[kw |-> k, var |-> ""] : k \in {"PATH", "HOME", "TMPDIR"}}

newEnvFile(ef, container) ==
    [paths |-> ef.paths, include |-> ef.include, modify |-> ef.modify,
     exclude |-> ef.exclude \cup IF container THEN DefaultContainerExcludes ELSE {}]

\* buildContext, and DefaultContext for a task that names none.
buildContext(def) ==
    [env |-> Merge(conf.os, def.env), container |-> def.container,
     envfile |-> newEnvFile(def.envfile, def.container)]

DefaultContext ==
    [env |-> conf.os, container |-> FALSE, envfile |-> NoEnvfile]

Named(t) == T(t).context # ""
Ctx(t) == IF Named(t) THEN buildContext(conf.contexts[T(t).context])
                      ELSE DefaultContext
\* The context object of a task: a named one is shared, the default is new.
Obj(t) == <<T(t).context, IF Named(t) THEN "" ELSE t>>
Objects == {<<c, "">> : c \in DOMAIN conf.contexts} \cup {<<"", t>> : t \in Tasks}
Share(t, u) == Named(t) /\ T(t).context = T(u).context

HasPrefix(n, p) == p.kw = n.kw /\ p.var \in {"", n.var}   \* in either case

includeExcludeSkip(ef, n) ==
    \/ \E p \in ef.exclude : HasPrefix(n, p)
    \/ ef.include # {} /\ ~\E p \in ef.include : HasPrefix(n, p)

\* The first pattern whose keyword the name has changes the case of the rest.
modifyName(ef, n) ==
    LET fits == {i \in DOMAIN ef.modify : ef.modify[i].kw = n.kw}
    IN  IF fits = {} THEN n
        ELSE [kw |-> n.kw, var |-> n.var, up |-> ef.modify[First(fits)].operation = "upper"]

MutuallyExclusive(ef) == ef.include # {} /\ ef.exclude # {}

\* Below the env that is given, the files of the context that can be read.
Gathered(ef, given) ==
    Merge(FilesEnv(ef.paths, {i \in ReaderFromPath(ef.paths) : ef.paths[i].readable}), given)

\* The Envs ProcessEnvfile can leave: two names made equal by modify come from
\* a map, in any order.
Nameless(n) == n.kw = "" /\ n.var = ""
Sources(ef, all, n) == {m \in DOMAIN all : ~Nameless(m) /\ modifyName(ef, m) = n}
Kept(ef, all) ==
    {n \in {modifyName(ef, m) : m \in {m \in DOMAIN all : ~Nameless(m)}} :
        ~includeExcludeSkip(ef, n)}
ProcessEnvfile(ef, given) ==
    LET all == Gathered(ef, given)
        from(n) == Sources(ef, all, n)
        kept == Kept(ef, all)
        clash == {n \in kept : \E a, b \in from(n) : a # b}
    IN  {[n \in kept |-> all[IF n \in clash THEN pick[n]
                             ELSE CHOOSE m \in from(n) : TRUE]] :
            pick \in {p \in [clash -> DOMAIN all] :
                        \A n \in clash : p[n] \in from(n)}}

-----------------------------------------------------------------------------
(* The parts of Run and what each of them compiles and runs. *)

\* GetVariations: one without env when the task lists none.
GetVariations(t) ==
    IF T(t).variations = <<>> THEN <<Empty>> ELSE T(t).variations

Commands(t, part) ==
    CASE part = "condition" -> IF T(t).condition THEN 1 ELSE 0
      [] part = "before"    -> T(t).before
      [] part = "after"     -> T(t).after
      [] OTHER              -> T(t).commands * Len(GetVariations(t))

\* The variation the n-th job was compiled for.
Variation(t, n) ==
    IF n = 0 THEN Empty ELSE GetVariations(t)[1 + (n - 1) \div T(t).commands]

Parts == <<"run", "condition", "before", "compile", "execute", "store",
           "after">>

At(t, part, step) == pc[t].part = part /\ pc[t].step = step
Go(t, part, step, n) ==
    pc' = [pc EXCEPT ![t] = [part |-> part, step |-> step, n |-> n]]
End(t, how) == Go(t, "end", how, 0)

\* The next part of Run that has something to do.
HasWork(t, part) ==
    IF part = "store" THEN T(t).artifact # {} ELSE Commands(t, part) > 0
NextPart(t, part) ==
    LET later == {j \in DOMAIN Parts : /\ \E i \in 1 .. j - 1 : Parts[i] = part
                                      /\ HasWork(t, Parts[j])}
    IN  IF later = {} THEN "end" ELSE Parts[First(later)]
Follow(t, part) ==
    LET p == NextPart(t, part)
    IN  Go(t, p, CASE p = "end" -> "nil" [] p = "compile" -> "process"
                   [] p = "store" -> "open" [] OTHER -> "read",
           IF p = "end" THEN 0 ELSE 1)

Init ==
    /\ conf \in Configs
    /\ file = 1
    /\ ctxEnv = [o \in Objects |-> IF o[1] = "" THEN DefaultContext.env
                                   ELSE buildContext(conf.contexts[o[1]]).env]
    /\ runnerEnv = conf.args
    /\ pc = [t \in Tasks |-> [part |-> "idle", step |-> "", n |-> 0]]
    /\ snap = [t \in Tasks |-> Empty]
    /\ env = [t \in Tasks |-> Empty]
    /\ jobs = [t \in Tasks |-> <<>>]
    /\ shell = [t \in Tasks |-> Empty]
    /\ left = [t \in Tasks |-> {}]
    /\ ran = {}
    /\ met = {}

\* The scheduler starts a task when those it depends on have ended well.
Start(t) ==
    /\ pc[t].part = "idle"
    /\ \A u \in T(t).after_tasks : pc[u].part = "end" /\ pc[u].step # "error"
    /\ Go(t, "run", "read", 1)
    /\ met' = met \cup {{t, u} : u \in {u \in Tasks \ {t} : Share(t, u) /\
                                   pc[u].part \notin {"idle", "end"}}}
    /\ UNCHANGED <<conf, file, ctxEnv, runnerEnv, snap, env, jobs, shell, left,
                   ran>>

\* contextForTask: context.Env = context.Env.Merge(DefaultTaskctlEnv()), a
\* read and a write that no lock holds together.
ReadContextMutantOneDefault(t) ==
    /\ pc[t].step = "read"
    /\ \E u \in Tasks : /\ Named(u) <=> Named(t)
                        /\ snap' = [snap EXCEPT ![t] = ctxEnv[Obj(IF Named(t) THEN t ELSE u)]]
    /\ Go(t, pc[t].part, "merge", 1)
    /\ UNCHANGED <<conf, file, ctxEnv, runnerEnv, env, jobs, shell, left, ran,
                   met>>
ReadContext(t) ==
    /\ pc[t].step = "read"
    /\ snap' = [snap EXCEPT ![t] = IF Named(t) THEN ctxEnv[Obj(t)]
                                               ELSE DefaultContext.env]
    /\ Go(t, pc[t].part, "merge", 1)
    /\ UNCHANGED <<conf, file, ctxEnv, runnerEnv, env, jobs, shell, left, ran,
                   met>>

MergeContextMutantReplaces(t) ==
    /\ pc[t].step = "merge"
    /\ ctxEnv' = [ctxEnv EXCEPT ![Obj(t)] = DefaultTaskctlEnv]
    /\ Go(t, pc[t].part, CASE pc[t].part = "run" -> "build"
                           [] pc[t].part = "execute" -> "exec"
                           [] OTHER -> "process", 1)
    /\ UNCHANGED <<conf, file, runnerEnv, snap, env, jobs, shell, left, ran, met>>
MergeContext(t) ==
    /\ pc[t].step = "merge"
    /\ ctxEnv' = [ctxEnv EXCEPT ![Obj(t)] = Merge(snap[t], DefaultTaskctlEnv)]
    /\ Go(t, pc[t].part, CASE pc[t].part = "run" -> "build"
                           [] pc[t].part = "execute" -> "exec"
                           [] OTHER -> "process", 1)
    /\ UNCHANGED <<conf, file, runnerEnv, snap, env, jobs, shell, left, ran, met>>

\* Run: artifacts below the context, below TASK_NAME, below the task's env;
\* the task's env files below all of them.
TaskName(t) ==
    [n \in {[kw |-> "TASK_NAME", var |-> "", up |-> TRUE]} |-> Value("name", t, 0)]
OwnEnv(t) == Merge(TaskName(t), T(t).env)
RunEnvMutantContextLast(t) ==
    Merge(FilesEnv(T(t).paths, ReaderFromPath(T(t).paths)),
          Merge(Merge(runnerEnv, OwnEnv(t)), ctxEnv[Obj(t)]))
RunEnv(t) ==
    Merge(FilesEnv(T(t).paths, ReaderFromPath(T(t).paths)),
          Merge(Merge(runnerEnv, ctxEnv[Obj(t)]), OwnEnv(t)))

BuildEnv(t) ==
    /\ At(t, "run", "build")
    /\ IF \A i \in ReaderFromPath(T(t).paths) : T(t).paths[i].readable
       THEN env' = [env EXCEPT ![t] = RunEnv(t)] /\ Follow(t, "run")
       ELSE End(t, "error") /\ UNCHANGED env
    /\ UNCHANGED <<conf, file, ctxEnv, runnerEnv, snap, jobs, shell, left, ran, met>>

\* What compileCommand hands to ProcessEnvfile: a condition is compiled with
\* the env of the runner only.
Input(t) ==
    CASE pc[t].part = "condition" -> runnerEnv
      [] pc[t].part = "compile"   -> Merge(env[t], Variation(t, pc[t].n))
      [] OTHER                    -> env[t]

Process(t) ==
    /\ pc[t].step = "process"
    /\ IF MutuallyExclusive(Ctx(t).envfile)
       THEN End(t, "error") /\ UNCHANGED ctxEnv
       ELSE /\ \E e \in ProcessEnvfile(Ctx(t).envfile, Input(t)) :
                    ctxEnv' = [ctxEnv EXCEPT ![Obj(t)] = e]
            /\ Go(t, pc[t].part, "take", pc[t].n)
    /\ UNCHANGED <<conf, file, runnerEnv, snap, env, jobs, shell, left, ran, met>>

\* RequiredInput.Check of the names a task requires in its environment.
RequiredMet(t, j) == T(t).required \subseteq DOMAIN Merge(j, T(t).env)

\* compileCommand after the lock: the job gets whatever Env the context has
\* now, and the required names are looked up in it and in the task's own.
Take(t) ==
    /\ pc[t].step = "take"
    /\ LET j == ctxEnv[Obj(t)]
           n == pc[t].n
           k == IF pc[t].part = "compile" THEN n ELSE 1
       IN  IF RequiredMet(t, j)
           THEN /\ jobs' = [jobs EXCEPT ![t] =
                            [i \in 1 .. k |-> IF i = k THEN j ELSE jobs[t][i]]]
                /\ CASE pc[t].part # "compile" -> Go(t, pc[t].part, "exec", n)
                     [] pc[t].part = "compile" /\ n < Commands(t, "compile") ->
                            Go(t, "compile", "process", n + 1)
                     [] OTHER -> Follow(t, "compile")
           ELSE End(t, "error") /\ UNCHANGED jobs
    /\ UNCHANGED <<conf, file, ctxEnv, runnerEnv, snap, env, shell, left, ran, met>>

\* A before hook always runs on the host.
InContainer(t, part) == Ctx(t).container /\ part # "before"

\* What the command sees.  The default executor adds the env of the process
\* below that of the job; its interpreter takes a new env only when it is new
\* or reset, and one executor runs all the jobs of a task.
Seen(t) ==
    LET p == pc[t]
        job == jobs[t][IF p.part = "execute" THEN p.n ELSE 1]
    IN  CASE InContainer(t, p.part) -> job
          [] ~InContainer(t, p.part) /\ p.part = "execute" /\ p.n > 1 /\ ~T(t).reset ->
                shell[t]
          [] OTHER -> Merge(conf.os, job)

\* An error of a condition ends Run, its exit status only skips the task; an
\* after hook may fail.  A command that fails ends Run; with allow_failure an
\* exit status goes on to the next job as a success does, any other error not.
Execute(t) ==
    /\ pc[t].step = "exec"
    /\ shell' = [shell EXCEPT ![t] = Seen(t)]
    /\ ran' = ran \cup {[task |-> t, part |-> pc[t].part, n |-> pc[t].n,
                         env |-> Seen(t)]}
    /\ LET part == pc[t].part
           n == pc[t].n
           onward == IF n = Commands(t, part) THEN Follow(t, part)
                     ELSE Go(t, part, IF part = "execute" THEN "exec"
                                      ELSE "process", n + 1)
       IN  \/ onward
           \/ part = "condition" /\ End(t, "skipped")
           \/ part \in {"condition", "before", "execute"} /\ End(t, "error")
    /\ UNCHANGED <<conf, file, ctxEnv, runnerEnv, snap, env, jobs, left, met>>

\* storeTaskOutput: the file may be missing; its values are set one by one.
OpenArtifact(t) ==
    /\ At(t, "store", "open")
    /\ \/ left' = [left EXCEPT ![t] = T(t).artifact] /\ Go(t, "store", "set", 1)
       \/ End(t, "error") /\ UNCHANGED left
    /\ UNCHANGED <<conf, file, ctxEnv, runnerEnv, snap, env, jobs, shell, ran, met>>

Stored(t, n) == [m \in {n} |-> Value("artifact", t, 0)]

storeTaskOutput(t) ==
    /\ At(t, "store", "set")
    /\ \E n \in left[t] :
        /\ runnerEnv' = Merge(runnerEnv, Stored(t, n))
        /\ left' = [left EXCEPT ![t] = @ \ {n}]
        /\ IF left[t] = {n} THEN Follow(t, "store") ELSE UNCHANGED pc
    /\ UNCHANGED <<conf, file, ctxEnv, snap, env, jobs, shell, ran, met>>

\* Somebody rewrites eirctl.env while tasks run.
Rewrite ==
    /\ file < Len(conf.eirctl)
    /\ file' = file + 1
    /\ UNCHANGED <<conf, ctxEnv, runnerEnv, pc, snap, env, jobs, shell, left,
                   ran, met>>

Next ==
    \/ \E t \in Tasks :
        \/ Start(t) \/ ReadContext(t) \/ MergeContext(t) \/ BuildEnv(t)
        \/ Process(t) \/ Take(t) \/ Execute(t)
        \/ OpenArtifact(t) \/ storeTaskOutput(t)
    \/ Rewrite

Spec == Init /\ [][Next]_vars

-----------------------------------------------------------------------------
(* Properties. *)

Mixed(t) == \E m \in met : t \in m

\* The variation whose env the n-th job of t runs with: without reset_context
\* the interpreter of the default executor stays with the first.
RunsVariation(r) ==
    CASE r.part # "execute" -> Empty
      [] r.part = "execute" /\ (Ctx(r.task).container \/ T(r.task).reset) ->
            Variation(r.task, r.n)
      [] OTHER -> Variation(r.task, 1)

\* docs/graph-implementation.adoc:106: what a task sets overwrites what was
\* set before.  Of a task that met no other one on its context, every hook
\* sees the values of the task, every command also those of its variation (of
\* the first one where the interpreter stays), and in a container nothing the
\* context excludes, unless modify gives two names the same form (the map's
\* order then decides).  Another task on the context can get between
\* ProcessEnvfile and the read of Env, at compiler.go:119-131.
JobEnvIsOwn ==
    \A r \in ran : r.part # "condition" /\ ~Mixed(r.task) =>
        LET ef == Ctx(r.task).envfile
            own == Merge(OwnEnv(r.task), RunsVariation(r))
        IN  /\ \A n \in {n \in DOMAIN own : ~Nameless(n)} :
                LET m == modifyName(ef, n)
                IN  \/ includeExcludeSkip(ef, m)
                    \/ \E k \in DOMAIN Gathered(ef, Merge(env[r.task], RunsVariation(r))) \ {n} :
                            modifyName(ef, k) = m
                    \/ m \in DOMAIN r.env /\ r.env[m] = own[n]
            /\ InContainer(r.task, r.part) =>
                \A n \in DOMAIN r.env : ~includeExcludeSkip(ef, n)

\* What one task or context sets reaches a command of another task only
\* through a context both name or through an artifact: nothing that a task
\* sets gets into the runner's env, and no two tasks share a default context.
NoCrossTalk ==
    \A r \in ran : \A n \in DOMAIN r.env :
        LET v == r.env[n]
        IN  /\ v.src \in {"task", "variant", "name", "taskfile"} =>
                    v.of = r.task \/ Share(r.task, v.of)
            /\ v.src \in {"context", "contextfile"} =>
                    v.of = T(r.task).context

\* docs/graph-implementation.adoc:102: what is set at the context level is
\* injected into its tasks.  It is, unless a condition was compiled for
\* another task of the context: that leaves the context with the env of the
\* runner, and Run restores it only for the task whose condition it was, if
\* no other task of the context was at contextForTask meanwhile.  It has the
\* form modify gives it, or its own if such a task put the Env back in between.
ContextEnvReaches ==
    \A r \in ran : r.part # "condition" /\ Named(r.task) =>
        LET c == conf.contexts[T(r.task).context]
            ef == Ctx(r.task).envfile
        IN  \/ \E u \in Tasks :
                    /\ Share(u, r.task) /\ T(u).condition /\ pc[u].part # "idle"
                    /\ u # r.task \/ Mixed(u)
            \/ \A n \in {n \in DOMAIN c.env : ~Nameless(n)} :
                    \/ includeExcludeSkip(ef, modifyName(ef, n))
                    \/ modifyName(ef, n) \in DOMAIN r.env
                    \/ n \in DOMAIN r.env /\ Mixed(r.task)

\* What u published before t started.
Published(u) == pc[u].part = "end" /\ pc[u].step = "nil"
HasArtifact(r, u, n) == n \in DOMAIN r.env /\ r.env[n] = Value("artifact", u, 0)

\* docs/artifacts.adoc:8 says that tasks propagate dotenv values to downstream
\* tasks, and :12 that outputs are available across contexts.
ArtifactReachesDependents ==
    \A r \in ran : r.part = "execute" =>
        \A u \in T(r.task).after_tasks : \A n \in T(u).artifact :
            \/ ~Published(u)
            \/ HasArtifact(r, u, n)
            \/ n \in DOMAIN Merge(OwnEnv(r.task), RunsVariation(r))
            \/ includeExcludeSkip(Ctx(r.task).envfile, n)
            \/ \E w \in Tasks \ {u} : n \in T(w).artifact

=============================================================================
