----------------------------- MODULE TaskRunner -----------------------------
(***************************************************************************)
(* runner.TaskRunner: the tasks of a run, executed by concurrent calls of  *)
(* Run, the execution contexts they share (runner/context.go) with their   *)
(* up, down, before and after hooks, Cancel, and Finish.                   *)
(*                                                                         *)
(* Run asks contextForTask for its context up to five times, at the sites  *)
(* Sites; each asks Up (once per context, under sync.Once) and then the    *)
(* context's Before hook.  A command, hook, file or template may succeed   *)
(* or fail, and takes any time.  Env, variables, output and the commands   *)
(* themselves are left out.                                                *)
(***************************************************************************)
EXTENDS Integers, FiniteSets

CONSTANTS
  Tasks,        \* one call of Run each
  Contexts,     \* the configured contexts
  Default,      \* the task names no context: DefaultContext(), without hooks
  Unknown,      \* the task names a context that is not configured
  Cancellers,   \* goroutines that call Cancel
  MaxJobs,      \* most commands (times variations) a task compiles to
  Definitions   \* the task definitions a run may be given

Sites == {"run", "condition", "before", "execute", "after"}

DefinitionType ==
  [context: Contexts \cup {Default, Unknown},
   sites: SUBSET Sites,      \* the sites Run passes: those whose hook the task has
   jobs: 1..MaxJobs,
   flags: SUBSET {"allowFailure", "artifact"}]  \* artifact: of a type that is stored

ASSUME RunnerAssumption ==
  /\ MaxJobs \in Nat
  /\ Default \notin Contexts /\ Unknown \notin Contexts /\ Default # Unknown
  /\ Definitions \subseteq DefinitionType
  /\ \A d \in Definitions : {"run", "execute"} \subseteq d.sites

VARIABLES
  def,        \* the definition of each task; read only
  pc,         \* where each Run is
  site,       \* which part of Run asked for the context
  jobs,       \* jobs still to execute
  up,         \* ExecutionContext.onceUp and startupError
  down,       \* the contexts whose onceDown has run
  cleanup,    \* TaskRunner.cleanupList
  hooks,      \* completed calls of the context's Before for a task
  afters,     \* calls of the context's After for a task
  afterRan,   \* the tasks whose own after commands have run
  stored,     \* the tasks whose artifact has been stored
  errored,    \* Task.errored
  skipped,    \* Task.skipped
  exitCode,   \* Task.exitCode
  answer,     \* what Run returns
  finish,     \* where Finish is
  canceling, doneCh, waiter, panicked  \* as in RunnerCancel

taskVars == <<hooks, afters, afterRan, stored, errored, skipped, exitCode>>
ctxVars == <<up, down, cleanup, finish>>
cancelVars == <<canceling, doneCh, waiter, panicked>>
vars == <<def, pc, site, jobs, answer, taskVars, ctxVars, cancelVars>>

RunStates == {"idle", "lookup", "up", "upping", "hook", "work", "compile", "job", "store",
              "closing", "release", "returned"}

MaxHooks == 5

TypeOK ==
  /\ def \in [Tasks -> Definitions]
  /\ pc \in [Tasks -> RunStates]
  /\ site \in [Tasks -> Sites]
  /\ jobs \in [Tasks -> 0..MaxJobs]
  /\ up \in [Contexts -> {"no", "running", "ok", "failed"}]
  /\ down \in SUBSET Contexts
  /\ cleanup \in SUBSET Contexts
  /\ hooks \in [Tasks -> 0..MaxHooks]
  /\ afters \in [Tasks -> 0..1]
  /\ afterRan \in SUBSET Tasks
  /\ stored \in SUBSET Tasks
  /\ errored \in SUBSET Tasks
  /\ skipped \in SUBSET Tasks
  /\ exitCode \in [Tasks -> {"unset", "zero", "nonzero"}]
  /\ answer \in [Tasks -> {"none", "nil", "error"}]
  /\ finish \in {"idle", "running", "done"}
  /\ canceling \in {0, 1}
  /\ doneCh \in {"open", "closed"}
  /\ waiter \in [Cancellers -> {"idle", "waiting", "returned"}]
  /\ panicked \in {0, 1}

Init ==
  /\ def \in [Tasks -> Definitions]
  /\ pc = [t \in Tasks |-> "idle"]
  /\ site = [t \in Tasks |-> "run"]
  /\ jobs = [t \in Tasks |-> def[t].jobs]
  /\ up = [c \in Contexts |-> "no"]
  /\ down = {}
  /\ cleanup = {}
  /\ hooks = [t \in Tasks |-> 0]
  /\ afters = [t \in Tasks |-> 0]
  /\ afterRan = {}
  /\ stored = {}
  /\ errored = {}
  /\ skipped = {}
  /\ exitCode = [t \in Tasks |-> "unset"]
  /\ answer = [t \in Tasks |-> "none"]
  /\ finish = "idle"
  /\ canceling = 0
  /\ doneCh = "open"
  /\ waiter = [k \in Cancellers |-> "idle"]
  /\ panicked = 0

Context(t) == def[t].context
Hooked(t) == Context(t) \in Contexts
AllowFailure(t) == "allowFailure" \in def[t].flags
HasArtifact(t) == "artifact" \in def[t].flags
InFlight(t) == pc[t] \notin {"idle", "returned"}
-----------------------------------------------------------------------------
(***************************************************************************)
(* Moving through Run.                                                     *)
(***************************************************************************)
At(t, from) == panicked = 0 /\ pc[t] = from

Goto(t, to) == pc' = [pc EXCEPT ![t] = to] /\ UNCHANGED <<site, answer>>

\* The next part of Run that asks for the context; jobs are compiled before execute.
Ask(t, s) ==
  /\ pc' = [pc EXCEPT ![t] = IF s = "execute" THEN "compile" ELSE "lookup"]
  /\ site' = [site EXCEPT ![t] = s]
  /\ UNCHANGED answer

\* The parts of Run before its commands, skipping those the task does not have.
Advance(t) ==
  LET has(s) == s \in def[t].sites IN
  Ask(t, IF site[t] = "run" /\ has("condition") THEN "condition"
         ELSE IF site[t] # "before" /\ has("before") THEN "before"
         ELSE "execute")

\* return err, or return nil, with the deferred clean up registered.
Leave(t, a) ==
  /\ pc' = [pc EXCEPT ![t] = "closing"]
  /\ answer' = [answer EXCEPT ![t] = a]
  /\ UNCHANGED site

\* return err before it is registered: only doneCh is still to be released.
LeaveEarly(t) ==
  /\ pc' = [pc EXCEPT ![t] = "release"]
  /\ answer' = [answer EXCEPT ![t] = "error"]
  /\ UNCHANGED site

\* An error of contextForTask: the first call is made before the defer.
LeaveContext(t) == IF site[t] = "run" THEN LeaveEarly(t) ELSE Leave(t, "error")
-----------------------------------------------------------------------------
\* Run is called; the command calls Finish only when no more Runs are to come.
Begin(t) ==
  /\ At(t, "idle")
  /\ finish = "idle"
  /\ Goto(t, "lookup")
  /\ UNCHANGED <<def, jobs, taskVars, ctxVars, cancelVars>>

\* Mutant of LookUp: the context is not put on the clean up list.
LookUpMutantForgetsCleanup(t) ==
  /\ At(t, "lookup")
  /\ \/ Hooked(t) /\ Goto(t, "up")
     \/ Context(t) = Default /\ Goto(t, "work")
     \/ Context(t) = Unknown /\ LeaveContext(t)
  /\ UNCHANGED <<def, jobs, taskVars, ctxVars, cancelVars>>

(***************************************************************************)
(* contextForTask.                                                         *)
(***************************************************************************)
LookUp(t) ==
  /\ At(t, "lookup")
  /\ \/ Hooked(t) /\ cleanup' = cleanup \cup {Context(t)} /\ Goto(t, "up")
     \/ Context(t) = Default /\ UNCHANGED cleanup /\ Goto(t, "work")
     \/ Context(t) = Unknown /\ UNCHANGED cleanup /\ LeaveContext(t)
  /\ UNCHANGED <<def, jobs, taskVars, up, down, finish, cancelVars>>

\* onceUp.Do: the first task runs the up commands, the others wait for it.
UpBegins(t) ==
  /\ At(t, "up")
  /\ up[Context(t)] = "no"
  /\ up' = [up EXCEPT ![Context(t)] = "running"]
  /\ Goto(t, "upping")
  /\ UNCHANGED <<def, jobs, taskVars, down, cleanup, finish, cancelVars>>

UpEnds(t) ==
  /\ At(t, "upping")
  /\ \E end \in {"ok", "failed"} : up' = [up EXCEPT ![Context(t)] = end]
  /\ Goto(t, "up")
  /\ UNCHANGED <<def, jobs, taskVars, down, cleanup, finish, cancelVars>>

\* Mutants of UpAnswers: a flag in place of sync.Once, which does not wait,
UpAnswersMutantDoesNotWait(t) ==
  /\ At(t, "up")
  /\ \/ up[Context(t)] \in {"running", "ok"} /\ Goto(t, "hook")
     \/ up[Context(t)] = "failed" /\ LeaveContext(t)
  /\ UNCHANGED <<def, jobs, taskVars, ctxVars, cancelVars>>

\* and a failed up that keeps the others waiting.
UpAnswersMutantBlocks(t) ==
  /\ At(t, "up")
  /\ up[Context(t)] = "ok" /\ Goto(t, "hook")
  /\ UNCHANGED <<def, jobs, taskVars, ctxVars, cancelVars>>

\* Up answers startupError: a failure is remembered for every later task.
UpAnswers(t) ==
  /\ At(t, "up")
  /\ \/ up[Context(t)] = "ok" /\ Goto(t, "hook")
     \/ up[Context(t)] = "failed" /\ LeaveContext(t)
  /\ UNCHANGED <<def, jobs, taskVars, ctxVars, cancelVars>>

\* The context's Before hook; hooks counts the times it ran for the task.
ContextBefore(t) ==
  /\ At(t, "hook")
  /\ hooks' = [hooks EXCEPT ![t] = @ + 1]
  /\ Goto(t, "work") \/ LeaveContext(t)
  /\ UNCHANGED <<def, jobs, afters, afterRan, stored, errored, skipped, exitCode, ctxVars, cancelVars>>
-----------------------------------------------------------------------------
(***************************************************************************)
(* What Run does with the context at each site.                            *)
(***************************************************************************)
\* NewTaskOutput may fail before the defer, reading the envfile after it.
Prepare(t) ==
  /\ At(t, "work") /\ site[t] = "run"
  /\ Advance(t) \/ LeaveEarly(t) \/ Leave(t, "error")
  /\ UNCHANGED <<def, jobs, taskVars, ctxVars, cancelVars>>

\* checkTaskCondition: met, not met (the task is skipped), or an error.
CheckCondition(t) ==
  /\ At(t, "work") /\ site[t] = "condition"
  /\ \/ (Advance(t) \/ Leave(t, "error")) /\ UNCHANGED skipped
     \/ skipped' = skipped \cup {t} /\ Leave(t, "nil")
  /\ UNCHANGED <<def, jobs, hooks, afters, afterRan, stored, errored, exitCode, ctxVars, cancelVars>>

\* The task's own before commands.
Before(t) ==
  /\ At(t, "work") /\ site[t] = "before"
  /\ Advance(t) \/ Leave(t, "error")
  /\ UNCHANGED <<def, jobs, taskVars, ctxVars, cancelVars>>

\* CompileTask and taskOutput.Start, then execute asks for the context.
Compile(t) ==
  /\ At(t, "compile")
  /\ Goto(t, "lookup") \/ Leave(t, "error")
  /\ UNCHANGED <<def, jobs, taskVars, ctxVars, cancelVars>>

\* The executor is made for the first job; that may fail.
MakeExecutor(t) ==
  /\ At(t, "work") /\ site[t] = "execute"
  /\ Goto(t, "job") \/ Leave(t, "error")
  /\ UNCHANGED <<def, jobs, taskVars, ctxVars, cancelVars>>

\* A job ends well, or with an exit status the task may fail with.
JobEnds(t) ==
  /\ At(t, "job") /\ jobs[t] > 0
  /\ jobs' = [jobs EXCEPT ![t] = @ - 1]
  /\ \/ UNCHANGED exitCode
     \/ AllowFailure(t) /\ exitCode' = [exitCode EXCEPT ![t] = "nonzero"]
  /\ UNCHANGED <<def, pc, site, answer, hooks, afters, afterRan, stored, errored, skipped, ctxVars, cancelVars>>

\* A job fails: with an exit status or, cancelled or timed out, without one.
JobFails(t) ==
  /\ At(t, "job") /\ jobs[t] > 0
  /\ \/ ~AllowFailure(t) /\ exitCode' = [exitCode EXCEPT ![t] = "nonzero"]
     \/ UNCHANGED exitCode
  /\ errored' = errored \cup {t}
  /\ Leave(t, "error")
  /\ UNCHANGED <<def, jobs, hooks, afters, afterRan, stored, skipped, ctxVars, cancelVars>>

\* Mutant of JobTemplateFails: the error is logged and dropped.
JobTemplateFailsMutantDropsError(t) ==
  /\ At(t, "job") /\ jobs[t] > 0
  /\ Leave(t, "nil")
  /\ UNCHANGED <<def, jobs, taskVars, ctxVars, cancelVars>>

\* The command's template does not render: an error, but not Task.errored.
JobTemplateFails(t) ==
  /\ At(t, "job") /\ jobs[t] > 0
  /\ Leave(t, "error")
  /\ UNCHANGED <<def, jobs, taskVars, ctxVars, cancelVars>>

JobsDone(t) ==
  /\ At(t, "job") /\ jobs[t] = 0
  /\ Goto(t, "store")
  /\ UNCHANGED <<def, jobs, taskVars, ctxVars, cancelVars>>

\* storeTaskOutput, then after if the task has after commands.
StoreTaskOutput(t) ==
  /\ At(t, "store")
  /\ \/ /\ stored' = IF HasArtifact(t) THEN stored \cup {t} ELSE stored
        /\ IF "after" \in def[t].sites THEN Ask(t, "after") ELSE Leave(t, "nil")
     \/ HasArtifact(t) /\ UNCHANGED stored /\ Leave(t, "error")
  /\ UNCHANGED <<def, jobs, hooks, afters, afterRan, errored, skipped, exitCode, ctxVars, cancelVars>>

\* The task's after commands: a failing command is only logged.
After(t) ==
  /\ At(t, "work") /\ site[t] = "after"
  /\ \/ afterRan' = afterRan \cup {t} /\ Leave(t, "nil")
     \/ UNCHANGED afterRan /\ Leave(t, "error")
  /\ UNCHANGED <<def, jobs, hooks, afters, stored, errored, skipped, exitCode, ctxVars, cancelVars>>

\* The deferred clean up: the context's After hook, and the exit code.
Close(t) ==
  /\ At(t, "closing")
  /\ afters' = IF Hooked(t) THEN [afters EXCEPT ![t] = @ + 1] ELSE afters
  /\ exitCode' = IF t \in errored \cup skipped THEN exitCode ELSE [exitCode EXCEPT ![t] = "zero"]
  /\ Goto(t, "release")
  /\ UNCHANGED <<def, jobs, hooks, afterRan, stored, errored, skipped, ctxVars, cancelVars>>

\* Mutants of Release: the channel is closed though nobody cancelled,
ReleaseMutantAlwaysCloses(t) ==
  /\ At(t, "release")
  /\ doneCh' = "closed"
  /\ panicked' = IF doneCh = "closed" THEN 1 ELSE 0
  /\ Goto(t, "returned")
  /\ UNCHANGED <<def, jobs, taskVars, ctxVars, canceling, waiter>>

\* or never.
ReleaseMutantNeverCloses(t) ==
  /\ At(t, "release")
  /\ Goto(t, "returned")
  /\ UNCHANGED <<def, jobs, taskVars, ctxVars, cancelVars>>

\* The first defer of Run, so the last to run: close(doneCh) when cancelling.
Release(t) ==
  /\ At(t, "release")
  /\ doneCh' = IF canceling = 1 THEN "closed" ELSE doneCh
  /\ panicked' = IF canceling = 1 /\ doneCh = "closed" THEN 1 ELSE 0
  /\ Goto(t, "returned")
  /\ UNCHANGED <<def, jobs, taskVars, ctxVars, canceling, waiter>>
-----------------------------------------------------------------------------
Cancel(k) ==
  /\ panicked = 0
  /\ waiter[k] = "idle"
  /\ canceling' = 1
  /\ waiter' = [waiter EXCEPT ![k] = "waiting"]
  /\ UNCHANGED <<def, pc, site, jobs, answer, taskVars, ctxVars, doneCh, panicked>>

CancelReturns(k) ==
  /\ panicked = 0
  /\ waiter[k] = "waiting"
  /\ doneCh = "closed"
  /\ waiter' = [waiter EXCEPT ![k] = "returned"]
  /\ UNCHANGED <<def, pc, site, jobs, answer, taskVars, ctxVars, canceling, doneCh, panicked>>

\* Finish, called when every Run has returned, takes down the listed contexts.
FinishBegins ==
  /\ panicked = 0
  /\ finish = "idle"
  /\ \A t \in Tasks : ~InFlight(t)
  /\ finish' = "running"
  /\ UNCHANGED <<def, pc, site, jobs, answer, taskVars, up, down, cleanup, cancelVars>>

Down(c) ==
  /\ panicked = 0
  /\ finish = "running"
  /\ c \in cleanup \ down
  /\ down' = down \cup {c}
  /\ UNCHANGED <<def, pc, site, jobs, answer, taskVars, up, cleanup, finish, cancelVars>>

FinishEnds ==
  /\ panicked = 0
  /\ finish = "running"
  /\ cleanup \subseteq down
  /\ finish' = "done"
  /\ UNCHANGED <<def, pc, site, jobs, answer, taskVars, up, down, cleanup, cancelVars>>

Run(t) ==
  \/ LookUp(t) \/ UpBegins(t) \/ UpEnds(t) \/ UpAnswers(t) \/ ContextBefore(t)
  \/ Prepare(t) \/ CheckCondition(t) \/ Before(t) \/ Compile(t) \/ MakeExecutor(t)
  \/ JobEnds(t) \/ JobFails(t) \/ JobTemplateFails(t) \/ JobsDone(t)
  \/ StoreTaskOutput(t) \/ After(t) \/ Close(t) \/ Release(t)

Finish == FinishBegins \/ FinishEnds \/ \E c \in Contexts : Down(c)

Next ==
  \/ \E t \in Tasks : Begin(t) \/ Run(t)
  \/ \E k \in Cancellers : Cancel(k) \/ CancelReturns(k)
  \/ Finish

Spec == Init /\ [][Next]_vars

(***************************************************************************)
(* Every goroutine that can run does, and commands end.  Nothing makes a   *)
(* caller call Run, Cancel or Finish.                                      *)
(***************************************************************************)
Fairness ==
  /\ \A t \in Tasks : WF_vars(Run(t))
  /\ \A k \in Cancellers : WF_vars(CancelReturns(k))

FairSpec == Spec /\ Fairness
-----------------------------------------------------------------------------
(***************************************************************************)
(* What makes the runner correct.                                          *)
(***************************************************************************)

\* A hook or a command is being run for the task in its context.
UsesContext(t) == Hooked(t) /\ pc[t] \in {"hook", "work", "compile", "job", "store", "closing"}

Started(t) == site[t] # "run"

(***************************************************************************)
(* A context is used only between its up and its down: whichever of the    *)
(* tasks sharing it came first, every hook and command of every task runs  *)
(* after the up commands have succeeded and before Finish takes it down.   *)
(***************************************************************************)
ContextLifetime ==
  \A t \in Tasks : UsesContext(t) => up[Context(t)] = "ok" /\ Context(t) \notin down

(***************************************************************************)
(* "Down runs once at the end of the usage of the context"                 *)
(* (definitions.go): after Finish exactly the contexts whose up was run    *)
(* are down, those whose up failed included, and Finish takes down nothing *)
(* while a Run is in flight.                                               *)
(***************************************************************************)
FinishTakesDown ==
  /\ finish = "done" => down = {c \in Contexts : up[c] # "no"}
  /\ down # {} => \A t \in Tasks : ~InFlight(t)

(***************************************************************************)
(* The context's After hook is "run irrespective of the state of the task" *)
(* (definitions.go): exactly once for a task that got past its first       *)
(* contextForTask and set up its output, on each of Run's many returns.    *)
(***************************************************************************)
AfterRunsOnce ==
  \A t \in Tasks : Hooked(t) /\ pc[t] \in {"release", "returned"} /\ Started(t) =>
    afters[t] = 1 /\ hooks[t] >= 1

(***************************************************************************)
(* Run answers nil only when the task did all it says: every job has run,  *)
(* the artifact is stored and the after commands have run; or when it was  *)
(* skipped, and then nothing of it ran and it has no error.                *)
(***************************************************************************)
NilMeansComplete ==
  \A t \in Tasks : pc[t] = "returned" /\ answer[t] = "nil" =>
    /\ t \notin errored
    /\ IF t \in skipped
       THEN jobs[t] = def[t].jobs /\ t \notin stored \cup afterRan
       ELSE /\ jobs[t] = 0
            /\ HasArtifact(t) => t \in stored
            /\ "after" \in def[t].sites => t \in afterRan

(***************************************************************************)
(* Run and Cancel of every task meet as RunnerCancel says: whatever path a *)
(* Run takes, the channel is released once, as its last step.              *)
(***************************************************************************)
CancelProtocol ==
  INSTANCE RunnerCancel
  WITH Runs <- Tasks,
       run <- [t \in Tasks |-> IF pc[t] \in {"idle", "returned"} THEN pc[t] ELSE "running"]

ImplementsCancelProtocol == CancelProtocol!Spec

(***************************************************************************)
(* A Run that was called returns, although tasks wait for one another in   *)
(* onceUp and a failing up command is remembered for all of them; only a   *)
(* panic of the process stops it.                                          *)
(***************************************************************************)
RunReturns ==
  \A t \in Tasks : pc[t] = "lookup" ~> pc[t] = "returned" \/ panicked = 1

(***************************************************************************)
(* A Cancel called while some Run is in flight returns: one of the Runs    *)
(* reaches its deferred close.                                             *)
(***************************************************************************)
CancelReturnsAfterRun ==
  \A k \in Cancellers :
    waiter[k] = "waiting" /\ (\E t \in Tasks : InFlight(t))
      ~> waiter[k] = "returned" \/ panicked = 1
=============================================================================
