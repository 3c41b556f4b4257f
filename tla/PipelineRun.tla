---------------------------- MODULE PipelineRun -----------------------------
(***************************************************************************)
(* eirctl run of a pipeline: the Scheduler and the TaskRunner it calls, in *)
(* one process (cmd/eirctl/run.go, cmd/eirctl/eirctl.go).  A stage's       *)
(* goroutine calls TaskRunner.Run; a loop whose condition could not be     *)
(* evaluated calls TaskRunner.Cancel, and so does the goroutine that waits *)
(* for an interrupt signal; runPipeline calls Finish when Schedule has     *)
(* returned.  Of the TaskRunner only the meeting of Run and Cancel is      *)
(* kept: RunnerCancel, which TaskRunner implements.  A panic of any        *)
(* goroutine ends the process.                                             *)
(***************************************************************************)
EXTENDS Scheduler

CONSTANT Signal  \* the goroutine of buildTaskRunner that waits for ctx.Done()

ASSUME SignalAssumption == Signal \notin Stages

VARIABLES
  run, canceling, doneCh, waiter, panicked,  \* as in RunnerCancel
  process                                    \* the process: running or finished

runnerVars == <<run, canceling, doneCh, waiter, panicked>>
runVars == <<vars, runnerVars, process>>

TaskStages == {s \in Stages : Pipeline[s] = None}

\* A stage calls Cancel at most once: it is in StatusError from then on.
Runner == INSTANCE RunnerCancel
          WITH Runs <- TaskStages, Cancellers <- Stages \cup {Signal}

RunInit == Init /\ Runner!Init /\ process = "running"

Alive == process = "running" /\ panicked = 0

\* The loop of g, and the goroutines that run a pipeline.
LoopStep(g) == Alive /\ Loop(g) /\ UNCHANGED <<runnerVars, process>>

\* runStage calls taskRunner.Run; it returns; its answer becomes the status.
BeginTask(s) ==
  /\ Alive
  /\ go[s] = "started"
  /\ s \in TaskStages
  /\ Runner!BeginRun(s)
  /\ UNCHANGED <<vars, process>>

EndTask(s) ==
  /\ Alive
  /\ s \in TaskStages
  /\ Runner!EndRun(s)
  /\ UNCHANGED <<vars, process>>

\* Mutant of StageStep: the goroutine does not wait for Run.
StageStepMutantDoesNotWait(s) ==
  /\ Alive
  /\ s \in TaskStages /\ go[s] = "started" => run[s] # "idle"
  /\ Goroutine(s)
  /\ UNCHANGED <<runnerVars, process>>

StageStep(s) ==
  /\ Alive
  /\ s \in TaskStages /\ go[s] = "started" => run[s] = "returned"
  /\ Goroutine(s)
  /\ UNCHANGED <<runnerVars, process>>

(***************************************************************************)
(* s.taskRunner.Cancel() in the loop that set StatusError on the stage,    *)
(* and its return to the sweep.                                            *)
(***************************************************************************)
LoopCancels(s) ==
  /\ Alive
  /\ pc[GraphOf[s]] = "cancelling"
  /\ status[s] = "Error" /\ go[s] = "none"
  /\ Runner!CancelCall(s)
  /\ UNCHANGED <<vars, process>>

LoopCancelReturns(s) ==
  /\ Alive
  /\ Runner!CancelReturn(s)
  /\ CancelReturns(GraphOf[s])
  /\ UNCHANGED process

\* SIGINT or SIGTERM: the handler cancels the runner, and only the runner.
Interrupt ==
  /\ Alive
  /\ Runner!CancelCall(Signal)
  /\ UNCHANGED <<vars, process>>

InterruptReturns ==
  /\ Alive
  /\ Runner!CancelReturn(Signal)
  /\ UNCHANGED <<vars, process>>

\* runPipeline returns: the deferred sd.Finish() and the end of the process.
Finish ==
  /\ Alive
  /\ pc[Top] = "returned"
  /\ process' = "finished"
  /\ UNCHANGED <<vars, runnerVars>>

StageRun(s) == BeginTask(s) \/ EndTask(s) \/ StageStep(s)

RunNext ==
  \/ \E g \in Graphs : LoopStep(g)
  \/ \E s \in Stages : StageRun(s) \/ LoopCancels(s) \/ LoopCancelReturns(s)
  \/ Interrupt
  \/ InterruptReturns
  \/ Finish

RunSpec == RunInit /\ [][RunNext]_runVars

(***************************************************************************)
(* The Go scheduler runs every goroutine that can run, and a task ends     *)
(* (its commands return, or its timeout or the cancelled context stops     *)
(* them).  Cancel returns when doneCh is closed.  The signal may never     *)
(* come.                                                                   *)
(***************************************************************************)
RunFairness ==
  /\ \A g \in Graphs : WF_runVars(LoopStep(g))
  /\ \A s \in Stages : /\ WF_runVars(StageRun(s))
                       /\ WF_runVars(LoopCancels(s) \/ LoopCancelReturns(s))
  /\ WF_runVars(InterruptReturns)
  /\ WF_runVars(Finish)

RunFairSpec == RunSpec /\ RunFairness
-----------------------------------------------------------------------------
Ended == process = "finished" \/ panicked = 1

(***************************************************************************)
(* Finish takes the contexts down only when no task is using them: when    *)
(* the process finishes, every Run that was called has returned, in nested *)
(* pipelines and after a cancel too.                                       *)
(***************************************************************************)
FinishAfterTasks ==
  process = "finished" => \A s \in TaskStages : run[s] # "running"

(***************************************************************************)
(* Tasks run in dependency order: once the Run of a stage's task was       *)
(* called, every stage it depends on has ended, and no Run is under way in *)
(* it, nor in the pipeline it owns.                                        *)
(***************************************************************************)
RunsInOrder ==
  \A s \in TaskStages : run[s] # "idle" =>
    \A p \in Parents(s) :
      /\ ~Pending(p)
      /\ p \in TaskStages => run[p] # "running"
      /\ \A q \in TaskStages : GraphOf[q] = Pipeline[p] => run[q] # "running"

(***************************************************************************)
(* A run of a pipeline ends, by Finish or by a panic, or hangs in one way  *)
(* only: a loop waits in Cancel while no Run is left that could close      *)
(* doneCh.  An interrupt alone never makes it hang.                        *)
(***************************************************************************)
HangsOnlyInCancel ==
  <>Ended \/ <>[](/\ doneCh = "open"
                  /\ \E s \in Stages : waiter[s] = "waiting"
                  /\ \A t \in TaskStages : run[t] # "running")

(***************************************************************************)
(* runner.go, WithGracefulCtx: "this will ensure the cancellation is       *)
(* propagated properly down"; so an interrupt does not crash the process.  *)
(***************************************************************************)
InterruptIsGraceful == panicked = 0
=============================================================================
