----------------------------- MODULE Scheduler -----------------------------
(***************************************************************************)
(* The pipeline scheduler of eirctl (scheduler/scheduler.go).              *)
(*                                                                         *)
(* Schedule(g) is a loop over the stages of one ExecutionGraph.  It runs   *)
(* as one process per graph: the top graph in the caller's goroutine, a    *)
(* nested graph in the goroutine of the stage that owns it (runStage).     *)
(* Each stage that is started gets a goroutine of its own.  They all share *)
(* the atomic stage statuses, and every loop shares Scheduler.cancelled.   *)
(*                                                                         *)
(* What is kept: the order of every read and write of a status, the sweep  *)
(* in arbitrary map order, the parents read one at a time, the wait group, *)
(* the stored errors, and the calls out (a stage's task, its condition,    *)
(* the runner's Cancel), which return with any outcome after any delay.    *)
(* What is left out: times, env and variables, and the root node, which is *)
(* Done from its creation (graph.go:52-55) and so is skipped by each sweep *)
(* and passes each check of a parent.                                      *)
(***************************************************************************)
EXTENDS Naturals, FiniteSets

CONSTANTS
  Stages,       \* the stages of every graph of the run
  Graphs,       \* the execution graphs: the top one and the nested ones
  Top,          \* the graph passed to Schedule by the command
  GraphOf,      \* the graph whose nodes map holds the stage
  Pipeline,     \* Stage.Pipeline: the nested graph of a stage, or None
  None,
  Definitions   \* the pipeline definitions a run may be given

Outcomes == {"meets", "fails", "error"}

(***************************************************************************)
(* A definition is what the configuration says of the stages: DependsOn,   *)
(* AllowFailure and what evaluating Condition may answer (nothing when the *)
(* stage has none; the shell command is run again on every sweep and need  *)
(* not answer the same twice).                                             *)
(***************************************************************************)
DefinitionType ==
  [depends: [Stages -> SUBSET Stages],
   allowFailure: SUBSET Stages,
   condition: [Stages -> SUBSET Outcomes]]

ASSUME NestingAssumption ==
  /\ Top \in Graphs
  /\ None \notin Graphs
  /\ GraphOf \in [Stages -> Graphs]
  /\ Pipeline \in [Stages -> Graphs \cup {None}]
  /\ \A s \in Stages : Pipeline[s] # Top
  /\ \A s, t \in Stages : Pipeline[s] = Pipeline[t] /\ Pipeline[s] # None => s = t

\* Schedule is given a graph of Denormalize: a finite tree, whose nesting has an end.
ASSUME NestingWellFounded ==
  \A S \in SUBSET Stages : S # {} => \E s \in S : \A o \in S : Pipeline[o] # GraphOf[s]

ASSUME DefinitionAssumption ==
  /\ Definitions \subseteq DefinitionType
  /\ \A d \in Definitions : \A s \in Stages : \A p \in d.depends[s] : GraphOf[p] = GraphOf[s]

VARIABLES
  def,        \* the definition of this run; read only
  status,     \* Stage.status
  cancelled,  \* Scheduler.cancelled
  pc,         \* where the loop of each graph is
  todo,       \* nodes this sweep of the loop has still to visit
  cur,        \* the stage the loop is checking
  unread,     \* parents of it whose status checkStatus has still to read
  held,       \* parents of it that checkedStage maps to false
  go,         \* where the goroutine of each stage is
  wg,         \* the wait group of the graph: goroutines added and not done
  errors,     \* ExecutionGraph.errors: the stages that stored one
  result      \* what Schedule(g) returned

vars == <<def, status, cancelled, pc, todo, cur, unread, held, go, wg, errors, result>>

Statuses == {"Waiting", "Running", "Skipped", "Done", "Error", "Canceled"}

LoopStates == {"idle", "test", "sweep", "check", "cancelling", "wait", "returned"}

GoStates == {"none", "started", "nested", "erred", "stored", "leaving", "gone"}

NodesOf(g) == {s \in Stages : GraphOf[s] = g}

Parents(s) == def.depends[s]

AllowFailure(s) == s \in def.allowFailure

\* Mutant of Pending: isDone forgets the stages still Waiting.
PendingMutantForgetsWaiting(s) == status[s] = "Running"

\* The statuses isDone does not count as finished.
Pending(s) == status[s] \in {"Waiting", "Running"}

\* checkStatus: a parent that lets its child start ...
Passes(p) == \/ status[p] \in {"Done", "Skipped"}
             \/ status[p] = "Error" /\ AllowFailure(p)

\* ... and one that cancels it.
Blocks(p) == \/ status[p] = "Canceled"
             \/ status[p] = "Error" /\ ~AllowFailure(p)

TypeOK ==
  /\ def \in Definitions
  /\ status \in [Stages -> Statuses]
  /\ cancelled \in {0, 1}
  /\ pc \in [Graphs -> LoopStates]
  /\ todo \in [Graphs -> SUBSET Stages]
  /\ cur \in [Graphs -> Stages \cup {None}]
  /\ unread \in [Graphs -> SUBSET Stages]
  /\ held \in [Graphs -> SUBSET Stages]
  /\ go \in [Stages -> GoStates]
  /\ wg \in [Graphs -> SUBSET Stages]
  /\ errors \in [Graphs -> SUBSET Stages]
  /\ result \in [Graphs -> {"none", "nil", "error"}]

Init ==
  /\ def \in Definitions
  /\ status = [s \in Stages |-> "Waiting"]
  /\ cancelled = 0
  /\ pc = [g \in Graphs |-> IF g = Top THEN "test" ELSE "idle"]
  /\ todo = [g \in Graphs |-> {}]
  /\ cur = [g \in Graphs |-> None]
  /\ unread = [g \in Graphs |-> {}]
  /\ held = [g \in Graphs |-> {}]
  /\ go = [s \in Stages |-> "none"]
  /\ wg = [g \in Graphs |-> {}]
  /\ errors = [g \in Graphs |-> {}]
  /\ result = [g \in Graphs |-> "none"]
-----------------------------------------------------------------------------
(***************************************************************************)
(* The loop of one graph.                                                  *)
(***************************************************************************)

(***************************************************************************)
(* for !isDone(g) { if Cancelled() == 1 { break } ...                      *)
(* isDone reads the statuses one by one and Cancelled() is loaded after    *)
(* it.  One step is enough: only this loop moves a stage out of Waiting,   *)
(* a finished stage never becomes pending again and cancelled is never     *)
(* reset, so the answer is the one a single read at the time of the first  *)
(* pending status (or of the last read) gives.                             *)
(***************************************************************************)
LoopTest(g) ==
  /\ pc[g] = "test"
  /\ \/ /\ cancelled = 1 \/ \A s \in NodesOf(g) : ~Pending(s)
        /\ pc' = [pc EXCEPT ![g] = "wait"]
        /\ UNCHANGED todo
     \/ /\ cancelled = 0
        /\ \E s \in NodesOf(g) : Pending(s)
        /\ pc' = [pc EXCEPT ![g] = "sweep"]
        /\ todo' = [todo EXCEPT ![g] = NodesOf(g)]
  /\ UNCHANGED <<def, status, cancelled, cur, unread, held, go, wg, errors, result>>

\* A node that is not Waiting is passed over.
VisitStarted(g, s) ==
  /\ pc[g] = "sweep"
  /\ s \in todo[g]
  /\ status[s] # "Waiting"
  /\ todo' = [todo EXCEPT ![g] = @ \ {s}]
  /\ UNCHANGED <<def, status, cancelled, pc, cur, unread, held, go, wg, errors, result>>

\* checkStatus begins: the stage has no condition, or it was met.
VisitReady(g, s) ==
  /\ pc[g] = "sweep"
  /\ s \in todo[g]
  /\ status[s] = "Waiting"
  /\ def.condition[s] = {} \/ "meets" \in def.condition[s]
  /\ pc' = [pc EXCEPT ![g] = "check"]
  /\ todo' = [todo EXCEPT ![g] = @ \ {s}]
  /\ cur' = [cur EXCEPT ![g] = s]
  /\ unread' = [unread EXCEPT ![g] = Parents(s)]
  /\ held' = [held EXCEPT ![g] = {}]
  /\ UNCHANGED <<def, status, cancelled, go, wg, errors, result>>

\* The condition was not met: the stage is Skipped, whatever its parents do.
VisitSkipped(g, s) ==
  /\ pc[g] = "sweep"
  /\ s \in todo[g]
  /\ status[s] = "Waiting"
  /\ "fails" \in def.condition[s]
  /\ status' = [status EXCEPT ![s] = "Skipped"]
  /\ todo' = [todo EXCEPT ![g] = @ \ {s}]
  /\ UNCHANGED <<def, cancelled, pc, cur, unread, held, go, wg, errors, result>>

(***************************************************************************)
(* The condition could not be evaluated: StatusError, no stored error, and *)
(* s.Cancel(), which sets the flag and then stays in taskRunner.Cancel().  *)
(***************************************************************************)
VisitConditionError(g, s) ==
  /\ pc[g] = "sweep"
  /\ s \in todo[g]
  /\ status[s] = "Waiting"
  /\ "error" \in def.condition[s]
  /\ status' = [status EXCEPT ![s] = "Error"]
  /\ cancelled' = 1
  /\ pc' = [pc EXCEPT ![g] = "cancelling"]
  /\ todo' = [todo EXCEPT ![g] = @ \ {s}]
  /\ UNCHANGED <<def, cur, unread, held, go, wg, errors, result>>

\* taskRunner.Cancel() returns to the sweep; nothing here says that it must.
CancelReturns(g) ==
  /\ pc[g] = "cancelling"
  /\ pc' = [pc EXCEPT ![g] = "sweep"]
  /\ UNCHANGED <<def, status, cancelled, todo, cur, unread, held, go, wg, errors, result>>

\* Mutants of CheckParent: a running parent does not hold the stage back,
CheckParentMutantIgnoresRunning(g, p) ==
  /\ pc[g] = "check"
  /\ p \in unread[g]
  /\ unread' = [unread EXCEPT ![g] = @ \ {p}]
  /\ held' = [held EXCEPT ![g] = IF Passes(p) \/ status[p] = "Running" THEN @ ELSE @ \cup {p}]
  /\ status' = IF Blocks(p) THEN [status EXCEPT ![cur[g]] = "Canceled"] ELSE status
  /\ UNCHANGED <<def, cancelled, pc, todo, cur, go, wg, errors, result>>

\* an allowed failure cancels it,
CheckParentMutantIgnoresAllowFailure(g, p) ==
  /\ pc[g] = "check"
  /\ p \in unread[g]
  /\ unread' = [unread EXCEPT ![g] = @ \ {p}]
  /\ held' = [held EXCEPT ![g] = IF status[p] \in {"Done", "Skipped"} THEN @ ELSE @ \cup {p}]
  /\ status' = IF status[p] \in {"Error", "Canceled"}
               THEN [status EXCEPT ![cur[g]] = "Canceled"]
               ELSE status
  /\ UNCHANGED <<def, cancelled, pc, todo, cur, go, wg, errors, result>>

\* a failed parent only holds it back.
CheckParentMutantDoesNotCancel(g, p) ==
  /\ pc[g] = "check"
  /\ p \in unread[g]
  /\ unread' = [unread EXCEPT ![g] = @ \ {p}]
  /\ held' = [held EXCEPT ![g] = IF Passes(p) THEN @ ELSE @ \cup {p}]
  /\ UNCHANGED <<def, status, cancelled, pc, todo, cur, go, wg, errors, result>>

\* checkStatus reads one more parent of the current stage.
CheckParent(g, p) ==
  /\ pc[g] = "check"
  /\ p \in unread[g]
  /\ unread' = [unread EXCEPT ![g] = @ \ {p}]
  /\ held' = [held EXCEPT ![g] = IF Passes(p) THEN @ ELSE @ \cup {p}]
  /\ status' = IF Blocks(p) THEN [status EXCEPT ![cur[g]] = "Canceled"] ELSE status
  /\ UNCHANGED <<def, cancelled, pc, todo, cur, go, wg, errors, result>>

\* checkStatus answered false: some parent is pending, or cancelled the stage.
CheckFailed(g) ==
  /\ pc[g] = "check"
  /\ unread[g] = {}
  /\ held[g] # {}
  /\ pc' = [pc EXCEPT ![g] = "sweep"]
  /\ cur' = [cur EXCEPT ![g] = None]
  /\ held' = [held EXCEPT ![g] = {}]
  /\ UNCHANGED <<def, status, cancelled, todo, unread, go, wg, errors, result>>

\* checkStatus answered true: wg.Add(1), StatusRunning, and the goroutine.
StartStage(g) ==
  /\ pc[g] = "check"
  /\ unread[g] = {}
  /\ held[g] = {}
  /\ wg' = [wg EXCEPT ![g] = @ \cup {cur[g]}]
  /\ status' = [status EXCEPT ![cur[g]] = "Running"]
  /\ go' = [go EXCEPT ![cur[g]] = "started"]
  /\ pc' = [pc EXCEPT ![g] = "sweep"]
  /\ cur' = [cur EXCEPT ![g] = None]
  /\ UNCHANGED <<def, cancelled, todo, unread, held, errors, result>>

\* The sweep is over; time.Sleep(s.pause) and back to the loop's test.
SweepEnds(g) ==
  /\ pc[g] = "sweep"
  /\ todo[g] = {}
  /\ pc' = [pc EXCEPT ![g] = "test"]
  /\ UNCHANGED <<def, status, cancelled, todo, cur, unread, held, go, wg, errors, result>>

\* Mutant of Return: Schedule does not wait for its goroutines.
ReturnMutantDoesNotWait(g) ==
  /\ pc[g] = "wait"
  /\ pc' = [pc EXCEPT ![g] = "returned"]
  /\ result' = [result EXCEPT ![g] = IF errors[g] = {} THEN "nil" ELSE "error"]
  /\ UNCHANGED <<def, status, cancelled, todo, cur, unread, held, go, wg, errors>>

\* wg.Wait() returns and Schedule answers LastError().
Return(g) ==
  /\ pc[g] = "wait"
  /\ wg[g] = {}
  /\ pc' = [pc EXCEPT ![g] = "returned"]
  /\ result' = [result EXCEPT ![g] = IF errors[g] = {} THEN "nil" ELSE "error"]
  /\ UNCHANGED <<def, status, cancelled, todo, cur, unread, held, go, wg, errors>>
-----------------------------------------------------------------------------
(***************************************************************************)
(* The goroutine of one stage.                                             *)
(***************************************************************************)

\* runStage of a stage that holds a pipeline: s.Schedule(stage.Pipeline).
RunPipeline(s) ==
  /\ go[s] = "started"
  /\ Pipeline[s] # None
  /\ go' = [go EXCEPT ![s] = "nested"]
  /\ pc' = [pc EXCEPT ![Pipeline[s]] = "test"]
  /\ UNCHANGED <<def, status, cancelled, todo, cur, unread, held, wg, errors, result>>

\* Mutant: the answer of the nested pipeline is lost.
StageReturnsMutantLosesAnswer(s, answer) ==
  \/ go[s] = "started" /\ Pipeline[s] = None
  \/ go[s] = "nested" /\ pc[Pipeline[s]] = "returned" /\ answer = "nil"

(***************************************************************************)
(* runStage returns: from taskRunner.Run, which may answer anything, or    *)
(* from the nested Schedule, with its answer.                              *)
(***************************************************************************)
StageReturns(s, answer) ==
  \/ go[s] = "started" /\ Pipeline[s] = None
  \/ go[s] = "nested" /\ pc[Pipeline[s]] = "returned" /\ result[Pipeline[s]] = answer

StageSucceeds(s) ==
  /\ StageReturns(s, "nil")
  /\ status' = [status EXCEPT ![s] = "Done"]
  /\ go' = [go EXCEPT ![s] = "leaving"]
  /\ UNCHANGED <<def, cancelled, pc, todo, cur, unread, held, wg, errors, result>>

\* Mutant of StageFails: the goroutine leaves without storing the error.
StageFailsMutantLosesError(s) ==
  /\ StageReturns(s, "error")
  /\ status' = [status EXCEPT ![s] = "Error"]
  /\ go' = [go EXCEPT ![s] = "leaving"]
  /\ UNCHANGED <<def, cancelled, pc, todo, cur, unread, held, wg, errors, result>>

StageFails(s) ==
  /\ StageReturns(s, "error")
  /\ status' = [status EXCEPT ![s] = "Error"]
  /\ go' = [go EXCEPT ![s] = "erred"]
  /\ UNCHANGED <<def, cancelled, pc, todo, cur, unread, held, wg, errors, result>>

\* g.WithStageError: always stored, then on only if the failure is allowed.
StoreError(s) ==
  /\ go[s] = "erred"
  /\ errors' = [errors EXCEPT ![GraphOf[s]] = @ \cup {s}]
  /\ go' = [go EXCEPT ![s] = IF AllowFailure(s) THEN "stored" ELSE "leaving"]
  /\ UNCHANGED <<def, status, cancelled, pc, todo, cur, unread, held, wg, result>>

\* An allowed failure ends as StatusDone.
ForgiveFailure(s) ==
  /\ go[s] = "stored"
  /\ status' = [status EXCEPT ![s] = "Done"]
  /\ go' = [go EXCEPT ![s] = "leaving"]
  /\ UNCHANGED <<def, cancelled, pc, todo, cur, unread, held, wg, errors, result>>

\* The deferred wg.Done().
LeaveStage(s) ==
  /\ go[s] = "leaving"
  /\ go' = [go EXCEPT ![s] = "gone"]
  /\ wg' = [wg EXCEPT ![GraphOf[s]] = @ \ {s}]
  /\ UNCHANGED <<def, status, cancelled, pc, todo, cur, unread, held, errors, result>>
-----------------------------------------------------------------------------
\* Scheduler.Cancel() called from outside the loops stores the flag.
Cancel ==
  /\ cancelled = 0
  /\ cancelled' = 1
  /\ UNCHANGED <<def, status, pc, todo, cur, unread, held, go, wg, errors, result>>

Loop(g) ==
  \/ LoopTest(g)
  \/ \E s \in Stages : \/ VisitStarted(g, s)
                       \/ VisitReady(g, s)
                       \/ VisitSkipped(g, s)
                       \/ VisitConditionError(g, s)
                       \/ CheckParent(g, s)
  \/ CheckFailed(g)
  \/ StartStage(g)
  \/ SweepEnds(g)
  \/ Return(g)

Goroutine(s) ==
  \/ RunPipeline(s)
  \/ StageSucceeds(s)
  \/ StageFails(s)
  \/ StoreError(s)
  \/ ForgiveFailure(s)
  \/ LeaveStage(s)

Next ==
  \/ \E g \in Graphs : Loop(g) \/ CancelReturns(g)
  \/ \E s \in Stages : Goroutine(s)
  \/ Cancel

Spec == Init /\ [][Next]_vars
-----------------------------------------------------------------------------
(***************************************************************************)
(* What makes the scheduler correct.                                       *)
(***************************************************************************)

\* A goroutine that was started and whose deferred wg.Done() is still to come.
Active(s) == go[s] \notin {"none", "gone"}

\* The stages of g that have been started are those whose run was decided.
RanToFailure(s) == go[s] # "none" /\ status[s] = "Error"

(***************************************************************************)
(* depends_on (README, "This stage will be started only after referenced   *)
(* stage is completed"): from the moment its goroutine exists, every       *)
(* parent of a stage has finished in a way checkStatus accepts, and stays  *)
(* so, although checkStatus reads the parents one at a time while their    *)
(* goroutines write.                                                       *)
(***************************************************************************)
DependencyOrder ==
  \A s \in Stages : go[s] # "none" => \A p \in Parents(s) : Passes(p)

(***************************************************************************)
(* A nested pipeline lives inside its stage: while any goroutine of the    *)
(* nested graph is active, the stage that owns the graph is Running, and   *)
(* so what the owner depends on has finished and what depends on the       *)
(* owner has not started.                                                  *)
(***************************************************************************)
NestedInsideOwner ==
  \A o, s \in Stages :
    Pipeline[o] = GraphOf[s] /\ Active(s) =>
      /\ status[o] = "Running"
      /\ \A p \in Parents(o) : Passes(p)
      /\ \A c \in Stages : o \in Parents(c) => go[c] = "none"

(***************************************************************************)
(* A stage is Canceled only because of a parent that failed without        *)
(* permission or was itself Canceled (checkStatus), and such a stage was   *)
(* never started; a failure elsewhere in the graph does not cancel it.     *)
(***************************************************************************)
CanceledHasCause ==
  \A s \in Stages : status[s] = "Canceled" =>
    go[s] = "none" /\ \E p \in Parents(s) : Blocks(p)

(***************************************************************************)
(* When Schedule(g) has returned, no goroutine it started is left, and     *)
(* every stage was decided unless the scheduler was cancelled: isDone and  *)
(* wg.Wait() together, the status of a stage being written before its      *)
(* goroutine ends.                                                         *)
(***************************************************************************)
ReturnedIsQuiet ==
  \A g \in Graphs : pc[g] = "returned" =>
    \A s \in NodesOf(g) : /\ ~Active(s)
                          /\ status[s] # "Running"
                          /\ cancelled = 0 => ~Pending(s)

(***************************************************************************)
(* A failure is never lost: when Schedule(g) answers nil, no stage that it *)
(* started is in StatusError, although a goroutine writes the status       *)
(* before it stores the error and isDone looks at the status only.         *)
(***************************************************************************)
FailureIsReported ==
  \A g \in Graphs : result[g] = "nil" => \A s \in NodesOf(g) : ~RanToFailure(s)

(***************************************************************************)
(* A failure reaches the caller: a stage that failed at any depth makes    *)
(* the top Schedule answer an error, through the answers of the nested     *)
(* Schedules and the errors their owners store.                            *)
(***************************************************************************)
FailureReachesTop ==
  result[Top] = "nil" => \A s \in Stages : ~RanToFailure(s)

(***************************************************************************)
(* A stage is decided once: a status only moves forward, from Waiting to a *)
(* verdict or to Running, from Running to Done or Error; of the final ones *)
(* only an allowed Error may still change, to Done.  So no stage is run    *)
(* twice, however often the loop sweeps over it.                           *)
(***************************************************************************)
MovesTo(s) ==
  CASE status[s] = "Waiting" -> {"Running", "Skipped", "Error", "Canceled"}
    [] status[s] = "Running" -> {"Done", "Error"}
    [] status[s] = "Error" /\ AllowFailure(s) -> {"Done"}
    [] OTHER -> {}

StatusMovesForward ==
  [][\A s \in Stages : status'[s] # status[s] => status'[s] \in MovesTo(s)]_vars

(***************************************************************************)
(* The loops, sweeps and goroutines implement PipelineExecution: although  *)
(* the parents are read one at a time and a status is written before the   *)
(* goroutine ends, each run looks as if every stage were decided at once,  *)
(* from its parents' verdicts, and each Schedule returned at once.         *)
(***************************************************************************)
Execution == INSTANCE PipelineExecution
             WITH returned <- {g \in Graphs : pc[g] = "returned"}

ImplementsExecution == Execution!Spec
=============================================================================
