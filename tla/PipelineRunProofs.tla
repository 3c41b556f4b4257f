------------------------- MODULE PipelineRunProofs --------------------------
(***************************************************************************)
(* Proofs about Scheduler, for every set of stages and graphs, every       *)
(* nesting and every definition, and about PipelineRun.  A run of the      *)
(* process is a run of Scheduler and a run of RunnerCancel, so what is     *)
(* proved of them holds of it; the properties that tie the two together    *)
(* rest on where a Run can be while the goroutine that called it is        *)
(* somewhere.                                                              *)
(***************************************************************************)
EXTENDS PipelineRun, TLAPS

(***************************************************************************)
(* The inductive invariant, by parts.                                      *)
(***************************************************************************)

\* Where a goroutine is determines what the status of its stage can be.
GoStatus ==
  \A s \in Stages :
    /\ go[s] = "none" => status[s] \in {"Waiting", "Skipped", "Error", "Canceled"}
    /\ go[s] \in {"started", "nested"} => status[s] = "Running"
    /\ go[s] = "erred" => status[s] = "Error"
    /\ go[s] = "stored" => status[s] = "Error" /\ AllowFailure(s)
    /\ go[s] \in {"leaving", "gone"} => \/ status[s] = "Done"
                                        \/ status[s] = "Error" /\ ~AllowFailure(s)

\* A sweep visits nodes of its own graph only.
SweepOwnNodes ==
  \A g \in Graphs : todo[g] \subseteq NodesOf(g)

(***************************************************************************)
(* What checkStatus knows of the stage it is checking: it has not been     *)
(* started, and if nothing held it back so far, it is still Waiting and    *)
(* every parent already read passes.                                       *)
(***************************************************************************)
CheckKnows ==
  \A g \in Graphs : pc[g] = "check" =>
    /\ cur[g] \in NodesOf(g)
    /\ unread[g] \subseteq Parents(cur[g])
    /\ go[cur[g]] = "none"
    /\ status[cur[g]] \in {"Waiting", "Canceled"}
    /\ held[g] = {} => /\ status[cur[g]] = "Waiting"
                       /\ \A p \in Parents(cur[g]) \ unread[g] : Passes(p)

\* The wait group of a graph holds its active goroutines.
WaitGroup ==
  \A g \in Graphs, s \in Stages : s \in wg[g] <=> GraphOf[s] = g /\ Active(s)

\* A graph whose loop has not begun or has returned has no goroutine.
QuietOutsideLoop ==
  \A g \in Graphs : pc[g] \in {"idle", "returned"} =>
    \A s \in NodesOf(g) : ~Active(s)

\* A loop left without cancellation has decided all its stages.
DecidedAfterLoop ==
  \A g \in Graphs : pc[g] \in {"wait", "returned"} /\ cancelled = 0 =>
    \A s \in NodesOf(g) : ~Pending(s)

\* The loop of a nested graph runs exactly while its owner is in runStage.
OwnerWaits ==
  \A o \in Stages : Pipeline[o] # None =>
    /\ go[o] \in {"none", "started"} => pc[Pipeline[o]] = "idle"
    /\ pc[Pipeline[o]] \notin {"idle", "returned"} => go[o] = "nested"

\* The error of a failed stage is stored before its goroutine leaves ...
ErrorStored ==
  \A s \in Stages :
    go[s] \in {"stored", "leaving", "gone"} /\ status[s] = "Error" => s \in errors[GraphOf[s]]

\* ... and an answer of nil is given only when there is none.
NilHasNoError ==
  \A g \in Graphs : result[g] = "nil" => pc[g] = "returned" /\ errors[g] = {}

IInv ==
  /\ TypeOK
  /\ GoStatus
  /\ SweepOwnNodes
  /\ CheckKnows
  /\ DependencyOrder
  /\ CanceledHasCause
  /\ WaitGroup
  /\ QuietOutsideLoop
  /\ DecidedAfterLoop
  /\ OwnerWaits
  /\ ErrorStored
  /\ NilHasNoError
-----------------------------------------------------------------------------
\* What DefinitionAssumption says of the definition of a run (Stage.DependsOn, Condition).
LEMMA DefinitionFacts ==
  ASSUME TypeOK
  PROVE  /\ \A s \in Stages : Parents(s) \in SUBSET Stages
         /\ \A s \in Stages : def.condition[s] \in SUBSET Outcomes
BY DefinitionAssumption DEF TypeOK, DefinitionType, Parents

\* Schedule starts in a state of the right types.
LEMMA InitType == Init => TypeOK
BY NestingAssumption DEF Init, TypeOK, Statuses, LoopStates, GoStates

\* Every action keeps the types.
LEMMA NextType == TypeOK /\ SweepOwnNodes /\ CheckKnows /\ [Next]_vars => TypeOK'
<1> SUFFICES ASSUME TypeOK, SweepOwnNodes, CheckKnows, [Next]_vars
             PROVE  TypeOK'
  OBVIOUS
<1> USE NestingAssumption, DefinitionFacts
        DEF TypeOK, Statuses, LoopStates, GoStates, NodesOf
<1>1. ASSUME NEW g \in Graphs, Loop(g)
      PROVE  TypeOK'
  <2>1. CASE LoopTest(g)
    <3>1. pc' \in [Graphs -> LoopStates] /\ UNCHANGED <<def, status, cancelled>>
      BY <2>1 DEF LoopTest
    <3>2. todo' \in [Graphs -> SUBSET Stages]
      <4>1. NodesOf(g) \in SUBSET Stages
        OBVIOUS
      <4>2. todo' = todo \/ todo' = [todo EXCEPT ![g] = NodesOf(g)]
        BY <2>1 DEF LoopTest
      <4> QED
        BY <4>1, <4>2
    <3> QED
      BY <2>1, <3>1, <3>2 DEF LoopTest
  <2>2. ASSUME NEW s \in Stages, VisitStarted(g, s)
        PROVE  TypeOK'
    BY <2>2 DEF VisitStarted
  <2>3. ASSUME NEW s \in Stages, VisitReady(g, s)
        PROVE  TypeOK'
    BY <2>3 DEF VisitReady
  <2>4. ASSUME NEW s \in Stages, VisitSkipped(g, s)
        PROVE  TypeOK'
    BY <2>4 DEF VisitSkipped
  <2>5. ASSUME NEW s \in Stages, VisitConditionError(g, s)
        PROVE  TypeOK'
    BY <2>5 DEF VisitConditionError
  <2>6. ASSUME NEW p \in Stages, CheckParent(g, p)
        PROVE  TypeOK'
    BY <2>6 DEF CheckParent, CheckKnows, Passes
  <2>7. CASE CheckFailed(g)
    BY <2>7 DEF CheckFailed
  <2>8. CASE StartStage(g)
    BY <2>8 DEF StartStage, CheckKnows
  <2>9. CASE SweepEnds(g)
    BY <2>9 DEF SweepEnds
  <2>10. CASE Return(g)
    BY <2>10 DEF Return
  <2> QED
    BY <1>1, <2>1, <2>2, <2>3, <2>4, <2>5, <2>6, <2>7, <2>8, <2>9, <2>10 DEF Loop
<1>2. ASSUME NEW g \in Graphs, CancelReturns(g)
      PROVE  TypeOK'
  BY <1>2 DEF CancelReturns
<1>3. ASSUME NEW s \in Stages, Goroutine(s)
      PROVE  TypeOK'
  <2>1. CASE RunPipeline(s)
    BY <2>1 DEF RunPipeline
  <2>2. CASE StageSucceeds(s)
    BY <2>2 DEF StageSucceeds
  <2>3. CASE StageFails(s)
    BY <2>3 DEF StageFails
  <2>4. CASE StoreError(s)
    BY <2>4 DEF StoreError
  <2>5. CASE ForgiveFailure(s)
    BY <2>5 DEF ForgiveFailure
  <2>6. CASE LeaveStage(s)
    BY <2>6 DEF LeaveStage
  <2> QED
    BY <1>3, <2>1, <2>2, <2>3, <2>4, <2>5, <2>6 DEF Goroutine
<1>4. CASE Cancel
  BY <1>4 DEF Cancel
<1>5. CASE UNCHANGED vars
  BY <1>5 DEF vars
<1> QED
  BY <1>1, <1>2, <1>3, <1>4, <1>5 DEF Next
-----------------------------------------------------------------------------
(***************************************************************************)
(* A step changes a status only forward.  Everything that is said of the   *)
(* parents of a stage rests on this: what checkStatus read stays true.     *)
(***************************************************************************)
LEMMA StatusForward ==
  ASSUME IInv, [Next]_vars, NEW t \in Stages, status'[t] # status[t]
  PROVE  status'[t] \in MovesTo(t)
<1> USE NestingAssumption DEF IInv, TypeOK, MovesTo
<1>1. ASSUME NEW g \in Graphs, Loop(g)
      PROVE  status'[t] \in MovesTo(t)
  <2>1. ASSUME NEW s \in Stages, VisitSkipped(g, s) \/ VisitConditionError(g, s)
        PROVE  status'[t] \in MovesTo(t)
    BY <2>1 DEF VisitSkipped, VisitConditionError
  <2>2. ASSUME NEW p \in Stages, CheckParent(g, p)
        PROVE  status'[t] \in MovesTo(t)
    BY <2>2 DEF CheckParent, CheckKnows
  <2>3. CASE StartStage(g)
    BY <2>3 DEF StartStage, CheckKnows
  <2>4. CASE LoopTest(g) \/ CheckFailed(g) \/ SweepEnds(g) \/ Return(g)
    BY <2>4 DEF LoopTest, CheckFailed, SweepEnds, Return
  <2>5. ASSUME NEW s \in Stages, VisitStarted(g, s) \/ VisitReady(g, s)
        PROVE  status'[t] \in MovesTo(t)
    BY <2>5 DEF VisitStarted, VisitReady
  <2> QED
    BY <1>1, <2>1, <2>2, <2>3, <2>4, <2>5 DEF Loop
<1>2. ASSUME NEW s \in Stages, Goroutine(s)
      PROVE  status'[t] \in MovesTo(t)
  <2>1. CASE StageSucceeds(s) \/ StageFails(s)
    BY <2>1 DEF StageSucceeds, StageFails, StageReturns, GoStatus
  <2>2. CASE ForgiveFailure(s)
    BY <2>2 DEF ForgiveFailure, GoStatus
  <2>3. CASE RunPipeline(s) \/ StoreError(s) \/ LeaveStage(s)
    BY <2>3 DEF RunPipeline, StoreError, LeaveStage
  <2> QED
    BY <1>2, <2>1, <2>2, <2>3 DEF Goroutine
<1>3. CASE (\E g \in Graphs : CancelReturns(g)) \/ Cancel \/ UNCHANGED vars
  BY <1>3 DEF CancelReturns, Cancel, vars
<1> QED
  BY <1>1, <1>2, <1>3 DEF Next

\* No step changes DependsOn, AllowFailure or Condition.
LEMMA DefinitionConstant == [Next]_vars => UNCHANGED def
BY DEF Next, vars, Loop, Goroutine, LoopTest, VisitStarted, VisitReady, VisitSkipped,
       VisitConditionError, CheckParent, CheckFailed, StartStage, SweepEnds, Return,
       CancelReturns, RunPipeline, StageSucceeds, StageFails, StoreError,
       ForgiveFailure, LeaveStage, Cancel

\* A parent that passes goes on passing, one that blocks goes on blocking.
LEMMA VerdictStable ==
  ASSUME IInv, [Next]_vars, NEW p \in Stages
  PROVE  /\ Passes(p) => Passes(p)'
         /\ Blocks(p) => Blocks(p)'
<1>1. UNCHANGED def
  BY DefinitionConstant
<1>2. CASE status'[p] = status[p]
  BY <1>1, <1>2 DEF Passes, Blocks, AllowFailure
<1>3. CASE status'[p] # status[p]
  <2>1. status'[p] \in MovesTo(p)
    BY <1>3, StatusForward
  <2> QED
    BY <1>1, <2>1 DEF Passes, Blocks, AllowFailure, MovesTo
<1> QED
  BY <1>2, <1>3
-----------------------------------------------------------------------------
(***************************************************************************)
(* Each part of the invariant is kept by every step.                       *)
(***************************************************************************)

\* A status is written by the loop while there is no goroutine, then only by it.
LEMMA GoStatusKept == ASSUME IInv, [Next]_vars PROVE GoStatus'
<1> USE NestingAssumption, DefinitionConstant DEF IInv, TypeOK, GoStatus, AllowFailure
<1>1. ASSUME NEW g \in Graphs, Loop(g)
      PROVE  GoStatus'
  <2>1. ASSUME NEW s \in Stages, VisitSkipped(g, s)
        PROVE  GoStatus'
    BY <2>1 DEF VisitSkipped
  <2>2. ASSUME NEW s \in Stages, VisitConditionError(g, s)
        PROVE  GoStatus'
    BY <2>2 DEF VisitConditionError
  <2>3. ASSUME NEW s \in Stages, CheckParent(g, s)
        PROVE  GoStatus'
    BY <2>3 DEF CheckParent, CheckKnows
  <2>4. CASE StartStage(g)
    BY <2>4 DEF StartStage, CheckKnows
  <2>5. ASSUME NEW s \in Stages,
               VisitStarted(g, s) \/ VisitReady(g, s)
        PROVE  GoStatus'
    BY <2>5 DEF VisitStarted, VisitReady
  <2>6. CASE LoopTest(g) \/ CheckFailed(g) \/ SweepEnds(g) \/ Return(g)
    BY <2>6 DEF LoopTest, CheckFailed, SweepEnds, Return
  <2> QED
    BY <1>1, <2>1, <2>2, <2>3, <2>4, <2>5, <2>6 DEF Loop
<1>2. ASSUME NEW s \in Stages, Goroutine(s)
      PROVE  GoStatus'
  <2>1. CASE StageSucceeds(s)
    BY <2>1 DEF StageSucceeds, StageReturns
  <2>2. CASE StageFails(s)
    BY <2>2 DEF StageFails, StageReturns
  <2>3. CASE RunPipeline(s) \/ StoreError(s) \/ ForgiveFailure(s) \/ LeaveStage(s)
    BY <2>3 DEF RunPipeline, StoreError, ForgiveFailure, LeaveStage
  <2> QED
    BY <1>2, <2>1, <2>2, <2>3 DEF Goroutine
<1>3. CASE (\E g \in Graphs : CancelReturns(g)) \/ Cancel \/ UNCHANGED vars
  BY <1>3 DEF CancelReturns, Cancel, vars
<1> QED
  BY <1>1, <1>2, <1>3 DEF Next

\* todo starts as the nodes of the graph and shrinks.
LEMMA SweepOwnNodesKept == ASSUME IInv, [Next]_vars PROVE SweepOwnNodes'
<1> USE NestingAssumption, DefinitionConstant DEF IInv, TypeOK, SweepOwnNodes, NodesOf
<1>1. ASSUME NEW g \in Graphs, Loop(g)
      PROVE  SweepOwnNodes'
  <2>1. ASSUME NEW s \in Stages,
               VisitStarted(g, s) \/ VisitReady(g, s) \/ VisitSkipped(g, s) \/ VisitConditionError(g, s) \/ CheckParent(g, s)
        PROVE  SweepOwnNodes'
    BY <2>1 DEF VisitStarted, VisitReady, VisitSkipped, VisitConditionError, CheckParent
  <2>2. CASE LoopTest(g) \/ CheckFailed(g) \/ StartStage(g) \/ SweepEnds(g) \/ Return(g)
    BY <2>2 DEF LoopTest, CheckFailed, StartStage, SweepEnds, Return
  <2> QED
    BY <1>1, <2>1, <2>2 DEF Loop
<1>2. ASSUME NEW s \in Stages, Goroutine(s)
      PROVE  SweepOwnNodes'
  BY <1>2 DEF Goroutine, StageReturns, RunPipeline, StageSucceeds, StageFails,
              StoreError, ForgiveFailure, LeaveStage
<1>3. CASE (\E g \in Graphs : CancelReturns(g)) \/ Cancel \/ UNCHANGED vars
  BY <1>3 DEF CancelReturns, Cancel, vars
<1> QED
  BY <1>1, <1>2, <1>3 DEF Next

\* wg.Add comes before the goroutine, wg.Done is its last step.
LEMMA WaitGroupKept == ASSUME IInv, [Next]_vars PROVE WaitGroup'
<1> USE NestingAssumption, DefinitionConstant DEF IInv, TypeOK, WaitGroup, Active
<1>1. ASSUME NEW g \in Graphs, Loop(g)
      PROVE  WaitGroup'
  <2>1. CASE StartStage(g)
    BY <2>1 DEF StartStage, CheckKnows, NodesOf
  <2>2. ASSUME NEW s \in Stages,
               VisitStarted(g, s) \/ VisitReady(g, s) \/ VisitSkipped(g, s) \/ VisitConditionError(g, s) \/ CheckParent(g, s)
        PROVE  WaitGroup'
    BY <2>2 DEF VisitStarted, VisitReady, VisitSkipped, VisitConditionError, CheckParent
  <2>3. CASE LoopTest(g) \/ CheckFailed(g) \/ SweepEnds(g) \/ Return(g)
    BY <2>3 DEF LoopTest, CheckFailed, SweepEnds, Return
  <2> QED
    BY <1>1, <2>1, <2>2, <2>3 DEF Loop
<1>2. ASSUME NEW s \in Stages, Goroutine(s)
      PROVE  WaitGroup'
  BY <1>2 DEF Goroutine, StageReturns, RunPipeline, StageSucceeds, StageFails,
              StoreError, ForgiveFailure, LeaveStage
<1>3. CASE (\E g \in Graphs : CancelReturns(g)) \/ Cancel \/ UNCHANGED vars
  BY <1>3 DEF CancelReturns, Cancel, vars
<1> QED
  BY <1>1, <1>2, <1>3 DEF Next

\* Schedule returns only with an empty wait group.
LEMMA QuietOutsideLoopKept == ASSUME IInv, [Next]_vars PROVE QuietOutsideLoop'
<1> USE NestingAssumption, DefinitionConstant DEF IInv, TypeOK, QuietOutsideLoop, Active, NodesOf
<1>1. ASSUME NEW g \in Graphs, Loop(g)
      PROVE  QuietOutsideLoop'
  <2>1. CASE StartStage(g)
    BY <2>1 DEF StartStage, CheckKnows
  <2>2. CASE Return(g)
    BY <2>2 DEF Return, WaitGroup
  <2>3. ASSUME NEW s \in Stages,
               VisitStarted(g, s) \/ VisitReady(g, s) \/ VisitSkipped(g, s) \/ VisitConditionError(g, s) \/ CheckParent(g, s)
        PROVE  QuietOutsideLoop'
    BY <2>3 DEF VisitStarted, VisitReady, VisitSkipped, VisitConditionError, CheckParent
  <2>4. CASE LoopTest(g) \/ CheckFailed(g) \/ SweepEnds(g)
    BY <2>4 DEF LoopTest, CheckFailed, SweepEnds
  <2> QED
    BY <1>1, <2>1, <2>2, <2>3, <2>4 DEF Loop
<1>2. ASSUME NEW s \in Stages, Goroutine(s)
      PROVE  QuietOutsideLoop'
  <2>1. CASE RunPipeline(s)
    BY <2>1 DEF RunPipeline
  <2>2. CASE StageSucceeds(s)
    BY <2>2 DEF StageSucceeds, StageReturns
  <2>3. CASE StageFails(s)
    BY <2>3 DEF StageFails, StageReturns
  <2>4. CASE StoreError(s)
    BY <2>4 DEF StoreError
  <2>5. CASE ForgiveFailure(s)
    BY <2>5 DEF ForgiveFailure
  <2>6. CASE LeaveStage(s)
    BY <2>6 DEF LeaveStage
  <2> QED
    BY <1>2, <2>1, <2>2, <2>3, <2>4, <2>5, <2>6 DEF Goroutine
<1>3. CASE (\E g \in Graphs : CancelReturns(g)) \/ Cancel \/ UNCHANGED vars
  BY <1>3 DEF CancelReturns, Cancel, vars
<1> QED
  BY <1>1, <1>2, <1>3 DEF Next

\* The loop is left when isDone answers true, and then no status goes back.
LEMMA DecidedAfterLoopKept == ASSUME IInv, [Next]_vars PROVE DecidedAfterLoop'
<1> USE NestingAssumption, DefinitionConstant DEF IInv, TypeOK, DecidedAfterLoop, Pending, NodesOf
<1>1. ASSUME NEW g \in Graphs, Loop(g)
      PROVE  DecidedAfterLoop'
  <2>1. CASE LoopTest(g)
    BY <2>1 DEF LoopTest
  <2>2. ASSUME NEW s \in Stages, VisitSkipped(g, s)
        PROVE  DecidedAfterLoop'
    BY <2>2 DEF VisitSkipped
  <2>3. ASSUME NEW s \in Stages, VisitConditionError(g, s)
        PROVE  DecidedAfterLoop'
    BY <2>3 DEF VisitConditionError
  <2>4. ASSUME NEW s \in Stages, CheckParent(g, s)
        PROVE  DecidedAfterLoop'
    BY <2>4 DEF CheckParent
  <2>5. CASE StartStage(g)
    BY <2>5 DEF StartStage, CheckKnows
  <2>6. ASSUME NEW s \in Stages,
               VisitStarted(g, s) \/ VisitReady(g, s)
        PROVE  DecidedAfterLoop'
    BY <2>6 DEF VisitStarted, VisitReady
  <2>7. CASE CheckFailed(g) \/ SweepEnds(g) \/ Return(g)
    BY <2>7 DEF CheckFailed, SweepEnds, Return
  <2> QED
    BY <1>1, <2>1, <2>2, <2>3, <2>4, <2>5, <2>6, <2>7 DEF Loop
<1>2. ASSUME NEW s \in Stages, Goroutine(s)
      PROVE  DecidedAfterLoop'
  BY <1>2 DEF Goroutine, StageReturns, RunPipeline, StageSucceeds, StageFails,
              StoreError, ForgiveFailure, LeaveStage
<1>3. CASE (\E g \in Graphs : CancelReturns(g)) \/ Cancel \/ UNCHANGED vars
  BY <1>3 DEF CancelReturns, Cancel, vars
<1> QED
  BY <1>1, <1>2, <1>3 DEF Next

\* runStage is in s.Schedule from the call until that loop returns.
LEMMA OwnerWaitsKept == ASSUME IInv, [Next]_vars PROVE OwnerWaits'
<1> USE NestingAssumption, DefinitionConstant DEF IInv, TypeOK, OwnerWaits
<1>1. ASSUME NEW g \in Graphs, Loop(g)
      PROVE  OwnerWaits'
  <2>1. CASE LoopTest(g)
    BY <2>1 DEF LoopTest
  <2>2. CASE StartStage(g)
    BY <2>2 DEF StartStage, CheckKnows
  <2>3. CASE Return(g)
    BY <2>3 DEF Return
  <2>4. ASSUME NEW s \in Stages,
               VisitStarted(g, s) \/ VisitReady(g, s) \/ VisitSkipped(g, s) \/ VisitConditionError(g, s) \/ CheckParent(g, s)
        PROVE  OwnerWaits'
    BY <2>4 DEF VisitStarted, VisitReady, VisitSkipped, VisitConditionError, CheckParent
  <2>5. CASE CheckFailed(g) \/ SweepEnds(g)
    BY <2>5 DEF CheckFailed, SweepEnds
  <2> QED
    BY <1>1, <2>1, <2>2, <2>3, <2>4, <2>5 DEF Loop
<1>2. ASSUME NEW s \in Stages, Goroutine(s)
      PROVE  OwnerWaits'
  <2>1. CASE RunPipeline(s)
    BY <2>1 DEF RunPipeline
  <2>2. CASE StageSucceeds(s)
    BY <2>2 DEF StageSucceeds, StageReturns
  <2>3. CASE StageFails(s)
    BY <2>3 DEF StageFails, StageReturns
  <2>4. CASE StoreError(s) \/ ForgiveFailure(s) \/ LeaveStage(s)
    BY <2>4 DEF StoreError, ForgiveFailure, LeaveStage
  <2> QED
    BY <1>2, <2>1, <2>2, <2>3, <2>4 DEF Goroutine
<1>3. CASE (\E g \in Graphs : CancelReturns(g)) \/ Cancel \/ UNCHANGED vars
  BY <1>3 DEF CancelReturns, Cancel, vars
<1> QED
  BY <1>1, <1>2, <1>3 DEF Next

\* WithStageError comes before the goroutine leaves.
LEMMA ErrorStoredKept == ASSUME IInv, [Next]_vars PROVE ErrorStored'
<1> USE NestingAssumption, DefinitionConstant DEF IInv, TypeOK, ErrorStored, GoStatus, AllowFailure
<1>1. ASSUME NEW g \in Graphs, Loop(g)
      PROVE  ErrorStored'
  <2>1. ASSUME NEW s \in Stages, VisitSkipped(g, s)
        PROVE  ErrorStored'
    BY <2>1 DEF VisitSkipped
  <2>2. ASSUME NEW s \in Stages, VisitConditionError(g, s)
        PROVE  ErrorStored'
    BY <2>2 DEF VisitConditionError
  <2>3. ASSUME NEW s \in Stages, CheckParent(g, s)
        PROVE  ErrorStored'
    BY <2>3 DEF CheckParent, CheckKnows
  <2>4. CASE StartStage(g)
    BY <2>4 DEF StartStage, CheckKnows
  <2>5. ASSUME NEW s \in Stages,
               VisitStarted(g, s) \/ VisitReady(g, s)
        PROVE  ErrorStored'
    BY <2>5 DEF VisitStarted, VisitReady
  <2>6. CASE LoopTest(g) \/ CheckFailed(g) \/ SweepEnds(g) \/ Return(g)
    BY <2>6 DEF LoopTest, CheckFailed, SweepEnds, Return
  <2> QED
    BY <1>1, <2>1, <2>2, <2>3, <2>4, <2>5, <2>6 DEF Loop
<1>2. ASSUME NEW s \in Stages, Goroutine(s)
      PROVE  ErrorStored'
  BY <1>2 DEF Goroutine, StageReturns, RunPipeline, StageSucceeds, StageFails,
              StoreError, ForgiveFailure, LeaveStage
<1>3. CASE (\E g \in Graphs : CancelReturns(g)) \/ Cancel \/ UNCHANGED vars
  BY <1>3 DEF CancelReturns, Cancel, vars
<1> QED
  BY <1>1, <1>2, <1>3 DEF Next

\* LastError is read after wg.Wait.
LEMMA NilHasNoErrorKept == ASSUME IInv, [Next]_vars PROVE NilHasNoError'
<1> USE NestingAssumption, DefinitionConstant DEF IInv, TypeOK, NilHasNoError
<1>1. ASSUME NEW g \in Graphs, Loop(g)
      PROVE  NilHasNoError'
  <2>1. CASE Return(g)
    BY <2>1 DEF Return
  <2>2. ASSUME NEW s \in Stages,
               VisitStarted(g, s) \/ VisitReady(g, s) \/ VisitSkipped(g, s) \/ VisitConditionError(g, s) \/ CheckParent(g, s)
        PROVE  NilHasNoError'
    BY <2>2 DEF VisitStarted, VisitReady, VisitSkipped, VisitConditionError, CheckParent
  <2>3. CASE LoopTest(g) \/ CheckFailed(g) \/ StartStage(g) \/ SweepEnds(g)
    BY <2>3 DEF LoopTest, CheckFailed, StartStage, SweepEnds
  <2> QED
    BY <1>1, <2>1, <2>2, <2>3 DEF Loop
<1>2. ASSUME NEW s \in Stages, Goroutine(s)
      PROVE  NilHasNoError'
  <2>1. CASE RunPipeline(s)
    BY <2>1 DEF RunPipeline, OwnerWaits
  <2>2. CASE StoreError(s)
    BY <2>2 DEF StoreError, QuietOutsideLoop, Active, NodesOf
  <2>3. CASE StageSucceeds(s) \/ StageFails(s) \/ ForgiveFailure(s) \/ LeaveStage(s)
    BY <2>3 DEF StageSucceeds, StageFails, ForgiveFailure, LeaveStage
  <2> QED
    BY <1>2, <2>1, <2>2, <2>3 DEF Goroutine
<1>3. CASE (\E g \in Graphs : CancelReturns(g)) \/ Cancel \/ UNCHANGED vars
  BY <1>3 DEF CancelReturns, Cancel, vars
<1> QED
  BY <1>1, <1>2, <1>3 DEF Next

\* A goroutine appears only where StartStage puts it.
LEMMA OnlyStartStarts ==
  ASSUME IInv, [Next]_vars, NEW s \in Stages, go[s] = "none", go'[s] # "none"
  PROVE  \E g \in Graphs : StartStage(g) /\ s = cur[g]
<1> USE DEF IInv, TypeOK
<1>1. ASSUME NEW g \in Graphs, Loop(g), ~StartStage(g)
      PROVE  UNCHANGED go
  BY <1>1 DEF Loop, LoopTest, VisitStarted, VisitReady, VisitSkipped, VisitConditionError,
              CheckParent, CheckFailed, SweepEnds, Return
<1>2. ASSUME NEW t \in Stages, Goroutine(t)
      PROVE  go'[s] = "none"
  BY <1>2 DEF Goroutine, RunPipeline, StageSucceeds, StageFails, StageReturns, StoreError,
              ForgiveFailure, LeaveStage
<1>3. ASSUME NEW g \in Graphs, StartStage(g)
      PROVE  s = cur[g]
  BY <1>3 DEF StartStage
<1>4. CASE (\E g \in Graphs : CancelReturns(g)) \/ Cancel \/ UNCHANGED vars
  BY <1>4 DEF CancelReturns, Cancel, vars
<1> QED
  BY <1>1, <1>2, <1>3, <1>4 DEF Next

\* A stage becomes Canceled only in checkStatus, on reading a parent that blocks.
LEMMA OnlyCheckCancels ==
  ASSUME IInv, [Next]_vars, NEW s \in Stages, status[s] # "Canceled", status'[s] = "Canceled"
  PROVE  \E g \in Graphs, p \in Stages : CheckParent(g, p) /\ s = cur[g] /\ Blocks(p)
<1> USE DEF IInv, TypeOK
<1>1. ASSUME NEW g \in Graphs, NEW p \in Stages, CheckParent(g, p)
      PROVE  s = cur[g] /\ Blocks(p)
  BY <1>1 DEF CheckParent
<1>2. ASSUME NEW g \in Graphs, Loop(g), \A p \in Stages : ~CheckParent(g, p)
      PROVE  FALSE
  BY <1>2 DEF Loop, LoopTest, VisitStarted, VisitReady, VisitSkipped, VisitConditionError,
              CheckFailed, StartStage, SweepEnds, Return
<1>3. ASSUME NEW t \in Stages, Goroutine(t)
      PROVE  FALSE
  BY <1>3 DEF Goroutine, RunPipeline, StageSucceeds, StageFails, StoreError,
              ForgiveFailure, LeaveStage
<1>4. CASE (\E g \in Graphs : CancelReturns(g)) \/ Cancel \/ UNCHANGED vars
  BY <1>4 DEF CancelReturns, Cancel, vars
<1> QED
  BY <1>1, <1>2, <1>3, <1>4 DEF Next

\* A stage is started with all its parents passing, and they go on passing.
LEMMA DependencyOrderKept == ASSUME IInv, [Next]_vars PROVE DependencyOrder'
<1> SUFFICES ASSUME NEW s \in Stages, go'[s] # "none", NEW p \in Parents(s)'
             PROVE  Passes(p)'
  BY DEF DependencyOrder
<1>1. p \in Parents(s) /\ p \in Stages
  BY DefinitionConstant, DefinitionFacts DEF Parents, IInv
<1>2. Passes(p)
  <2>1. CASE go[s] # "none"
    BY <1>1, <2>1 DEF IInv, DependencyOrder
  <2>2. CASE go[s] = "none"
    <3>1. PICK g \in Graphs : StartStage(g) /\ s = cur[g]
      BY <2>2, OnlyStartStarts
    <3> QED
      BY <1>1, <3>1 DEF StartStage, IInv, CheckKnows
  <2> QED
    BY <2>1, <2>2
<1> QED
  BY <1>1, <1>2, VerdictStable

\* A parent that blocked goes on blocking, and its child is never started.
LEMMA CanceledHasCauseKept == ASSUME IInv, [Next]_vars PROVE CanceledHasCause'
<1> SUFFICES ASSUME NEW s \in Stages, status'[s] = "Canceled"
             PROVE  go'[s] = "none" /\ \E p \in Parents(s)' : Blocks(p)'
  BY DEF CanceledHasCause
<1>1. Parents(s)' = Parents(s) /\ Parents(s) \subseteq Stages
  BY DefinitionConstant, DefinitionFacts DEF Parents, IInv
<1>2. CASE status[s] = "Canceled"
  <2>1. go[s] = "none" /\ \E p \in Parents(s) : Blocks(p)
    BY <1>2 DEF IInv, CanceledHasCause
  <2>2. go'[s] = "none"
    <3> SUFFICES ASSUME go'[s] # "none" PROVE FALSE
      OBVIOUS
    <3>1. PICK g \in Graphs : StartStage(g) /\ s = cur[g]
      BY <2>1, OnlyStartStarts
    <3> QED
      BY <1>2, <3>1 DEF StartStage, IInv, CheckKnows
  <2> QED
    BY <1>1, <2>1, <2>2, VerdictStable
<1>3. CASE status[s] # "Canceled"
  <2>1. PICK g \in Graphs, p \in Stages : CheckParent(g, p) /\ s = cur[g] /\ Blocks(p)
    BY <1>3, OnlyCheckCancels
  <2>2. p \in Parents(s) /\ go[s] = "none" /\ UNCHANGED go
    BY <2>1 DEF CheckParent, IInv, CheckKnows
  <2> QED
    BY <1>1, <2>1, <2>2, VerdictStable
<1> QED
  BY <1>2, <1>3

(***************************************************************************)
(* What checkStatus knows stays true while it reads: no other loop and no  *)
(* goroutine touches the stage it checks, and verdicts are stable.         *)
(***************************************************************************)
LEMMA CheckKnowsKept == ASSUME IInv, [Next]_vars PROVE CheckKnows'
<1> DEFINE Knows(h) ==
      /\ cur[h] \in NodesOf(h)
      /\ unread[h] \subseteq Parents(cur[h])
      /\ go[cur[h]] = "none"
      /\ status[cur[h]] \in {"Waiting", "Canceled"}
      /\ held[h] = {} => /\ status[cur[h]] = "Waiting"
                         /\ \A p \in Parents(cur[h]) \ unread[h] : Passes(p)
<1> SUFFICES ASSUME NEW h \in Graphs, pc'[h] = "check"
             PROVE  Knows(h)'
  BY DEF CheckKnows
<1> USE DEF IInv, TypeOK, NodesOf
<1>1. UNCHANGED def /\ \A s \in Stages : Parents(s)' = Parents(s) /\ Parents(s) \subseteq Stages
  BY DefinitionConstant, DefinitionFacts DEF Parents
<1>2. \A p \in Stages : Passes(p) => Passes(p)'
  BY VerdictStable
<1>3. ASSUME pc[h] = "check", UNCHANGED <<cur[h], unread[h], held[h]>>,
             UNCHANGED <<go[cur[h]], status[cur[h]]>>
      PROVE  Knows(h)'
  <2>1. Knows(h)
    BY <1>3 DEF CheckKnows
  <2> QED
    BY <1>1, <1>2, <1>3, <2>1
<1>4. ASSUME NEW g \in Graphs, Loop(g)
      PROVE  Knows(h)'
  <2>1. ASSUME NEW s \in Stages, VisitReady(h, s)
        PROVE  Knows(h)'
    <3>1. cur'[h] = s /\ unread'[h] = Parents(s) /\ go' = go /\ status' = status
      BY <2>1 DEF VisitReady
    <3>2. s \in NodesOf(h) /\ status[s] = "Waiting" /\ go[s] = "none"
      BY <2>1 DEF VisitReady, SweepOwnNodes, GoStatus, GoStates
    <3> QED
      BY <1>1, <3>1, <3>2
  <2>2. ASSUME NEW q \in Stages, CheckParent(h, q)
        PROVE  Knows(h)'
    <3>1. Knows(h)
      BY <2>2 DEF CheckParent, CheckKnows
    <3>2. UNCHANGED <<cur, go>> /\ unread'[h] = unread[h] \ {q}
      BY <2>2 DEF CheckParent
    <3>3. status'[cur[h]] \in {status[cur[h]], "Canceled"}
      BY <2>2, <3>1 DEF CheckParent
    <3>4. ASSUME held'[h] = {}
          PROVE  held[h] = {} /\ Passes(q) /\ UNCHANGED status
      BY <2>2, <3>4 DEF CheckParent, Passes, Blocks
    <3> QED
      BY <1>1, <1>2, <3>1, <3>2, <3>3, <3>4
  <2>3. CASE g = h /\ ~(\E s \in Stages : VisitReady(h, s) \/ CheckParent(h, s))
    BY <1>4, <2>3 DEF Loop, LoopTest, VisitStarted, VisitSkipped, VisitConditionError,
                      CheckFailed, StartStage, SweepEnds, Return
  <2>4. CASE g # h
    <3>1. pc[h] = "check" /\ UNCHANGED <<cur[h], unread[h], held[h]>>
      BY <1>4, <2>4 DEF Loop, LoopTest, VisitStarted, VisitReady, VisitSkipped,
                        VisitConditionError, CheckParent, CheckFailed, StartStage,
                        SweepEnds, Return
    <3>2. cur[h] \in Stages /\ GraphOf[cur[h]] = h
      BY <3>1 DEF CheckKnows
    <3>3. UNCHANGED <<go[cur[h]], status[cur[h]]>>
      BY <1>4, <2>4, <3>2 DEF Loop, LoopTest, VisitStarted, VisitReady, VisitSkipped,
                        VisitConditionError, CheckParent, CheckFailed, StartStage,
                        SweepEnds, Return, SweepOwnNodes, CheckKnows
    <3> QED
      BY <1>3, <3>1, <3>3
  <2> QED
    BY <1>4, <2>1, <2>2, <2>3, <2>4
<1>5. ASSUME NEW s \in Stages, Goroutine(s)
      PROVE  Knows(h)'
  <2>1. pc[h] = "check" /\ UNCHANGED <<cur[h], unread[h], held[h]>>
    BY <1>5, NestingAssumption DEF Goroutine, RunPipeline, StageSucceeds, StageFails,
                                   StoreError, ForgiveFailure, LeaveStage
  <2>2. go[s] # "none" /\ \A t \in Stages \ {s} : UNCHANGED <<go[t], status[t]>>
    BY <1>5 DEF Goroutine, RunPipeline, StageSucceeds, StageFails, StageReturns,
                StoreError, ForgiveFailure, LeaveStage
  <2>3. cur[h] \in Stages \ {s}
    BY <2>1, <2>2 DEF CheckKnows
  <2> QED
    BY <1>3, <2>1, <2>2, <2>3
<1>6. CASE (\E g \in Graphs : CancelReturns(g)) \/ Cancel \/ UNCHANGED vars
  BY <1>3, <1>6 DEF CancelReturns, Cancel, vars
<1> QED
  BY <1>4, <1>5, <1>6 DEF Next
-----------------------------------------------------------------------------
\* The invariant holds when Schedule is called ...
LEMMA InitIInv == Init => IInv
<1> SUFFICES ASSUME Init PROVE IInv
  OBVIOUS
<1> USE NestingAssumption DEF Init
<1>1. TypeOK
  BY InitType
<1>2. GoStatus /\ SweepOwnNodes /\ CheckKnows /\ DependencyOrder /\ CanceledHasCause
  BY DEF GoStatus, SweepOwnNodes, CheckKnows, DependencyOrder, CanceledHasCause
<1>3. WaitGroup /\ QuietOutsideLoop /\ DecidedAfterLoop
  BY DEF WaitGroup, QuietOutsideLoop, DecidedAfterLoop, Active, NodesOf
<1>4. OwnerWaits /\ ErrorStored /\ NilHasNoError
  BY DEF OwnerWaits, ErrorStored, NilHasNoError
<1> QED
  BY <1>1, <1>2, <1>3, <1>4 DEF IInv

\* ... and every step of a loop or a goroutine keeps it.
LEMMA NextIInv == IInv /\ [Next]_vars => IInv'
<1> SUFFICES ASSUME IInv, [Next]_vars PROVE IInv'
  OBVIOUS
<1>1. TypeOK'
  BY NextType DEF IInv
<1>2. GoStatus' /\ SweepOwnNodes' /\ CheckKnows' /\ DependencyOrder' /\ CanceledHasCause'
  BY GoStatusKept, SweepOwnNodesKept, CheckKnowsKept, DependencyOrderKept, CanceledHasCauseKept
<1>3. WaitGroup' /\ QuietOutsideLoop' /\ DecidedAfterLoop'
  BY WaitGroupKept, QuietOutsideLoopKept, DecidedAfterLoopKept
<1>4. OwnerWaits' /\ ErrorStored' /\ NilHasNoError'
  BY OwnerWaitsKept, ErrorStoredKept, NilHasNoErrorKept
<1> QED
  BY <1>1, <1>2, <1>3, <1>4 DEF IInv

\* The invariant holds in every reachable state of the scheduler.
THEOREM Invariance == Spec => []IInv
BY InitIInv, NextIInv, PTL DEF Spec

(***************************************************************************)
(* Every variable keeps its type: among others, a loop never leaves its    *)
(* states and a status is one of the six of stage.go.                      *)
(***************************************************************************)
THEOREM TypeCorrect == Spec => []TypeOK
<1>1. IInv => TypeOK
  BY DEF IInv
<1> QED
  BY <1>1, Invariance, PTL

(***************************************************************************)
(* depends_on: in every pipeline, a stage is started only after each       *)
(* parent finished acceptably (checkStatus), and the parents stay so.      *)
(***************************************************************************)
THEOREM DependencyOrderHolds == Spec => []DependencyOrder
<1>1. IInv => DependencyOrder
  BY DEF IInv
<1> QED
  BY <1>1, Invariance, PTL

(***************************************************************************)
(* A stage is Canceled only because of a blocking parent, and was never    *)
(* started (checkStatus).                                                  *)
(***************************************************************************)
THEOREM CanceledHasCauseHolds == Spec => []CanceledHasCause
<1>1. IInv => CanceledHasCause
  BY DEF IInv
<1> QED
  BY <1>1, Invariance, PTL

(***************************************************************************)
(* Once Schedule has returned, nothing it started is running and, without  *)
(* cancellation, every stage is decided (isDone, wg.Wait).                 *)
(***************************************************************************)
THEOREM ReturnedIsQuietHolds == Spec => []ReturnedIsQuiet
<1>1. IInv => ReturnedIsQuiet
  BY DEF IInv, ReturnedIsQuiet, QuietOutsideLoop, DecidedAfterLoop, GoStatus, Active,
         NodesOf, TypeOK, GoStates
<1> QED
  BY <1>1, Invariance, PTL

(***************************************************************************)
(* Schedule answers nil only if no stage it started is in StatusError      *)
(* (WithStageError, LastError).                                            *)
(***************************************************************************)
THEOREM FailureIsReportedHolds == Spec => []FailureIsReported
<1>1. IInv => FailureIsReported
  <2> SUFFICES ASSUME IInv, NEW g \in Graphs, result[g] = "nil", NEW s \in NodesOf(g),
                      RanToFailure(s)
               PROVE  FALSE
    BY DEF FailureIsReported
  <2>1. s \in Stages /\ GraphOf[s] = g
    BY DEF NodesOf
  <2>2. pc[g] = "returned" /\ errors[g] = {}
    BY DEF IInv, NilHasNoError
  <2>3. go[s] = "gone"
    BY <2>2 DEF IInv, QuietOutsideLoop, Active, RanToFailure
  <2> QED
    BY <2>1, <2>2, <2>3 DEF IInv, ErrorStored, RanToFailure
<1> QED
  BY <1>1, Invariance, PTL

(***************************************************************************)
(* The stages of a nested pipeline are active only while its owner is      *)
(* Running: after what the owner depends on, before what depends on it     *)
(* (runStage).                                                             *)
(***************************************************************************)
THEOREM NestedInsideOwnerHolds == Spec => []NestedInsideOwner
<1>1. IInv => NestedInsideOwner
  <2> SUFFICES ASSUME IInv, NEW o \in Stages, NEW s \in Stages,
                      Pipeline[o] = GraphOf[s], Active(s)
               PROVE  /\ status[o] = "Running"
                      /\ \A p \in Parents(o) : Passes(p)
                      /\ \A c \in Stages : o \in Parents(c) => go[c] = "none"
    BY DEF NestedInsideOwner
  <2>1. GraphOf[s] \in Graphs /\ Pipeline[o] # None /\ s \in NodesOf(GraphOf[s])
    BY NestingAssumption DEF NodesOf
  <2>2. pc[Pipeline[o]] \notin {"idle", "returned"}
    BY <2>1 DEF IInv, QuietOutsideLoop
  <2>3. go[o] = "nested"
    BY <2>1, <2>2 DEF IInv, OwnerWaits
  <2>4. status[o] = "Running"
    BY <2>3 DEF IInv, GoStatus
  <2>5. \A p \in Parents(o) : Passes(p)
    BY <2>3 DEF IInv, DependencyOrder
  <2>6. \A c \in Stages : o \in Parents(c) => go[c] = "none"
    BY <2>4 DEF IInv, DependencyOrder, Passes
  <2> QED
    BY <2>4, <2>5, <2>6
<1> QED
  BY <1>1, Invariance, PTL

(***************************************************************************)
(* A status only moves forward (UpdateStatus): no stage is decided, or     *)
(* run, twice.                                                             *)
(***************************************************************************)
THEOREM StatusMovesForwardHolds == Spec => StatusMovesForward
<1>1. IInv /\ [Next]_vars =>
        [\A s \in Stages : status'[s] # status[s] => status'[s] \in MovesTo(s)]_vars
  BY StatusForward
<1> QED
  BY <1>1, Invariance, PTL DEF Spec, StatusMovesForward
-----------------------------------------------------------------------------
(***************************************************************************)
(* The scheduler implements PipelineExecution.  A step of a loop or of a   *)
(* goroutine that writes a status or returns is a step there, every other  *)
(* step is none.                                                           *)
(***************************************************************************)
LEMMA StepImplements ==
  ASSUME IInv, [Next]_vars
  PROVE  [Execution!Next]_(Execution!vars)
<1> DEFINE Returned == {g \in Graphs : pc[g] = "returned"}
<1> USE NestingAssumption DEF IInv, TypeOK
<1>0. ASSUME UNCHANGED <<def, status, cancelled>>, Returned' = Returned
      PROVE  UNCHANGED Execution!vars
  BY <1>0 DEF Execution!vars
<1>1. ASSUME NEW g \in Graphs, Loop(g)
      PROVE  [Execution!Next]_(Execution!vars)
  <2>0. g \notin Returned
    BY <1>1 DEF Loop, LoopTest, VisitStarted, VisitReady, VisitSkipped, VisitConditionError,
                CheckParent, CheckFailed, StartStage, SweepEnds, Return
  <2>1. ASSUME NEW s \in Stages, VisitSkipped(g, s)
        PROVE  Execution!Skip(s)
    BY <2>0, <2>1 DEF VisitSkipped, SweepOwnNodes, NodesOf, Execution!Skip, Execution!Move
  <2>2. ASSUME NEW s \in Stages, VisitConditionError(g, s)
        PROVE  Execution!Reject(s)
    <3>1. Returned' = Returned
      BY <2>2 DEF VisitConditionError
    <3> QED
      BY <2>0, <2>2, <3>1 DEF VisitConditionError, SweepOwnNodes, NodesOf,
                              Execution!Reject, Execution!Move
  <2>3. ASSUME NEW p \in Stages, CheckParent(g, p)
        PROVE  Execution!CancelStage(cur[g]) \/ UNCHANGED Execution!vars
    <3>1. Returned' = Returned /\ UNCHANGED <<def, cancelled>>
      BY <2>3 DEF CheckParent
    <3>2. cur[g] \in Stages /\ GraphOf[cur[g]] = g /\ p \in Parents(cur[g])
      BY <2>3 DEF CheckParent, CheckKnows, NodesOf
    <3>3. CASE status' = status
      BY <1>0, <3>1, <3>3
    <3>4. CASE status' # status
      <4>1. Blocks(p) /\ status' = [status EXCEPT ![cur[g]] = "Canceled"]
        BY <2>3, <3>4 DEF CheckParent
      <4>2. status[cur[g]] = "Waiting"
        BY <2>3, <3>2, <3>4, <4>1 DEF CheckParent, CheckKnows
      <4> QED
        BY <2>0, <3>1, <3>2, <4>1, <4>2
           DEF Execution!CancelStage, Execution!Move, Execution!Blocking, Blocks,
               AllowFailure, Parents
    <3> QED
      BY <3>3, <3>4
  <2>4. ASSUME StartStage(g)
        PROVE  Execution!Start(cur[g])
    <3>1. Returned' = Returned /\ UNCHANGED <<def, cancelled>>
      BY <2>4 DEF StartStage
    <3>2. /\ cur[g] \in Stages /\ GraphOf[cur[g]] = g /\ status[cur[g]] = "Waiting"
          /\ \A p \in Parents(cur[g]) : Passes(p)
      BY <2>4 DEF StartStage, CheckKnows, NodesOf
    <3>3. \A o \in Stages : Pipeline[o] = g => status[o] = "Running"
      BY <2>4 DEF StartStage, OwnerWaits, GoStatus
    <3> QED
      BY <2>0, <2>4, <3>1, <3>2, <3>3
         DEF StartStage, Execution!Start, Execution!Move, Execution!Passing, Passes,
             AllowFailure, Parents
  <2>5. ASSUME Return(g)
        PROVE  Execution!Return(g)
    <3>1. Returned' = Returned \cup {g} /\ UNCHANGED <<def, status, cancelled>>
      BY <2>5 DEF Return
    <3>2. \A s \in NodesOf(g) : status[s] # "Running" /\ (cancelled = 0 => status[s] # "Waiting")
      BY <2>5 DEF Return, WaitGroup, GoStatus, GoStates, DecidedAfterLoop, Pending, NodesOf, Active
    <3> QED
      BY <2>0, <3>1, <3>2 DEF Execution!Return, Execution!Nodes, NodesOf
  <2>6. ASSUME NEW s \in Stages, VisitStarted(g, s) \/ VisitReady(g, s)
        PROVE  UNCHANGED Execution!vars
    BY <1>0, <2>6 DEF VisitStarted, VisitReady
  <2>7. CASE LoopTest(g) \/ CheckFailed(g) \/ SweepEnds(g)
    BY <1>0, <2>7 DEF LoopTest, CheckFailed, SweepEnds
  <2>8. cur[g] \in Stages \/ ~((\E p \in Stages : CheckParent(g, p)) \/ StartStage(g))
    BY DEF CheckParent, StartStage, CheckKnows, NodesOf
  <2> QED
    BY <1>1, <2>1, <2>2, <2>3, <2>4, <2>5, <2>6, <2>7, <2>8 DEF Loop, Execution!Next
<1>2. ASSUME NEW s \in Stages, Goroutine(s)
      PROVE  [Execution!Next]_(Execution!vars)
  <2>0. GraphOf[s] \in Graphs \ Returned
    BY <1>2 DEF Goroutine, RunPipeline, StageSucceeds, StageFails, StageReturns, StoreError,
                ForgiveFailure, LeaveStage, QuietOutsideLoop, Active, NodesOf
  <2>1. CASE RunPipeline(s)
    <3>1. pc[Pipeline[s]] = "idle"
      BY <2>1 DEF RunPipeline, OwnerWaits
    <3>2. Returned' = Returned
      BY <2>1, <3>1 DEF RunPipeline
    <3> QED
      BY <1>0, <2>1, <3>2 DEF RunPipeline
  <2>2. CASE StageSucceeds(s) \/ StageFails(s)
    <3>1. Returned' = Returned /\ UNCHANGED <<def, cancelled>>
      BY <2>2 DEF StageSucceeds, StageFails
    <3>2. status[s] = "Running" /\ (Pipeline[s] # None => Pipeline[s] \in Returned)
      BY <2>2 DEF StageSucceeds, StageFails, StageReturns, GoStatus
    <3>3. \E verdict \in {"Done", "Error"} : status' = [status EXCEPT ![s] = verdict]
      BY <2>2 DEF StageSucceeds, StageFails
    <3>4. Execution!Finish(s)
      BY <2>0, <3>1, <3>2, <3>3 DEF Execution!Finish, Execution!Move
    <3> QED
      BY <3>4 DEF Execution!Next
  <2>3. CASE ForgiveFailure(s)
    <3>1. Returned' = Returned /\ UNCHANGED <<def, cancelled>>
      BY <2>3 DEF ForgiveFailure
    <3>2. status[s] = "Error" /\ s \in def.allowFailure
      BY <2>3 DEF ForgiveFailure, GoStatus, AllowFailure
    <3>3. Execution!Forgive(s)
      BY <2>0, <2>3, <3>1, <3>2 DEF ForgiveFailure, Execution!Forgive, Execution!Move
    <3> QED
      BY <3>3 DEF Execution!Next
  <2>4. CASE StoreError(s) \/ LeaveStage(s)
    BY <1>0, <2>4 DEF StoreError, LeaveStage
  <2> QED
    BY <1>2, <2>1, <2>2, <2>3, <2>4 DEF Goroutine
<1>3. ASSUME NEW g \in Graphs, CancelReturns(g)
      PROVE  [Execution!Next]_(Execution!vars)
  BY <1>0, <1>3 DEF CancelReturns
<1>4. CASE Cancel
  <2>1. Execution!Stop
    BY <1>4 DEF Cancel, Execution!Stop
  <2> QED
    BY <2>1 DEF Execution!Next
<1>5. CASE UNCHANGED vars
  BY <1>0, <1>5 DEF vars
<1> QED
  BY <1>1, <1>2, <1>3, <1>4, <1>5 DEF Next

\* Every run of the scheduler is a run of PipelineExecution.
THEOREM Refinement == Spec => ImplementsExecution
<1>1. Init => Execution!Init
  BY NestingAssumption DEF Init, Execution!Init
<1>2. IInv /\ [Next]_vars => [Execution!Next]_(Execution!vars)
  BY StepImplements
<1> QED
  BY <1>1, <1>2, Invariance, PTL DEF Spec, ImplementsExecution, Execution!Spec

-----------------------------------------------------------------------------
(***************************************************************************)
(* What follows a failure, or a goroutine, through pipelines nested to any *)
(* depth.  The nesting is well founded, so a set of stages that is closed  *)
(* under "the stage that owns my graph" and holds no stage of the top      *)
(* graph is empty.                                                         *)
(***************************************************************************)

\* The loop of a nested graph was begun by the stage that owns it.
OwnerKnown ==
  \A g \in Graphs : pc[g] # "idle" /\ g # Top =>
    \E o \in Stages : Pipeline[o] = g /\ go[o] \notin {"none", "started"}

\* Only stages that ran have stored errors, and their loop has begun.
ErrorsRan ==
  \A s \in Stages : /\ go[s] # "none" => pc[GraphOf[s]] # "idle"
                    /\ \A g \in Graphs : s \in errors[g] => GraphOf[s] = g /\ go[s] # "none"

\* What a nested Schedule answered, its owner stores.
AnswerCarried ==
  \A o \in Stages :
    Pipeline[o] # None /\ go[o] \in {"erred", "stored", "leaving", "gone"} =>
      /\ pc[Pipeline[o]] = "returned"
      /\ errors[Pipeline[o]] # {} => go[o] = "erred" \/ o \in errors[GraphOf[o]]

NestInv == OwnerKnown /\ ErrorsRan /\ AnswerCarried
-----------------------------------------------------------------------------
\* RunPipeline begins a nested loop, and its owner stays started.
LEMMA OwnerKnownKept == ASSUME IInv, NestInv, [Next]_vars PROVE OwnerKnown'
<1> USE NestingAssumption DEF IInv, TypeOK, NestInv, OwnerKnown
<1>1. ASSUME NEW g \in Graphs, Loop(g)
      PROVE  OwnerKnown'
  <2>1. pc[g] # "idle" /\ \A h \in Graphs \ {g} : pc'[h] = pc[h]
    BY <1>1 DEF Loop, LoopTest, VisitStarted, VisitReady, VisitSkipped, VisitConditionError,
                CheckParent, CheckFailed, StartStage, SweepEnds, Return
  <2>2. \A o \in Stages : go[o] \notin {"none", "started"} => go'[o] = go[o]
    <3>1. CASE StartStage(g)
      BY <3>1 DEF StartStage, CheckKnows
    <3>2. CASE ~StartStage(g)
      BY <1>1, <3>2 DEF Loop, LoopTest, VisitStarted, VisitReady, VisitSkipped,
                        VisitConditionError, CheckParent, CheckFailed, SweepEnds, Return
    <3> QED
      BY <3>1, <3>2
  <2> QED
    BY <2>1, <2>2
<1>2. ASSUME NEW s \in Stages, Goroutine(s)
      PROVE  OwnerKnown'
  <2>1. CASE RunPipeline(s)
    BY <2>1 DEF RunPipeline
  <2>2. CASE ~RunPipeline(s)
    <3>1. pc' = pc
      BY <1>2, <2>2 DEF Goroutine, StageSucceeds, StageFails, StoreError, ForgiveFailure, LeaveStage
    <3>2. \A o \in Stages : go[o] \notin {"none", "started"} => go'[o] \notin {"none", "started"}
      BY <1>2, <2>2 DEF Goroutine, StageSucceeds, StageFails, StoreError, ForgiveFailure, LeaveStage
    <3> QED
      BY <3>1, <3>2
  <2> QED
    BY <2>1, <2>2
<1>3. CASE (\E g \in Graphs : CancelReturns(g)) \/ Cancel \/ UNCHANGED vars
  BY <1>3 DEF CancelReturns, Cancel, vars
<1> QED
  BY <1>1, <1>2, <1>3 DEF Next

\* WithStageError is called by the goroutine of a stage, for its own graph.
LEMMA ErrorsRanKept == ASSUME IInv, NestInv, [Next]_vars PROVE ErrorsRan'
<1> USE NestingAssumption DEF IInv, TypeOK, NestInv, ErrorsRan
<1>1. ASSUME NEW g \in Graphs, Loop(g)
      PROVE  ErrorsRan'
  <2>1. CASE StartStage(g)
    BY <2>1 DEF StartStage, CheckKnows, NodesOf
  <2>2. CASE ~StartStage(g)
    BY <1>1, <2>2 DEF Loop, LoopTest, VisitStarted, VisitReady, VisitSkipped,
                      VisitConditionError, CheckParent, CheckFailed, SweepEnds, Return
  <2> QED
    BY <2>1, <2>2
<1>2. ASSUME NEW s \in Stages, Goroutine(s)
      PROVE  ErrorsRan'
  <2>1. CASE RunPipeline(s)
    BY <2>1 DEF RunPipeline
  <2>2. CASE StoreError(s)
    BY <2>2 DEF StoreError
  <2>3. CASE StageSucceeds(s) \/ StageFails(s) \/ ForgiveFailure(s) \/ LeaveStage(s)
    BY <2>3 DEF StageSucceeds, StageFails, StageReturns, ForgiveFailure, LeaveStage
  <2> QED
    BY <1>2, <2>1, <2>2, <2>3 DEF Goroutine
<1>3. CASE (\E g \in Graphs : CancelReturns(g)) \/ Cancel \/ UNCHANGED vars
  BY <1>3 DEF CancelReturns, Cancel, vars
<1> QED
  BY <1>1, <1>2, <1>3 DEF Next

\* runStage passes the answer on, and a returned graph stores nothing more.
LEMMA AnswerCarriedKept == ASSUME IInv, NestInv, [Next]_vars PROVE AnswerCarried'
<1> USE NestingAssumption DEF IInv, TypeOK, NestInv, AnswerCarried
<1>1. ASSUME NEW g \in Graphs, Loop(g)
      PROVE  AnswerCarried'
  <2>1. UNCHANGED errors /\ pc[g] # "returned" /\ \A h \in Graphs \ {g} : pc'[h] = pc[h]
    BY <1>1 DEF Loop, LoopTest, VisitStarted, VisitReady, VisitSkipped, VisitConditionError,
                CheckParent, CheckFailed, StartStage, SweepEnds, Return
  <2>2. \A o \in Stages : go'[o] \in {"erred", "stored", "leaving", "gone"} => go'[o] = go[o]
    <3>1. CASE StartStage(g)
      BY <3>1 DEF StartStage, CheckKnows
    <3>2. CASE ~StartStage(g)
      BY <1>1, <3>2 DEF Loop, LoopTest, VisitStarted, VisitReady, VisitSkipped,
                        VisitConditionError, CheckParent, CheckFailed, SweepEnds, Return
    <3> QED
      BY <3>1, <3>2
  <2> QED
    BY <2>1, <2>2
<1>2. ASSUME NEW s \in Stages, Goroutine(s)
      PROVE  AnswerCarried'
  <2>1. CASE RunPipeline(s)
    BY <2>1 DEF RunPipeline, OwnerWaits
  <2>2. CASE StageSucceeds(s)
    BY <2>2 DEF StageSucceeds, StageReturns, NilHasNoError
  <2>3. CASE StageFails(s)
    BY <2>3 DEF StageFails, StageReturns
  <2>4. CASE StoreError(s)
    <3>1. pc[GraphOf[s]] # "returned"
      BY <2>4 DEF StoreError, QuietOutsideLoop, Active, NodesOf
    <3> QED
      BY <2>4, <3>1 DEF StoreError
  <2>5. CASE ForgiveFailure(s) \/ LeaveStage(s)
    BY <2>5 DEF ForgiveFailure, LeaveStage
  <2> QED
    BY <1>2, <2>1, <2>2, <2>3, <2>4, <2>5 DEF Goroutine
<1>3. CASE (\E g \in Graphs : CancelReturns(g)) \/ Cancel \/ UNCHANGED vars
  BY <1>3 DEF CancelReturns, Cancel, vars
<1> QED
  BY <1>1, <1>2, <1>3 DEF Next

\* The owners, the stored errors and the answers in every reachable state.
THEOREM NestInvariance == Spec => [](IInv /\ NestInv)
<1>1. Init => NestInv
  BY NestingAssumption DEF Init, NestInv, OwnerKnown, ErrorsRan, AnswerCarried
<1>2. IInv /\ NestInv /\ [Next]_vars => NestInv'
  BY OwnerKnownKept, ErrorsRanKept, AnswerCarriedKept DEF NestInv
<1> QED
  BY <1>1, <1>2, Invariance, PTL DEF Spec
-----------------------------------------------------------------------------
(***************************************************************************)
(* When the top Schedule has returned, no goroutine of any graph is left:  *)
(* an active stage of a nested graph has an active owner.                  *)
(***************************************************************************)
LEMMA AllQuiet ==
  ASSUME IInv, NestInv, pc[Top] = "returned"
  PROVE  \A s \in Stages : ~Active(s)
<1> DEFINE S == {s \in Stages : Active(s)}
<1> SUFFICES ASSUME S # {} PROVE FALSE
  OBVIOUS
<1>1. PICK s \in S : \A o \in S : Pipeline[o] # GraphOf[s]
  BY NestingWellFounded
<1>2. GraphOf[s] \in Graphs /\ s \in NodesOf(GraphOf[s])
  BY NestingAssumption DEF NodesOf
<1>3. pc[GraphOf[s]] \notin {"idle", "returned"}
  BY <1>2 DEF IInv, QuietOutsideLoop
<1>4. PICK o \in Stages : Pipeline[o] = GraphOf[s]
  BY <1>2, <1>3 DEF NestInv, OwnerKnown
<1>5. go[o] = "nested"
  BY <1>2, <1>3, <1>4, NestingAssumption DEF IInv, OwnerWaits
<1> QED
  BY <1>1, <1>4, <1>5 DEF Active

(***************************************************************************)
(* When the top Schedule has answered nil, no graph has a stored error: a  *)
(* stage of a nested graph that stored one has an owner that did.          *)
(***************************************************************************)
LEMMA NothingStored ==
  ASSUME IInv, NestInv, result[Top] = "nil"
  PROVE  \A s \in Stages : s \notin errors[GraphOf[s]]
<1> DEFINE S == {s \in Stages : s \in errors[GraphOf[s]]}
<1> SUFFICES ASSUME S # {} PROVE FALSE
  OBVIOUS
<1>1. pc[Top] = "returned" /\ errors[Top] = {}
  BY NestingAssumption DEF IInv, NilHasNoError
<1>2. PICK s \in S : \A o \in S : Pipeline[o] # GraphOf[s]
  BY NestingWellFounded
<1>3. GraphOf[s] \in Graphs /\ GraphOf[s] # Top /\ pc[GraphOf[s]] # "idle"
  BY <1>1, NestingAssumption DEF NestInv, ErrorsRan
<1>4. PICK o \in Stages : Pipeline[o] = GraphOf[s] /\ go[o] \notin {"none", "started"}
  BY <1>3 DEF NestInv, OwnerKnown
<1>5. go[o] = "gone"
  BY <1>1, <1>4, AllQuiet DEF Active
<1>6. o \in S
  BY <1>3, <1>4, <1>5, NestingAssumption DEF NestInv, AnswerCarried
<1> QED
  BY <1>2, <1>4, <1>6

(***************************************************************************)
(* A stage that failed at any depth makes the top Schedule answer an error *)
(* (runStage, WithStageError, LastError).                                  *)
(***************************************************************************)
THEOREM FailureReachesTopHolds == Spec => []FailureReachesTop
<1>1. IInv /\ NestInv => FailureReachesTop
  <2> SUFFICES ASSUME IInv, NestInv, result[Top] = "nil", NEW s \in Stages, RanToFailure(s)
               PROVE  FALSE
    BY DEF FailureReachesTop
  <2>1. pc[Top] = "returned"
    BY NestingAssumption DEF IInv, NilHasNoError
  <2>2. go[s] = "gone"
    BY <2>1, AllQuiet DEF Active, RanToFailure
  <2> QED
    BY <2>2, NothingStored DEF IInv, ErrorStored, RanToFailure
<1> QED
  BY <1>1, NestInvariance, PTL
-----------------------------------------------------------------------------
(***************************************************************************)
(* The process: pipelines, tasks and signals together.                     *)
(***************************************************************************)

\* A Run is called by the goroutine of its stage, which waits for it.
RunInsideStage ==
  \A s \in TaskStages : /\ run[s] = "running" => go[s] = "started"
                        /\ run[s] # "idle" => go[s] # "none"

FinishAfterSchedule == process = "finished" => pc[Top] = "returned"

RunInv ==
  /\ run \in [TaskStages -> {"idle", "running", "returned"}]
  /\ RunInsideStage
  /\ FinishAfterSchedule

\* A step of the process is a step of the scheduler or leaves it alone.
LEMMA StepOfScheduler == [RunNext]_runVars => [Next]_vars
BY NestingAssumption
   DEF RunNext, runVars, LoopStep, StageRun, BeginTask, EndTask, StageStep, LoopCancels,
       LoopCancelReturns, Interrupt, InterruptReturns, Finish, Next

(***************************************************************************)
(* The scheduler keeps its properties in the process: calling the runner   *)
(* and being called by runPipeline add no behaviour to it.                 *)
(***************************************************************************)
THEOREM RunsScheduler == RunSpec => Spec
<1>1. RunInit => Init
  BY DEF RunInit
<1> QED
  BY <1>1, StepOfScheduler, PTL DEF RunSpec, Spec

\* Run and Cancel meet in the process as RunnerCancel says (runner.go).
THEOREM RunsRunner == RunSpec => Runner!Spec
<1>1. RunInit => Runner!Init
  BY DEF RunInit
<1>2. [RunNext]_runVars => [Runner!Next]_(Runner!vars)
  BY DEF RunNext, runVars, runnerVars, LoopStep, StageRun, BeginTask, EndTask, StageStep,
         LoopCancels, LoopCancelReturns, Interrupt, InterruptReturns, Finish,
         Runner!Next, Runner!vars
<1> QED
  BY <1>1, <1>2, PTL DEF RunSpec, Runner!Spec
-----------------------------------------------------------------------------
\* A goroutine moves on from runStage only when its Run has returned.
LEMMA RunInvKept == ASSUME IInv, RunInv, [RunNext]_runVars PROVE RunInv'
<1> USE NestingAssumption DEF RunInv, RunInsideStage, FinishAfterSchedule, TaskStages
<1>1. ASSUME NEW g \in Graphs, LoopStep(g)
      PROVE  RunInv'
  <2>1. UNCHANGED <<run, process>> /\ process # "finished"
    BY <1>1 DEF LoopStep, runnerVars, Alive
  <2>2. \A s \in Stages : go[s] # "none" => go'[s] = go[s]
    <3>1. CASE StartStage(g)
      BY <3>1 DEF StartStage, IInv, TypeOK, CheckKnows
    <3>2. CASE ~StartStage(g)
      BY <1>1, <3>2 DEF LoopStep, Loop, LoopTest, VisitStarted, VisitReady, VisitSkipped,
                        VisitConditionError, CheckParent, CheckFailed, SweepEnds, Return
    <3> QED
      BY <3>1, <3>2
  <2> QED
    BY <2>1, <2>2
<1>2. ASSUME NEW s \in Stages, BeginTask(s)
      PROVE  RunInv'
  BY <1>2 DEF BeginTask, Runner!BeginRun, vars, Alive
<1>3. ASSUME NEW s \in Stages, EndTask(s)
      PROVE  RunInv'
  BY <1>3 DEF EndTask, Runner!EndRun, vars, Alive
<1>4. ASSUME NEW s \in Stages, StageStep(s)
      PROVE  RunInv'
  <2>1. UNCHANGED <<run, process>> /\ process # "finished"
    BY <1>4 DEF StageStep, runnerVars, Alive
  <2>2. s \in TaskStages => run[s] # "running"
    <3>1. go[s] = "started" /\ s \in TaskStages => run[s] = "returned"
      BY <1>4 DEF StageStep
    <3> QED
      BY <3>1
  <2>3. go'[s] # "none" /\ \A t \in Stages \ {s} : go'[t] = go[t]
    BY <1>4 DEF StageStep, Goroutine, RunPipeline, StageSucceeds, StageFails, StoreError,
                ForgiveFailure, LeaveStage, IInv, TypeOK
  <2> QED
    BY <2>1, <2>2, <2>3
<1>5. ASSUME NEW s \in Stages, LoopCancels(s) \/ LoopCancelReturns(s)
      PROVE  RunInv'
  BY <1>5 DEF LoopCancels, LoopCancelReturns, CancelReturns, Runner!CancelCall,
              Runner!CancelReturn, vars, Alive
<1>6. CASE Interrupt \/ InterruptReturns
  BY <1>6 DEF Interrupt, InterruptReturns, Runner!CancelCall, Runner!CancelReturn, vars
<1>7. CASE Finish
  BY <1>7 DEF Finish, vars, runnerVars
<1>8. CASE UNCHANGED runVars
  BY <1>8 DEF runVars, vars, runnerVars
<1> QED
  BY <1>1, <1>2, <1>3, <1>4, <1>5, <1>6, <1>7, <1>8 DEF RunNext, StageRun

\* The invariant of the process, on top of those of the scheduler.
THEOREM RunInvariance == RunSpec => [](IInv /\ NestInv /\ RunInv)
<1>1. RunInit => RunInv
  BY NestingAssumption DEF RunInit, Init, Runner!Init, RunInv, RunInsideStage,
                           FinishAfterSchedule, TaskStages
<1>2. IInv /\ RunInv /\ [RunNext]_runVars => RunInv'
  BY RunInvKept
<1> QED
  BY <1>1, <1>2, RunsScheduler, NestInvariance, PTL DEF RunSpec

(***************************************************************************)
(* Finish (run.go:162) comes after every Run, at any depth of nesting and  *)
(* however the run was cancelled.                                          *)
(***************************************************************************)
THEOREM FinishAfterTasksHolds == RunSpec => []FinishAfterTasks
<1>1. IInv /\ NestInv /\ RunInv => FinishAfterTasks
  <2> SUFFICES ASSUME IInv, NestInv, RunInv, process = "finished",
                      NEW s \in TaskStages, run[s] = "running"
               PROVE  FALSE
    BY DEF FinishAfterTasks
  <2>1. pc[Top] = "returned" /\ go[s] = "started" /\ s \in Stages
    BY DEF RunInv, FinishAfterSchedule, RunInsideStage, TaskStages
  <2> QED
    BY <2>1, AllQuiet DEF Active
<1> QED
  BY <1>1, RunInvariance, PTL

(***************************************************************************)
(* Tasks run in dependency order (checkStatus, runStage): when a task is   *)
(* run, no Run is under way in anything it depends on.                     *)
(***************************************************************************)
THEOREM RunsInOrderHolds == RunSpec => []RunsInOrder
<1>1. IInv /\ RunInv => RunsInOrder
  <2> SUFFICES ASSUME IInv, RunInv, NEW s \in TaskStages, run[s] # "idle", NEW p \in Parents(s)
               PROVE  /\ ~Pending(p)
                      /\ p \in TaskStages => run[p] # "running"
                      /\ \A q \in TaskStages : GraphOf[q] = Pipeline[p] => run[q] # "running"
    BY DEF RunsInOrder
  <2>1. s \in Stages /\ go[s] # "none" /\ p \in Stages
    BY DefinitionFacts DEF IInv, RunInv, RunInsideStage, TaskStages
  <2>2. status[p] \in {"Done", "Skipped", "Error"}
    BY <2>1 DEF IInv, DependencyOrder, Passes
  <2>3. p \in TaskStages => run[p] # "running"
    BY <2>1, <2>2 DEF IInv, GoStatus, RunInv, RunInsideStage
  <2>4. ASSUME NEW q \in TaskStages, GraphOf[q] = Pipeline[p], run[q] = "running"
        PROVE  FALSE
    <3>1. q \in Stages /\ Active(q)
      BY <2>4 DEF TaskStages, RunInv, RunInsideStage, Active
    <3>2. GraphOf[q] \in Graphs /\ Pipeline[p] # None /\ q \in NodesOf(GraphOf[q])
      BY <2>4, <3>1, NestingAssumption DEF NodesOf
    <3>3. pc[Pipeline[p]] \notin {"idle", "returned"}
      BY <2>4, <3>1, <3>2 DEF IInv, QuietOutsideLoop
    <3>4. go[p] = "nested"
      BY <2>1, <3>2, <3>3 DEF IInv, OwnerWaits
    <3> QED
      BY <2>1, <2>2, <3>4 DEF IInv, GoStatus
  <2> QED
    BY <2>2, <2>3, <2>4 DEF Pending
<1> QED
  BY <1>1, RunInvariance, PTL
=============================================================================
