-------------------------- MODULE TaskRunnerProofs --------------------------
(***************************************************************************)
(* Proofs about TaskRunner, for any tasks, contexts, definitions and       *)
(* number of Cancels.                                                      *)
(***************************************************************************)
EXTENDS TaskRunner, TLAPS

(***************************************************************************)
(* The inductive invariant, by parts.                                      *)
(***************************************************************************)

\* onceUp: one task at a time runs the up commands of a context.
UpOnce ==
  /\ \A t \in Tasks : pc[t] \in {"up", "upping", "hook"} => Hooked(t)
  /\ \A t \in Tasks : pc[t] = "upping" => up[Context(t)] = "running"
  /\ \A t, u \in Tasks : pc[t] = "upping" /\ pc[u] = "upping" /\ Context(t) = Context(u) => t = u

\* A task past its first contextForTask has a context that is up.
Prepared ==
  \A t \in Tasks :
    Hooked(t) /\ ((site[t] # "run" /\ InFlight(t)) \/ UsesContext(t)) => up[Context(t)] = "ok"

\* The clean up list holds the contexts whose up was run, or is about to be.
Listed ==
  \A c \in Contexts :
    c \in cleanup <=> up[c] # "no" \/ \E t \in Tasks : pc[t] = "up" /\ Context(t) = c

\* Finish runs alone, and takes down only what is listed.
Finishing ==
  /\ finish # "idle" => \A t \in Tasks : ~InFlight(t)
  /\ down # {} => finish # "idle"
  /\ down \subseteq cleanup
  /\ finish = "done" => cleanup \subseteq down

Over(t) == pc[t] \in {"closing", "release", "returned"}

\* How much of the task has been done, by where Run is.
Progress(t) ==
  /\ ~Over(t) => answer[t] = "none" /\ t \notin errored \cup skipped \cup afterRan
  /\ ~Over(t) /\ site[t] # "after" => t \notin stored
  /\ ~Over(t) /\ site[t] \in {"run", "condition", "before"} => jobs[t] = def[t].jobs
  /\ ~Over(t) /\ site[t] = "after" => jobs[t] = 0 /\ (HasArtifact(t) => t \in stored)
  /\ pc[t] \in {"job", "store", "compile"} => site[t] = "execute"
  /\ pc[t] = "store" => jobs[t] = 0
  /\ pc[t] = "idle" => site[t] = "run"

Complete(t) ==
  answer[t] = "nil" =>
    /\ t \notin errored
    /\ IF t \in skipped
       THEN jobs[t] = def[t].jobs /\ t \notin stored \cup afterRan
       ELSE /\ jobs[t] = 0
            /\ HasArtifact(t) => t \in stored
            /\ "after" \in def[t].sites => t \in afterRan

Rank == [s \in Sites |-> CASE s = "run" -> 1 [] s = "condition" -> 2 [] s = "before" -> 3
                           [] s = "execute" -> 4 [] s = "after" -> 5]

\* The context's Before has run at most once for each site passed, After once.
HookCount(t) ==
  /\ hooks[t] <= Rank[site[t]]
  /\ pc[t] \in {"idle", "lookup", "up", "upping", "hook", "compile"} => hooks[t] < Rank[site[t]]
  /\ Hooked(t) /\ (site[t] # "run" \/ pc[t] \in {"work", "closing"}) => hooks[t] >= 1
  /\ afters[t] = 1 => pc[t] \in {"release", "returned"}
  /\ Hooked(t) /\ site[t] # "run" /\ pc[t] \in {"release", "returned"} => afters[t] = 1

IInv ==
  /\ TypeOK
  /\ UpOnce
  /\ Prepared
  /\ Listed
  /\ Finishing
  /\ \A t \in Tasks : Progress(t) /\ Complete(t) /\ HookCount(t)
-----------------------------------------------------------------------------
\* What RunnerAssumption says of the definition of a task.
LEMMA DefinitionFacts ==
  ASSUME TypeOK, NEW t \in Tasks
  PROVE  /\ def[t].context \in Contexts \cup {Default, Unknown}
         /\ def[t].sites \in SUBSET Sites
         /\ def[t].jobs \in 1..MaxJobs
BY RunnerAssumption DEF TypeOK, DefinitionType

\* The sites are passed in the order of their ranks.
LEMMA RankFacts ==
  /\ Rank["run"] = 1 /\ Rank["condition"] = 2 /\ Rank["before"] = 3
  /\ Rank["execute"] = 4 /\ Rank["after"] = 5
BY DEF Rank, Sites

\* The effects of a step of Run on where it is: one of the ways Run moves on.
LEMMA RunMoves ==
  ASSUME TypeOK, NEW t \in Tasks, Begin(t) \/ Run(t)
  PROVE  /\ UNCHANGED <<def, down, finish, canceling, waiter>>
         /\ finish = "idle" \/ InFlight(t)
         /\ \A u \in Tasks \ {t} :
              /\ UNCHANGED <<pc[u], site[u], jobs[u], answer[u], hooks[u], afters[u]>>
              /\ u \in stored' <=> u \in stored
              /\ u \in errored' <=> u \in errored
              /\ u \in skipped' <=> u \in skipped
              /\ u \in afterRan' <=> u \in afterRan
<1> USE DEF TypeOK, At, Goto, Ask, Leave, LeaveEarly, LeaveContext, Advance, taskVars, ctxVars,
            cancelVars, InFlight
<1>1. CASE Begin(t)
  BY <1>1 DEF Begin
<1>2. CASE LookUp(t) \/ UpBegins(t) \/ UpEnds(t) \/ UpAnswers(t) \/ ContextBefore(t)
  BY <1>2 DEF LookUp, UpBegins, UpEnds, UpAnswers, ContextBefore
<1>3. CASE Prepare(t) \/ CheckCondition(t) \/ Before(t) \/ Compile(t) \/ MakeExecutor(t)
  BY <1>3 DEF Prepare, CheckCondition, Before, Compile, MakeExecutor
<1>4. CASE JobEnds(t) \/ JobFails(t) \/ JobTemplateFails(t) \/ JobsDone(t)
  BY <1>4 DEF JobEnds, JobFails, JobTemplateFails, JobsDone
<1>5. CASE StoreTaskOutput(t) \/ After(t) \/ Close(t) \/ Release(t)
  BY <1>5 DEF StoreTaskOutput, After, Close, Release
<1> QED
  BY <1>1, <1>2, <1>3, <1>4, <1>5 DEF Run

\* The steps of Run keep the types; the hooks run at most once for each site.
LEMMA RunType ==
  ASSUME IInv, NEW t \in Tasks, Begin(t) \/ Run(t)
  PROVE  TypeOK'
<1>0. hooks[t] \in Nat /\ afters[t] \in 0..1
  BY DEF IInv, TypeOK, MaxHooks
<1>h. pc[t] = "hook" => hooks[t] + 1 \in 0..MaxHooks
  BY <1>0, RankFacts DEF IInv, TypeOK, HookCount, MaxHooks, Sites
<1>a. pc[t] = "closing" => afters[t] + 1 \in 0..1
  BY <1>0 DEF IInv, HookCount
<1>j. jobs[t] > 0 => jobs[t] - 1 \in 0..MaxJobs
  BY RunnerAssumption DEF IInv, TypeOK
<1> USE DEF IInv, TypeOK, At, Goto, Ask, Leave, LeaveEarly, LeaveContext, Advance,
            RunStates, Sites, taskVars, ctxVars, cancelVars, Hooked, Context
<1>1. CASE Begin(t)
  BY <1>1 DEF Begin
<1>2. CASE LookUp(t)
  BY <1>2 DEF LookUp
<1>3. CASE UpBegins(t) \/ UpEnds(t) \/ UpAnswers(t)
  BY <1>3 DEF UpBegins, UpEnds, UpAnswers
<1>4. CASE ContextBefore(t)
  BY <1>4, <1>h DEF ContextBefore
<1>5. CASE Prepare(t)
  BY <1>5 DEF Prepare
<1>6. CASE CheckCondition(t)
  BY <1>6 DEF CheckCondition
<1>7. CASE Before(t)
  BY <1>7 DEF Before
<1>8. CASE Compile(t) \/ MakeExecutor(t)
  BY <1>8 DEF Compile, MakeExecutor
<1>9. CASE JobEnds(t) \/ JobFails(t) \/ JobTemplateFails(t) \/ JobsDone(t)
  BY <1>9, <1>j DEF JobEnds, JobFails, JobTemplateFails, JobsDone
<1>10. CASE StoreTaskOutput(t)
  BY <1>10 DEF StoreTaskOutput
<1>11. CASE After(t)
  BY <1>11 DEF After
<1>12. CASE Close(t) \/ Release(t)
  BY <1>12, <1>a DEF Close, Release
<1> QED
  BY <1>1, <1>2, <1>3, <1>4, <1>5, <1>6, <1>7, <1>8, <1>9, <1>10, <1>11, <1>12 DEF Run

\* How a step of Run changes what has been done of its task.
LEMMA RunProgress ==
  ASSUME IInv, NEW t \in Tasks, Begin(t) \/ Run(t)
  PROVE  Progress(t)' /\ Complete(t)'
<1> USE DefinitionFacts DEF IInv, TypeOK, At, Goto, Ask, Leave, LeaveEarly, LeaveContext, Advance,
            RunStates, Sites, taskVars, ctxVars, cancelVars, Progress, Complete, Over, HasArtifact
<1>1. CASE Begin(t)
  BY <1>1 DEF Begin
<1>2. CASE LookUp(t)
  BY <1>2 DEF LookUp
<1>3. CASE UpBegins(t) \/ UpEnds(t) \/ UpAnswers(t)
  BY <1>3 DEF UpBegins, UpEnds, UpAnswers
<1>4. CASE ContextBefore(t)
  BY <1>4 DEF ContextBefore
<1>5. CASE Prepare(t)
  BY <1>5 DEF Prepare
<1>6. CASE CheckCondition(t)
  BY <1>6 DEF CheckCondition
<1>7. CASE Before(t)
  BY <1>7 DEF Before
<1>8. CASE Compile(t) \/ MakeExecutor(t)
  BY <1>8 DEF Compile, MakeExecutor
<1>9. CASE JobEnds(t) \/ JobFails(t) \/ JobTemplateFails(t) \/ JobsDone(t)
  BY <1>9 DEF JobEnds, JobFails, JobTemplateFails, JobsDone
<1>10. CASE StoreTaskOutput(t)
  BY <1>10 DEF StoreTaskOutput
<1>11. CASE After(t)
  BY <1>11 DEF After
<1>12. CASE Close(t) \/ Release(t)
  BY <1>12 DEF Close, Release
<1> QED
  BY <1>1, <1>2, <1>3, <1>4, <1>5, <1>6, <1>7, <1>8, <1>9, <1>10, <1>11, <1>12 DEF Run

\* How it changes the number of hooks that have run.
LEMMA RunHooks ==
  ASSUME IInv, NEW t \in Tasks, Begin(t) \/ Run(t)
  PROVE  HookCount(t)'
<1> USE DefinitionFacts, RankFacts DEF IInv, TypeOK, At, Goto, Ask, Leave, LeaveEarly, LeaveContext, Advance,
            RunStates, Sites, taskVars, ctxVars, cancelVars, HookCount, Hooked, Context, Progress, Over
<1>1. CASE Begin(t)
  BY <1>1 DEF Begin
<1>2. CASE LookUp(t)
  BY <1>2, RunnerAssumption DEF LookUp
<1>3. CASE UpBegins(t) \/ UpEnds(t) \/ UpAnswers(t)
  BY <1>3 DEF UpBegins, UpEnds, UpAnswers
<1>4. CASE ContextBefore(t)
  BY <1>4 DEF ContextBefore
<1>5. CASE Prepare(t)
  BY <1>5 DEF Prepare
<1>6. CASE CheckCondition(t)
  BY <1>6 DEF CheckCondition
<1>7. CASE Before(t)
  BY <1>7 DEF Before
<1>8. CASE Compile(t) \/ MakeExecutor(t)
  BY <1>8 DEF Compile, MakeExecutor
<1>9. CASE JobEnds(t) \/ JobFails(t) \/ JobTemplateFails(t) \/ JobsDone(t)
  BY <1>9 DEF JobEnds, JobFails, JobTemplateFails, JobsDone
<1>10. CASE StoreTaskOutput(t)
  BY <1>10 DEF StoreTaskOutput
<1>11. CASE After(t)
  BY <1>11 DEF After
<1>12. CASE Close(t) \/ Release(t)
  BY <1>12 DEF Close, Release
<1> QED
  BY <1>1, <1>2, <1>3, <1>4, <1>5, <1>6, <1>7, <1>8, <1>9, <1>10, <1>11, <1>12 DEF Run
-----------------------------------------------------------------------------
\* What a step of Run does to the state of its context, and by whom.
LEMMA RunUps ==
  ASSUME IInv, NEW t \in Tasks, Begin(t) \/ Run(t)
  PROVE  \/ UNCHANGED up
         \/ UpBegins(t)
         \/ UpEnds(t)
<1> USE DEF ctxVars
<1> QED
  BY DEF Begin, Run, LookUp, UpAnswers, ContextBefore, Prepare, CheckCondition, Before, Compile,
         MakeExecutor, JobEnds, JobFails, JobTemplateFails, JobsDone, StoreTaskOutput, After,
         Close, Release

\* Where the task can be after a step of Run, with respect to its context.
LEMMA RunContext ==
  ASSUME IInv, NEW t \in Tasks, Begin(t) \/ Run(t)
  PROVE  /\ pc'[t] \in {"up", "upping", "hook"} => Hooked(t)
         /\ pc'[t] = "upping" => UpBegins(t)
         /\ pc'[t] = "hook" => up[Context(t)] = "ok" /\ UNCHANGED up
         /\ Hooked(t) /\ pc'[t] \in {"work", "compile", "job", "store", "closing"} =>
              up[Context(t)] = "ok" /\ UNCHANGED up
         /\ Hooked(t) /\ site'[t] # "run" /\ pc'[t] \notin {"returned", "upping", "up"} =>
              up[Context(t)] = "ok" /\ UNCHANGED up
         /\ Hooked(t) /\ site'[t] # "run" /\ pc'[t] = "up" => up[Context(t)] = "ok" /\ LookUp(t)
         /\ pc'[t] = "up" => LookUp(t) \/ UpEnds(t)
         /\ pc'[t] = "idle" => pc[t] = "idle"
<1> USE RunnerAssumption, DefinitionFacts
        DEF IInv, TypeOK, At, Goto, Ask, Leave, LeaveEarly, LeaveContext, Advance, RunStates, Sites,
            taskVars, ctxVars, cancelVars, UpOnce, Prepared, UsesContext, InFlight, Hooked, Context, Progress
<1>1. CASE Begin(t)
  BY <1>1 DEF Begin
<1>2. CASE LookUp(t)
  BY <1>2 DEF LookUp
<1>3. CASE UpBegins(t)
  BY <1>3 DEF UpBegins
<1>4. CASE UpEnds(t)
  <2>1. pc[t] = "upping" /\ Hooked(t) /\ up[Context(t)] = "running"
    BY <1>4 DEF UpEnds
  <2>2. site[t] = "run"
    BY <2>1
  <2>3. pc'[t] = "up" /\ site'[t] = "run"
    BY <1>4, <2>2 DEF UpEnds
  <2> QED
    BY <1>4, <2>1, <2>3
<1>5. CASE UpAnswers(t)
  BY <1>5 DEF UpAnswers
<1>6. CASE ContextBefore(t)
  BY <1>6 DEF ContextBefore
<1>7. CASE Prepare(t)
  BY <1>7 DEF Prepare
<1>8. CASE CheckCondition(t)
  BY <1>8 DEF CheckCondition
<1>9. CASE Before(t)
  BY <1>9 DEF Before
<1>10. CASE Compile(t) \/ MakeExecutor(t)
  BY <1>10 DEF Compile, MakeExecutor
<1>11. CASE JobEnds(t) \/ JobFails(t) \/ JobTemplateFails(t) \/ JobsDone(t)
  BY <1>11 DEF JobEnds, JobFails, JobTemplateFails, JobsDone
<1>12. CASE StoreTaskOutput(t)
  BY <1>12 DEF StoreTaskOutput
<1>13. CASE After(t)
  BY <1>13 DEF After
<1>14. CASE Close(t) \/ Release(t)
  BY <1>14 DEF Close, Release
<1> QED
  BY <1>1, <1>2, <1>3, <1>4, <1>5, <1>6, <1>7, <1>8, <1>9, <1>10, <1>11, <1>12, <1>13, <1>14 DEF Run

\* onceUp.Do: only the first task at the context runs its up commands.
LEMMA UpOnceKept == ASSUME IInv, NEW t \in Tasks, Begin(t) \/ Run(t) PROVE UpOnce'
<1> USE RunMoves, RunContext DEF IInv, UpOnce, Hooked, Context
<1>1. CASE UNCHANGED up
  <2>1. pc'[t] # "upping"
    BY <1>1 DEF UpBegins, TypeOK
  <2> QED
    BY <1>1, <2>1
<1>2. CASE UpBegins(t)
  BY <1>2 DEF UpBegins, At, Goto, TypeOK
<1>3. CASE UpEnds(t)
  BY <1>3 DEF UpEnds, At, Goto, TypeOK
<1> QED
  BY <1>1, <1>2, <1>3, RunUps

\* The state of a context that is up does not change any more.
LEMMA PreparedKept == ASSUME IInv, NEW t \in Tasks, Begin(t) \/ Run(t) PROVE Prepared'
<1> USE RunMoves DEF IInv, Prepared, UsesContext, Hooked, Context, InFlight
<1>1. \A c \in Contexts : up[c] = "ok" => up'[c] = "ok"
  <2>1. CASE UpBegins(t)
    BY <2>1 DEF UpBegins, TypeOK
  <2>2. CASE UpEnds(t)
    BY <2>2 DEF UpEnds, TypeOK, UpOnce, At
  <2> QED
    BY <2>1, <2>2, RunUps
<1>2. ASSUME NEW u \in Tasks \ {t}, Hooked(u)
      PROVE  ((site'[u] # "run" /\ InFlight(u)') \/ UsesContext(u)') => up'[Context(u)] = "ok"
  BY <1>1, <1>2
<1>3. ASSUME Hooked(t), (site'[t] # "run" /\ InFlight(t)') \/ UsesContext(t)'
      PROVE  up'[Context(t)] = "ok"
  <2>1. CASE pc'[t] = "upping"
    <3>1. UpBegins(t)
      BY <2>1, RunContext
    <3> QED
      BY <1>3, <2>1, <3>1 DEF UpBegins, At, Goto
  <2>2. CASE pc'[t] = "up"
    BY <1>1, <1>3, <2>2, RunContext
  <2>3. CASE pc'[t] \notin {"up", "upping"}
    BY <1>1, <1>3, <2>3, RunContext
  <2> QED
    BY <2>1, <2>2, <2>3
<1> QED
  BY <1>2, <1>3

\* A context is listed before its up is run.
LEMMA ListedKept == ASSUME IInv, NEW t \in Tasks, Begin(t) \/ Run(t) PROVE Listed'
<1> USE RunMoves DEF IInv, Listed, Hooked, Context
<1>1. CASE LookUp(t)
  BY <1>1, RunnerAssumption DEF LookUp, At, Goto, TypeOK, LeaveContext, LeaveEarly, Leave
<1>2. CASE UpBegins(t)
  BY <1>2 DEF UpBegins, At, Goto, TypeOK, UpOnce
<1>3. CASE UpEnds(t)
  BY <1>3 DEF UpEnds, At, Goto, TypeOK, UpOnce
<1>4. CASE UpAnswers(t)
  BY <1>4 DEF UpAnswers, At, Goto, TypeOK, LeaveContext, LeaveEarly, Leave, ctxVars
<1>5. CASE ~(LookUp(t) \/ UpBegins(t) \/ UpEnds(t) \/ UpAnswers(t))
  <2>1. UNCHANGED <<up, cleanup>> /\ pc[t] # "up"
    BY <1>5 DEF Begin, Run, ContextBefore, Prepare, CheckCondition, Before, Compile,
         MakeExecutor, JobEnds, JobFails, JobTemplateFails, JobsDone, StoreTaskOutput, After,
         Close, Release, ctxVars, At
  <2>2. pc'[t] # "up"
    BY <1>5, RunContext
  <2> QED
    BY <2>1, <2>2
<1> QED
  BY <1>1, <1>2, <1>3, <1>4, <1>5

\* No Run begins, or goes on, once Finish was called.
LEMMA FinishingKept == ASSUME IInv, NEW t \in Tasks, Begin(t) \/ Run(t) PROVE Finishing'
<1>1. finish = "idle" /\ UNCHANGED <<finish, down>>
  BY RunMoves DEF IInv, Finishing
<1>2. down = {}
  BY <1>1 DEF IInv, Finishing
<1> QED
  BY <1>1, <1>2 DEF Finishing

\* Every step of a Run keeps the invariant, of its own task and of the others.
LEMMA RunKeepsIInv == ASSUME IInv, NEW t \in Tasks, Begin(t) \/ Run(t) PROVE IInv'
<1>1. ASSUME NEW u \in Tasks \ {t}
      PROVE  Progress(u)' /\ Complete(u)' /\ HookCount(u)'
  <2>1. Progress(u) /\ Complete(u) /\ HookCount(u)
    BY DEF IInv
  <2> QED
    BY <2>1, RunMoves DEF IInv, Progress, Complete, HookCount, Over, HasArtifact, Hooked, Context
<1> QED
  BY <1>1, RunType, UpOnceKept, PreparedKept, ListedKept, FinishingKept, RunProgress, RunHooks DEF IInv

\* Cancel touches nothing but the flag, the channel and its own place.
LEMMA OthersKeepIInv ==
  ASSUME IInv,
         UNCHANGED <<def, pc, site, jobs, answer, taskVars, up, cleanup>>,
         TypeOK', Finishing'
  PROVE  IInv'
<1> USE DEF IInv, taskVars
<1>1. UpOnce' /\ Prepared' /\ Listed'
  BY DEF UpOnce, Prepared, Listed, UsesContext, InFlight, Hooked, Context
<1>2. ASSUME NEW u \in Tasks
      PROVE  Progress(u)' /\ Complete(u)' /\ HookCount(u)'
  <2>1. Progress(u) /\ Complete(u) /\ HookCount(u)
    OBVIOUS
  <2> QED
    BY <2>1 DEF Progress, Complete, HookCount, Over, HasArtifact, Hooked, Context
<1> QED
  BY <1>1, <1>2

\* The invariant of Run, Cancel and Finish.
THEOREM Invariance == Spec => []IInv
<1>1. Init => IInv
  <2> SUFFICES ASSUME Init PROVE IInv
    OBVIOUS
  <2> USE RunnerAssumption DEF Init
  <2>1. TypeOK
    <3>1. jobs \in [Tasks -> 0..MaxJobs]
      BY DEF DefinitionType
    <3> QED
      BY <3>1 DEF TypeOK, RunStates, Sites, MaxHooks
  <2>2. UpOnce /\ Prepared /\ Listed /\ Finishing
    BY DEF UpOnce, Prepared, Listed, Finishing, UsesContext, InFlight
  <2>3. \A t \in Tasks : Progress(t) /\ Complete(t) /\ HookCount(t)
    BY RankFacts DEF Progress, Complete, HookCount, Over
  <2> QED
    BY <2>1, <2>2, <2>3 DEF IInv
<1>2. IInv /\ [Next]_vars => IInv'
  <2> SUFFICES ASSUME IInv, [Next]_vars PROVE IInv'
    OBVIOUS
  <2>1. ASSUME NEW t \in Tasks, Begin(t) \/ Run(t)
        PROVE  IInv'
    BY <2>1, RunKeepsIInv
  <2>2. ASSUME NEW k \in Cancellers, Cancel(k) \/ CancelReturns(k)
        PROVE  IInv'
    <3>1. TypeOK' /\ Finishing'
      BY <2>2 DEF Cancel, CancelReturns, IInv, TypeOK, Finishing, InFlight, taskVars, ctxVars
    <3> QED
      BY <2>2, <3>1, OthersKeepIInv DEF Cancel, CancelReturns, ctxVars
  <2>3. CASE Finish
    <3>1. TypeOK' /\ Finishing'
      BY <2>3 DEF Finish, FinishBegins, FinishEnds, Down, IInv, TypeOK, Finishing, InFlight,
                  taskVars, cancelVars
    <3> QED
      BY <2>3, <3>1, OthersKeepIInv DEF Finish, FinishBegins, FinishEnds, Down
  <2>4. CASE UNCHANGED vars
    <3>1. TypeOK' /\ Finishing'
      BY <2>4 DEF vars, taskVars, ctxVars, cancelVars, IInv, TypeOK, Finishing, InFlight
    <3> QED
      BY <2>4, <3>1, OthersKeepIInv DEF vars, ctxVars
  <2> QED
    BY <2>1, <2>2, <2>3, <2>4 DEF Next
<1> QED
  BY <1>1, <1>2, PTL DEF Spec

(***************************************************************************)
(* Every hook and command runs in a context that is up and not yet down,   *)
(* whichever task came first (Up, Finish).                                 *)
(***************************************************************************)
THEOREM ContextLifetimeHolds == Spec => []ContextLifetime
<1>1. IInv => ContextLifetime
  BY DEF IInv, Prepared, Finishing, ContextLifetime, UsesContext, InFlight
<1> QED
  BY <1>1, Invariance, PTL

(***************************************************************************)
(* Finish takes down exactly the contexts whose up was run, with no Run in *)
(* flight (Finish, contextForTask).                                        *)
(***************************************************************************)
THEOREM FinishTakesDownHolds == Spec => []FinishTakesDown
<1>1. IInv => FinishTakesDown
  BY DEF IInv, TypeOK, Listed, Finishing, FinishTakesDown, InFlight
<1> QED
  BY <1>1, Invariance, PTL

\* Context.After runs once, on every return of Run (the deferred clean up).
THEOREM AfterRunsOnceHolds == Spec => []AfterRunsOnce
<1>1. IInv => AfterRunsOnce
  BY DEF IInv, HookCount, AfterRunsOnce, Started
<1> QED
  BY <1>1, Invariance, PTL

\* Run answers nil only when the task is complete or was skipped whole.
THEOREM NilMeansCompleteHolds == Spec => []NilMeansComplete
<1>1. IInv => NilMeansComplete
  BY DEF IInv, Complete, NilMeansComplete
<1> QED
  BY <1>1, Invariance, PTL
-----------------------------------------------------------------------------
(***************************************************************************)
(* A Run, whatever its path, meets Cancel as RunnerCancel says: Begin is   *)
(* BeginRun, the deferred release is EndRun, the steps between are none.   *)
(***************************************************************************)
LEMMA StepImplementsCancel ==
  ASSUME IInv, [Next]_vars
  PROVE  [CancelProtocol!Next]_(CancelProtocol!vars)
<1> DEFINE Place(p) == IF p \in {"idle", "returned"} THEN p ELSE "running"
           R == [t \in Tasks |-> Place(pc[t])]
<1> USE DEF IInv, TypeOK
<1>1. ASSUME NEW t \in Tasks, Begin(t)
      PROVE  CancelProtocol!BeginRun(t)
  <2>1. R' = [R EXCEPT ![t] = "running"] /\ R[t] = "idle"
    BY <1>1 DEF Begin, At, Goto
  <2> QED
    BY <1>1, <2>1 DEF Begin, At, cancelVars, CancelProtocol!BeginRun
<1>2. ASSUME NEW t \in Tasks, Release(t)
      PROVE  CancelProtocol!EndRun(t)
  <2>1. R' = [R EXCEPT ![t] = "returned"] /\ R[t] = "running"
    BY <1>2 DEF Release, At, Goto
  <2> QED
    BY <1>2, <2>1 DEF Release, At, CancelProtocol!EndRun, CancelProtocol!Release
<1>3. ASSUME NEW t \in Tasks, Run(t), ~Release(t)
      PROVE  UNCHANGED CancelProtocol!vars
  <2>1. UNCHANGED cancelVars
    BY <1>3 DEF Run, LookUp, UpBegins, UpEnds, UpAnswers, ContextBefore, Prepare, CheckCondition,
                Before, Compile, MakeExecutor, JobEnds, JobFails, JobTemplateFails, JobsDone,
                StoreTaskOutput, After, Close
  <2>2. pc[t] \notin {"idle", "returned"} /\ pc'[t] \notin {"idle", "returned"}
    BY <1>3 DEF Run, LookUp, UpBegins, UpEnds, UpAnswers, ContextBefore, Prepare, CheckCondition,
                Before, Compile, MakeExecutor, JobEnds, JobFails, JobTemplateFails, JobsDone,
                StoreTaskOutput, After, Close, At, Goto, Ask, Leave, LeaveEarly, LeaveContext, Advance
  <2>3. R' = R
    BY <1>3, <2>2, RunMoves
  <2> QED
    BY <2>1, <2>3 DEF cancelVars, CancelProtocol!vars
<1>4. ASSUME NEW k \in Cancellers, Cancel(k) \/ CancelReturns(k)
      PROVE  CancelProtocol!CancelCall(k) \/ CancelProtocol!CancelReturn(k)
  BY <1>4 DEF Cancel, CancelReturns, CancelProtocol!CancelCall, CancelProtocol!CancelReturn
<1>5. CASE Finish \/ UNCHANGED vars
  BY <1>5 DEF Finish, FinishBegins, FinishEnds, Down, vars, cancelVars, CancelProtocol!vars
<1> QED
  BY <1>1, <1>2, <1>3, <1>4, <1>5 DEF Next, CancelProtocol!Next

\* Run and Cancel of TaskRunner implement RunnerCancel (runner.go:109, 218).
THEOREM CancelRefinement == Spec => ImplementsCancelProtocol
<1>1. Init => CancelProtocol!Init
  BY DEF Init, CancelProtocol!Init
<1>2. IInv /\ [Next]_vars => [CancelProtocol!Next]_(CancelProtocol!vars)
  BY StepImplementsCancel
<1> QED
  BY <1>1, <1>2, Invariance, PTL DEF Spec, ImplementsCancelProtocol, CancelProtocol!Spec
=============================================================================
