--------------------------- MODULE WatcherProofs ---------------------------
(***************************************************************************)
(* Proofs about RunnerCancel, for any sets of Runs and of Cancellers, and  *)
(* about Watcher, for any number of watchers and of file events.           *)
(***************************************************************************)
EXTENDS Watcher, TLAPS

(***************************************************************************)
(* doneCh is closed only by a Run that ended while cancelling; the panic   *)
(* comes from another one.                                                 *)
(***************************************************************************)
ClosedByRun == doneCh = "closed" => canceling = 1 /\ Returned # {}

IInv ==
  /\ TypeOK
  /\ ClosedByRun
  /\ CancelWaitsForRun
  /\ PanicNeedsTwoRuns

\* At the start no Run and no Cancel has been called.
LEMMA InitIInv == Init => IInv
BY DEF Init, IInv, TypeOK, ClosedByRun, CancelWaitsForRun, PanicNeedsTwoRuns, Returned

\* One step of Run (runner.go:111) or of Cancel (runner.go:218).
LEMMA NextIInv == IInv /\ [Next]_vars => IInv'
<1> SUFFICES ASSUME IInv, [Next]_vars PROVE IInv'
  OBVIOUS
<1> USE DEF IInv, TypeOK, ClosedByRun, CancelWaitsForRun, PanicNeedsTwoRuns, Returned
<1>1. ASSUME NEW r \in Runs, BeginRun(r) PROVE IInv'
  BY <1>1 DEF BeginRun
<1>2. ASSUME NEW r \in Runs, EndRun(r) PROVE IInv'
  <2>1. TypeOK'
    BY <1>2 DEF EndRun, Release
  <2>2. r \notin Returned /\ Returned' = Returned \cup {r}
    BY <1>2 DEF EndRun
  <2>3. ClosedByRun' /\ CancelWaitsForRun'
    BY <1>2, <2>2 DEF EndRun, Release
  <2>4. PanicNeedsTwoRuns'
    <3>1. ASSUME panicked' = 1 PROVE canceling' = 1 /\ \E q, s \in Returned' : q # s
      <4>1. canceling = 1 /\ Returned # {} /\ canceling' = canceling
        BY <1>2, <3>1 DEF EndRun, Release
      <4>2. PICK q \in Returned : TRUE
        BY <4>1
      <4> QED BY <4>1, <4>2, <2>2
    <3> QED BY <3>1
  <2> QED BY <2>1, <2>3, <2>4
<1>3. ASSUME NEW c \in Cancellers, CancelCall(c) PROVE IInv'
  BY <1>3 DEF CancelCall
<1>4. ASSUME NEW c \in Cancellers, CancelReturn(c) PROVE IInv'
  BY <1>4 DEF CancelReturn
<1>5. CASE UNCHANGED vars
  BY <1>5 DEF vars
<1> QED BY <1>1, <1>2, <1>3, <1>4, <1>5 DEF Next

\* The inductive invariant of the meeting of Cancel (runner.go:218) and Run.
THEOREM Invariance == Spec => []IInv
BY InitIInv, NextIInv, PTL DEF Spec

\* TaskRunner.Cancel returns only after a Run has ended (runner.go:226).
THEOREM CancelWaitsForRunHolds == Spec => []CancelWaitsForRun
<1>1. IInv => CancelWaitsForRun
  BY DEF IInv
<1> QED BY <1>1, Invariance, PTL

\* The close that panics (runner.go:114) needs two Runs and a Cancel.
THEOREM PanicNeedsTwoRunsHolds == Spec => []PanicNeedsTwoRuns
<1>1. IInv => PanicNeedsTwoRuns
  BY DEF IInv
<1> QED BY <1>1, Invariance, PTL

-----------------------------------------------------------------------------
(***************************************************************************)
(* The inductive invariant, by parts, beside that of RunnerCancel.         *)
(***************************************************************************)

\* Only a Close past its critical section has set isClosed.
ClosedByClose == \A w \in Watchers : w \in isClosed => closer[w] \in {"wait", "returned"}

\* A watcher that was not started has no loop.
LoopStarted == \A w \in Watchers : starter[w] = "idle" => loop[w] = "idle"

\* A Cancel that returned found doneCh closed; nothing opens it again.
ReleasedByClose ==
  \A c \in Cancellers : waiter[c] = "returned" => doneCh = "closed" /\ canceling = 1

\* A handler runs the task after its own Cancel has returned.
RerunAfterCancel == \A e \in Events : run[e] # "idle" => waiter[e] = "returned"

RunnerSide == IInv /\ ReleasedByClose /\ RerunAfterCancel /\ RerunFollowsRun

LoopSide == ClosedByClose /\ LoopStarted /\ CloseIsNotLockedOut

WatchInv == WatchTypeOK /\ RunnerSide /\ LoopSide

\* The steps that call into the runner, and the others.
RunnerStep ==
  \/ \E w \in Watchers : FirstRun(w)
  \/ \E e \in Events : HandlerCancels(e) \/ HandlerCancelReturns(e) \/ BeginRerun(e) \/ EndRerun(e)
  \/ SignalCancels \/ SignalCancelReturns

LoopStep ==
  \/ \E w \in Watchers : Watch(w) \/ Poll(w) \/ Close(w)
  \/ \E e \in Events : Ignore(e) \/ FileEvent(e)
  \/ Interrupt \/ ProcessEnds
-----------------------------------------------------------------------------
\* A step of eirctl watch is of one of the two kinds.
LEMMA StepKinds == WatchNext => RunnerStep \/ LoopStep
BY DEF WatchNext, RunnerStep, LoopStep, Handle

\* Steps of the loop, of Close and of the world do not reach the runner.
LEMMA LoopStepLocal == LoopStep => UNCHANGED vars
BY DEF LoopStep, Watch, StartWatcher, EventsWait, WatcherReturns, Poll, LoopTop, PollAgain,
  PollClosed, Receive, Close, CloseFsw, CloseMark, CloseReturns, ChannelsClose, Ignore, FileEvent,
  Interrupt, ProcessEnds

\* Steps of the runner leave the loop, the lock and Close alone.
LEMMA RunnerStepLocal ==
  RunnerStep => UNCHANGED <<starter, loop, locked, isClosed, fsw, pending, closer, signalled, process>>
BY DEF RunnerStep, FirstRun, BeginFirstRun, EndFirstRun, HandlerCancels, HandlerCancelReturns,
  BeginRerun, EndRerun, SignalCancels, SignalCancelReturns, watchVars

\* Every step of eirctl watch is a step of RunnerCancel or none.
LEMMA StepOfRunner == [WatchNext]_allVars => [Next]_vars
<1> SUFFICES ASSUME [WatchNext]_allVars PROVE [Next]_vars
  OBVIOUS
<1>1. CASE RunnerStep
  BY <1>1, WatcherAssumption
  DEF RunnerStep, FirstRun, BeginFirstRun, EndFirstRun, HandlerCancels, HandlerCancelReturns,
    BeginRerun, EndRerun, SignalCancels, SignalCancelReturns, Next
<1>2. CASE LoopStep BY <1>2, LoopStepLocal
<1>3. CASE UNCHANGED allVars BY <1>3 DEF allVars
<1>4. QED BY <1>1, <1>2, <1>3, StepKinds

(***************************************************************************)
(* A run of eirctl watch is a run of RunnerCancel, so what RunnerCancel    *)
(* proves of Run and Cancel (runner.go) holds of the watch command.        *)
(***************************************************************************)
THEOREM WatchRunsRunner == WatchSpec => Spec
<1>1. WatchInit => Init BY DEF WatchInit
<1>2. QED BY <1>1, StepOfRunner, PTL DEF WatchSpec, Spec
-----------------------------------------------------------------------------
\* Every step of eirctl watch keeps the types.
LEMMA TypeKept == ASSUME WatchTypeOK, IInv, [WatchNext]_allVars PROVE WatchTypeOK'
<1>1. TypeOK' BY NextIInv, StepOfRunner DEF IInv
<1>2. CASE LoopStep
  <2> USE <1>1 DEF WatchTypeOK
  <2>1. ASSUME NEW w \in Watchers, Watch(w) PROVE WatchTypeOK'
    BY <2>1 DEF Watch, StartWatcher, EventsWait, WatcherReturns
  <2>2. ASSUME NEW w \in Watchers, Poll(w) PROVE WatchTypeOK'
    BY <2>2 DEF Poll, LoopTop, PollAgain, PollClosed, Receive
  <2>3. ASSUME NEW w \in Watchers, Close(w) PROVE WatchTypeOK'
    BY <2>3 DEF Close, CloseFsw, CloseMark, CloseReturns, ChannelsClose
  <2>4. ASSUME NEW e \in Events, Ignore(e) \/ FileEvent(e) PROVE WatchTypeOK'
    BY <2>4 DEF Ignore, FileEvent
  <2>5. CASE Interrupt \/ ProcessEnds BY <2>5 DEF Interrupt, ProcessEnds
  <2>6. QED BY <1>2, <2>1, <2>2, <2>3, <2>4, <2>5 DEF LoopStep
<1>3. CASE RunnerStep
  <2>1. handler' \in [Events -> {"none", "started", "gone"}]
    BY <1>3 DEF WatchTypeOK, RunnerStep, FirstRun, BeginFirstRun, EndFirstRun, HandlerCancels,
      HandlerCancelReturns, BeginRerun, EndRerun, SignalCancels, SignalCancelReturns, watchVars
  <2>2. QED BY <1>1, <1>3, <2>1, RunnerStepLocal DEF WatchTypeOK
<1>4. CASE UNCHANGED allVars BY <1>1, <1>4 DEF allVars, watchVars, WatchTypeOK
<1>5. QED BY <1>2, <1>3, <1>4, StepKinds

\* The loop's break, with the mutex locked, comes after Close has set isClosed.
LEMMA LoopSideKept == ASSUME WatchTypeOK, LoopSide, [WatchNext]_allVars PROVE LoopSide'
<1> USE DEF LoopSide, ClosedByClose, LoopStarted, CloseIsNotLockedOut
<1>1. CASE RunnerStep BY <1>1, RunnerStepLocal
<1>2. CASE UNCHANGED allVars BY <1>2 DEF allVars, watchVars
<1>3. CASE LoopStep
  <2> USE DEF WatchTypeOK
  <2>1. ASSUME NEW w \in Watchers, Watch(w) PROVE LoopSide'
    BY <2>1 DEF Watch, StartWatcher, EventsWait, WatcherReturns
  <2>2. ASSUME NEW w \in Watchers, Poll(w) PROVE LoopSide'
    BY <2>2 DEF Poll, LoopTop, PollAgain, PollClosed, Receive
  <2>3. ASSUME NEW w \in Watchers, Close(w) PROVE LoopSide'
    BY <2>3 DEF Close, CloseFsw, CloseMark, CloseReturns, ChannelsClose
  <2>4. ASSUME NEW e \in Events, Ignore(e) \/ FileEvent(e) PROVE LoopSide'
    BY <2>4 DEF Ignore, FileEvent
  <2>5. CASE Interrupt \/ ProcessEnds BY <2>5 DEF Interrupt, ProcessEnds
  <2>6. QED BY <1>3, <2>1, <2>2, <2>3, <2>4, <2>5 DEF LoopStep
<1>4. QED BY <1>1, <1>2, <1>3, StepKinds

\* A rerun needs a Cancel that returned, and so a Run that ended.
LEMMA RunnerSideKept == ASSUME RunnerSide, [WatchNext]_allVars PROVE RunnerSide'
<1>1. IInv' BY NextIInv, StepOfRunner DEF RunnerSide
<1> USE DEF RunnerSide, IInv, TypeOK, ReleasedByClose, RerunAfterCancel, RerunFollowsRun
<1>2. CASE UNCHANGED vars BY <1>1, <1>2 DEF vars
<1>3. ASSUME NEW w \in Watchers, FirstRun(w) PROVE RunnerSide'
  <2>1. w \in Runs /\ w \notin Events BY WatcherAssumption
  <2>2. CASE BeginFirstRun(w) BY <1>1, <2>1, <2>2, WatcherAssumption DEF BeginFirstRun, BeginRun
  <2>3. CASE EndFirstRun(w) BY <1>1, <2>1, <2>3, WatcherAssumption DEF EndFirstRun, EndRun, Release
  <2>4. QED BY <1>3, <2>2, <2>3 DEF FirstRun
<1>4. ASSUME NEW c \in Cancellers, CancelCall(c) PROVE RunnerSide'
  BY <1>1, <1>4, WatcherAssumption DEF CancelCall
<1>5. ASSUME NEW c \in Cancellers, CancelReturn(c) PROVE RunnerSide'
  BY <1>1, <1>5, WatcherAssumption DEF CancelReturn, ClosedByRun
<1>6. ASSUME NEW e \in Events, BeginRerun(e) PROVE RunnerSide'
  <2>1. e \in Runs /\ e \in Cancellers BY WatcherAssumption
  <2>2. run[e] = "idle" /\ Returned # {}
    BY <1>6, <2>1 DEF BeginRerun, BeginRun, ClosedByRun
  <2>3. QED BY <1>1, <1>6, <2>1, <2>2, WatcherAssumption DEF BeginRerun, BeginRun, Returned
<1>7. ASSUME NEW e \in Events, EndRerun(e) PROVE RunnerSide'
  <2>1. e \in Runs /\ e \in Cancellers BY WatcherAssumption
  <2>2. QED BY <1>1, <1>7, <2>1, WatcherAssumption DEF EndRerun, EndRun, Release
<1>8. CASE RunnerStep
  BY <1>3, <1>4, <1>5, <1>6, <1>7, <1>8, WatcherAssumption
  DEF RunnerStep, HandlerCancels, HandlerCancelReturns, SignalCancels, SignalCancelReturns
<1>9. QED BY <1>2, <1>8, StepKinds, LoopStepLocal DEF allVars
-----------------------------------------------------------------------------
\* The inductive invariant of eirctl watch (watch.go).
THEOREM WatchInvariance == WatchSpec => []WatchInv
<1>1. WatchInit => WatchInv
  <2> SUFFICES ASSUME WatchInit PROVE WatchInv
    OBVIOUS
  <2>1. IInv BY InitIInv DEF WatchInit
  <2>2. WatchTypeOK BY <2>1 DEF WatchInit, WatchTypeOK, IInv
  <2>3. ReleasedByClose /\ RerunAfterCancel /\ RerunFollowsRun
    BY WatcherAssumption DEF WatchInit, Init, ReleasedByClose, RerunAfterCancel, RerunFollowsRun
  <2>4. LoopSide
    BY DEF WatchInit, LoopSide, ClosedByClose, LoopStarted, CloseIsNotLockedOut
  <2>5. QED BY <2>1, <2>2, <2>3, <2>4 DEF WatchInv, RunnerSide
<1>2. WatchInv /\ [WatchNext]_allVars => WatchInv'
  BY TypeKept, LoopSideKept, RunnerSideKept DEF WatchInv, RunnerSide
<1>3. QED BY <1>1, <1>2, PTL DEF WatchSpec

(***************************************************************************)
(* Close is never shut out by the mutex that the loop's break leaves       *)
(* locked (watch.go:126 and 171).                                          *)
(***************************************************************************)
THEOREM CloseIsNotLockedOutHolds == WatchSpec => []CloseIsNotLockedOut
<1>1. WatchInv => CloseIsNotLockedOut BY DEF WatchInv, LoopSide
<1>2. QED BY <1>1, WatchInvariance, PTL

(***************************************************************************)
(* A handler reruns the task only after another Run has ended              *)
(* (watch.go:185-199).                                                     *)
(***************************************************************************)
THEOREM RerunFollowsRunHolds == WatchSpec => []RerunFollowsRun
<1>1. WatchInv => RerunFollowsRun BY DEF WatchInv, RunnerSide
<1>2. QED BY <1>1, WatchInvariance, PTL
=============================================================================
