---------------------------- MODULE RunnerCancel ----------------------------
(***************************************************************************)
(* How TaskRunner.Cancel and TaskRunner.Run meet (runner/runner.go): the   *)
(* flag canceling, written and read under cancelMutex, and the channel     *)
(* doneCh, on which every Cancel waits and which the last deferred call of *)
(* every Run closes once the runner is cancelling.  Closing a closed       *)
(* channel is a panic of the whole process.  What a Run does in between is *)
(* left out; TaskRunner has it, and implements this specification.         *)
(***************************************************************************)
CONSTANTS
  Runs,       \* the calls of Run
  Cancellers  \* the goroutines that call Cancel

VARIABLES
  run,        \* where each Run is
  canceling,  \* TaskRunner.canceling: 0 or 1
  doneCh,     \* TaskRunner.doneCh: "open" or "closed"
  waiter,     \* where each Cancel is
  panicked    \* 1 after a close of the closed doneCh

vars == <<run, canceling, doneCh, waiter, panicked>>

TypeOK ==
  /\ run \in [Runs -> {"idle", "running", "returned"}]
  /\ canceling \in {0, 1}
  /\ doneCh \in {"open", "closed"}
  /\ waiter \in [Cancellers -> {"idle", "waiting", "returned"}]
  /\ panicked \in {0, 1}

Init ==
  /\ run = [r \in Runs |-> "idle"]
  /\ canceling = 0
  /\ doneCh = "open"
  /\ waiter = [c \in Cancellers |-> "idle"]
  /\ panicked = 0

BeginRun(r) ==
  /\ panicked = 0
  /\ run[r] = "idle"
  /\ run' = [run EXCEPT ![r] = "running"]
  /\ UNCHANGED <<canceling, doneCh, waiter, panicked>>

\* The deferred if r.canceling { close(r.doneCh) }, the last thing Run does.
Release ==
  /\ doneCh' = IF canceling = 1 THEN "closed" ELSE doneCh
  /\ panicked' = IF canceling = 1 /\ doneCh = "closed" THEN 1 ELSE 0

EndRun(r) ==
  /\ panicked = 0
  /\ run[r] = "running"
  /\ run' = [run EXCEPT ![r] = "returned"]
  /\ Release
  /\ UNCHANGED <<canceling, waiter>>

\* Mutant of CancelCall: Cancel closes the channel itself.
CancelCallMutantCloses(c) ==
  /\ panicked = 0
  /\ waiter[c] = "idle"
  /\ canceling' = 1
  /\ doneCh' = "closed"
  /\ waiter' = [waiter EXCEPT ![c] = "waiting"]
  /\ UNCHANGED <<run, panicked>>

\* Cancel up to its receive from doneCh; cancelFunc() is called the first time.
CancelCall(c) ==
  /\ panicked = 0
  /\ waiter[c] = "idle"
  /\ canceling' = 1
  /\ waiter' = [waiter EXCEPT ![c] = "waiting"]
  /\ UNCHANGED <<run, doneCh, panicked>>

CancelReturn(c) ==
  /\ panicked = 0
  /\ waiter[c] = "waiting"
  /\ doneCh = "closed"
  /\ waiter' = [waiter EXCEPT ![c] = "returned"]
  /\ UNCHANGED <<run, canceling, doneCh, panicked>>

Next ==
  \/ \E r \in Runs : BeginRun(r) \/ EndRun(r)
  \/ \E c \in Cancellers : CancelCall(c) \/ CancelReturn(c)

Spec == Init /\ [][Next]_vars
-----------------------------------------------------------------------------
Returned == {r \in Runs : run[r] = "returned"}

(***************************************************************************)
(* "Cancel cancels execution" (runner.go) and waits for it: a Cancel       *)
(* returns only once a Run has ended, never because another Cancel came    *)
(* before it or because nothing was running.                               *)
(***************************************************************************)
CancelWaitsForRun ==
  \A c \in Cancellers : waiter[c] = "returned" => canceling = 1 /\ Returned # {}

(***************************************************************************)
(* The second close of doneCh needs a second Run: a process whose Runs     *)
(* follow one another and are cancelled at most during the last of them    *)
(* does not panic.                                                         *)
(***************************************************************************)
PanicNeedsTwoRuns ==
  panicked = 1 => canceling = 1 /\ \E r, s \in Returned : r # s
=============================================================================
