---------------------- MODULE ContainerExecutorProofs ----------------------
(***************************************************************************)
(* Proofs about ContainerExecutor, for any number of jobs, interactive or  *)
(* not, that share a container context.                                    *)
(***************************************************************************)
EXTENDS ContainerExecutor, TLAPS

(***************************************************************************)
(* The inductive invariant, by parts, each of one job.                     *)
(***************************************************************************)

\* Execute has an answer exactly when it has returned.
Answered(j) == answer[j] # "none" <=> pc[j] = "returned"

\* The daemon: an exit code comes with the end of the container's command.
CodeAtExit(j) == container[j] \in {"none", "created", "running"} => code[j] = "none"

\* What there is of the container and its logs, by where Execute is.
PlaceOf(j) ==
  /\ pc[j] \in {"idle", "store", "config", "create", "pull"} =>
       container[j] = "none" /\ logs[j] = "none"
  /\ pc[j] \in {"attach", "start", "logs"} => logs[j] = "none"
  /\ pc[j] \in {"drain", "inspect"} => container[j] \in {"exited", "gone"}
  /\ pc[j] # "returned" => removal[j] = "none"

\* What an answer says of the command, and of the container left behind.
NilOf(j) ==
  answer[j] = "nil" => \/ code[j] = "zero"
                       \/ ctx = "canceled"
                       \/ container[j] = "gone" /\ removal[j] = "none"

LeftOf(j) ==
  pc[j] = "returned" /\ container[j] \notin {"none", "gone"} =>
    \/ removal[j] = "failed"
    \/ removal[j] = "none" /\ answer[j] = "error" /\ logs[j] = "none"

JobInv(j) == Answered(j) /\ CodeAtExit(j) /\ PlaceOf(j) /\ NilOf(j) /\ LeftOf(j)

IInv == TypeOK /\ \A j \in Jobs : JobInv(j)

\* A job's own part of the state; nothing else of another job's is written.
Untouched(j) ==
  /\ pc'[j] = pc[j] /\ container'[j] = container[j] /\ code'[j] = code[j]
  /\ removal'[j] = removal[j] /\ logs'[j] = logs[j] /\ answer'[j] = answer[j]
-----------------------------------------------------------------------------
\* Each step of Execute keeps the types.
LEMMA ExecuteType == ASSUME TypeOK, NEW j \in Jobs, Execute(j) PROVE TypeOK'
<1> USE DEF TypeOK, Steps, At, Goto, Answer
<1>1. ASSUME Render(j) PROVE TypeOK' BY <1>1 DEF Render, Images
<1>2. ASSUME StoreImage(j) PROVE TypeOK' BY <1>2 DEF StoreImage
<1>3. ASSUME Configure(j) PROVE TypeOK' BY <1>3 DEF Configure
<1>4. ASSUME Create(j) PROVE TypeOK' BY <1>4 DEF Create
<1>5. ASSUME PullImage(j) PROVE TypeOK' BY <1>5 DEF PullImage
<1>6. ASSUME Attach(j) PROVE TypeOK' BY <1>6 DEF Attach
<1>7. ASSUME Start(j) PROVE TypeOK' BY <1>7 DEF Start
<1>8. ASSUME StreamLogs(j) PROVE TypeOK' BY <1>8 DEF StreamLogs
<1>9. ASSUME WaitFails(j) PROVE TypeOK' BY <1>9 DEF WaitFails, Cleanup
<1>10. ASSUME LogsFail(j) PROVE TypeOK' BY <1>10 DEF LogsFail, Cleanup
<1>11. ASSUME CtxDone(j) PROVE TypeOK' BY <1>11 DEF CtxDone, Cleanup
<1>12. ASSUME Exited(j) PROVE TypeOK' BY <1>12 DEF Exited, Cleanup
<1>13. ASSUME Drained(j) PROVE TypeOK' BY <1>13 DEF Drained
<1>14. ASSUME CheckExitStatus(j) PROVE TypeOK' BY <1>14 DEF CheckExitStatus, Cleanup
<1>15. QED
  BY <1>1, <1>2, <1>3, <1>4, <1>5, <1>6, <1>7, <1>8, <1>9, <1>10, <1>11, <1>12, <1>13, <1>14
  DEF Execute

\* Each step of Execute keeps the invariant of its own job ...
LEMMA ExecuteKeeps == ASSUME IInv, NEW j \in Jobs, Execute(j) PROVE JobInv(j)'
<1> USE DEF IInv, TypeOK, Steps, At, Goto, Answer, JobInv, Answered, CodeAtExit, PlaceOf, NilOf, LeftOf
<1>1. ASSUME Render(j) PROVE JobInv(j)' BY <1>1 DEF Render
<1>2. ASSUME StoreImage(j) PROVE JobInv(j)' BY <1>2 DEF StoreImage
<1>3. ASSUME Configure(j) PROVE JobInv(j)' BY <1>3 DEF Configure
<1>4. ASSUME Create(j) PROVE JobInv(j)' BY <1>4 DEF Create
<1>5. ASSUME PullImage(j) PROVE JobInv(j)' BY <1>5 DEF PullImage
<1>6. ASSUME Attach(j) PROVE JobInv(j)' BY <1>6 DEF Attach
<1>7. ASSUME Start(j) PROVE JobInv(j)' BY <1>7 DEF Start
<1>8. ASSUME StreamLogs(j) PROVE JobInv(j)' BY <1>8 DEF StreamLogs
<1>9. ASSUME WaitFails(j) PROVE JobInv(j)' BY <1>9 DEF WaitFails, Cleanup
<1>10. ASSUME LogsFail(j) PROVE JobInv(j)' BY <1>10 DEF LogsFail, Cleanup
<1>11. ASSUME CtxDone(j) PROVE JobInv(j)' BY <1>11 DEF CtxDone, Cleanup
<1>12. ASSUME Exited(j) PROVE JobInv(j)' BY <1>12 DEF Exited, Cleanup
<1>13. ASSUME Drained(j) PROVE JobInv(j)' BY <1>13 DEF Drained
<1>14. ASSUME CheckExitStatus(j) PROVE JobInv(j)' BY <1>14 DEF CheckExitStatus, Cleanup
<1>15. QED
  BY <1>1, <1>2, <1>3, <1>4, <1>5, <1>6, <1>7, <1>8, <1>9, <1>10, <1>11, <1>12, <1>13, <1>14
  DEF Execute

\* ... writes nothing of another job, and leaves ctx alone.
LEMMA ExecuteLocal ==
  ASSUME TypeOK, NEW j \in Jobs, Execute(j), NEW k \in Jobs, k # j
  PROVE  Untouched(k) /\ ctx' = ctx
<1> USE DEF TypeOK, Goto, Answer, Untouched
<1>1. CASE Render(j) \/ StoreImage(j) \/ Configure(j) \/ Create(j) \/ PullImage(j)
  BY <1>1 DEF Render, StoreImage, Configure, Create, PullImage
<1>2. CASE Attach(j) \/ Start(j) \/ StreamLogs(j) \/ Drained(j)
  BY <1>2 DEF Attach, Start, StreamLogs, Drained
<1>3. CASE WaitFails(j) \/ LogsFail(j) \/ CtxDone(j)
  BY <1>3 DEF WaitFails, LogsFail, CtxDone, Cleanup
<1>4. CASE Exited(j) \/ CheckExitStatus(j)
  BY <1>4 DEF Exited, CheckExitStatus, Cleanup
<1>5. QED BY <1>1, <1>2, <1>3, <1>4 DEF Execute

\* The log goroutine and the daemon keep the invariant of the job they act on.
LEMMA WorldKeeps ==
  ASSUME IInv, NEW j \in Jobs, ReadLogs(j) \/ Exit(j) \/ Vanish(j)
  PROVE  /\ TypeOK' /\ JobInv(j)' /\ ctx' = ctx
         /\ \A k \in Jobs \ {j} : Untouched(k)
<1> USE DEF IInv, TypeOK, JobInv, Answered, CodeAtExit, PlaceOf, NilOf, LeftOf, Untouched
<1>1. CASE ReadLogs(j) BY <1>1 DEF ReadLogs
<1>2. CASE Exit(j) BY <1>2 DEF Exit
<1>3. CASE Vanish(j) BY <1>3 DEF Vanish
<1>4. QED BY <1>1, <1>2, <1>3

\* A job that is not touched keeps its invariant, whatever becomes of ctx.
LEMMA UntouchedKeeps ==
  ASSUME NEW j \in Jobs, JobInv(j), Untouched(j), ctx' = ctx \/ ctx' = "canceled"
  PROVE  JobInv(j)'
BY DEF JobInv, Answered, CodeAtExit, PlaceOf, NilOf, LeftOf, Untouched

\* The invariant of the jobs of a container context, under every step of theirs and of the daemon.
THEOREM Invariance == Spec => []IInv
<1>1. Init => IInv
  BY DEF Init, IInv, TypeOK, Images, Steps, JobInv, Answered, CodeAtExit, PlaceOf, NilOf, LeftOf
<1>2. IInv /\ [Next]_vars => IInv'
  <2> SUFFICES ASSUME IInv, [Next]_vars PROVE IInv'
    OBVIOUS
  <2>1. ASSUME NEW j \in Jobs, Execute(j) PROVE IInv'
    <3>1. TypeOK' BY <2>1, ExecuteType DEF IInv
    <3>2. JobInv(j)' BY <2>1, ExecuteKeeps
    <3>3. ASSUME NEW k \in Jobs, k # j PROVE JobInv(k)'
      BY <2>1, <3>3, ExecuteLocal, UntouchedKeeps DEF IInv
    <3>4. QED BY <3>1, <3>2, <3>3 DEF IInv
  <2>2. ASSUME NEW j \in Jobs, ReadLogs(j) \/ Exit(j) \/ Vanish(j) PROVE IInv'
    <3>1. /\ TypeOK' /\ JobInv(j)' /\ ctx' = ctx
          /\ \A k \in Jobs \ {j} : Untouched(k)
      BY <2>2, WorldKeeps
    <3>2. ASSUME NEW k \in Jobs, k # j PROVE JobInv(k)'
      BY <3>1, <3>2, UntouchedKeeps DEF IInv
    <3>3. QED BY <3>1, <3>2 DEF IInv
  <2>3. CASE CancelCtx
    <3>1. TypeOK' BY <2>3 DEF CancelCtx, IInv, TypeOK
    <3>2. ASSUME NEW k \in Jobs PROVE JobInv(k)'
      BY <2>3, UntouchedKeeps DEF CancelCtx, Untouched, IInv
    <3>3. QED BY <3>1, <3>2 DEF IInv
  <2>4. CASE UNCHANGED vars
    <3>1. TypeOK' BY <2>4 DEF vars, IInv, TypeOK
    <3>2. ASSUME NEW k \in Jobs PROVE JobInv(k)'
      BY <2>4, UntouchedKeeps DEF vars, Untouched, IInv
    <3>3. QED BY <3>1, <3>2 DEF IInv
  <2>5. QED BY <2>1, <2>2, <2>3, <2>4 DEF Next
<1>3. QED BY <1>1, <1>2, PTL DEF Spec

(***************************************************************************)
(* Execute answers nil only for a command that succeeded, a cancelled job  *)
(* or a container someone else removed (execute, shell, checkExitStatus).  *)
(***************************************************************************)
THEOREM NilMeansSuccessHolds == Spec => []NilMeansSuccess
<1>1. IInv => NilMeansSuccess BY DEF IInv, JobInv, NilOf, NilMeansSuccess
<1>2. QED BY <1>1, Invariance, PTL

(***************************************************************************)
(* A container outlives its job only when its removal failed, or the job   *)
(* before it waited for the container (cleanupContainer and its callers).  *)
(***************************************************************************)
THEOREM ContainerCleanedUpHolds == Spec => []ContainerCleanedUp
<1>1. IInv => ContainerCleanedUp BY DEF IInv, JobInv, LeftOf, ContainerCleanedUp
<1>2. QED BY <1>1, Invariance, PTL
=============================================================================
