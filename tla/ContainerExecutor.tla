------------------------- MODULE ContainerExecutor -------------------------
(***************************************************************************)
(* runner.ContainerExecutor (runner/executor_container.go): the jobs of    *)
(* the tasks that share one container context, each in a container of its  *)
(* own, run by execute or, for an interactive job, by shell.               *)
(*                                                                         *)
(* Each job is an Execute in a goroutine of its own, with a goroutine that *)
(* copies the container's output and one unbuffered channel to hear of its *)
(* error and one to hear of its end.  They share ContainerContext.Image    *)
(* and the runner's ctx.  The daemon answers each call with any outcome    *)
(* after any delay; a container may exit, or be removed from outside.      *)
(* Left out: the container's configuration, registry authentication, the   *)
(* terminal's size, and a ctx with a deadline, which the runner's is not.  *)
(***************************************************************************)
CONSTANTS
  Jobs,      \* one call of Execute each
  Shells,    \* the interactive ones
  Template,  \* the image as configured, a template
  Broken     \* what a template that does not render leaves as the image

JobsAssumption ==
  /\ Shells \subseteq Jobs
  /\ Template \notin Jobs /\ Broken \notin Jobs /\ Template # Broken

\* A rendered image is named after the job whose variables rendered it.
Images == Jobs \cup {Template, Broken}

VARIABLES
  ctx,        \* the runner's context: "live" or "canceled"
  image,      \* ContainerContext.Image, shared
  rendered,   \* templatedImageName of each Execute
  conf,       \* containerConfig.Image of each Execute
  pc,         \* where each Execute is
  container,  \* the job's container in the daemon
  code,       \* what its command exited with
  removal,    \* what ContainerRemove, once called, answered
  logs,       \* where the goroutine of streamLogs is
  answer      \* what Execute returns

vars == <<ctx, image, rendered, conf, pc, container, code, removal, logs, answer>>

Steps == {"idle", "store", "config", "create", "pull", "attach", "start", "logs", "wait", "drain",
          "inspect", "returned"}

TypeOK ==
  /\ ctx \in {"live", "canceled"}
  /\ image \in Images
  /\ rendered \in [Jobs -> Images]
  /\ conf \in [Jobs -> Images]
  /\ pc \in [Jobs -> Steps]
  /\ container \in [Jobs -> {"none", "created", "running", "exited", "gone"}]
  /\ code \in [Jobs -> {"none", "zero", "nonzero"}]
  /\ removal \in [Jobs -> {"none", "done", "failed"}]
  /\ logs \in [Jobs -> {"none", "reading", "error", "end", "left"}]
  /\ answer \in [Jobs -> {"none", "nil", "status", "error"}]

Init ==
  /\ ctx = "live"
  /\ image = Template
  /\ rendered = [j \in Jobs |-> Template]
  /\ conf = [j \in Jobs |-> Template]
  /\ pc = [j \in Jobs |-> "idle"]
  /\ container = [j \in Jobs |-> "none"]
  /\ code = [j \in Jobs |-> "none"]
  /\ removal = [j \in Jobs |-> "none"]
  /\ logs = [j \in Jobs |-> "none"]
  /\ answer = [j \in Jobs |-> "none"]

At(j, step) == pc[j] = step

Goto(j, step) == pc' = [pc EXCEPT ![j] = step] /\ UNCHANGED answer

Answer(j, a) == pc' = [pc EXCEPT ![j] = "returned"] /\ answer' = [answer EXCEPT ![j] = a]
-----------------------------------------------------------------------------
(***************************************************************************)
(* Execute, up to the configuration of the container: read the shared      *)
(* image and render it, store the result back, read it again.  An image    *)
(* that is already rendered stays as it is.                                *)
(***************************************************************************)
Render(j) ==
  /\ At(j, "idle")
  /\ IF image = Template
     THEN \E i \in {j, Broken} : rendered' = [rendered EXCEPT ![j] = i]
     ELSE rendered' = [rendered EXCEPT ![j] = image]
  /\ Goto(j, "store")
  /\ UNCHANGED <<ctx, image, conf, container, code, removal, logs>>

StoreImage(j) ==
  /\ At(j, "store")
  /\ image' = rendered[j]
  /\ Goto(j, "config")
  /\ UNCHANGED <<ctx, rendered, conf, container, code, removal, logs>>

Configure(j) ==
  /\ At(j, "config")
  /\ conf' = [conf EXCEPT ![j] = image]
  /\ Goto(j, "create")
  /\ UNCHANGED <<ctx, image, rendered, container, code, removal, logs>>

(***************************************************************************)
(* createContainer: created, pulled and tried again when the image is not  *)
(* found, or an error.  execute calls the daemon with a context of its     *)
(* own; shell with ctx, so its calls fail when ctx is done.                *)
(***************************************************************************)
Usable(j) == j \in Shells => ctx = "live"

Create(j) ==
  /\ At(j, "create")
  /\ \/ /\ Usable(j) /\ conf[j] # Broken
        /\ container' = [container EXCEPT ![j] = "created"]
        /\ Goto(j, IF j \in Shells THEN "attach" ELSE "start")
     \/ Usable(j) /\ conf[j] # Broken /\ UNCHANGED container /\ Goto(j, "pull")
     \/ UNCHANGED container /\ Answer(j, "error")
  /\ UNCHANGED <<ctx, image, rendered, conf, code, removal, logs>>

PullImage(j) ==
  /\ At(j, "pull")
  /\ (Usable(j) /\ Goto(j, "create")) \/ Answer(j, "error")
  /\ UNCHANGED <<ctx, image, rendered, conf, container, code, removal, logs>>

\* shell only: ContainerAttach and the terminal's raw mode.
Attach(j) ==
  /\ At(j, "attach")
  /\ (Usable(j) /\ Goto(j, "start")) \/ Answer(j, "error")
  /\ UNCHANGED <<ctx, image, rendered, conf, container, code, removal, logs>>

\* ContainerStart; an error leaves the container as it was created.
Start(j) ==
  /\ At(j, "start")
  /\ \/ /\ Usable(j) /\ container[j] = "created"
        /\ container' = [container EXCEPT ![j] = "running"]
        /\ Goto(j, IF j \in Shells THEN "wait" ELSE "logs")
     \/ UNCHANGED container /\ Answer(j, "error")
  /\ UNCHANGED <<ctx, image, rendered, conf, code, removal, logs>>

\* streamLogs: ContainerLogs and the goroutine; an error leaves the container running.
StreamLogs(j) ==
  /\ At(j, "logs")
  /\ \/ logs' = [logs EXCEPT ![j] = "reading"] /\ Goto(j, "wait")
     \/ UNCHANGED logs /\ Answer(j, "error")
  /\ UNCHANGED <<ctx, image, rendered, conf, container, code, removal>>
-----------------------------------------------------------------------------
(***************************************************************************)
(* cleanupContainer: stop and remove, with a context that may be done;     *)
(* errors are logged and dropped.                                          *)
(***************************************************************************)
Cleanup(j, usable) ==
  \/ /\ usable
     /\ container' = [container EXCEPT ![j] = "gone"]
     /\ removal' = [removal EXCEPT ![j] = "done"]
  \/ /\ removal' = [removal EXCEPT ![j] = "failed"]
     /\ UNCHANGED container

\* The select of execute, or of shell: ContainerWait itself fails ...
WaitFails(j) ==
  /\ At(j, "wait")
  /\ Cleanup(j, Usable(j))
  /\ Answer(j, "error")
  /\ UNCHANGED <<ctx, image, rendered, conf, code, logs>>

\* Mutant of LogsFail: the container is left as it is.
LogsFailMutantLeaves(j) ==
  /\ At(j, "wait")
  /\ logs[j] = "error"
  /\ logs' = [logs EXCEPT ![j] = "left"]
  /\ Answer(j, "error")
  /\ UNCHANGED <<ctx, image, rendered, conf, container, code, removal>>

\* ... the goroutine of the logs sends its error ...
LogsFail(j) ==
  /\ At(j, "wait")
  /\ logs[j] = "error"
  /\ logs' = [logs EXCEPT ![j] = "left"]
  /\ Cleanup(j, TRUE)
  /\ Answer(j, "error")
  /\ UNCHANGED <<ctx, image, rendered, conf, code>>

\* ... ctx is done: cleaned up with another context, and answered nil ...
CtxDone(j) ==
  /\ At(j, "wait")
  /\ ctx = "canceled"
  /\ Cleanup(j, TRUE)
  /\ Answer(j, "nil")
  /\ UNCHANGED <<ctx, image, rendered, conf, code, logs>>

\* ... or the container is not running any more.
Exited(j) ==
  /\ At(j, "wait")
  /\ container[j] \in {"exited", "gone"}
  /\ \/ /\ j \in Shells
        /\ Cleanup(j, Usable(j))
        /\ Answer(j, IF code[j] = "zero" THEN "nil" ELSE "status")
     \/ /\ j \notin Shells
        /\ Goto(j, "drain")
        /\ UNCHANGED <<container, removal>>
  /\ UNCHANGED <<ctx, image, rendered, conf, code, logs>>

\* Mutant of Drained: there is no timer.
DrainedMutantNoTimer(j) ==
  /\ At(j, "drain")
  /\ logs[j] = "end"
  /\ logs' = [logs EXCEPT ![j] = "left"]
  /\ Goto(j, "inspect")
  /\ UNCHANGED <<ctx, image, rendered, conf, container, code, removal>>

\* The output is read to its end, or a second has passed.
Drained(j) ==
  /\ At(j, "drain")
  /\ logs' = IF logs[j] = "end" THEN [logs EXCEPT ![j] = "left"] ELSE logs
  /\ Goto(j, "inspect")
  /\ UNCHANGED <<ctx, image, rendered, conf, container, code, removal>>

\* Mutant of CheckExitStatus: the exit code is not looked at.
CheckExitStatusMutantIgnoresCode(j) ==
  /\ At(j, "inspect")
  /\ \/ container[j] = "gone" /\ UNCHANGED <<container, removal>>
     \/ container[j] # "gone" /\ Cleanup(j, TRUE)
  /\ Answer(j, "nil")
  /\ UNCHANGED <<ctx, image, rendered, conf, code, logs>>

\* checkExitStatus: a container that is not found any more counts as success.
CheckExitStatus(j) ==
  /\ At(j, "inspect")
  /\ \/ /\ container[j] = "gone"
        /\ Answer(j, "nil")
        /\ UNCHANGED <<container, removal>>
     \/ /\ container[j] # "gone"
        /\ Cleanup(j, TRUE)
        /\ Answer(j, IF code[j] = "zero" THEN "nil" ELSE "status")
     \/ /\ Cleanup(j, TRUE)
        /\ Answer(j, "status")
  /\ UNCHANGED <<ctx, image, rendered, conf, code, logs>>
-----------------------------------------------------------------------------
\* The goroutine of streamLogs: StdCopy fails, or the output ends.
ReadLogs(j) ==
  /\ logs[j] = "reading"
  /\ \/ logs' = [logs EXCEPT ![j] = "error"]
     \/ container[j] # "running" /\ logs' = [logs EXCEPT ![j] = "end"]
  /\ UNCHANGED <<ctx, image, rendered, conf, pc, container, code, removal, answer>>

\* The daemon: a container's command ends; it is removed by someone else.
Exit(j) ==
  /\ container[j] = "running"
  /\ container' = [container EXCEPT ![j] = "exited"]
  /\ \E c \in {"zero", "nonzero"} : code' = [code EXCEPT ![j] = c]
  /\ UNCHANGED <<ctx, image, rendered, conf, pc, removal, logs, answer>>

Vanish(j) ==
  /\ container[j] \in {"created", "running", "exited"}
  /\ container' = [container EXCEPT ![j] = "gone"]
  /\ code' = IF code[j] = "none" THEN [code EXCEPT ![j] = "nonzero"] ELSE code
  /\ UNCHANGED <<ctx, image, rendered, conf, pc, removal, logs, answer>>

\* TaskRunner.Cancel calls cancelFunc.
CancelCtx ==
  /\ ctx = "live"
  /\ ctx' = "canceled"
  /\ UNCHANGED <<image, rendered, conf, pc, container, code, removal, logs, answer>>

Execute(j) ==
  \/ Render(j) \/ StoreImage(j) \/ Configure(j) \/ Create(j) \/ PullImage(j) \/ Attach(j)
  \/ Start(j) \/ StreamLogs(j) \/ WaitFails(j) \/ LogsFail(j) \/ CtxDone(j) \/ Exited(j)
  \/ Drained(j) \/ CheckExitStatus(j)

Next ==
  \/ \E j \in Jobs : Execute(j) \/ ReadLogs(j) \/ Exit(j) \/ Vanish(j)
  \/ CancelCtx

Spec == Init /\ [][Next]_vars

(***************************************************************************)
(* Execute goes on and the daemon answers.  Nothing makes a container      *)
(* exit, ctx end or the goroutine of the logs come to the end of them.     *)
(***************************************************************************)
FairSpec == Spec /\ \A j \in Jobs : WF_vars(Execute(j))
-----------------------------------------------------------------------------
(***************************************************************************)
(* Execute answers nil only for a command that exited with 0, a job that   *)
(* was cancelled, or a container that someone else removed before          *)
(* checkExitStatus asked for it.                                           *)
(***************************************************************************)
NilMeansSuccess ==
  \A j \in Jobs : answer[j] = "nil" =>
    \/ code[j] = "zero"
    \/ ctx = "canceled"
    \/ container[j] = "gone" /\ removal[j] = "none"

(***************************************************************************)
(* No container outlives its job, unless ContainerRemove failed or the job *)
(* failed before it waited for the container; in particular not when the   *)
(* log goroutine failed, the wait failed or the job was cancelled.         *)
(***************************************************************************)
ContainerCleanedUp ==
  \A j \in Jobs : pc[j] = "returned" /\ container[j] \notin {"none", "gone"} =>
    \/ removal[j] = "failed"
    \/ removal[j] = "none" /\ answer[j] = "error" /\ logs[j] = "none"

(***************************************************************************)
(* A container's exit ends its job, and so does a cancel once there is a   *)
(* container, whatever the goroutine of the logs is blocked on: the wait   *)
(* for the output is bounded.                                              *)
(***************************************************************************)
JobEnds ==
  \A j \in Jobs :
    container[j] \in {"exited", "gone"} \/ (container[j] # "none" /\ ctx = "canceled")
      ~> pc[j] = "returned"

=============================================================================
