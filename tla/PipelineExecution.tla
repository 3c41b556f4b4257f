------------------------- MODULE PipelineExecution -------------------------
(***************************************************************************)
(* What running a pipeline promises, without loops, sweeps, goroutines or  *)
(* wait groups: each stage is decided at one point, from the verdicts on   *)
(* its parents at that point, and Schedule returns when nothing is left to *)
(* decide.  Scheduler implements this specification.                       *)
(***************************************************************************)
CONSTANTS Stages, Graphs, GraphOf, Pipeline, None, Definitions

VARIABLES
  def,        \* the pipeline definition
  status,     \* the status of each stage
  cancelled,  \* the run was cancelled
  returned    \* the graphs whose Schedule has returned

vars == <<def, status, cancelled, returned>>

Nodes(g) == {s \in Stages : GraphOf[s] = g}

Passing(p) == \/ status[p] \in {"Done", "Skipped"}
              \/ status[p] = "Error" /\ p \in def.allowFailure

Blocking(p) == \/ status[p] = "Canceled"
               \/ status[p] = "Error" /\ p \notin def.allowFailure

Init ==
  /\ def \in Definitions
  /\ status = [s \in Stages |-> "Waiting"]
  /\ cancelled = 0
  /\ returned = {}

\* A stage moves while the Schedule of its graph is under way.
Move(s, from, to) ==
  /\ GraphOf[s] \notin returned
  /\ status[s] = from
  /\ status' = [status EXCEPT ![s] = to]
  /\ UNCHANGED <<def, returned>>

\* Every parent passes and, in a nested graph, the owner is Running.
Start(s) ==
  /\ Move(s, "Waiting", "Running")
  /\ \A p \in def.depends[s] : Passing(p)
  /\ \A o \in Stages : Pipeline[o] = GraphOf[s] => status[o] = "Running"
  /\ UNCHANGED cancelled

Skip(s) ==
  /\ Move(s, "Waiting", "Skipped")
  /\ "fails" \in def.condition[s]
  /\ UNCHANGED cancelled

\* A condition that cannot be evaluated also cancels the run.
Reject(s) ==
  /\ Move(s, "Waiting", "Error")
  /\ "error" \in def.condition[s]
  /\ cancelled' = 1

CancelStage(s) ==
  /\ Move(s, "Waiting", "Canceled")
  /\ \E p \in def.depends[s] : Blocking(p)
  /\ UNCHANGED cancelled

\* A stage that holds a pipeline ends after the pipeline does.
Finish(s) ==
  /\ \E verdict \in {"Done", "Error"} : Move(s, "Running", verdict)
  /\ Pipeline[s] # None => Pipeline[s] \in returned
  /\ UNCHANGED cancelled

Forgive(s) ==
  /\ Move(s, "Error", "Done")
  /\ s \in def.allowFailure
  /\ UNCHANGED cancelled

Stop ==
  /\ cancelled' = 1
  /\ UNCHANGED <<def, status, returned>>

\* Nothing is running, and nothing is left to decide unless cancelled.
Return(g) ==
  /\ g \notin returned
  /\ \A s \in Nodes(g) : status[s] # "Running" /\ (cancelled = 0 => status[s] # "Waiting")
  /\ returned' = returned \cup {g}
  /\ UNCHANGED <<def, status, cancelled>>

Next ==
  \/ \E s \in Stages : \/ Start(s) \/ Skip(s) \/ Reject(s) \/ CancelStage(s)
                       \/ Finish(s) \/ Forgive(s)
  \/ Stop
  \/ \E g \in Graphs : Return(g)

Spec == Init /\ [][Next]_vars
=============================================================================
