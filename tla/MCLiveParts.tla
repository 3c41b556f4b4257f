----------------------------- MODULE MCLiveParts ----------------------------
(***************************************************************************)
(* Three parts of eirctl for TLC that share no state: eirctl watch in      *)
(* Watcher, the jobs of a container context in ContainerExecutor, the      *)
(* output of one task in Output.  A behaviour is that of one part, and the *)
(* state of the others stays as it begins.                                 *)
(***************************************************************************)
EXTENDS MCWatcher

CONSTANTS
  Jobs, Shells, Template, Broken,  \* of the jobs
  PrintConfigs                     \* of the output

VARIABLES
  part,  \* "watch", "jobs" or "output"
  ctx, image, rendered, jobConf, pc, container, code, removal, logs, answer,
  conf, printer, reader, captured, ranged, exported, sink, cockpit, crashed, cut, late

Container == INSTANCE ContainerExecutor WITH conf <- jobConf
Printing == INSTANCE Output WITH Configs <- PrintConfigs, run <- printer
Prints == INSTANCE MCOutput WITH Configs <- {}, run <- printer  \* for its definitions only

ASSUME Container!JobsAssumption
ASSUME Printing!ConfigAssumption

jobVars == <<ctx, image, rendered, jobConf, pc, container, code, removal, logs, answer>>
outputVars ==
  <<conf, printer, reader, captured, ranged, exported, sink, cockpit, crashed, cut, late>>
partVars == <<part, allVars, jobVars, outputVars>>

MCPrintConfigs == Prints!MCSingleConfigs
Printers == UNION {DOMAIN c.tasks : c \in PrintConfigs}

PartInit ==
  /\ part \in {"watch", "jobs", "output"}
  /\ WatchInit
  /\ Container!Init
  /\ Printing!Init
  /\ part # "output" => conf = CHOOSE c \in PrintConfigs : TRUE

WatchStep == part = "watch" /\ WatchNext /\ UNCHANGED <<part, jobVars, outputVars>>

JobStep == part = "jobs" /\ Container!Next /\ UNCHANGED <<part, allVars, outputVars>>

OutputStep == part = "output" /\ Printing!Next /\ UNCHANGED <<part, allVars, jobVars>>

PartNext == WatchStep \/ JobStep \/ OutputStep

\* WatchFairness, and that of the other two FairSpecs.
PartFairness ==
  /\ \A w \in Watchers : /\ WF_allVars(part = "watch" /\ Watch(w))
                         /\ WF_allVars(part = "watch" /\ FirstRun(w))
                         /\ WF_allVars(part = "watch" /\ Poll(w))
                         /\ WF_allVars(part = "watch" /\ Close(w))
  /\ \A e \in Events : /\ WF_allVars(part = "watch" /\ Handle(e))
                       /\ SF_allVars(part = "watch" /\ Receive(e))
  /\ WF_allVars(part = "watch" /\ (SignalCancels \/ SignalCancelReturns))
  /\ WF_allVars(part = "watch" /\ ProcessEnds)
  /\ \A j \in Jobs : WF_jobVars(part = "jobs" /\ Container!Execute(j))
  /\ \A t \in Printers :
      /\ SF_outputVars(part = "output" /\ crashed = "" /\ t \in Printing!Tasks /\ Printing!RunStep(t))
      /\ WF_outputVars(part = "output" /\ crashed = "" /\ t \in Printing!Tasks /\ Printing!ReaderStep(t))
      /\ WF_outputVars(part = "output" /\ crashed = "" /\ t \in Printing!Tasks /\ Printing!PreUpdate(t))

PartFairSpec == PartInit /\ [][PartNext]_partVars /\ PartFairness
-----------------------------------------------------------------------------
(* The properties of the jobs and the output; those of Watcher are its own. *)

\* jobs: what a nil answer of Execute means (container_executor.go).
NilMeansSuccess == Container!NilMeansSuccess

\* jobs: no container outlives its job (container_executor.go).
ContainerCleanedUp == Container!ContainerCleanedUp

\* jobs: Execute returns once the container has exited (container_executor.go).
JobEnds == Container!JobEnds

\* output: the footer lets Run end (cockpit.go).
FooterReturns == Printing!FooterReturns
=============================================================================
