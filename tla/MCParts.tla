------------------------------ MODULE MCParts -------------------------------
(***************************************************************************)
(* Four parts of eirctl for TLC that share no state: the env of JobEnv,    *)
(* what tasks print in Output, eirctl generate in GithubCI, eirctl update  *)
(* in SelfUpdate.  A behaviour is that of one part, and the state of the   *)
(* others stays as it begins.                                              *)
(***************************************************************************)
EXTENDS MCJobEnv

CONSTANTS
    PrintConfigs,                                                 \* of output
    GraphConfigs, Top, StrPrefix, Machine, MaxDepth, MCFamilies,  \* of generate
    Updates, Releases, Page, MaxName                              \* of update

VARIABLES
    part,  \* "env", "output", "generate" or "update"
    printConf, run, reader, captured, ranged, exported, sink, cockpit, crashed,
    cut, late,
    config, phase, built, graphs, stage, taskDir, graphFile, calls, flat,
    frames, rebuilt, workflow,
    fs, nodes, up, from, alone

Printing == INSTANCE Output WITH Configs <- PrintConfigs, conf <- printConf
Generate == INSTANCE GithubCI WITH Configs <- GraphConfigs, file <- graphFile
Update == INSTANCE SelfUpdate

\* For the values they define for the constants, which depend on no constant.
Prints == INSTANCE MCOutput WITH Configs <- {}, conf <- printConf
Graphs == INSTANCE MCDenormalize WITH
            Configs <- {}, StrPrefix <- {}, Machine <- <<>>, file <- graphFile

ASSUME Printing!ConfigAssumption
ASSUME Update!UpdateAssumption

outputVars == <<printConf, run, reader, captured, ranged, exported, sink,
                cockpit, crashed, cut, late>>
generateVars == <<config, phase, built, graphs, stage, taskDir, graphFile,
                  calls, flat, frames, rebuilt, workflow>>
updateVars == <<fs, nodes, up, from, alone>>
partVars == <<part, vars, outputVars, generateVars, updateVars>>

MCPrintConfigs == Prints!MCConfigs
MCGraphConfigs == Graphs!MCConfigs
MCStrPrefix == Graphs!MCStrPrefix
MCMachine == Graphs!MCMachine

\* What generate is given when the behaviour is that of another part.
NoGraphs == [pipelines |-> Top :> <<>>, tasks |-> <<>>, on |-> TRUE]

PartInit ==
    /\ part \in {"env", "output", "generate", "update"}
    /\ Init
    /\ part # "env" => conf = CHOOSE c \in Configs : TRUE
    /\ Printing!Init
    /\ part # "output" => printConf = CHOOSE c \in PrintConfigs : TRUE
    /\ config \in IF part = "generate" THEN GraphConfigs ELSE {NoGraphs}
    /\ Generate!NewConfig
    /\ workflow = Generate!NoWorkflow
    /\ Update!Init
    /\ part # "update" => Update!Holds(0, CHOOSE v \in Releases : TRUE)

EnvStep ==
    part = "env" /\ Next /\ UNCHANGED <<part, outputVars, generateVars, updateVars>>

OutputStep ==
    part = "output" /\ Printing!Next /\ UNCHANGED <<part, vars, generateVars, updateVars>>

GenerateStep ==
    part = "generate" /\ Generate!GenerateNext /\ UNCHANGED <<part, vars, outputVars, updateVars>>

UpdateStep ==
    part = "update" /\ Update!Next /\ UNCHANGED <<part, vars, outputVars, generateVars>>

PartNext == EnvStep \/ OutputStep \/ GenerateStep \/ UpdateStep

PartSpec == PartInit /\ [][PartNext]_partVars

-----------------------------------------------------------------------------
(* The properties of the parts; those of JobEnv are its own. *)

\* output: what stdout has of a task (output.go, prefixed.go, cockpit.go).
OutputInOrder == Printing!OutputInOrder

\* output: storeTaskOutput publishes what was printed (runner.go, output.go).
ExportedIsWhole == Printing!ExportedIsWhole

\* output: how it can end the process (cockpit.go, output.go).
CrashHasCause == Printing!CrashHasCause

\* generate: which definitions are refused (config.go, denormalize.go).
EndsAsDefined == Generate!EndsAsDefined

\* generate: a level has the stages of its definition, if nothing begins with
\* its name (flattenTasks, nthLevelChildren).
StagesAreDefined == Generate!StagesAreDefined

\* generate: the env of a stage has passed every level (flattenTasks).
Inheritance == Generate!Inheritance

\* generate: the jobs, their needs and env (githubimpl.go).
WorkflowIsPipeline == Generate!WorkflowIsPipeline

\* update: a release can still be run (update.go).
PreviousIsKept == Update!PreviousIsKept
=============================================================================
