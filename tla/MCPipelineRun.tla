--------------------------- MODULE MCPipelineRun ----------------------------
(***************************************************************************)
(* Instances of PipelineRun for TLC.  Stages are numbered.                 *)
(***************************************************************************)
EXTENDS PipelineRun

CONSTANT MCAnswers  \* what evaluating a condition may answer

\* Definitions with the edges <<parent, child>>; the stages of the set skipped
\* have a condition that is never met.
DefinitionsWith(edges, allowed, conditional, skipped) ==
  [depends: {[s \in Stages |-> {p \in Stages : <<p, s>> \in e}] : e \in edges},
   allowFailure: allowed,
   condition: {[s \in Stages |-> CASE s \in skipped -> {"fails"}
                                   [] s \in conditional -> MCAnswers
                                   [] OTHER -> {}]}]

(***************************************************************************)
(* 2 owns the pipeline of 4 and 5.  Either 3 joins 1 and 2, with a short   *)
(* cut or not, and 4 is all of the pipeline; or 2 runs after 1 and 4       *)
(* beside 5, or 1 runs after 2 and 5 after 4.  The owner's failure is      *)
(* allowed in the first.                                                   *)
(***************************************************************************)
NestedStages == 1..5

NestedGraphs == {"top", "nested"}

NestedGraphOf == [s \in NestedStages |-> IF s >= 4 THEN "nested" ELSE "top"]

NestedPipeline == [s \in NestedStages |-> IF s = 2 THEN "nested" ELSE None]

NestedDefinitions ==
  DefinitionsWith({{<<1, 3>>, <<2, 3>>}}, {{1, 2}}, {1}, {5}) \cup
  DefinitionsWith({{<<1, 2>>, <<1, 3>>, <<2, 3>>}}, {{4}}, {1}, {5}) \cup
  DefinitionsWith({{<<1, 2>>}, {<<2, 1>>, <<4, 5>>}}, {{1}}, {4}, {3})

(***************************************************************************)
(* One graph of three stages, the last one after the first.                *)
(***************************************************************************)
FlatStages == 1..3

FlatGraphs == {"top"}

FlatGraphOf == [s \in FlatStages |-> "top"]

FlatPipeline == [s \in FlatStages |-> None]

FlatDefinitions == DefinitionsWith({{<<1, 3>>}}, {{}}, {}, {})
=============================================================================
