--------------------------- MODULE MCDenormalize ----------------------------
(***************************************************************************)
(* Configurations for TLC.  Pipelines are 20 and up, tasks 30 and up; 1 is *)
(* the beginning of 10 as a string.                                        *)
(***************************************************************************)
EXTENDS GithubCI

CONSTANT MCFamilies  \* which of the families below are checked

K == {"K"}

NoMeta == [bad |-> FALSE, cond |-> None, env |-> {}]

TaskStage(n, t, deps, env) ==
  [name |-> <<n>>, task |-> t, pipe |-> None, deps |-> deps, dir |-> None, env |-> env, file |-> <<n>>,
   gen |-> NoMeta]

PipeStage(n, p, deps, env) ==
  [name |-> <<n>>, task |-> None, pipe |-> p, deps |-> deps, dir |-> None, env |-> env, file |-> <<n>>,
   gen |-> NoMeta]

MCTasks(env) == [t \in 30 .. 33 |-> [env |-> IF t = 30 THEN env ELSE {}, file |-> <<t>>]]

Config(pipelines, env) == [pipelines |-> pipelines, tasks |-> MCTasks(env), on |-> TRUE]

\* One pipeline of three stages with any dependencies; the last stage may
\* depend on the root or on a stage that is missing.
Flat ==
  LET deps(s) == SetToSeq(s)
      some    == SUBSET {<<1>>, <<2>>, <<3>>}
  IN  {Config(20 :> <<TaskStage(1, 30, deps(a), {}), TaskStage(2, 31, deps(b), {}),
                      TaskStage(3, 32, deps(c), {})>>, {}) :
         a \in some, b \in some, c \in SUBSET {<<1>>, <<2>>, <<3>>, <<4>>, Root}}

\* Two stages with the same pipeline; env at the outer, the inner and the
\* task's level.
Twice ==
  {Config(20 :> <<PipeStage(1, 21, <<>>, a), PipeStage(2, 21, <<<<1>>>>, {})>> @@
          21 :> <<TaskStage(3, 30, <<>>, b), TaskStage(4, 31, <<<<3>>>>, b)>>, c) :
     a \in SUBSET K, b \in SUBSET K, c \in SUBSET K}

\* Three levels, each stage used once; the middle pipeline has one stage or
\* two, and the outer name may be the beginning of its sibling's.
Once ==
  {Config(20 :> <<PipeStage(1, 21, <<>>, a), PipeStage(10, 23, <<>>, {})>> @@
          21 :> (IF two THEN <<PipeStage(3, 22, <<>>, b), TaskStage(4, 31, <<>>, {})>>
                        ELSE <<PipeStage(3, 22, <<>>, b)>>) @@
          22 :> <<TaskStage(5, 30, <<>>, c)>> @@
          23 :> <<TaskStage(6, 32, <<>>, {}), TaskStage(7, 33, <<<<6>>>>, {})>>, d) :
     a \in SUBSET K, b \in SUBSET K, c \in SUBSET K, d \in SUBSET K, two \in BOOLEAN}

\* 22 is passed over below stage 1 and flattened below stage 2.
PassedAndFlattened ==
  {Config(20 :> <<PipeStage(1, 22, <<>>, {}), PipeStage(2, 21, <<>>, {})>> @@
          21 :> <<PipeStage(3, 22, <<>>, {})>> @@
          22 :> <<PipeStage(4, 23, <<>>, {})>> @@
          23 :> <<TaskStage(5, 30, <<>>, {})>>, {})}

Circular ==
  {Config(20 :> <<PipeStage(1, 21, <<>>, {})>> @@
          21 :> <<TaskStage(2, 30, <<>>, {}), PipeStage(3, q, <<>>, {})>> @@
          22 :> <<TaskStage(2, 31, <<>>, {}), PipeStage(3, 21, <<>>, {})>>, {}) : q \in {21, 22}}

\* Definitions that are refused, or that should be.
Refused ==
  LET one(def) == Config(20 :> <<TaskStage(1, 30, <<>>, {}), def>>, {})
      plain    == TaskStage(2, 31, <<>>, {})
  IN  {one([plain EXCEPT !.name = n]) : n \in {NoName, <<1>>, Root, Arrow, <<2, 3>>}} \cup
      {one([plain EXCEPT !.task = 39]), one([plain EXCEPT !.dir = 1]),
       one(PipeStage(2, 29, <<>>, {})), one([PipeStage(2, 20, <<>>, {}) EXCEPT !.dir = 1, !.name = NoName])}

\* A nested pipeline in which 1 depends on 3 and 4, and 2 and 3 on 4.
Steps ==
  {Config(20 :> <<PipeStage(9, 21, <<>>, {})>> @@
          21 :> <<TaskStage(1, 30, <<<<3>>, <<4>>>>, {}), TaskStage(2, 31, <<<<4>>>>, {}),
                  TaskStage(3, 32, <<<<4>>>>, {}), TaskStage(4, 33, <<>>, {})>>, {})}

\* Two stages before a third one with a nested pipeline, with names that GitHub
\* does not allow and a stage named after its task; ci_meta at both levels.
Workflow ==
  LET with(def, gen) == [def EXCEPT !.gen = gen]
      cond == [NoMeta EXCEPT !.cond = 1, !.env = K]
      bad  == [NoMeta EXCEPT !.bad = TRUE]
  IN  {[Config(20 :> <<TaskStage(n, 30, <<>>, K), with(TaskStage(12, 31, <<<<n>>>>, {}), a),
                       with(PipeStage(9, 21, <<<<n>>, <<12>>>>, K), b)>> @@
               21 :> <<with(TaskStage(33, 33, <<>>, {}), c), TaskStage(32, 30, <<<<33>>>>, K)>>, env)
          EXCEPT !.on = on] :
         n \in {2, 11}, env \in SUBSET K, on \in BOOLEAN,
         a \in {NoMeta, cond}, b \in {NoMeta, cond, bad}, c \in {NoMeta, cond, bad}}

MCMachine == (11 :> 13) @@ (12 :> 13)

MCConfigs ==
  UNION {CASE f = "flat" -> Flat [] f = "twice" -> Twice [] f = "once" -> Once
           [] f = "both" -> PassedAndFlattened [] f = "circular" -> Circular
           [] f = "refused" -> Refused [] f = "steps" -> Steps [] f = "workflow" -> Workflow : f \in MCFamilies}

MCStrPrefix == {<<1, 10>>}
=============================================================================
