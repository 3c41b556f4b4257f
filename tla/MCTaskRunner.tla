---------------------------- MODULE MCTaskRunner ----------------------------
(***************************************************************************)
(* An instance of TaskRunner for TLC: a task is one command and nothing    *)
(* else, or it has every optional part and as many jobs as the bound       *)
(* allows.                                                                 *)
(***************************************************************************)
EXTENDS TaskRunner

CONSTANTS
  MCContexts,  \* the contexts tasks may name
  MCFlags      \* the flags of the tasks that have every part

MCDefinitions ==
  LET commands == {"run", "execute"} IN
  [context: MCContexts, sites: {commands}, jobs: {1}, flags: {{}}] \cup
  [context: MCContexts, sites: {commands \cup {"condition", "before", "after"}},
   jobs: {MaxJobs}, flags: MCFlags]
=============================================================================
