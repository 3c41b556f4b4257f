--------------------------- MODULE ExecutionGraph ---------------------------
(***************************************************************************)
(* The graph of a pipeline (scheduler/graph.go), the order in which its    *)
(* stages are listed, and the order that GitHub job steps are written in   *)
(* (scheduler/stage.go, internal/genci).                                   *)
(*                                                                         *)
(* A name is a sequence of segments, joined by "->" in the code; a segment *)
(* is a number, and the order of strings is the order of numbers.          *)
(***************************************************************************)
EXTENDS Integers, Sequences, SequencesExt, FiniteSets, TLC

Root == <<0>>

Lookup(f, k) == IF k \in DOMAIN f THEN f[k] ELSE <<>>

NewExecutionGraph == [nodes |-> {Root}, children |-> <<>>, deps |-> <<>>]

(***************************************************************************)
(* cycleDfs from node: the nodes it has visited, and whether it met a node *)
(* of its own recursion stack.                                             *)
(***************************************************************************)
RECURSIVE cycleDfs(_, _, _, _)

cycleDfsMutantChecksVisited(children, node, visited, inStack) ==
  LET kids == Lookup(children, node) IN
  [visited |-> visited \cup {node}, found |-> \E i \in DOMAIN kids : kids[i] \in visited]

cycleDfs(children, node, visited, inStack) ==
  LET kids  == Lookup(children, node)
      stack == inStack \cup {node}
      Explore(acc, child) ==
        IF acc.found THEN acc
        ELSE LET sub == IF child \in acc.visited THEN acc
                        ELSE cycleDfs(children, child, acc.visited, stack)
             IN  [sub EXCEPT !.found = @ \/ child \in stack]
  IN  FoldLeft(Explore, [visited |-> visited \cup {node}, found |-> FALSE], kids)

(***************************************************************************)
(* An edge stays in the graph when it is refused.                          *)
(***************************************************************************)
addEdge(g, parent, child) ==
  LET children == (parent :> Append(Lookup(g.children, parent), child)) @@ g.children IN
  [graph |-> [g EXCEPT !.children = children],
   cycle |-> cycleDfs(children, parent, {}, {}).found]

AddStage(g, name, deps) ==
  LET added == [g EXCEPT !.nodes = @ \cup {name}, !.deps = (name :> deps) @@ @]
      Edge(acc, dep) == IF acc.cycle THEN acc ELSE addEdge(acc.graph, dep, name)
  IN  FoldLeft(Edge, [graph |-> added, cycle |-> FALSE], IF deps = <<>> THEN <<Root>> ELSE deps)

(***************************************************************************)
(* The stages breadth first, without the root.                             *)
(***************************************************************************)
RECURSIVE BfsFrom(_, _, _)

BfsFrom(g, queue, visited) ==
  IF queue = <<>> THEN <<>>
  ELSE LET current == Head(queue)
           kids    == Lookup(g.children, current)
           fresh   == SelectSeq(kids, LAMBDA c : c \notin visited)
       IN  <<current>> \o BfsFrom(g, Tail(queue) \o fresh, visited \cup Range(kids))

BFSNodesFlattened(g) ==
  SelectSeq(BfsFrom(g, <<Root>>, {Root}), LAMBDA n : n # Root)

NameLess(a, b) ==
  \/ \E i \in DOMAIN a \cap DOMAIN b : SubSeq(a, 1, i - 1) = SubSeq(b, 1, i - 1) /\ a[i] < b[i]
  \/ Len(a) < Len(b) /\ SubSeq(b, 1, Len(a)) = a

(***************************************************************************)
(* StageList.Less for the stages named i and j.                            *)
(***************************************************************************)

StageLess(g, i, j) ==
  LET di == Lookup(g.deps, i)
      dj == Lookup(g.deps, j)
  IN  \/ i \in Range(dj)
      \/ /\ j \notin Range(di)
         /\ Len(di) <= Len(dj)
         /\ NameLess(i, j)

(***************************************************************************)
(* sort.Sort of a short list: Go's insertion sort.                         *)
(***************************************************************************)
RECURSIVE SiftDown(_, _, _)
SiftDown(g, s, j) ==
  IF j > 1 /\ StageLess(g, s[j], s[j - 1])
  THEN SiftDown(g, [s EXCEPT ![j] = s[j - 1], ![j - 1] = s[j]], j - 1)
  ELSE s

Sort(g, s) == FoldLeft(LAMBDA acc, j : SiftDown(g, acc, j), s, [j \in DOMAIN s |-> j])

(***************************************************************************)
(* The order in which the jobs and the steps of a workflow are written.    *)
(***************************************************************************)
SortedNodes(g) == Sort(g, BFSNodesFlattened(g))
-----------------------------------------------------------------------------
(***************************************************************************)
(* What the code's answers are compared with.                              *)
(***************************************************************************)
EdgesOf(g) == UNION {{<<p, c>> : c \in Range(g.children[p])} : p \in DOMAIN g.children}

RECURSIVE ReachableIn(_, _)
ReachableIn(edges, from) ==
  LET next == from \cup {e[2] : e \in {e \in edges : e[1] \in from}} IN
  IF next = from THEN from ELSE ReachableIn(edges, next)

OnCycle(edges, n) == n \in ReachableIn(edges, {e[2] : e \in {e \in edges : e[1] = n}})

Acyclic(edges) == \A e \in edges : ~OnCycle(edges, e[1])

(***************************************************************************)
(* How many edges the shortest way from the root has.                      *)
(***************************************************************************)
RECURSIVE LevelFrom(_, _, _, _)
LevelFrom(edges, reached, n, level) ==
  IF n \in reached THEN level
  ELSE LevelFrom(edges, reached \cup {e[2] : e \in {e \in edges : e[1] \in reached}}, n, level + 1)
=============================================================================
