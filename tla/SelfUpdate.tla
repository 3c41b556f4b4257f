----------------------------- MODULE SelfUpdate -----------------------------
(***************************************************************************)
(* eirctl update: selfupdate/update.go replaces the binary it runs from.   *)
(* The steps of the command are separate, any of them may fail, the        *)
(* process may be killed between them, and updates may overlap.            *)
(*                                                                         *)
(* A file is a name that points to a node; name 0 is the binary, name n+1  *)
(* is name n with ".old".  A rename moves the node, and whoever has it     *)
(* open goes on writing to it.  The data of a node is two halves, each 0   *)
(* when it is missing, else what it is a half of: a release or the page an *)
(* HTTP server answers with when it has no such release.                   *)
(***************************************************************************)
EXTENDS Naturals, Sequences

CONSTANTS
    Updates,   \* the update commands
    Releases,  \* the releases there are, numbers above 0
    Page,      \* the data of an error page
    MaxName    \* bound: no name gets more than this many ".old"

\* What the constants are: there is a release, and no page is one.
UpdateAssumption ==
    /\ Releases \subseteq Nat \ {0} /\ Releases # {}
    /\ Page \in Nat \ (Releases \cup {0})
    /\ MaxName \in Nat \ {0}

VARIABLES
    fs,      \* the node of each name, 0 for none
    nodes,   \* the nodes: data and the executable bit
    up,      \* per update: pc, exe, its file, the body it reads, where it is
    from,    \* history: per update, the release it was started from
    alone    \* history: updates that no other update overlapped

vars == <<fs, nodes, up, from, alone>>

Names == 0 .. MaxName
Data(v) == <<v, v>>
Holds(n, v) == fs[n] # 0 /\ nodes[fs[n]] = [data |-> Data(v), exec |-> TRUE]
Runnable(n) == \E v \in Releases : Holds(n, v)

Idle == [pc |-> "idle", exe |-> 0, fd |-> 0, body |-> 0, at |-> 0]

\* Whatever release is installed, alone in its directory.
Init ==
    /\ \E v \in Releases : nodes = <<[data |-> Data(v), exec |-> TRUE]>>
    /\ fs = [n \in Names |-> IF n = 0 THEN 1 ELSE 0]
    /\ up = [u \in Updates |-> Idle]
    /\ from = [u \in Updates |-> 0]
    /\ alone = Updates

Active == {u \in Updates : up[u].pc \notin {"idle", "updated", "error", "killed"}}
Go(u, at) == up' = [up EXCEPT ![u].pc = at]
Fail(u) == Go(u, "error") /\ UNCHANGED <<fs, nodes, from, alone>>

\* os.Executable: the name the update was started from.
Start(u) ==
    /\ up[u].pc = "idle"
    /\ \E n \in Names \ {MaxName} :
        /\ Runnable(n)
        /\ up' = [up EXCEPT ![u].pc = "rename", ![u].exe = n]
        /\ from' = [from EXCEPT ![u] = nodes[fs[n]].data[1]]
    /\ alone' = IF Active = {} THEN alone ELSE alone \ (Active \cup {u})
    /\ UNCHANGED <<fs, nodes>>

\* prepSourceBinary; a name that is gone cannot be renamed.
prepSourceBinaryMutantKeeps(u) ==
    /\ up[u].pc = "rename"
    /\ fs[up[u].exe] # 0
    /\ Go(u, "create")
    /\ UNCHANGED <<fs, nodes, from, alone>>
prepSourceBinary(u) ==
    /\ up[u].pc = "rename"
    /\ \/ /\ fs[up[u].exe] # 0
          /\ fs' = [fs EXCEPT ![up[u].exe + 1] = fs[up[u].exe], ![up[u].exe] = 0]
          /\ Go(u, "create")
          /\ UNCHANGED <<nodes, from, alone>>
       \/ Fail(u)

\* os.Create: a new node, or the one there is cut to nothing with its mode.
Create(u) ==
    /\ up[u].pc = "create"
    /\ \/ LET n == up[u].exe
              new == fs[n] = 0
              fd == IF new THEN Len(nodes) + 1 ELSE fs[n]
          IN  /\ nodes' = IF new
                          THEN Append(nodes, [data |-> Data(0), exec |-> FALSE])
                          ELSE [nodes EXCEPT ![fd].data = Data(0)]
              /\ fs' = [fs EXCEPT ![n] = fd]
              /\ up' = [up EXCEPT ![u].pc = "get", ![u].fd = fd]
              /\ UNCHANGED <<from, alone>>
       \/ Fail(u)

\* GetVersion: the request may fail, and any answer is taken for the release.
GetVersion(u) ==
    /\ up[u].pc = "get"
    /\ \/ /\ \E b \in Releases \cup {Page} :
                up' = [up EXCEPT ![u].pc = "copy", ![u].body = b, ![u].at = 1]
          /\ UNCHANGED <<fs, nodes, from, alone>>
       \/ Fail(u)

\* io.Copy, which may break off; the file stays as it is then.
Copy(u) ==
    /\ up[u].pc = "copy"
    /\ \/ /\ nodes' = [nodes EXCEPT ![up[u].fd].data[up[u].at] = up[u].body]
          /\ up' = [up EXCEPT ![u].at = @ + 1,
                              ![u].pc = IF up[u].at = 2 THEN "chmod" ELSE @]
          /\ UNCHANGED <<fs, from, alone>>
       \/ Fail(u)

\* Chmod goes by name again, to whatever has the name now.
Chmod(u) ==
    /\ up[u].pc = "chmod"
    /\ \/ /\ fs[up[u].exe] # 0
          /\ nodes' = [nodes EXCEPT ![fs[up[u].exe]].exec = TRUE]
          /\ Go(u, "updated")
          /\ UNCHANGED <<fs, from, alone>>
       \/ Fail(u)

\* The process is killed, or the machine goes down.
Kill(u) ==
    /\ u \in Active
    /\ Go(u, "killed")
    /\ UNCHANGED <<fs, nodes, from, alone>>

Next ==
    \E u \in Updates :
        \/ Start(u) \/ prepSourceBinary(u) \/ Create(u) \/ GetVersion(u)
        \/ Copy(u) \/ Chmod(u) \/ Kill(u)

Spec == Init /\ [][Next]_vars

-----------------------------------------------------------------------------
(* Properties. *)

\* However an update ends, where it fails and whatever it downloads, the
\* release it was started from can still be run: under its name until it is
\* renamed, under .old afterwards (update.go:123).  This needs that no
\* other update overlapped one: a second one renames the file the first has
\* just created over the release that was kept, and can lose it by failing.
\* Updates that overlap leave something to run if all of them succeed.
PreviousIsKept ==
    /\ alone = Updates =>
        /\ \E n \in Names : Runnable(n)
        /\ \A u \in Active :
            \/ Holds(up[u].exe, from[u])
            \/ Holds(up[u].exe + 1, from[u])
    /\ (\A u \in Updates : \/ up[u].pc = "idle"
                           \/ up[u].pc = "updated" /\ up[u].body \in Releases)
        => \E n \in Names : Runnable(n)

=============================================================================
