------------------------------ MODULE MCOutput ------------------------------
(***************************************************************************)
(* Instances of Output: two tasks at a time, under every format, and one.  *)
(***************************************************************************)
EXTENDS Output

Word(l) == <<[part |-> "word", line |-> l]>>
Assign(n, l) == <<[part |-> "key", line |-> l, name |-> n],
                  [part |-> "head", line |-> l], [part |-> "tail", line |-> l]>>

MCTask(interactive, container, artifact, text) ==
    [interactive |-> interactive, container |-> container,
     artifact |-> artifact, text |-> text]

Conf(format, terminal, locked, tasks) ==
    [format |-> format, terminal |-> terminal, locked |-> locked,
     tasks |-> tasks]

\* Every source of the format, with the weaker ones saying something else.
Default == [cockpit |-> FALSE, raw |-> FALSE, flag |-> "", yaml |-> ""]
Raw == [Default EXCEPT !.raw = TRUE, !.flag = "prefixed"]
Prefixed == [Default EXCEPT !.flag = "prefixed", !.yaml = "cockpit"]
Fancy == [Default EXCEPT !.yaml = "fancy"]
Cockpit == [Default EXCEPT !.cockpit = TRUE, !.raw = TRUE]

\* Two assignments to one name on two lines, in a container that may be given
\* up on; tasks that publish the same name; one that publishes nothing.
Twice == MCTask(FALSE, TRUE, TRUE, Assign("N", 1) \o Assign("N", 2))
Once(interactive) == MCTask(interactive, TRUE, TRUE, Assign("N", 1))
Also == MCTask(FALSE, FALSE, TRUE, Assign("N", 1))
Plain == MCTask(FALSE, FALSE, FALSE, Word(1) \o Word(2))

MCConfigs ==
    {Conf(f, FALSE, FALSE, [a |-> Twice]) : f \in {Default, Prefixed, Fancy}}
    \cup {Conf(Raw, FALSE, FALSE, [a |-> Once(FALSE), b |-> Also]),
          Conf(Prefixed, FALSE, FALSE, [a |-> Once(TRUE), b |-> Plain])}
    \cup {Conf(Cockpit, TRUE, TRUE, [a |-> Once(FALSE), b |-> Plain]),
          Conf(Cockpit, TRUE, FALSE, [a |-> Once(FALSE)]),
          Conf(Cockpit, FALSE, FALSE, [a |-> Once(TRUE), b |-> Also])}

\* One task, which is enough where tasks share no lock.
MCSingleConfigs ==
    {Conf(f, terminal, locked, [a |-> Once(interactive)]) :
        f \in {Raw, Prefixed, Cockpit}, terminal \in BOOLEAN, locked \in BOOLEAN,
        interactive \in BOOLEAN}

=============================================================================
