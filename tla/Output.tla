------------------------------- MODULE Output -------------------------------
(***************************************************************************)
(* Task output: output/, the parts of TaskRunner.Run that use it, and the  *)
(* values a task publishes by printing them (HandleOutputCapture and the   *)
(* env artifacts of storeTaskOutput).                                      *)
(*                                                                         *)
(* What a command prints is a sequence of atoms.  An assignment            *)
(* EIRCTL_TASK_OUTPUT_N=value is three of them, "key", "head" ("=" and the *)
(* first half of the value) and "tail", with no space in between, so that  *)
(* a write that ends inside it can cut the name or the value; it is named  *)
(* by the place of its key.  What is written is a range of what the        *)
(* command prints.  The command writes through a goroutine of its          *)
(* executor; for a container that goroutine may outlive the job, see       *)
(* ContainerExecutor.                                                      *)
(***************************************************************************)
EXTENDS Naturals, Sequences

CONSTANT Configs   \* the configurations explored

\* An assignment is printed in one go, on one line.
TextAssumption(text) ==
    /\ DOMAIN text = 1 .. Len(text) /\ Len(text) \in Nat
    /\ \A i \in DOMAIN text :
        /\ text[i].part = "key" =>
            /\ i + 2 \in DOMAIN text
            /\ text[i + 1].part = "head" /\ text[i + 1].line = text[i].line
            /\ text[i + 2].part = "tail" /\ text[i + 2].line = text[i].line
        /\ text[i].part = "head" =>
            i - 1 \in DOMAIN text /\ text[i - 1].part = "key"

ConfigAssumption ==
    \A c \in Configs : \A t \in DOMAIN c.tasks : TextAssumption(c.tasks[t].text)

VARIABLES
    conf,      \* format, terminal, locked, tasks: interactive, container,
               \* artifact, text (atoms: part, line, name of a key)
    run,       \* per task: where its Run is
    reader,    \* per task: the goroutine that copies what the command prints,
               \* how far it has read, captured and written
    captured,  \* per task: task.capturedOutput
    ranged,    \* per task: captured names storeTaskOutput has not reached
    exported,  \* TaskRunner.env: what the tasks published
    sink,      \* per task: what has been written to r.Stdout for it
    cockpit,   \* per task: its baseCockpit and spinner
    crashed,   \* "" or why the process died
    cut,       \* history: per task, assignments a write ended in
    late       \* history: tasks whose job ended before their output

vars == <<conf, run, reader, captured, ranged, exported, sink, cockpit,
          crashed, cut, late>>

Tasks == DOMAIN conf.tasks
T(t) == conf.tasks[t]
Text(t) == T(t).text

\* A shorthand flag, then --output or its variable, then the configuration,
\* then raw.
initConfig(given) ==
    Head(SelectSeq(<<IF given.cockpit THEN "cockpit" ELSE "",
                     IF given.raw THEN "raw" ELSE "",
                     given.flag, given.yaml, "raw">>,
                   LAMBDA f : f # ""))

\* Run: an interactive task writes raw whatever the format.
Format(t) == IF T(t).interactive THEN "raw" ELSE initConfig(conf.format)

-----------------------------------------------------------------------------
(* Decorators. *)

\* Write of the three decorators takes all there is; prefixed goes line by
\* line, and with atEOF what is left after the last newline is a line too.
PieceEnds(t, from, to, k) ==
    IF Format(t) = "prefixed"
    THEN /\ \A i \in from .. k : Text(t)[i].line = Text(t)[from].line
         /\ k # to => Text(t)[k + 1].line # Text(t)[from].line
    ELSE k = to

Write(t, kind, from, to) ==
    sink' = [sink EXCEPT ![t] = Append(@, [kind |-> kind, from |-> from, to |-> to])]
WriteNote(t, kind) == Write(t, kind, reader[t].done + 1, reader[t].done)

\* bytes.Fields, then the prefix, then SplitN at "=": a field that starts with
\* a key and its "=".
Assignments(t, from, to) == {p \in from .. to : Text(t)[p].part = "key" /\ p + 1 <= to}

Last(S) == CHOOSE p \in S : \A q \in S : q <= p

\* HandleOutputCapture: a later assignment to a name replaces the earlier one.
CapturesMutantFirst(t, from, to) ==
    LET by(n) == {p \in Assignments(t, from, to) : Text(t)[p].name = n}
    IN  [n \in {Text(t)[p].name : p \in Assignments(t, from, to)} |->
            LET p == CHOOSE p \in by(n) : \A q \in by(n) : q >= p
            IN  [at |-> p, whole |-> p + 2 <= to]]
Captures(t, from, to) ==
    LET by(n) == {p \in Assignments(t, from, to) : Text(t)[p].name = n}
    IN  [n \in {Text(t)[p].name : p \in Assignments(t, from, to)} |->
            [at |-> Last(by(n)), whole |-> Last(by(n)) + 2 <= to]]

\* Set for each name of a map.
Merge(old, new) ==
    [n \in DOMAIN old \cup DOMAIN new |-> IF n \in DOMAIN new THEN new[n] ELSE old[n]]

-----------------------------------------------------------------------------
(* Run, up to the end of the task's job. *)

Idle == [state |-> "idle", pos |-> 0, seen |-> 0, done |-> 0]
NewCockpit == [tasks |-> {}, mu |-> "free", spinner |-> "nil", frame |-> FALSE,
               finalMsg |-> FALSE]
Empty == [n \in {} |-> n]

Init ==
    /\ conf \in Configs
    /\ run = [t \in Tasks |-> "new"]
    /\ reader = [t \in Tasks |-> Idle]
    /\ captured = [t \in Tasks |-> Empty]
    /\ ranged = [t \in Tasks |-> {}]
    /\ exported = Empty
    /\ sink = [t \in Tasks |-> <<>>]
    /\ cockpit = [t \in Tasks |-> NewCockpit]
    /\ crashed = ""
    /\ cut = [t \in Tasks |-> {}]
    /\ late = {}

Go(t, at) == run' = [run EXCEPT ![t] = at]

\* An unknown format ends Run before anything is deferred.
NewTaskOutput(t) ==
    /\ run[t] = "new"
    /\ Go(t, IF Format(t) \in {"raw", "prefixed", "cockpit"} THEN "before"
             ELSE "end")
    /\ UNCHANGED <<conf, reader, captured, ranged, exported, sink, cockpit,
                   crashed, cut, late>>

\* The env files, the condition, the before hooks and the compiler come before
\* the header; a task that fails or is skipped there still gets its footer.
BeforeStart(t) ==
    /\ run[t] = "before"
    /\ \/ Go(t, "start")
       \/ Go(t, "footer")
    /\ UNCHANGED <<conf, reader, captured, ranged, exported, sink, cockpit,
                   crashed, cut, late>>

Begin(t, format) ==
    /\ run[t] = "start" /\ Format(t) = format
    /\ Go(t, "execute")
    /\ reader' = [reader EXCEPT ![t].state = "on"]
    /\ UNCHANGED <<conf, captured, ranged, exported, crashed, cut, late>>

\* WriteHeader of the decorators; the raw one has none.
RawHeader(t) == Begin(t, "raw") /\ UNCHANGED <<sink, cockpit>>

PrefixedHeader(t) ==
    /\ Begin(t, "prefixed")
    /\ WriteNote(t, "header")
    /\ UNCHANGED cockpit

\* baseCockpit.add starts the spinner, which spins only on a terminal.
CockpitHeader(t) ==
    /\ Begin(t, "cockpit")
    /\ cockpit' = [cockpit EXCEPT ![t].tasks = {t},
                        ![t].spinner = IF conf.terminal THEN "on" ELSE "off"]
    /\ UNCHANGED sink

\* The executor hands on what it has read, however much that is.
Read(t) ==
    /\ reader[t].state = "on" /\ reader[t].done = reader[t].pos
    /\ \E k \in reader[t].pos + 1 .. Len(Text(t)) :
        /\ reader' = [reader EXCEPT ![t].pos = k]
        /\ cut' = [cut EXCEPT ![t] = @ \cup
                    CASE Text(t)[k].part = "key" -> {k}
                      [] Text(t)[k].part = "head" -> {k - 1}
                      [] OTHER -> {}]
    /\ UNCHANGED <<conf, run, captured, ranged, exported, sink, cockpit,
                   crashed, late>>

\* The map is locked here, but storeTaskOutput ranges over it after the lock:
\* a write meanwhile kills the process, or the range may see it or not.
HandleOutputCapture(t) ==
    /\ reader[t].done = reader[t].seen
    /\ \E k \in reader[t].seen + 1 .. reader[t].pos :
        LET new == Captures(t, reader[t].seen + 1, k)
        IN  /\ PieceEnds(t, reader[t].seen + 1, reader[t].pos, k)
            /\ captured' = [captured EXCEPT ![t] = Merge(@, new)]
            /\ reader' = [reader EXCEPT ![t].seen = k]
            /\ IF run[t] = "range" /\ DOMAIN new # {}
               THEN \/ crashed' = "map" /\ UNCHANGED ranged
                    \/ \E seen \in SUBSET DOMAIN new :
                        /\ ranged' = [ranged EXCEPT ![t] = @ \cup seen]
                        /\ UNCHANGED crashed
               ELSE UNCHANGED <<ranged, crashed>>
    /\ UNCHANGED <<conf, run, exported, sink, cockpit, cut, late>>

\* SafeWriter.Write, one piece at a time; the cockpit writes nothing.
WritePieceMutantOneLine(t) ==
    /\ reader[t].done < reader[t].seen
    /\ IF Format(t) = "cockpit" THEN UNCHANGED sink
       ELSE Write(t, "piece", reader[t].done + 1, reader[t].seen)
    /\ reader' = [reader EXCEPT ![t].done = reader[t].pos, ![t].seen = reader[t].pos]
    /\ UNCHANGED <<conf, run, captured, ranged, exported, cockpit, crashed,
                   cut, late>>
WritePiece(t) ==
    /\ reader[t].done < reader[t].seen
    /\ IF Format(t) = "cockpit" THEN UNCHANGED sink
       ELSE Write(t, "piece", reader[t].done + 1, reader[t].seen)
    /\ reader' = [reader EXCEPT ![t].done = reader[t].seen]
    /\ UNCHANGED <<conf, run, captured, ranged, exported, cockpit, crashed,
                   cut, late>>

\* The output ends; or the job ended first and takes the stream with it.
ReaderEnds(t) ==
    /\ reader[t].state = "on" /\ reader[t].done = reader[t].pos
    /\ reader[t].pos = Len(Text(t)) \/ t \in late
    /\ reader' = [reader EXCEPT ![t].state = "ended"]
    /\ UNCHANGED <<conf, run, captured, ranged, exported, sink, cockpit,
                   crashed, cut, late>>

\* The job ends well or not, after its output; a container also when it is
\* cancelled, or when its output is not drained a second after it exited.
ExecuteMutantDoesNotWait(t) ==
    /\ run[t] = "execute"
    /\ late' = late
    /\ \/ Go(t, "store")
       \/ Go(t, "footer")
    /\ UNCHANGED <<conf, reader, captured, ranged, exported, sink, cockpit,
                   crashed, cut>>
Execute(t) ==
    /\ run[t] = "execute"
    /\ reader[t].state = "ended" \/ T(t).container
    /\ late' = IF reader[t].state = "on" THEN late \cup {t} ELSE late
    /\ \/ Go(t, "store")
       \/ Go(t, "footer")
    /\ UNCHANGED <<conf, reader, captured, ranged, exported, sink, cockpit,
                   crashed, cut>>

-----------------------------------------------------------------------------
(* Run, after the job. *)

\* storeTaskOutput for env artifacts: OutputCaptured gives out the map itself.
StoreBegins(t) ==
    /\ run[t] = "store"
    /\ Go(t, IF T(t).artifact THEN "range" ELSE "after")
    /\ ranged' = [ranged EXCEPT ![t] = IF T(t).artifact
                                       THEN DOMAIN captured[t] ELSE {}]
    /\ UNCHANGED <<conf, reader, captured, exported, sink, cockpit, crashed,
                   cut, late>>

storeTaskOutput(t) ==
    /\ run[t] = "range"
    /\ \/ \E n \in ranged[t] :
            /\ exported' = Merge(exported, [m \in {n} |-> [task |-> t, val |-> captured[t][n]]])
            /\ ranged' = [ranged EXCEPT ![t] = @ \ {n}]
            /\ UNCHANGED run
       \/ ranged[t] = {} /\ Go(t, "after") /\ UNCHANGED <<exported, ranged>>
    /\ UNCHANGED <<conf, reader, captured, sink, cockpit, crashed, cut, late>>

\* The task's after commands write to the runner's stdout themselves.
After(t) ==
    /\ run[t] = "after"
    /\ Go(t, "footer")
    /\ UNCHANGED <<conf, reader, captured, ranged, exported, sink, cockpit,
                   crashed, cut, late>>

\* WriteFooter of the decorators, in the deferred part of Run.
Finish(t, format) ==
    /\ run[t] = "footer" /\ Format(t) = format
    /\ UNCHANGED <<conf, reader, captured, ranged, exported, cut, late>>

RawFooter(t) ==
    Finish(t, "raw") /\ Go(t, "close") /\ UNCHANGED <<sink, cockpit, crashed>>

PrefixedFooter(t) ==
    /\ Finish(t, "prefixed")
    /\ WriteNote(t, "footer")
    /\ Go(t, "close")
    /\ UNCHANGED <<cockpit, crashed>>

\* baseCockpit.remove uses the spinner that only add makes.
CockpitFooter(t) ==
    /\ Finish(t, "cockpit")
    /\ cockpit[t].mu = "free"
    /\ IF cockpit[t].spinner = "nil"
       THEN crashed' = "spinner" /\ UNCHANGED <<run, cockpit>>
       ELSE /\ cockpit' = [cockpit EXCEPT ![t].mu = "run",
                            ![t].tasks = @ \ {t}, ![t].finalMsg = TRUE]
            /\ Go(t, "restart") /\ UNCHANGED crashed
    /\ UNCHANGED sink

\* The spinner holds its own lock while it draws a frame, PreUpdate included.
SpinnerLocked(t) == conf.locked /\ cockpit[t].frame

\* Restart stops the spinner, which prints FinalMSG if it was on, and starts
\* it again, all of it under the cockpit's lock.
Restart(t) ==
    /\ run[t] = "restart" /\ ~SpinnerLocked(t)
    /\ IF cockpit[t].spinner = "on" THEN WriteNote(t, "final") ELSE UNCHANGED sink
    /\ cockpit' = [cockpit EXCEPT ![t].finalMsg = FALSE, ![t].mu = "free"]
    /\ Go(t, "close")
    /\ UNCHANGED <<conf, reader, captured, ranged, exported, crashed, cut, late>>

\* close(closeCh): Run ends, and the goroutine of add is told to stop.
Close(t) ==
    /\ run[t] = "close"
    /\ Go(t, "end")
    /\ UNCHANGED <<conf, reader, captured, ranged, exported, sink, cockpit,
                   crashed, cut, late>>

StopSpinner(t) ==
    /\ run[t] = "end" /\ cockpit[t].spinner = "on" /\ ~SpinnerLocked(t)
    /\ IF cockpit[t].finalMsg THEN WriteNote(t, "final") ELSE UNCHANGED sink
    /\ cockpit' = [cockpit EXCEPT ![t].spinner = "off"]
    /\ UNCHANGED <<conf, run, reader, captured, ranged, exported, crashed,
                   cut, late>>

Frame(t) ==
    /\ cockpit[t].spinner = "on" /\ ~cockpit[t].frame
    /\ cockpit' = [cockpit EXCEPT ![t].frame = TRUE]
    /\ UNCHANGED <<conf, run, reader, captured, ranged, exported, sink,
                   crashed, cut, late>>

\* start's PreUpdate lists the tasks under the cockpit's lock.
PreUpdateMutantKeepsLock(t) ==
    /\ cockpit[t].frame /\ cockpit[t].mu = "free"
    /\ cockpit' = [cockpit EXCEPT ![t].frame = FALSE, ![t].mu = "spinner"]
    /\ UNCHANGED <<conf, run, reader, captured, ranged, exported, sink,
                   crashed, cut, late>>
PreUpdate(t) ==
    /\ cockpit[t].frame /\ cockpit[t].mu = "free"
    /\ cockpit' = [cockpit EXCEPT ![t].frame = FALSE]
    /\ UNCHANGED <<conf, run, reader, captured, ranged, exported, sink,
                   crashed, cut, late>>

RunStep(t) ==
    \/ NewTaskOutput(t) \/ BeforeStart(t)
    \/ RawHeader(t) \/ PrefixedHeader(t) \/ CockpitHeader(t)
    \/ Execute(t) \/ StoreBegins(t) \/ storeTaskOutput(t) \/ After(t)
    \/ RawFooter(t) \/ PrefixedFooter(t) \/ CockpitFooter(t)
    \/ Restart(t) \/ Close(t)

ReaderStep(t) ==
    Read(t) \/ HandleOutputCapture(t) \/ WritePiece(t) \/ ReaderEnds(t)

TaskStep(t) ==
    RunStep(t) \/ ReaderStep(t) \/ StopSpinner(t) \/ Frame(t) \/ PreUpdate(t)

Next == crashed = "" /\ \E t \in Tasks : TaskStep(t)

Spec == Init /\ [][Next]_vars

\* Every goroutine goes on; a Go mutex lets every waiter in, so that waiting
\* for one that keeps being free is enough.
FairSpec ==
    /\ Spec
    /\ \A t \in UNION {DOMAIN c.tasks : c \in Configs} :
        /\ SF_vars(crashed = "" /\ t \in Tasks /\ RunStep(t))
        /\ WF_vars(crashed = "" /\ t \in Tasks /\ ReaderStep(t))
        /\ WF_vars(crashed = "" /\ t \in Tasks /\ PreUpdate(t))

-----------------------------------------------------------------------------
(* Properties. *)

\* How far r.Stdout has got with what the command prints.
Written(t) == IF sink[t] = <<>> THEN 0 ELSE sink[t][Len(sink[t])].to

\* Raw and prefixed output lose and reorder nothing, however the writes are
\* cut and whoever else writes: what r.Stdout has of a task is what its
\* command printed so far, piece after piece, and all of it when its Run has
\* ended, unless the job ended before its output.  With prefixes there is a
\* line at a time, after the header, and the footer comes last.  The cockpit
\* says once that a task has finished, when there is a terminal to say it on.
OutputInOrder ==
    \A t \in Tasks :
        /\ Format(t) # "cockpit" =>
            /\ \A i \in DOMAIN sink[t] :
                /\ sink[t][i].from = IF i = 1 THEN 1 ELSE sink[t][i - 1].to + 1
                /\ sink[t][i].kind # "final"
            /\ Written(t) <= reader[t].pos
            /\ run[t] = "end" /\ reader[t].state # "idle" /\ t \notin late =>
                /\ Written(t) = Len(Text(t))
                /\ Format(t) = "prefixed" => sink[t][Len(sink[t])].kind = "footer"
        /\ Format(t) = "prefixed" =>
            \A i \in DOMAIN sink[t] :
                /\ sink[t][i].kind = "header" <=> i = 1 /\ reader[t].state # "idle"
                /\ \A a, b \in sink[t][i].from .. sink[t][i].to :
                    Text(t)[a].line = Text(t)[b].line
        /\ Format(t) = "cockpit" =>
            IF conf.terminal /\ run[t] \in {"close", "end"}
            THEN Len(sink[t]) = 1 /\ sink[t][1].kind = "final"
            ELSE sink[t] = <<>>

\* The assignments to a name in what a task prints.
Keys(t, n) == {p \in DOMAIN Text(t) : Text(t)[p].part = "key" /\ Text(t)[p].name = n}

\* docs/artifacts.adoc:63-65: what a task prints as EIRCTL_TASK_OUTPUT_N=v is
\* what the tasks after it get as N.  It is the task's last assignment to N,
\* and all of its value, unless one write ended inside an assignment to N or
\* the container was given up on before its output was drained.
ExportedIsWhole ==
    \A t \in Tasks :
        LET sure(n) == t \notin late /\ Keys(t, n) \cap cut[t] = {}
        IN  /\ \A n \in DOMAIN exported : exported[n].task = t =>
                /\ exported[n].val.at \in Keys(t, n)
                /\ sure(n) => exported[n].val = [at |-> Last(Keys(t, n)), whole |-> TRUE]
            /\ T(t).artifact /\ run[t] = "after" =>
                \A p \in DOMAIN Text(t) :
                    Text(t)[p].part = "key" /\ sure(Text(t)[p].name) =>
                        Text(t)[p].name \in DOMAIN exported

\* Output brings the process down in two ways only: the footer of the cockpit
\* for a task that never got its header, which is one that failed or was
\* skipped before its commands, and container output that is still captured
\* while storeTaskOutput publishes it.
CrashHasCause ==
    crashed # "" =>
        \/ /\ crashed = "spinner"
           /\ \E t \in Tasks : /\ run[t] = "footer" /\ Format(t) = "cockpit"
                               /\ cockpit[t].tasks = {} /\ reader[t].state = "idle"
        \/ /\ crashed = "map"
           /\ \E t \in Tasks : run[t] = "range" /\ t \in late /\ T(t).artifact

\* Both wait for the other's lock: remove holds the cockpit's and Restart
\* wants the spinner's, the spinner draws a frame and PreUpdate wants the
\* cockpit's.
LockedOut(t) == run[t] = "restart" /\ SpinnerLocked(t)

\* The footer lets Run end, whatever the format, except for the two locks the
\* cockpit and its spinner take in opposite orders (cockpit.go:41 and :84).
FooterReturns ==
    \A t \in UNION {DOMAIN c.tasks : c \in Configs} :
        t \in Tasks /\ run[t] = "footer" ~>
            \/ crashed # ""
            \/ t \in Tasks /\ (run[t] = "end" \/ LockedOut(t))

=============================================================================
