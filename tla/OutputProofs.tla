---------------------------- MODULE OutputProofs ----------------------------
(***************************************************************************)
(* Proofs about Output, for any tasks, texts and formats, however the      *)
(* writes are cut.                                                         *)
(***************************************************************************)
EXTENDS Output, TLAPS, WellFoundedInduction

(***************************************************************************)
(* The inductive invariant, by parts, most of them of one task.            *)
(***************************************************************************)
Places == {"new", "before", "start", "execute", "store", "range", "after",
           "footer", "restart", "close", "end"}

Readers == [state : {"idle", "on", "ended"}, pos : Nat, seen : Nat, done : Nat]

Items == [kind : {"header", "piece", "footer", "final"}, from : Nat, to : Nat]

Cockpits == [tasks : SUBSET Tasks, mu : {"free", "run"}, spinner : {"nil", "on", "off"},
             frame : BOOLEAN, finalMsg : BOOLEAN]

Captured == [at : Nat, whole : BOOLEAN]

TypeOK ==
  /\ ConfigAssumption
  /\ conf \in Configs
  /\ run \in [Tasks -> Places]
  /\ reader \in [Tasks -> Readers]
  /\ captured = [t \in Tasks |-> captured[t]]
  /\ ranged = [t \in Tasks |-> ranged[t]]
  /\ sink \in [Tasks -> Seq(Items)]
  /\ cockpit \in [Tasks -> Cockpits]
  /\ cut = [t \in Tasks |-> cut[t]]
  /\ late \subseteq Tasks

\* The executor reads, captures and writes in this order, and does not go on
\* after the job unless the job was given up on.
InStep(t) ==
  /\ reader[t].done <= reader[t].seen /\ reader[t].seen <= reader[t].pos
  /\ reader[t].pos <= Len(Text(t))
  /\ reader[t].state = "idle" => reader[t].pos = 0
  /\ reader[t].state = "on" => run[t] = "execute" \/ t \in late
  /\ reader[t].state = "ended" =>
       /\ reader[t].done = reader[t].pos
       /\ reader[t].pos = Len(Text(t)) \/ t \in late
  /\ run[t] \in {"new", "before", "start"} <=>
       reader[t].state = "idle" /\ run[t] \notin {"footer", "restart", "close", "end"}

\* A write ends inside an assignment only if that is one of those it cut, and
\* so does a line of it.
Inside(t, p, k) == k \in {p, p + 1}
CutsKnown(t) ==
  \A p \in DOMAIN Text(t) :
    Text(t)[p].part = "key" /\ p \notin cut[t] =>
      ~ Inside(t, p, reader[t].pos) /\ ~ Inside(t, p, reader[t].seen)

\* What is captured is an assignment, and the last one so far of a name none
\* of whose assignments was cut.
Whole(t, n) == Keys(t, n) \cap cut[t] = {}
Latest(t) ==
  \A n \in DOMAIN captured[t] :
    /\ captured[t][n] \in Captured
    /\ captured[t][n].at \in Keys(t, n)
    /\ Whole(t, n) => captured[t][n].whole
AllCaptured(t) ==
  \A p \in DOMAIN Text(t) :
    LET n == Text(t)[p].name IN
    Text(t)[p].part = "key" /\ p + 2 <= reader[t].seen /\ Whole(t, n) =>
      n \in DOMAIN captured[t] /\ p <= captured[t][n].at

\* storeTaskOutput reaches every name, and publishes what was captured.
Publishing(t) ==
  /\ ranged[t] \subseteq DOMAIN captured[t]
  /\ run[t] = "range" => T(t).artifact
  /\ T(t).artifact /\ run[t] \in {"range", "after"} =>
       \A p \in DOMAIN Text(t) :
         LET n == Text(t)[p].name IN
         Text(t)[p].part = "key" /\ t \notin late /\ Whole(t, n) =>
           n \in DOMAIN exported \/ (run[t] = "range" /\ n \in ranged[t])
Published ==
  \A n \in DOMAIN exported : \E t \in Tasks :
    /\ exported[n].task = t
    /\ exported[n].val \in Captured
    /\ exported[n].val.at \in Keys(t, n)
    /\ t \notin late /\ Whole(t, n) =>
         /\ exported[n].val.whole
         /\ \A p \in Keys(t, n) : p <= exported[n].val.at

\* A piece that is captured and not written yet is one line.
OneLine(t) ==
  Format(t) = "prefixed" =>
    \A i \in reader[t].done + 1 .. reader[t].seen :
      Text(t)[i].line = Text(t)[reader[t].done + 1].line

\* What r.Stdout has of a task that is not in a cockpit.
Sunk(t) ==
  Format(t) # "cockpit" =>
    /\ Written(t) = reader[t].done
    /\ run[t] \in {"new", "before", "start"} => sink[t] = <<>>
    /\ \A i \in DOMAIN sink[t] :
         /\ sink[t][i].from = IF i = 1 THEN 1 ELSE sink[t][i - 1].to + 1
         /\ sink[t][i].kind # "final"
    /\ Format(t) = "prefixed" =>
         /\ \A i \in DOMAIN sink[t] :
              /\ sink[t][i].kind = "header" <=> i = 1 /\ reader[t].state # "idle"
              /\ \A a, b \in sink[t][i].from .. sink[t][i].to :
                   Text(t)[a].line = Text(t)[b].line
         /\ reader[t].state # "idle" => sink[t] # <<>>
         /\ run[t] \in {"close", "end"} /\ reader[t].state # "idle" /\ t \notin late =>
              sink[t][Len(sink[t])].kind = "footer"

\* The cockpit has a spinner from its header on, and its message is set only
\* while the footer restarts that.
Spinning(t) ==
  /\ cockpit[t].spinner = "nil" => cockpit[t].tasks = {}
  /\ Format(t) = "cockpit" /\ reader[t].state # "idle" => cockpit[t].spinner # "nil"
  /\ cockpit[t].spinner = "nil" \/ Format(t) = "cockpit"
  /\ cockpit[t].finalMsg => run[t] = "restart"
  /\ run[t] = "restart" => Format(t) = "cockpit" /\ cockpit[t].spinner # "nil"
  /\ run[t] # "end" /\ cockpit[t].spinner # "nil" =>
       (cockpit[t].spinner = "on" <=> conf.terminal)
  /\ Format(t) = "cockpit" =>
       IF conf.terminal /\ run[t] \in {"close", "end"}
       THEN Len(sink[t]) = 1 /\ sink[t][1].kind = "final"
       ELSE sink[t] = <<>>

TaskInv(t) ==
  /\ InStep(t) /\ CutsKnown(t) /\ Latest(t) /\ AllCaptured(t) /\ Publishing(t)
  /\ OneLine(t) /\ Sunk(t) /\ Spinning(t)

IInv == TypeOK /\ (\A t \in Tasks : TaskInv(t)) /\ Published /\ CrashHasCause

(***************************************************************************)
(* Facts about the text and the operators.                                 *)
(***************************************************************************)
\* The words of an assignment stand together, on one line.
LEMMA TextFacts ==
  ASSUME ConfigAssumption, conf \in Configs, NEW t \in Tasks
  PROVE  TextAssumption(Text(t))
BY DEF ConfigAssumption, Tasks, T, Text

\* A set of places in a text that has one has a last one.
LEMMA LastIs ==
  ASSUME NEW m \in Nat, NEW S \in SUBSET (1 .. m), S # {}
  PROVE  Last(S) \in S /\ \A q \in S : q <= Last(S)
<1> DEFINE D == {m - p : p \in S}
<1>1. D \subseteq Nat /\ D # {}
  <2>1. \A p \in S : m - p \in Nat
    OBVIOUS
  <2>2. PICK p \in S : TRUE
    OBVIOUS
  <2>3. m - p \in D
    OBVIOUS
  <2> QED BY <2>1, <2>3
<1>2. IsWellFoundedOn(OpToRel(<, Nat), Nat)
  BY NatLessThanWellFounded
<1>3. PICK d \in D : \A e \in D : ~ (<<e, d>> \in OpToRel(<, Nat))
  BY <1>1, <1>2, WFMin
<1>4. \A e \in D : ~ (e < d)
  BY <1>1, <1>3 DEF OpToRel
<1>5. PICK p \in S : d = m - p
  OBVIOUS
<1>6. \A q \in S : q <= p
  BY <1>4, <1>5
<1> QED BY <1>6 DEF Last

\* What one piece adds to what is captured.
LEMMA CapturesIs ==
  ASSUME ConfigAssumption, conf \in Configs, NEW t \in Tasks,
         NEW i \in Nat \ {0}, NEW k \in i .. Len(Text(t)), NEW new, new = Captures(t, i, k)
  PROVE  /\ \A n \in DOMAIN new :
              /\ new[n] \in Captured
              /\ new[n].at \in Keys(t, n) /\ new[n].at \in i .. k /\ new[n].at + 1 <= k
              /\ new[n].at + 2 <= k => new[n].whole
         /\ \A p \in i .. k : Text(t)[p].part = "key" /\ p + 1 <= k =>
              /\ Text(t)[p].name \in DOMAIN new
              /\ p <= new[Text(t)[p].name].at
<1> DEFINE A == Assignments(t, i, k)
           by(n) == {p \in A : Text(t)[p].name = n}
<1>1. DOMAIN Text(t) = 1 .. Len(Text(t)) /\ Len(Text(t)) \in Nat
  BY TextFacts DEF TextAssumption
<1>2. A \subseteq 1 .. k /\ k \in Nat
  BY <1>1 DEF Assignments
<1>3. new = [n \in {Text(t)[p].name : p \in A} |->
               [at |-> Last(by(n)), whole |-> Last(by(n)) + 2 <= k]]
  BY DEF Captures
<1>4. ASSUME NEW n, by(n) # {}
      PROVE  Last(by(n)) \in by(n) /\ \A q \in by(n) : q <= Last(by(n))
  <2>1. by(n) \in SUBSET (1 .. k)
    BY <1>2
  <2> HIDE DEF by, A
  <2> QED BY <1>2, <1>4, <2>1, LastIs
<1>5. ASSUME NEW n \in DOMAIN new
      PROVE  /\ new[n] \in Captured
             /\ new[n].at \in Keys(t, n) /\ new[n].at \in i .. k /\ new[n].at + 1 <= k
             /\ new[n].at + 2 <= k => new[n].whole
  <2>1. by(n) # {}
    BY <1>3
  <2> DEFINE l == Last(by(n))  whole == l + 2 <= k
  <2>2. l \in A /\ Text(t)[l].name = n
    BY <1>4, <2>1
  <2>3. l \in i .. k /\ Text(t)[l].part = "key" /\ l + 1 <= k
    BY <2>2 DEF Assignments
  <2>4. l \in Keys(t, n) /\ l \in Nat
    BY <1>1, <2>2, <2>3 DEF Keys
  <2>5. whole \in BOOLEAN
    OBVIOUS
  <2>6. new[n] = [at |-> l, whole |-> whole]
    BY <1>3, Zenon
  <2>7. l + 2 <= k => whole
    OBVIOUS
  <2> HIDE DEF l, whole
  <2> QED BY <2>3, <2>4, <2>5, <2>6, <2>7 DEF Captured
<1>6. ASSUME NEW p \in i .. k, Text(t)[p].part = "key", p + 1 <= k
      PROVE  Text(t)[p].name \in DOMAIN new /\ p <= new[Text(t)[p].name].at
  <2> DEFINE n == Text(t)[p].name  whole == Last(by(n)) + 2 <= k
  <2>1. p \in A
    BY <1>6 DEF Assignments
  <2>2. p <= Last(by(n))
    BY <1>4, <2>1
  <2>3. n \in {Text(t)[q].name : q \in A}
    BY <2>1
  <2>4. n \in DOMAIN new /\ new[n] = [at |-> Last(by(n)), whole |-> whole]
    BY <1>3, <2>3, Zenon
  <2> HIDE DEF whole
  <2> QED BY <2>2, <2>4
<1> QED BY <1>5, <1>6

\* Setting names in a map.
LEMMA MergeIs ==
  ASSUME NEW old, NEW new
  PROVE  /\ DOMAIN Merge(old, new) = DOMAIN old \cup DOMAIN new
         /\ \A n \in DOMAIN new : Merge(old, new)[n] = new[n]
         /\ \A n \in DOMAIN old \ DOMAIN new : Merge(old, new)[n] = old[n]
BY DEF Merge

(***************************************************************************)
(* What the steps do.                                                      *)
(***************************************************************************)
\* The steps of Run and of the spinner leave what the executor has handed on
\* alone; only Begin starts the goroutine.
Around(t) ==
  \/ NewTaskOutput(t) \/ BeforeStart(t) \/ Execute(t)
  \/ StoreBegins(t) \/ storeTaskOutput(t) \/ After(t)
  \/ RawFooter(t) \/ PrefixedFooter(t) \/ CockpitFooter(t)
  \/ Restart(t) \/ Close(t) \/ StopSpinner(t) \/ Frame(t) \/ PreUpdate(t)

Header(t) == RawHeader(t) \/ PrefixedHeader(t) \/ CockpitHeader(t)

\* The three kinds of a task's steps.
LEMMA StepKinds ==
  ASSUME NEW t \in Tasks, TaskStep(t)
  PROVE  Around(t) \/ Header(t) \/ ReaderStep(t)
BY DEF TaskStep, RunStep, Around, Header

\* Run and the spinner leave what the executor's goroutine keeps alone.
LEMMA AroundFrame ==
  ASSUME NEW t \in Tasks, Around(t)
  PROVE  UNCHANGED <<conf, reader, captured, cut>>
BY DEF Around, NewTaskOutput, BeforeStart, Execute, StoreBegins, storeTaskOutput, After, RawFooter,
       PrefixedFooter, CockpitFooter, Restart, Close, StopSpinner, Frame, PreUpdate, Finish

\* The header of any format.
LEMMA HeaderFrame ==
  ASSUME TypeOK, NEW t \in Tasks, Header(t)
  PROVE  /\ run[t] = "start" /\ run' = [run EXCEPT ![t] = "execute"]
         /\ reader' = [reader EXCEPT ![t].state = "on"]
         /\ UNCHANGED <<conf, captured, ranged, exported, crashed, cut, late>>
BY DEF Header, RawHeader, PrefixedHeader, CockpitHeader, Begin, Go

\* Reading, capturing, writing and ending leave Run and the spinner alone.
LEMMA ReaderFrame ==
  ASSUME NEW t \in Tasks, ReaderStep(t)
  PROVE  UNCHANGED <<conf, run, exported, cockpit, late>>
BY DEF ReaderStep, Read, HandleOutputCapture, WritePiece, ReaderEnds

\* An item is appended to what r.Stdout has of a task.
LEMMA WriteIs ==
  ASSUME TypeOK, NEW t \in Tasks, NEW kind \in {"header", "piece", "footer", "final"},
         NEW from \in Nat, NEW to \in Nat, Write(t, kind, from, to)
  PROVE  /\ sink' \in [Tasks -> Seq(Items)]
         /\ \A u \in Tasks \ {t} : sink'[u] = sink[u]
         /\ Len(sink'[t]) = Len(sink[t]) + 1
         /\ \A i \in DOMAIN sink[t] : sink'[t][i] = sink[t][i]
         /\ sink'[t][Len(sink[t]) + 1] = [kind |-> kind, from |-> from, to |-> to]
         /\ Written(t)' = to
<1> DEFINE item == [kind |-> kind, from |-> from, to |-> to]
<1>1. sink[t] \in Seq(Items) /\ item \in Items
  BY DEF TypeOK, Items
<1>2. sink' = [sink EXCEPT ![t] = Append(sink[t], item)]
  BY DEF Write
<1>3. sink'[t] = Append(sink[t], item) /\ \A u \in Tasks \ {t} : sink'[u] = sink[u]
  BY <1>2 DEF TypeOK
<1> HIDE DEF item
<1>4. /\ sink'[t] \in Seq(Items) /\ Len(sink'[t]) = Len(sink[t]) + 1
      /\ \A i \in DOMAIN sink[t] : sink'[t][i] = sink[t][i]
      /\ sink'[t][Len(sink[t]) + 1] = item
  BY <1>1, <1>3
<1>5. sink' \in [Tasks -> Seq(Items)]
  BY <1>2, <1>3, <1>4 DEF TypeOK
<1>6. Written(t)' = item.to
  BY <1>1, <1>4 DEF Written
<1> QED BY <1>3, <1>4, <1>5, <1>6 DEF item

\* A header, a footer or a final message is an item with nothing of the text.
LEMMA NoteIs ==
  ASSUME TypeOK, NEW t \in Tasks, NEW kind \in {"header", "footer", "final"}, WriteNote(t, kind)
  PROVE  /\ sink' \in [Tasks -> Seq(Items)]
         /\ \A u \in Tasks \ {t} : sink'[u] = sink[u]
         /\ Len(sink'[t]) = Len(sink[t]) + 1
         /\ \A i \in DOMAIN sink[t] : sink'[t][i] = sink[t][i]
         /\ sink'[t][Len(sink[t]) + 1] =
              [kind |-> kind, from |-> reader[t].done + 1, to |-> reader[t].done]
         /\ Written(t)' = reader[t].done
<1>1. reader[t].done \in Nat /\ reader[t].done + 1 \in Nat
  BY DEF TypeOK, Readers
<1> QED BY <1>1, WriteIs DEF WriteNote

\* Every step keeps the types.
LEMMA TypeStep ==
  ASSUME TypeOK, NEW t \in Tasks, TaskStep(t)
  PROVE  TypeOK'
<1>0. /\ conf \in Configs /\ run \in [Tasks -> Places] /\ reader \in [Tasks -> Readers]
      /\ sink \in [Tasks -> Seq(Items)] /\ cockpit \in [Tasks -> Cockpits] /\ late \subseteq Tasks
      /\ reader[t] \in Readers /\ cockpit[t] \in Cockpits
      /\ reader[t].done \in Nat /\ reader[t].seen \in Nat /\ reader[t].pos \in Nat
  BY DEF TypeOK, Readers
<1>1. conf' = conf /\ Tasks' = Tasks /\ Cockpits' = Cockpits
  BY StepKinds, AroundFrame, HeaderFrame, ReaderFrame DEF Tasks, Cockpits
<1>2. late' \subseteq Tasks
  BY <1>0, StepKinds DEF Header, Around, ReaderStep, NewTaskOutput, BeforeStart, RawHeader, PrefixedHeader, CockpitHeader, Begin,
       Execute, StoreBegins, storeTaskOutput, After, RawFooter, PrefixedFooter, CockpitFooter, Finish,
       Restart, Close, Read, HandleOutputCapture, WritePiece, ReaderEnds, StopSpinner, Frame, PreUpdate
<1>3. run' \in [Tasks -> Places]
  <2>1. \A at \in Places : [run EXCEPT ![t] = at] \in [Tasks -> Places]
    BY <1>0
  <2>2. run' = run \/ \E at \in Places : run' = [run EXCEPT ![t] = at]
    <3>1. CASE NewTaskOutput(t) \/ StoreBegins(t)
      BY <3>1 DEF NewTaskOutput, StoreBegins, Go, Places
    <3>2. CASE BeforeStart(t) \/ Execute(t) \/ storeTaskOutput(t) \/ After(t) \/ Restart(t) \/ Close(t)
      BY <3>2 DEF BeforeStart, Execute, storeTaskOutput, After, Restart, Close, Go, Places
    <3>3. CASE RawFooter(t) \/ PrefixedFooter(t) \/ CockpitFooter(t)
      BY <3>3 DEF RawFooter, PrefixedFooter, CockpitFooter, Finish, Go, Places
    <3>4. CASE StopSpinner(t) \/ Frame(t) \/ PreUpdate(t)
      BY <3>4 DEF StopSpinner, Frame, PreUpdate
    <3>5. CASE Header(t)
      BY <3>5, HeaderFrame DEF Places
    <3>6. CASE ReaderStep(t)
      BY <3>6, ReaderFrame
    <3> QED BY <3>1, <3>2, <3>3, <3>4, <3>5, <3>6, StepKinds DEF Around
  <2> QED BY <1>0, <2>1, <2>2
<1>4. reader' \in [Tasks -> Readers]
  <2>1. CASE Around(t)
    BY <1>0, <2>1, AroundFrame
  <2>2. CASE Header(t)
    <3>1. reader' = [reader EXCEPT ![t].state = "on"]
      BY <2>2, HeaderFrame
    <3> QED BY <1>0, <3>1 DEF Readers
  <2>3. CASE ReaderStep(t)
    <3>1. \A k \in Nat : [reader EXCEPT ![t].pos = k] \in [Tasks -> Readers]
      BY <1>0 DEF Readers
    <3>2. \A k \in Nat : [reader EXCEPT ![t].seen = k] \in [Tasks -> Readers]
      BY <1>0 DEF Readers
    <3>3. \A k \in Nat : [reader EXCEPT ![t].done = k] \in [Tasks -> Readers]
      BY <1>0 DEF Readers
    <3>4. [reader EXCEPT ![t].state = "ended"] \in [Tasks -> Readers]
      BY <1>0 DEF Readers
    <3>5. CASE Read(t)
      BY <1>0, <3>1, <3>5 DEF Read
    <3>6. CASE HandleOutputCapture(t)
      BY <1>0, <3>2, <3>6 DEF HandleOutputCapture
    <3> QED BY <1>0, <2>3, <3>3, <3>4, <3>5, <3>6 DEF ReaderStep, WritePiece, ReaderEnds
  <2> QED BY <2>1, <2>2, <2>3, StepKinds
<1>5. captured' = [u \in Tasks |-> captured'[u]] /\ cut' = [u \in Tasks |-> cut'[u]]
  <2>1. CASE Around(t) \/ Header(t)
    BY <1>0, <2>1, AroundFrame, HeaderFrame DEF TypeOK
  <2>2. CASE ReaderStep(t)
    BY <2>2 DEF ReaderStep, Read, HandleOutputCapture, WritePiece, ReaderEnds, TypeOK
  <2> QED BY <2>1, <2>2, StepKinds
<1>6. ranged' = [u \in Tasks |-> ranged'[u]]
  <2>1. CASE Around(t)
    BY <2>1 DEF TypeOK, Around, NewTaskOutput, BeforeStart, Execute, StoreBegins, storeTaskOutput,
         After, RawFooter, PrefixedFooter, CockpitFooter, Finish, Restart, Close, StopSpinner, Frame,
         PreUpdate
  <2>2. CASE Header(t) \/ ReaderStep(t)
    BY <2>2, HeaderFrame DEF ReaderStep, Read, HandleOutputCapture, WritePiece, ReaderEnds, TypeOK
  <2> QED BY <2>1, <2>2, StepKinds
<1>7. sink' \in [Tasks -> Seq(Items)]
  <2>1. CASE UNCHANGED sink
    BY <1>0, <2>1
  <2>2. CASE \E kind \in {"header", "footer", "final"} : WriteNote(t, kind)
    BY <2>2, NoteIs
  <2>3. CASE Write(t, "piece", reader[t].done + 1, reader[t].seen)
    <3>1. "piece" \in {"header", "piece", "footer", "final"} /\ reader[t].done + 1 \in Nat
      BY <1>0
    <3> QED BY <1>0, <2>3, <3>1, WriteIs
  <2> QED BY <2>1, <2>2, <2>3, StepKinds
        DEF Header, Around, ReaderStep, NewTaskOutput, BeforeStart, RawHeader, PrefixedHeader,
         CockpitHeader, Execute, StoreBegins, storeTaskOutput, After, RawFooter, PrefixedFooter,
         CockpitFooter, Finish, Restart, Close, Read, HandleOutputCapture, WritePiece, ReaderEnds,
         StopSpinner, Frame, PreUpdate
<1>8. cockpit' \in [Tasks -> Cockpits]
  <2>1. CASE UNCHANGED cockpit
    BY <1>0, <2>1
  <2>2. CASE CockpitHeader(t)
    BY <1>0, <2>2 DEF CockpitHeader, Cockpits
  <2>3. CASE CockpitFooter(t)
    BY <1>0, <2>3 DEF CockpitFooter, Cockpits
  <2>4. CASE Restart(t)
    BY <1>0, <2>4 DEF Restart, Cockpits
  <2>5. CASE StopSpinner(t)
    BY <1>0, <2>5 DEF StopSpinner, Cockpits
  <2>6. CASE Frame(t) \/ PreUpdate(t)
    <3>1. \A b \in BOOLEAN : [cockpit[t] EXCEPT !.frame = b] \in Cockpits
      BY <1>0 DEF Cockpits
    <3>2. \E b \in BOOLEAN : cockpit' = [cockpit EXCEPT ![t] = [cockpit[t] EXCEPT !.frame = b]]
      BY <2>6, Zenon DEF Frame, PreUpdate
    <3> QED BY <1>0, <3>1, <3>2
  <2> QED BY <2>1, <2>2, <2>3, <2>4, <2>5, <2>6, StepKinds, ReaderFrame
        DEF Header, Around, NewTaskOutput, BeforeStart, RawHeader, PrefixedHeader,
         Execute, StoreBegins, storeTaskOutput, After, RawFooter, PrefixedFooter, Finish, Close
<1> QED BY <1>0, <1>1, <1>2, <1>3, <1>4, <1>5, <1>6, <1>7, <1>8 DEF TypeOK

\* No step changes what was configured.
LEMMA ConfKept ==
  ASSUME NEW t \in Tasks, TaskStep(t), NEW u
  PROVE  /\ conf' = conf /\ Tasks' = Tasks
         /\ T(u)' = T(u) /\ Text(u)' = Text(u) /\ Format(u)' = Format(u)
         /\ \A n : Keys(u, n)' = Keys(u, n)
<1>1. conf' = conf
  BY StepKinds, AroundFrame, ReaderFrame
     DEF Header, RawHeader, PrefixedHeader, CockpitHeader, Begin
<1>2. T(u)' = T(u)
  BY <1>1 DEF T
<1>3. Text(u)' = Text(u)
  BY <1>2 DEF Text
<1>4. Format(u)' = Format(u)
  BY <1>1, <1>2 DEF Format
<1>5. \A n : Keys(u, n)' = Keys(u, n)
  BY <1>3 DEF Keys
<1> QED BY <1>1, <1>2, <1>3, <1>4, <1>5 DEF Tasks

\* A step of one task leaves the others as they are, except that it may
\* publish more names.
LEMMA StepLocal ==
  ASSUME TypeOK, NEW t \in Tasks, TaskStep(t), NEW u \in Tasks \ {t}
  PROVE  /\ UNCHANGED <<conf, run[u], reader[u], captured[u], ranged[u], sink[u], cockpit[u], cut[u]>>
         /\ u \in late' <=> u \in late
         /\ DOMAIN exported \subseteq DOMAIN exported'
<1>0. /\ run \in [Tasks -> Places] /\ reader \in [Tasks -> Readers]
      /\ captured = [x \in Tasks |-> captured[x]] /\ ranged = [x \in Tasks |-> ranged[x]]
      /\ cockpit \in [Tasks -> Cockpits] /\ cut = [x \in Tasks |-> cut[x]]
  BY DEF TypeOK
<1>1. sink'[u] = sink[u]
  <2>1. CASE UNCHANGED sink
    BY <2>1
  <2>2. CASE \E kind \in {"header", "footer", "final"} : WriteNote(t, kind)
    BY <2>2, NoteIs
  <2>3. CASE Write(t, "piece", reader[t].done + 1, reader[t].seen)
    BY <2>3 DEF Write, TypeOK
  <2> QED BY <2>1, <2>2, <2>3, StepKinds
        DEF Header, Around, ReaderStep, NewTaskOutput, BeforeStart, RawHeader, PrefixedHeader,
         CockpitHeader, Execute, StoreBegins, storeTaskOutput, After, RawFooter, PrefixedFooter,
         CockpitFooter, Finish, Restart, Close, Read, HandleOutputCapture, WritePiece, ReaderEnds,
         StopSpinner, Frame, PreUpdate
<1>2. CASE Header(t)
  <2>1. cockpit'[u] = cockpit[u]
    BY <1>0, <1>2 DEF Header, RawHeader, PrefixedHeader, CockpitHeader
  <2> QED BY <1>0, <1>1, <1>2, <2>1, HeaderFrame
<1>3. CASE ReaderStep(t)
  <2>1. conf' = conf /\ run' = run /\ exported' = exported /\ cockpit' = cockpit /\ late' = late
    BY <1>3, ReaderFrame
  <2>2. /\ reader'[u] = reader[u] /\ captured'[u] = captured[u]
        /\ ranged'[u] = ranged[u] /\ cut'[u] = cut[u]
    BY <1>0, <1>3 DEF ReaderStep, Read, HandleOutputCapture, WritePiece, ReaderEnds
  <2> QED BY <1>1, <2>1, <2>2
<1>4. CASE Around(t)
  <2>1. conf' = conf /\ reader' = reader /\ captured' = captured /\ cut' = cut
    BY <1>4, AroundFrame
  <2>2. CASE NewTaskOutput(t) \/ BeforeStart(t) \/ After(t) \/ Close(t)
    BY <1>0, <1>1, <2>1, <2>2 DEF NewTaskOutput, BeforeStart, After, Close, Go
  <2>3. CASE Execute(t)
    BY <1>0, <1>1, <2>1, <2>3 DEF Execute, Go
  <2>4. CASE StoreBegins(t)
    BY <1>0, <1>1, <2>1, <2>4 DEF StoreBegins, Go
  <2>5. CASE storeTaskOutput(t)
    <3>1. CASE \E n \in ranged[t] : UNCHANGED run /\ ranged' = [ranged EXCEPT ![t] = @ \ {n}]
                /\ exported' = Merge(exported, [m \in {n} |-> [task |-> t, val |-> captured[t][n]]])
      <4>1. DOMAIN exported \subseteq DOMAIN exported'
        <5>1. PICK n \in ranged[t] :
                exported' = Merge(exported, [m \in {n} |-> [task |-> t, val |-> captured[t][n]]])
          BY <3>1
        <5> DEFINE new == [m \in {n} |-> [task |-> t, val |-> captured[t][n]]]
        <5>2. exported' = Merge(exported, new)
          BY <5>1
        <5> HIDE DEF new
        <5> QED BY <5>2, MergeIs
      <4>2. ranged'[u] = ranged[u] /\ run'[u] = run[u]
        BY <1>0, <3>1
      <4> QED BY <1>0, <1>1, <2>1, <2>5, <4>1, <4>2 DEF storeTaskOutput
    <3>2. CASE ranged[t] = {} /\ Go(t, "after") /\ UNCHANGED <<exported, ranged>>
      BY <1>0, <1>1, <2>1, <2>5, <3>2 DEF storeTaskOutput, Go
    <3> QED BY <2>5, <3>1, <3>2 DEF storeTaskOutput
  <2>6. CASE RawFooter(t) \/ PrefixedFooter(t) \/ CockpitFooter(t)
    BY <1>0, <1>1, <2>1, <2>6 DEF RawFooter, PrefixedFooter, CockpitFooter, Finish, Go
  <2>7. CASE Restart(t) \/ StopSpinner(t)
    BY <1>0, <1>1, <2>1, <2>7 DEF Restart, StopSpinner, Go
  <2>8. CASE Frame(t) \/ PreUpdate(t)
    BY <1>0, <1>1, <2>1, <2>8 DEF Frame, PreUpdate
  <2> QED BY <1>4, <2>2, <2>3, <2>4, <2>5, <2>6, <2>7, <2>8 DEF Around
<1> QED BY <1>2, <1>3, <1>4, StepKinds

\* So the invariant of another task stays.
LEMMA OthersKept ==
  ASSUME TypeOK, NEW t \in Tasks, TaskStep(t), NEW u \in Tasks \ {t}, TaskInv(u)
  PROVE  TaskInv(u)'
<1>1. /\ conf' = conf /\ run'[u] = run[u] /\ reader'[u] = reader[u] /\ captured'[u] = captured[u]
      /\ ranged'[u] = ranged[u] /\ sink'[u] = sink[u] /\ cockpit'[u] = cockpit[u] /\ cut'[u] = cut[u]
      /\ u \in late' <=> u \in late
      /\ DOMAIN exported \subseteq DOMAIN exported'
  BY StepLocal
<1>2. /\ T(u)' = T(u) /\ Text(u)' = Text(u) /\ Format(u)' = Format(u) /\ Written(u)' = Written(u)
      /\ \A n : Keys(u, n)' = Keys(u, n) /\ (Whole(u, n)' <=> Whole(u, n))
  <2>1. /\ T(u)' = T(u) /\ Text(u)' = Text(u) /\ Format(u)' = Format(u)
        /\ \A n : Keys(u, n)' = Keys(u, n)
    BY ConfKept
  <2>4. Written(u)' = Written(u)
    BY <1>1, Zenon DEF Written
  <2>5. \A n : Whole(u, n)' <=> Whole(u, n)
    BY <1>1, <2>1 DEF Whole
  <2> QED BY <2>1, <2>4, <2>5
<1>3. InStep(u)' /\ CutsKnown(u)'
  BY <1>1, <1>2 DEF TaskInv, InStep, CutsKnown
<1>4. Latest(u)' /\ AllCaptured(u)'
  BY <1>1, <1>2 DEF TaskInv, Latest, AllCaptured
<1>5. Publishing(u)'
  BY <1>1, <1>2 DEF TaskInv, Publishing
<1>6. OneLine(u)' /\ Sunk(u)'
  BY <1>1, <1>2 DEF TaskInv, OneLine, Sunk
<1>7. Spinning(u)'
  BY <1>1, <1>2 DEF TaskInv, Spinning
<1> QED BY <1>3, <1>4, <1>5, <1>6, <1>7 DEF TaskInv

(***************************************************************************)
(* What a step does to its own task, a part of the invariant at a time.    *)
(***************************************************************************)
\* Text and goroutine of a task, with the numbers they are made of.
LEMMA Numbers ==
  ASSUME TypeOK, NEW t \in Tasks
  PROVE  /\ DOMAIN Text(t) = 1 .. Len(Text(t)) /\ Len(Text(t)) \in Nat
         /\ reader[t].pos \in Nat /\ reader[t].seen \in Nat /\ reader[t].done \in Nat
         /\ reader[t].state \in {"idle", "on", "ended"}
BY TextFacts DEF TypeOK, Readers, TextAssumption

\* The job and the goroutine stay in step: a job that ends first is late.
LEMMA InStepKept ==
  ASSUME TypeOK, NEW t \in Tasks, TaskInv(t), TaskStep(t)
  PROVE  InStep(t)'
<1>0. /\ InStep(t) /\ run \in [Tasks -> Places] /\ reader \in [Tasks -> Readers]
      /\ Text(t)' = Text(t)
  BY ConfKept DEF TypeOK, TaskInv
<1>1. CASE Around(t)
  <2>1. reader' = reader /\ late \subseteq late'
    BY <1>1, AroundFrame DEF Around, NewTaskOutput, BeforeStart, Execute, StoreBegins, storeTaskOutput,
       After, RawFooter, PrefixedFooter, CockpitFooter, Restart, Close, StopSpinner, Frame, PreUpdate,
       Finish
  <2>2. CASE NewTaskOutput(t) \/ BeforeStart(t)
    BY <1>0, <2>1, <2>2 DEF NewTaskOutput, BeforeStart, Go, InStep
  <2>3. CASE Execute(t)
    BY <1>0, <2>1, <2>3 DEF Execute, Go, InStep
  <2>4. CASE StoreBegins(t) \/ storeTaskOutput(t) \/ After(t) \/ Restart(t) \/ Close(t)
    BY <1>0, <2>1, <2>4 DEF StoreBegins, storeTaskOutput, After, Restart, Close, Go, InStep
  <2>5. CASE RawFooter(t) \/ PrefixedFooter(t) \/ CockpitFooter(t)
    BY <1>0, <2>1, <2>5 DEF RawFooter, PrefixedFooter, CockpitFooter, Finish, Go, InStep
  <2>6. CASE StopSpinner(t) \/ Frame(t) \/ PreUpdate(t)
    BY <1>0, <2>1, <2>6 DEF StopSpinner, Frame, PreUpdate, InStep
  <2> QED BY <1>1, <2>2, <2>3, <2>4, <2>5, <2>6 DEF Around
<1>2. CASE Header(t)
  <2>1. /\ run[t] = "start" /\ run'[t] = "execute" /\ late' = late
        /\ reader'[t] = [reader[t] EXCEPT !.state = "on"]
    BY <1>0, <1>2, HeaderFrame
  <2>2. /\ reader'[t].state = "on" /\ reader'[t].pos = reader[t].pos
        /\ reader'[t].seen = reader[t].seen /\ reader'[t].done = reader[t].done
    BY <1>0, <2>1 DEF Readers
  <2> QED BY <1>0, <2>1, <2>2 DEF InStep
<1>3. CASE ReaderStep(t)
  <2>1. run' = run /\ late' = late
    BY <1>3, ReaderFrame
  <2>2. CASE Read(t)
    BY <1>0, <2>1, <2>2, Numbers DEF Read, InStep
  <2>3. CASE HandleOutputCapture(t)
    <3>1. PICK k \in reader[t].seen + 1 .. reader[t].pos : reader' = [reader EXCEPT ![t].seen = k]
      BY <2>3 DEF HandleOutputCapture
    <3> QED BY <1>0, <2>1, <2>3, <3>1, Numbers DEF HandleOutputCapture, InStep
  <2>4. CASE WritePiece(t)
    BY <1>0, <2>1, <2>4, Numbers DEF WritePiece, InStep
  <2>5. CASE ReaderEnds(t)
    BY <1>0, <2>1, <2>5, Numbers DEF ReaderEnds, InStep
  <2> QED BY <1>3, <2>2, <2>3, <2>4, <2>5 DEF ReaderStep
<1> QED BY <1>1, <1>2, <1>3, StepKinds

\* Neither a read nor a line ends inside an assignment unnoticed.
LEMMA CutsKnownKept ==
  ASSUME TypeOK, NEW t \in Tasks, TaskInv(t), TaskStep(t)
  PROVE  CutsKnown(t)' /\ cut[t] \subseteq cut'[t]
<1>0. /\ InStep(t) /\ CutsKnown(t) /\ reader \in [Tasks -> Readers] /\ Text(t)' = Text(t)
      /\ cut = [u \in Tasks |-> cut[u]]
  BY ConfKept DEF TypeOK, TaskInv
<1>1. TextAssumption(Text(t))
  BY TextFacts DEF TypeOK
<1>2. CASE Around(t) \/ Header(t)
  <2>1. /\ reader'[t].pos = reader[t].pos /\ reader'[t].seen = reader[t].seen /\ cut' = cut
    <3>1. CASE Around(t)
      BY <3>1, AroundFrame
    <3>2. CASE Header(t)
      <4>1. reader' = [reader EXCEPT ![t].state = "on"] /\ cut' = cut
        BY <3>2, HeaderFrame
      <4> QED BY <1>0, <4>1 DEF Readers
    <3> QED BY <1>2, <3>1, <3>2
  <2> QED BY <1>0, <2>1 DEF CutsKnown, Inside
<1>3. CASE Read(t)
  <2>1. PICK k \in reader[t].pos + 1 .. Len(Text(t)) :
          /\ reader' = [reader EXCEPT ![t].pos = k]
          /\ cut' = [cut EXCEPT ![t] = @ \cup
                      CASE Text(t)[k].part = "key" -> {k}
                        [] Text(t)[k].part = "head" -> {k - 1}
                        [] OTHER -> {}]
    BY <1>3 DEF Read
  <2>2. reader'[t].pos = k /\ reader'[t].seen = reader[t].seen /\ k \in Nat
    BY <1>0, <2>1, Numbers
  <2>3. /\ cut[t] \subseteq cut'[t]
        /\ Text(t)[k].part = "key" => k \in cut'[t]
        /\ Text(t)[k].part = "head" => k - 1 \in cut'[t]
    BY <1>0, <2>1
  <2>4. ASSUME NEW p \in DOMAIN Text(t), Text(t)[p].part = "key", p \notin cut'[t]
        PROVE  ~ Inside(t, p, k) /\ ~ Inside(t, p, reader[t].seen)
    <3>1. ~ Inside(t, p, reader[t].seen)
      BY <1>0, <2>3, <2>4 DEF CutsKnown
    <3>2. k # p
      BY <2>3, <2>4
    <3>3. k # p + 1
      <4>1. Text(t)[p + 1].part = "head" /\ p \in Nat
        BY <1>1, <2>4, Numbers DEF TextAssumption
      <4> QED BY <2>3, <2>4, <4>1
    <3> QED BY <3>1, <3>2, <3>3 DEF Inside
  <2> QED BY <1>0, <2>2, <2>3, <2>4 DEF CutsKnown, Inside
<1>4. CASE HandleOutputCapture(t)
  <2>1. PICK k \in reader[t].seen + 1 .. reader[t].pos :
          /\ reader' = [reader EXCEPT ![t].seen = k]
          /\ PieceEnds(t, reader[t].seen + 1, reader[t].pos, k)
    BY <1>4 DEF HandleOutputCapture
  <2>2. /\ reader'[t].pos = reader[t].pos /\ reader'[t].seen = k /\ k \in Nat
        /\ k <= Len(Text(t)) /\ 1 <= k /\ cut' = cut
    <3>1. cut' = cut
      BY <1>4 DEF HandleOutputCapture
    <3> QED BY <1>0, <2>1, <3>1, Numbers DEF InStep, Readers
  <2>3. k = reader[t].pos \/ Text(t)[k + 1].line # Text(t)[k].line
    BY <2>1, Numbers DEF PieceEnds
  <2>4. ASSUME NEW p \in DOMAIN Text(t), Text(t)[p].part = "key", p \notin cut[t]
        PROVE  ~ Inside(t, p, k)
    <3>1. ~ Inside(t, p, reader[t].pos)
      BY <1>0, <2>4 DEF CutsKnown
    <3>2. /\ p \in Nat /\ Text(t)[p + 1].line = Text(t)[p].line
          /\ Text(t)[p + 2].line = Text(t)[p].line
      BY <1>1, <2>4, Numbers DEF TextAssumption
    <3>3. CASE Text(t)[k + 1].line # Text(t)[k].line
      <4>1. k = p + 1 => k + 1 = p + 2
        BY <3>2
      <4> QED BY <3>2, <3>3, <4>1 DEF Inside
    <3> QED BY <2>3, <3>1, <3>3
  <2> QED BY <1>0, <2>2, <2>4 DEF CutsKnown, Inside
<1>5. CASE WritePiece(t) \/ ReaderEnds(t)
  <2>1. /\ reader'[t].pos = reader[t].pos /\ reader'[t].seen = reader[t].seen /\ cut' = cut
    BY <1>0, <1>5 DEF WritePiece, ReaderEnds, Readers
  <2> QED BY <1>0, <2>1 DEF CutsKnown, Inside
<1> QED BY <1>2, <1>3, <1>4, <1>5, StepKinds DEF ReaderStep

\* What is captured is the last assignment so far, and whole if it was not cut.
LEMMA LatestKept ==
  ASSUME TypeOK, NEW t \in Tasks, TaskInv(t), TaskStep(t)
  PROVE  Latest(t)' /\ AllCaptured(t)'
<1>0. /\ InStep(t) /\ CutsKnown(t) /\ Latest(t) /\ AllCaptured(t)
      /\ CutsKnown(t)' /\ cut[t] \subseteq cut'[t]
      /\ ConfigAssumption /\ conf \in Configs /\ reader \in [Tasks -> Readers]
      /\ captured = [u \in Tasks |-> captured[u]]
      /\ Text(t)' = Text(t) /\ \A n : Keys(t, n)' = Keys(t, n)
  BY ConfKept, CutsKnownKept DEF TypeOK, TaskInv
<1>1. \A n : Whole(t, n)' => Whole(t, n)
  BY <1>0 DEF Whole
<1>2. ASSUME captured'[t] = captured[t], reader'[t].seen = reader[t].seen
      PROVE  Latest(t)' /\ AllCaptured(t)'
  <2>1. Latest(t)'
    BY <1>0, <1>1, <1>2 DEF Latest
  <2>2. AllCaptured(t)'
    BY <1>0, <1>1, <1>2 DEF AllCaptured
  <2> QED BY <2>1, <2>2
<1>3. CASE Around(t)
  BY <1>2, <1>3, AroundFrame
<1>4. CASE Header(t)
  <2>1. reader' = [reader EXCEPT ![t].state = "on"] /\ captured' = captured
    BY <1>4, HeaderFrame
  <2>2. reader'[t].seen = reader[t].seen
    BY <1>0, <2>1 DEF Readers
  <2> QED BY <1>2, <2>1, <2>2
<1>5. CASE Read(t) \/ WritePiece(t) \/ ReaderEnds(t)
  <2>1. reader'[t].seen = reader[t].seen /\ captured' = captured
    BY <1>0, <1>5 DEF Read, WritePiece, ReaderEnds, Readers
  <2> QED BY <1>2, <2>1
<1>6. CASE HandleOutputCapture(t)
  <2>1. PICK k \in reader[t].seen + 1 .. reader[t].pos :
          /\ reader' = [reader EXCEPT ![t].seen = k]
          /\ captured' = [captured EXCEPT ![t] = Merge(@, Captures(t, reader[t].seen + 1, k))]
    BY <1>6 DEF HandleOutputCapture
  <2> DEFINE i == reader[t].seen + 1  new == Captures(t, i, k)
  <2>2. /\ reader'[t].seen = k /\ k \in Nat /\ i \in Nat \ {0} /\ k <= Len(Text(t))
        /\ reader[t].seen \in Nat /\ i <= k
    BY <1>0, <2>1, Numbers DEF InStep, Readers
  <2>3. captured'[t] = Merge(captured[t], new)
    BY <1>0, <2>1
  <2>4. k \in i .. Len(Text(t))
    BY <2>2, Numbers
  <2> HIDE DEF new
  <2>5. /\ \A n \in DOMAIN new :
              /\ new[n] \in Captured
              /\ new[n].at \in Keys(t, n) /\ new[n].at \in i .. k /\ new[n].at + 1 <= k
              /\ new[n].at + 2 <= k => new[n].whole
        /\ \A p \in i .. k : Text(t)[p].part = "key" /\ p + 1 <= k =>
              /\ Text(t)[p].name \in DOMAIN new
              /\ p <= new[Text(t)[p].name].at
    BY <1>0, <2>2, <2>4, CapturesIs DEF new
  <2>6. /\ DOMAIN captured'[t] = DOMAIN captured[t] \cup DOMAIN new
        /\ \A n \in DOMAIN new : captured'[t][n] = new[n]
        /\ \A n \in DOMAIN captured[t] \ DOMAIN new : captured'[t][n] = captured[t][n]
    BY <2>3 DEF Merge
  <2>7. Latest(t)'
    <3>1. ASSUME NEW n \in DOMAIN new
          PROVE  new[n] \in Captured /\ new[n].at \in Keys(t, n) /\ (Whole(t, n)' => new[n].whole)
      <4>1. new[n] \in Captured /\ new[n].at \in Keys(t, n)
        BY <2>5
      <4>2. ASSUME Whole(t, n)'
            PROVE  new[n].at + 2 <= k
        <5>1. new[n].at \notin cut'[t] /\ new[n].at \in DOMAIN Text(t)
              /\ Text(t)[new[n].at].part = "key"
          BY <1>0, <4>1, <4>2 DEF Whole, Keys
        <5>2. k # new[n].at /\ k # new[n].at + 1
          BY <1>0, <2>2, <5>1 DEF CutsKnown, Inside
        <5> QED BY <2>2, <2>5, <5>2
      <4> QED BY <2>5, <4>1, <4>2
    <3>2. ASSUME NEW n \in DOMAIN captured[t] \ DOMAIN new
          PROVE  /\ captured[t][n] \in Captured /\ captured[t][n].at \in Keys(t, n)
                 /\ Whole(t, n)' => captured[t][n].whole
      BY <1>0, <1>1 DEF Latest
    <3> QED BY <1>0, <2>6, <3>1, <3>2 DEF Latest
  <2>8. AllCaptured(t)'
    <3>1. ASSUME NEW p \in DOMAIN Text(t), Text(t)[p].part = "key", p + 2 <= k,
                 Whole(t, Text(t)[p].name)
          PROVE  /\ Text(t)[p].name \in DOMAIN captured'[t]
                 /\ p <= captured'[t][Text(t)[p].name].at
      <4> DEFINE n == Text(t)[p].name
      <4>0. p \in Nat
        BY Numbers
      <4>1. CASE p + 2 <= reader[t].seen
        <5>1. n \in DOMAIN captured[t] /\ p <= captured[t][n].at
          BY <1>0, <3>1, <4>1 DEF AllCaptured
        <5>2. n \in DOMAIN new => p <= new[n].at
          BY <2>2, <2>5, <4>0, <4>1
        <5> QED BY <2>6, <5>1, <5>2
      <4>2. CASE ~ (p + 2 <= reader[t].seen)
        <5>1. p \notin cut[t]
          BY <3>1, <4>0 DEF Whole, Keys
        <5>2. reader[t].seen # p /\ reader[t].seen # p + 1
          BY <1>0, <3>1, <5>1 DEF CutsKnown, Inside
        <5>3. p \in i .. k /\ p + 1 <= k
          BY <2>2, <3>1, <4>0, <4>2, <5>2
        <5> QED BY <2>5, <2>6, <3>1, <5>3
      <4> QED BY <4>1, <4>2
    <3> QED BY <1>0, <1>1, <2>2, <3>1 DEF AllCaptured
  <2> QED BY <2>7, <2>8
<1> QED BY <1>3, <1>4, <1>5, <1>6, StepKinds DEF ReaderStep

\* A piece of prefixed output is captured up to the end of its line.
LEMMA OneLineKept ==
  ASSUME TypeOK, NEW t \in Tasks, TaskInv(t), TaskStep(t)
  PROVE  OneLine(t)'
<1>0. /\ OneLine(t) /\ reader \in [Tasks -> Readers]
      /\ Text(t)' = Text(t) /\ Format(t)' = Format(t)
  BY ConfKept DEF TypeOK, TaskInv
<1>1. ASSUME reader'[t].done = reader[t].done, reader'[t].seen = reader[t].seen
      PROVE  OneLine(t)'
  BY <1>0, <1>1 DEF OneLine
<1>2. CASE Around(t)
  BY <1>1, <1>2, AroundFrame
<1>3. CASE Header(t)
  <2>1. reader' = [reader EXCEPT ![t].state = "on"]
    BY <1>3, HeaderFrame
  <2> QED BY <1>0, <1>1, <2>1 DEF Readers
<1>4. CASE Read(t) \/ ReaderEnds(t)
  <2>1. reader'[t].done = reader[t].done /\ reader'[t].seen = reader[t].seen
    BY <1>0, <1>4 DEF Read, ReaderEnds, Readers
  <2> QED BY <1>1, <2>1
<1>5. CASE WritePiece(t)
  <2>1. reader'[t].done = reader[t].seen /\ reader'[t].seen = reader[t].seen
    BY <1>0, <1>5 DEF WritePiece, Readers
  <2>2. reader'[t].done + 1 .. reader'[t].seen = {}
    BY <2>1, Numbers
  <2> QED BY <2>2 DEF OneLine
<1>6. CASE HandleOutputCapture(t)
  <2>1. PICK k \in reader[t].seen + 1 .. reader[t].pos :
          /\ reader' = [reader EXCEPT ![t].seen = k]
          /\ PieceEnds(t, reader[t].seen + 1, reader[t].pos, k)
    BY <1>6 DEF HandleOutputCapture
  <2>2. /\ reader'[t].done = reader[t].done /\ reader'[t].seen = k
        /\ reader[t].done = reader[t].seen
    BY <1>0, <1>6, <2>1 DEF HandleOutputCapture, Readers
  <2> QED BY <1>0, <2>1, <2>2 DEF OneLine, PieceEnds
<1> QED BY <1>2, <1>3, <1>4, <1>5, <1>6, StepKinds DEF ReaderStep

\* When the job is over and nothing was given up on, everything is captured.
LEMMA JobOver ==
  ASSUME TypeOK, NEW t \in Tasks, TaskInv(t), run[t] \in {"store", "range", "after"}, t \notin late,
         NEW p \in DOMAIN Text(t), Text(t)[p].part = "key", Whole(t, Text(t)[p].name)
  PROVE  /\ Text(t)[p].name \in DOMAIN captured[t]
         /\ p <= captured[t][Text(t)[p].name].at
<1>1. reader[t].state = "ended"
  BY Numbers DEF TaskInv, InStep
<1>2. reader[t].seen = Len(Text(t))
  BY <1>1, Numbers DEF TaskInv, InStep
<1>3. p + 2 \in DOMAIN Text(t)
  BY TextFacts DEF TypeOK, TextAssumption
<1> QED BY <1>2, <1>3, Numbers DEF TaskInv, AllCaptured

\* What storeTaskOutput has not reached yet was captured, and it reaches all
\* of it.
LEMMA PublishingKept ==
  ASSUME TypeOK, NEW t \in Tasks, TaskInv(t), TaskStep(t)
  PROVE  Publishing(t)'
<1>0. /\ Publishing(t) /\ run \in [Tasks -> Places] /\ late \subseteq late'
      /\ captured = [u \in Tasks |-> captured[u]] /\ ranged = [u \in Tasks |-> ranged[u]]
      /\ Text(t)' = Text(t) /\ T(t)' = T(t) /\ \A n : Whole(t, n)' => Whole(t, n)
  <2>1. \A n : Whole(t, n)' => Whole(t, n)
    BY ConfKept, CutsKnownKept DEF Whole
  <2>2. late \subseteq late'
    BY StepKinds, HeaderFrame, ReaderFrame
       DEF Around, NewTaskOutput, BeforeStart, Execute, StoreBegins, storeTaskOutput, After, RawFooter,
           PrefixedFooter, CockpitFooter, Restart, Close, StopSpinner, Frame, PreUpdate, Finish
  <2> QED BY <2>1, <2>2, ConfKept DEF TypeOK, TaskInv
<1>1. ASSUME ranged'[t] = ranged[t], captured'[t] = captured[t],
             run'[t] = run[t] \/ run'[t] \notin {"range", "after"},
             run'[t] = run[t] => exported' = exported
      PROVE  Publishing(t)'
  BY <1>0, <1>1 DEF Publishing
<1>2. CASE NewTaskOutput(t) \/ BeforeStart(t) \/ After(t) \/ Close(t)
  BY <1>0, <1>1, <1>2 DEF NewTaskOutput, BeforeStart, After, Close, Go
<1>3. CASE Execute(t)
  BY <1>0, <1>1, <1>3 DEF Execute, Go
<1>4. CASE RawFooter(t) \/ PrefixedFooter(t) \/ CockpitFooter(t)
  BY <1>0, <1>1, <1>4 DEF RawFooter, PrefixedFooter, CockpitFooter, Finish, Go
<1>5. CASE Restart(t)
  BY <1>0, <1>1, <1>5 DEF Restart, Go
<1>6. CASE StopSpinner(t) \/ Frame(t) \/ PreUpdate(t)
  BY <1>0, <1>1, <1>6 DEF StopSpinner, Frame, PreUpdate
<1>7. CASE Header(t)
  BY <1>0, <1>1, <1>7, HeaderFrame
<1>8. CASE Read(t) \/ WritePiece(t) \/ ReaderEnds(t)
  BY <1>0, <1>1, <1>8 DEF Read, WritePiece, ReaderEnds
<1>9. CASE StoreBegins(t)
  <2>1. /\ run[t] = "store" /\ run'[t] = IF T(t).artifact THEN "range" ELSE "after"
        /\ ranged'[t] = IF T(t).artifact THEN DOMAIN captured[t] ELSE {}
        /\ captured' = captured /\ late' = late
    BY <1>0, <1>9 DEF StoreBegins, Go
  <2>2. ASSUME NEW p \in DOMAIN Text(t), Text(t)[p].part = "key", t \notin late,
               Whole(t, Text(t)[p].name)
        PROVE  Text(t)[p].name \in DOMAIN captured[t]
    BY <2>1, <2>2, JobOver
  <2> QED BY <1>0, <2>1, <2>2 DEF Publishing
<1>10. CASE storeTaskOutput(t)
  <2>1. CASE ranged[t] = {} /\ Go(t, "after") /\ UNCHANGED <<exported, ranged>>
    <3>1. run[t] = "range" /\ run'[t] = "after" /\ captured' = captured
      BY <1>0, <1>10, <2>1 DEF storeTaskOutput, Go
    <3> QED BY <1>0, <2>1, <3>1 DEF Publishing
  <2>2. CASE \E n \in ranged[t] :
            /\ exported' = Merge(exported, [m \in {n} |-> [task |-> t, val |-> captured[t][n]]])
            /\ ranged' = [ranged EXCEPT ![t] = @ \ {n}]
            /\ UNCHANGED run
    <3>1. PICK n \in ranged[t] :
            /\ exported' = Merge(exported, [m \in {n} |-> [task |-> t, val |-> captured[t][n]]])
            /\ ranged' = [ranged EXCEPT ![t] = @ \ {n}]
            /\ UNCHANGED run
      BY <2>2
    <3>2. DOMAIN exported' = DOMAIN exported \cup {n}
      BY <3>1 DEF Merge
    <3>3. ranged'[t] = ranged[t] \ {n} /\ run[t] = "range" /\ run' = run /\ captured' = captured
      BY <1>0, <1>10, <3>1 DEF storeTaskOutput
    <3> QED BY <1>0, <3>2, <3>3 DEF Publishing
  <2> QED BY <1>10, <2>1, <2>2 DEF storeTaskOutput
<1>11. CASE HandleOutputCapture(t)
  <2>1. PICK k \in reader[t].seen + 1 .. reader[t].pos :
          LET new == Captures(t, reader[t].seen + 1, k) IN
          /\ captured' = [captured EXCEPT ![t] = Merge(@, new)]
          /\ \/ UNCHANGED ranged
             \/ \E seen \in SUBSET DOMAIN new : ranged' = [ranged EXCEPT ![t] = @ \cup seen]
    BY <1>11 DEF HandleOutputCapture
  <2> DEFINE new == Captures(t, reader[t].seen + 1, k)
  <2> HIDE DEF new
  <2>2. captured'[t] = Merge(captured[t], new)
    BY <1>0, <2>1 DEF new
  <2>3. DOMAIN captured'[t] = DOMAIN captured[t] \cup DOMAIN new
    BY <2>2 DEF Merge
  <2>4. ranged[t] \subseteq ranged'[t] /\ ranged'[t] \subseteq ranged[t] \cup DOMAIN new
    BY <1>0, <2>1 DEF new
  <2>5. run' = run /\ exported' = exported
    BY <1>11 DEF HandleOutputCapture
  <2> QED BY <1>0, <2>3, <2>4, <2>5 DEF Publishing
<1> QED BY <1>2, <1>3, <1>4, <1>5, <1>6, <1>7, <1>8, <1>9, <1>10, <1>11, StepKinds
        DEF Around, ReaderStep

\* What is published of a name is what its task captured last.
LEMMA PublishedKept ==
  ASSUME TypeOK, \A u \in Tasks : TaskInv(u), Published, NEW t \in Tasks, TaskStep(t)
  PROVE  Published'
<1>0. TaskInv(t) /\ Tasks' = Tasks
  BY ConfKept
<1>1. ASSUME NEW u \in Tasks
      PROVE  /\ \A n : Keys(u, n)' = Keys(u, n) /\ (Whole(u, n)' => Whole(u, n))
             /\ u \in late => u \in late'
  <2>1. \A n : Keys(u, n)' = Keys(u, n)
    BY ConfKept
  <2>2. cut[u] \subseteq cut'[u]
    BY <1>0, CutsKnownKept, StepLocal
  <2>3. u \in late => u \in late'
    BY StepKinds, HeaderFrame, ReaderFrame
       DEF Around, NewTaskOutput, BeforeStart, Execute, StoreBegins, storeTaskOutput, After, RawFooter,
           PrefixedFooter, CockpitFooter, Restart, Close, StopSpinner, Frame, PreUpdate, Finish
  <2> QED BY <2>1, <2>2, <2>3 DEF Whole
<1>2. ASSUME NEW u \in Tasks, NEW n, NEW e,
             /\ e.task = u
             /\ e.val \in Captured
             /\ e.val.at \in Keys(u, n)
             /\ u \notin late /\ Whole(u, n) =>
                  e.val.whole /\ \A p \in Keys(u, n) : p <= e.val.at
      PROVE  /\ e.task = u
             /\ e.val \in Captured
             /\ e.val.at \in Keys(u, n)'
             /\ u \notin late' /\ Whole(u, n)' =>
                  e.val.whole /\ \A p \in Keys(u, n)' : p <= e.val.at
  BY <1>1, <1>2
<1>3. CASE exported' = exported
  BY <1>0, <1>2, <1>3 DEF Published
<1>4. CASE storeTaskOutput(t) /\ exported' # exported
  <2>1. PICK n \in ranged[t] :
            exported' = Merge(exported, [m \in {n} |-> [task |-> t, val |-> captured[t][n]]])
    BY <1>4 DEF storeTaskOutput
  <2> DEFINE e == [task |-> t, val |-> captured[t][n]]
  <2>2. /\ DOMAIN exported' = DOMAIN exported \cup {n} /\ exported'[n] = e
        /\ \A m \in DOMAIN exported \ {n} : exported'[m] = exported[m]
    BY <2>1 DEF Merge
  <2>3. e.task = t /\ e.val = captured[t][n]
    OBVIOUS
  <2> HIDE DEF e
  <2>4. n \in DOMAIN captured[t] /\ run[t] = "range"
    BY <1>0, <1>4, <2>1 DEF TaskInv, Publishing, storeTaskOutput
  <2>5. e.val \in Captured /\ e.val.at \in Keys(t, n)
    BY <1>0, <2>3, <2>4 DEF TaskInv, Latest
  <2>6. ASSUME t \notin late, Whole(t, n)
        PROVE  e.val.whole /\ \A p \in Keys(t, n) : p <= e.val.at
    <3>1. e.val.whole
      BY <1>0, <2>3, <2>4, <2>6 DEF TaskInv, Latest
    <3>2. ASSUME NEW p \in Keys(t, n)
          PROVE  p <= e.val.at
      <4>1. p \in DOMAIN Text(t) /\ Text(t)[p].part = "key" /\ Text(t)[p].name = n
        BY DEF Keys
      <4> QED BY <1>0, <2>3, <2>4, <2>6, <4>1, JobOver
    <3> QED BY <3>1, <3>2
  <2> QED BY <1>0, <1>2, <2>2, <2>3, <2>5, <2>6 DEF Published
<1> QED BY <1>3, <1>4, StepKinds, HeaderFrame, ReaderFrame
        DEF Around, NewTaskOutput, BeforeStart, Execute, StoreBegins, After, RawFooter,
            PrefixedFooter, CockpitFooter, Restart, Close, StopSpinner, Frame, PreUpdate, Finish

\* The cockpit, its spinner and the one message.
LEMMA SpinningKept ==
  ASSUME TypeOK, NEW t \in Tasks, TaskInv(t), TaskStep(t)
  PROVE  Spinning(t)'
<1>0. /\ Spinning(t) /\ InStep(t) /\ run \in [Tasks -> Places] /\ reader \in [Tasks -> Readers]
      /\ cockpit \in [Tasks -> Cockpits] /\ sink \in [Tasks -> Seq(Items)]
      /\ cockpit[t] \in Cockpits
      /\ Format(t)' = Format(t) /\ conf' = conf
  BY ConfKept DEF TypeOK, TaskInv
<1>1. CASE NewTaskOutput(t) \/ BeforeStart(t) \/ Execute(t)
  <2>1. /\ cockpit' = cockpit /\ sink' = sink /\ reader' = reader
        /\ run[t] \in {"new", "before", "execute"}
        /\ run'[t] \in {"before", "start", "footer", "store"}
           \/ (run'[t] = "end" /\ Format(t) # "cockpit")
    BY <1>0, <1>1 DEF NewTaskOutput, BeforeStart, Execute, Go
  <2> QED BY <1>0, <2>1 DEF Spinning
<1>2. CASE StoreBegins(t) \/ storeTaskOutput(t) \/ After(t)
  <2>1. /\ cockpit' = cockpit /\ sink' = sink /\ reader' = reader
        /\ run[t] \in {"store", "range", "after"}
        /\ run'[t] \in {"range", "after", "footer"}
    BY <1>0, <1>2 DEF StoreBegins, storeTaskOutput, After, Go
  <2> QED BY <1>0, <2>1 DEF Spinning
<1>3. CASE RawFooter(t) \/ PrefixedFooter(t)
  <2>1. /\ cockpit' = cockpit /\ reader' = reader /\ run[t] = "footer" /\ run'[t] = "close"
        /\ Format(t) # "cockpit"
    BY <1>0, <1>3 DEF RawFooter, PrefixedFooter, Finish, Go
  <2> QED BY <1>0, <2>1 DEF Spinning
<1>4. CASE CockpitFooter(t)
  <2>0. /\ run[t] = "footer" /\ sink' = sink /\ reader' = reader /\ Format(t) = "cockpit"
    BY <1>4 DEF CockpitFooter, Finish
  <2>1. CASE cockpit[t].spinner = "nil"
    <3>1. run' = run /\ cockpit' = cockpit
      BY <1>4, <2>1 DEF CockpitFooter
    <3> QED BY <1>0, <2>0, <3>1 DEF Spinning
  <2>2. CASE cockpit[t].spinner # "nil"
    <3>1. run'[t] = "restart"
      BY <1>0, <1>4, <2>2 DEF CockpitFooter, Go
    <3>2. cockpit'[t].spinner = cockpit[t].spinner
      BY <1>0, <1>4, <2>2 DEF CockpitFooter, Cockpits
    <3> QED BY <1>0, <2>0, <2>2, <3>1, <3>2 DEF Spinning
  <2> QED BY <2>1, <2>2
<1>5. CASE Restart(t)
  <2>1. /\ run[t] = "restart" /\ run'[t] = "close" /\ reader' = reader
        /\ cockpit'[t].spinner = cockpit[t].spinner /\ cockpit'[t].tasks = cockpit[t].tasks
    BY <1>0, <1>5 DEF Restart, Go, Cockpits
  <2>2. ~ cockpit'[t].finalMsg
    BY <1>0, <1>5 DEF Restart, Cockpits
  <2>3. /\ Format(t) = "cockpit" /\ cockpit[t].spinner # "nil" /\ sink[t] = <<>>
        /\ cockpit[t].spinner = "on" <=> conf.terminal
    BY <1>0, <2>1 DEF Spinning
  <2>4. CASE cockpit[t].spinner = "on"
    <3>1. WriteNote(t, "final")
      BY <1>5, <2>4 DEF Restart
    <3>2. Len(sink'[t]) = 1 /\ sink'[t][1].kind = "final"
      <4>1. /\ Len(sink'[t]) = Len(sink[t]) + 1
            /\ sink'[t][Len(sink[t]) + 1] =
                 [kind |-> "final", from |-> reader[t].done + 1, to |-> reader[t].done]
        BY <3>1, NoteIs
      <4>2. Len(sink[t]) = 0
        BY <2>3
      <4> QED BY <4>1, <4>2
    <3> QED BY <1>0, <2>1, <2>2, <2>3, <2>4, <3>2 DEF Spinning
  <2>5. CASE cockpit[t].spinner # "on"
    <3>1. sink' = sink
      BY <1>5, <2>5 DEF Restart
    <3> QED BY <1>0, <2>1, <2>2, <2>3, <2>5, <3>1 DEF Spinning
  <2> QED BY <2>4, <2>5
<1>6. CASE Close(t)
  <2>1. /\ cockpit' = cockpit /\ sink' = sink /\ reader' = reader
        /\ run[t] = "close" /\ run'[t] = "end"
    BY <1>0, <1>6 DEF Close, Go
  <2> QED BY <1>0, <2>1 DEF Spinning
<1>7. CASE StopSpinner(t)
  <2>1. /\ run[t] = "end" /\ run' = run /\ reader' = reader /\ cockpit[t].spinner = "on"
        /\ cockpit'[t].spinner = "off" /\ cockpit'[t].tasks = cockpit[t].tasks
    BY <1>0, <1>7 DEF StopSpinner, Cockpits
  <2>2. ~ cockpit[t].finalMsg
    BY <1>0, <2>1 DEF Spinning
  <2>3. ~ cockpit'[t].finalMsg
    BY <1>0, <1>7, <2>2 DEF StopSpinner, Cockpits
  <2>4. sink' = sink
    BY <1>7, <2>2 DEF StopSpinner
  <2> QED BY <1>0, <2>1, <2>3, <2>4 DEF Spinning
<1>8. CASE Frame(t) \/ PreUpdate(t)
  <2>1. /\ run' = run /\ sink' = sink /\ reader' = reader
        /\ cockpit'[t].spinner = cockpit[t].spinner /\ cockpit'[t].tasks = cockpit[t].tasks
    BY <1>0, <1>8 DEF Frame, PreUpdate, Cockpits
  <2>2. cockpit'[t].finalMsg = cockpit[t].finalMsg
    BY <1>0, <1>8 DEF Frame, PreUpdate, Cockpits
  <2> QED BY <1>0, <2>1, <2>2 DEF Spinning
<1>9. CASE RawHeader(t) \/ PrefixedHeader(t)
  <2>1. /\ run[t] = "start" /\ run'[t] = "execute" /\ cockpit' = cockpit
        /\ Format(t) # "cockpit"
    BY <1>0, <1>9 DEF RawHeader, PrefixedHeader, Begin, Go
  <2> QED BY <1>0, <2>1 DEF Spinning
<1>10. CASE CockpitHeader(t)
  <2>1. /\ run[t] = "start" /\ run'[t] = "execute" /\ sink' = sink /\ Format(t) = "cockpit"
    BY <1>0, <1>10 DEF CockpitHeader, Begin, Go
  <2>2. /\ cockpit'[t].spinner = IF conf.terminal THEN "on" ELSE "off"
    BY <1>0, <1>10 DEF CockpitHeader, Cockpits
  <2>3. ~ cockpit'[t].finalMsg
    <3>1. ~ cockpit[t].finalMsg
      BY <1>0, <2>1 DEF Spinning
    <3> QED BY <1>0, <1>10, <3>1 DEF CockpitHeader, Cockpits
  <2> QED BY <1>0, <2>1, <2>2, <2>3 DEF Spinning
<1>11. CASE ReaderStep(t)
  <2>1. run' = run /\ cockpit' = cockpit
    BY <1>11, ReaderFrame
  <2>2. reader'[t].state # "idle" => reader[t].state # "idle"
    <3>1. CASE Read(t) \/ ReaderEnds(t)
      BY <3>1 DEF Read, ReaderEnds
    <3>2. CASE HandleOutputCapture(t)
      <4>1. \E k : reader' = [reader EXCEPT ![t].seen = k]
        BY <3>2 DEF HandleOutputCapture
      <4> QED BY <1>0, <4>1 DEF Readers
    <3>3. CASE WritePiece(t)
      BY <1>0, <3>3 DEF WritePiece, Readers
    <3> QED BY <1>11, <3>1, <3>2, <3>3 DEF ReaderStep
  <2>3. Format(t) = "cockpit" => sink' = sink
    BY <1>11 DEF ReaderStep, Read, HandleOutputCapture, WritePiece, ReaderEnds
  <2> QED BY <1>0, <2>1, <2>2, <2>3 DEF Spinning
<1> QED BY <1>1, <1>2, <1>3, <1>4, <1>5, <1>6, <1>7, <1>8, <1>9, <1>10, <1>11, StepKinds
        DEF Around, Header

\* A note or a piece is appended to what r.Stdout has of a task.
LEMMA SunkGrows ==
  ASSUME TypeOK, NEW t \in Tasks, TaskInv(t), TaskStep(t),
         NEW kind, NEW from \in Nat, NEW to \in Nat, Format(t) # "cockpit",
         /\ Len(sink'[t]) = Len(sink[t]) + 1
         /\ \A i \in DOMAIN sink[t] : sink'[t][i] = sink[t][i]
         /\ sink'[t][Len(sink[t]) + 1] = [kind |-> kind, from |-> from, to |-> to],
         sink'[t] \in Seq(Items),
         from = reader[t].done + 1, Written(t)' = to, reader'[t].done = to,
         kind # "final", run'[t] \notin {"new", "before", "start"},
         reader[t].state # "idle" => reader'[t].state # "idle",
         Format(t) = "prefixed" =>
           /\ kind = "header" => run[t] = "start" /\ reader'[t].state # "idle"
           /\ kind # "header" => reader'[t].state = reader[t].state
           /\ \A a, b \in from .. to : Text(t)[a].line = Text(t)[b].line
           /\ run'[t] \in {"close", "end"} /\ reader'[t].state # "idle" /\ t \notin late' =>
                kind = "footer"
  PROVE  Sunk(t)'
<1>0. /\ Sunk(t) /\ sink[t] \in Seq(Items)
      /\ Format(t)' = Format(t) /\ Text(t)' = Text(t)
  BY ConfKept DEF TypeOK, TaskInv
<1> DEFINE l == Len(sink[t])
<1>1. /\ l \in Nat /\ DOMAIN sink[t] = 1 .. l /\ DOMAIN sink'[t] = 1 .. l + 1
      /\ sink[t] = <<>> <=> l = 0
  BY <1>0
<1>2. Written(t) = reader[t].done
  BY <1>0 DEF Sunk
<1>3. sink'[t][l + 1].from = from /\ sink'[t][l + 1].to = to /\ sink'[t][l + 1].kind = kind
  OBVIOUS
<1>4. from = IF l + 1 = 1 THEN 1 ELSE sink'[t][l].to + 1
  <2>1. CASE l = 0
    BY <1>1, <1>2, <2>1 DEF Written
  <2>2. CASE l # 0
    BY <1>1, <1>2, <2>2 DEF Written
  <2> QED BY <2>1, <2>2
<1>5. ASSUME NEW i \in 1 .. l
      PROVE  /\ sink'[t][i] = sink[t][i] /\ sink'[t][i].kind # "final"
             /\ sink'[t][i].from = IF i = 1 THEN 1 ELSE sink'[t][i - 1].to + 1
  <2>1. sink'[t][i] = sink[t][i]
    BY <1>1
  <2>2. i # 1 => i - 1 \in 1 .. l /\ sink'[t][i - 1] = sink[t][i - 1]
    BY <1>1
  <2>3. /\ sink[t][i].from = IF i = 1 THEN 1 ELSE sink[t][i - 1].to + 1
        /\ sink[t][i].kind # "final"
    BY <1>0, <1>1 DEF Sunk
  <2> QED BY <2>1, <2>2, <2>3
<1>6. \A i \in DOMAIN sink'[t] :
        /\ sink'[t][i].from = IF i = 1 THEN 1 ELSE sink'[t][i - 1].to + 1
        /\ sink'[t][i].kind # "final"
  <2>1. \A i \in DOMAIN sink'[t] : i \in 1 .. l \/ i = l + 1
    BY <1>1
  <2>2. l + 1 - 1 = l
    BY <1>1
  <2> QED BY <1>3, <1>4, <1>5, <2>1, <2>2
<1>7. ASSUME Format(t) = "prefixed"
      PROVE  /\ \A i \in DOMAIN sink'[t] :
                  /\ sink'[t][i].kind = "header" <=> i = 1 /\ reader'[t].state # "idle"
                  /\ \A a, b \in sink'[t][i].from .. sink'[t][i].to :
                       Text(t)[a].line = Text(t)[b].line
             /\ reader'[t].state # "idle" => sink'[t] # <<>>
             /\ run'[t] \in {"close", "end"} /\ reader'[t].state # "idle" /\ t \notin late' =>
                  sink'[t][Len(sink'[t])].kind = "footer"
  <2>1. /\ kind = "header" => l = 0 /\ reader'[t].state # "idle"
        /\ kind # "header" => l # 0 \/ reader'[t].state = "idle"
    BY <1>0, <1>1, <1>7 DEF Sunk
  <2>2. ASSUME NEW i \in 1 .. l
        PROVE  /\ sink'[t][i].kind = "header" <=> i = 1 /\ reader'[t].state # "idle"
               /\ \A a, b \in sink'[t][i].from .. sink'[t][i].to :
                    Text(t)[a].line = Text(t)[b].line
    <3>1. /\ sink[t][i].kind = "header" <=> i = 1 /\ reader[t].state # "idle"
          /\ \A a, b \in sink[t][i].from .. sink[t][i].to :
               Text(t)[a].line = Text(t)[b].line
      BY <1>0, <1>1, <1>7 DEF Sunk
    <3>2. reader'[t].state = reader[t].state
      BY <1>1, <1>7, <2>1
    <3> QED BY <1>5, <3>1, <3>2
  <2>3. /\ sink'[t][l + 1].kind = "header" <=> l + 1 = 1 /\ reader'[t].state # "idle"
        /\ \A a, b \in sink'[t][l + 1].from .. sink'[t][l + 1].to :
             Text(t)[a].line = Text(t)[b].line
    BY <1>1, <1>3, <1>7, <2>1
  <2>4. \A i \in DOMAIN sink'[t] : i \in 1 .. l \/ i = l + 1
    BY <1>1
  <2>5. sink'[t] # <<>> /\ Len(sink'[t]) = l + 1
    BY <1>1
  <2>6. run'[t] \in {"close", "end"} /\ reader'[t].state # "idle" /\ t \notin late' =>
                  sink'[t][Len(sink'[t])].kind = "footer"
    BY <1>3, <1>7, <2>5
  <2> QED BY <2>2, <2>3, <2>4, <2>5, <2>6
<1> QED BY <1>0, <1>6, <1>7 DEF Sunk

\* What r.Stdout gets of a task is what was read, piece after piece.
LEMMA SunkKept ==
  ASSUME TypeOK, NEW t \in Tasks, TaskInv(t), TaskStep(t)
  PROVE  Sunk(t)'
<1>0. /\ Sunk(t) /\ Spinning(t) /\ InStep(t) /\ OneLine(t)
      /\ run \in [Tasks -> Places] /\ reader \in [Tasks -> Readers]
      /\ sink[t] \in Seq(Items)
      /\ Format(t)' = Format(t) /\ Text(t)' = Text(t)
  BY ConfKept DEF TypeOK, TaskInv
<1>1. CASE Format(t) = "cockpit"
  BY <1>0, <1>1 DEF Sunk
<1>2. ASSUME sink'[t] = sink[t], reader'[t].done = reader[t].done,
             Format(t) = "prefixed" => (reader'[t].state = "idle" <=> reader[t].state = "idle"),
             run'[t] \in {"new", "before", "start"} => run[t] \in {"new", "before", "start"},
             run'[t] \in {"close", "end"} /\ reader'[t].state # "idle" =>
               run[t] \in {"close", "end"} \/ Format(t) # "prefixed",
             t \in late => t \in late'
      PROVE  Sunk(t)'
  <2>1. Written(t)' = Written(t)
    BY <1>2 DEF Written
  <2> QED BY <1>0, <1>2, <2>1 DEF Sunk
<1>3. CASE NewTaskOutput(t) \/ BeforeStart(t) \/ Execute(t) \/ StoreBegins(t) \/ storeTaskOutput(t)
        \/ After(t) \/ RawFooter(t) \/ Close(t) \/ Frame(t) \/ PreUpdate(t)
  <2>1. sink' = sink /\ reader' = reader /\ late \subseteq late'
    BY <1>3 DEF NewTaskOutput, BeforeStart, Execute, StoreBegins, storeTaskOutput, After, RawFooter,
                Close, Frame, PreUpdate, Finish
  <2>2. run'[t] \in {"new", "before", "start"} => run[t] \in {"new", "before", "start"}
    BY <1>0, <1>3 DEF NewTaskOutput, BeforeStart, Execute, StoreBegins, storeTaskOutput, After,
                RawFooter, Close, Frame, PreUpdate, Finish, Go
  <2>3. run'[t] \in {"close", "end"} /\ reader[t].state # "idle" =>
          run[t] \in {"close", "end"} \/ Format(t) # "prefixed"
    BY <1>0, <1>3 DEF NewTaskOutput, BeforeStart, Execute, StoreBegins, storeTaskOutput, After,
                RawFooter, Close, Frame, PreUpdate, Finish, Go, InStep
  <2> QED BY <1>2, <2>1, <2>2, <2>3
<1>4. CASE RawHeader(t)
  <2>1. /\ run[t] = "start" /\ run' = [run EXCEPT ![t] = "execute"]
        /\ reader' = [reader EXCEPT ![t].state = "on"] /\ sink' = sink /\ late' = late
        /\ Format(t) = "raw"
    BY <1>4 DEF RawHeader, Begin, Go
  <2>2. run'[t] = "execute" /\ reader'[t].done = reader[t].done
    BY <1>0, <2>1 DEF Readers
  <2> QED BY <1>2, <2>1, <2>2
<1>5. CASE PrefixedHeader(t)
  <2>1. /\ run[t] = "start" /\ run' = [run EXCEPT ![t] = "execute"]
        /\ reader' = [reader EXCEPT ![t].state = "on"] /\ Format(t) = "prefixed"
        /\ WriteNote(t, "header")
    BY <1>5 DEF PrefixedHeader, Begin, Go
  <2>2. run'[t] = "execute" /\ reader'[t].done = reader[t].done /\ reader'[t].state = "on"
    BY <1>0, <2>1 DEF Readers
  <2>3. /\ sink' \in [Tasks -> Seq(Items)]
        /\ Len(sink'[t]) = Len(sink[t]) + 1
        /\ \A i \in DOMAIN sink[t] : sink'[t][i] = sink[t][i]
        /\ sink'[t][Len(sink[t]) + 1] =
             [kind |-> "header", from |-> reader[t].done + 1, to |-> reader[t].done]
        /\ Written(t)' = reader[t].done
    BY <2>1, NoteIs
  <2>4. /\ reader[t].done \in Nat /\ reader[t].done + 1 \in Nat
        /\ reader[t].done + 1 .. reader[t].done = {}
    BY Numbers
  <2> QED BY <2>1, <2>2, <2>3, <2>4, SunkGrows
<1>6. CASE PrefixedFooter(t)
  <2>1. /\ run[t] = "footer" /\ run' = [run EXCEPT ![t] = "close"]
        /\ reader' = reader /\ Format(t) = "prefixed" /\ WriteNote(t, "footer")
    BY <1>6 DEF PrefixedFooter, Finish, Go
  <2>2. run'[t] = "close"
    BY <1>0, <2>1
  <2>3. /\ sink' \in [Tasks -> Seq(Items)]
        /\ Len(sink'[t]) = Len(sink[t]) + 1
        /\ \A i \in DOMAIN sink[t] : sink'[t][i] = sink[t][i]
        /\ sink'[t][Len(sink[t]) + 1] =
             [kind |-> "footer", from |-> reader[t].done + 1, to |-> reader[t].done]
        /\ Written(t)' = reader[t].done
    BY <2>1, NoteIs
  <2>4. /\ reader[t].done \in Nat /\ reader[t].done + 1 \in Nat
        /\ reader[t].done + 1 .. reader[t].done = {}
    BY Numbers
  <2> QED BY <2>1, <2>2, <2>3, <2>4, SunkGrows
<1>7. CASE Read(t) \/ HandleOutputCapture(t) \/ ReaderEnds(t)
  <2>1. sink' = sink /\ run' = run /\ late' = late
    BY <1>7 DEF Read, HandleOutputCapture, ReaderEnds
  <2>2. reader'[t].done = reader[t].done /\ (reader'[t].state = "idle" <=> reader[t].state = "idle")
    <3>1. CASE Read(t) \/ ReaderEnds(t)
      BY <1>0, <3>1 DEF Read, ReaderEnds, Readers
    <3>2. CASE HandleOutputCapture(t)
      <4>1. \E k : reader' = [reader EXCEPT ![t].seen = k]
        BY <3>2 DEF HandleOutputCapture
      <4> QED BY <1>0, <4>1 DEF Readers
    <3> QED BY <1>7, <3>1, <3>2
  <2> QED BY <1>2, <2>1, <2>2
<1>8. CASE WritePiece(t) /\ Format(t) # "cockpit"
  <2> DEFINE from == reader[t].done + 1  to == reader[t].seen
  <2>1. /\ reader[t].done < reader[t].seen /\ Write(t, "piece", from, to)
        /\ reader' = [reader EXCEPT ![t].done = reader[t].seen] /\ run' = run /\ late' = late
    BY <1>8 DEF WritePiece
  <2>2. /\ reader'[t].done = to /\ reader'[t].state = reader[t].state
        /\ from \in Nat /\ to \in Nat
    BY <1>0, <2>1, Numbers DEF Readers
  <2>3. reader[t].state = "on" /\ run[t] \notin {"new", "before", "start"}
    BY <1>0, <2>1, Numbers DEF InStep
  <2>4. run[t] \in {"close", "end"} => t \in late
    BY <1>0, <2>3 DEF InStep
  <2>5. "piece" \in {"header", "piece", "footer", "final"}
    OBVIOUS
  <2>6. /\ sink' \in [Tasks -> Seq(Items)]
        /\ Len(sink'[t]) = Len(sink[t]) + 1
        /\ \A i \in DOMAIN sink[t] : sink'[t][i] = sink[t][i]
        /\ sink'[t][Len(sink[t]) + 1] = [kind |-> "piece", from |-> from, to |-> to]
        /\ Written(t)' = to
    BY <2>1, <2>2, <2>5, WriteIs
  <2>7. Format(t) = "prefixed" => \A a, b \in from .. to : Text(t)[a].line = Text(t)[b].line
    BY <1>0 DEF OneLine
  <2>8. from = reader[t].done + 1
    OBVIOUS
  <2> HIDE DEF from, to
  <2> QED BY <1>8, <2>1, <2>2, <2>3, <2>4, <2>6, <2>7, <2>8, SunkGrows
<1>9. CASE Restart(t) \/ StopSpinner(t)
  BY <1>0, <1>1, <1>9 DEF Restart, StopSpinner, Spinning
<1>10. CASE CockpitFooter(t) \/ CockpitHeader(t)
  BY <1>1, <1>10 DEF CockpitFooter, CockpitHeader, Finish, Begin
<1> QED BY <1>1, <1>3, <1>4, <1>5, <1>6, <1>7, <1>8, <1>9, <1>10, StepKinds
        DEF Around, Header, ReaderStep

\* Only a goroutine that is on has something to capture.
LEMMA CaptureReads ==
  ASSUME TypeOK, NEW t \in Tasks, InStep(t), HandleOutputCapture(t)
  PROVE  reader[t].state = "on"
<1>0. reader[t].pos \in Nat /\ reader[t].seen \in Nat /\ reader[t].state \in {"idle", "on", "ended"}
  BY Numbers
<1>1. reader[t].done = reader[t].seen /\ \E k \in reader[t].seen + 1 .. reader[t].pos : TRUE
  BY DEF HandleOutputCapture
<1>2. reader[t].seen < reader[t].pos
  BY <1>0, <1>1
<1> QED BY <1>0, <1>1, <1>2 DEF InStep

\* What brings the process down: a footer without a header, or output that is
\* captured while its task publishes, which is late then.
LEMMA CrashKept ==
  ASSUME TypeOK, \A u \in Tasks : TaskInv(u), crashed = "", NEW t \in Tasks, TaskStep(t)
  PROVE  CrashHasCause'
<1>0. /\ InStep(t) /\ Spinning(t) /\ Publishing(t) /\ Tasks' = Tasks
      /\ Format(t)' = Format(t) /\ T(t)' = T(t)
  BY ConfKept DEF TaskInv
<1>1. CASE crashed' = ""
  BY <1>1 DEF CrashHasCause
<1>2. CASE HandleOutputCapture(t) /\ crashed' # ""
  <2>1. crashed' = "map" /\ run[t] = "range" /\ run' = run /\ late' = late
    BY <1>2 DEF HandleOutputCapture
  <2>2. reader[t].state = "on"
    BY <1>0, <1>2, CaptureReads
  <2>3. t \in late /\ T(t).artifact
    BY <1>0, <2>1, <2>2 DEF InStep, Publishing
  <2> QED BY <1>0, <2>1, <2>3 DEF CrashHasCause
<1>3. CASE CockpitFooter(t) /\ crashed' # ""
  <2>1. /\ crashed' = "spinner" /\ run[t] = "footer" /\ run' = run /\ cockpit' = cockpit
        /\ reader' = reader /\ Format(t) = "cockpit" /\ cockpit[t].spinner = "nil"
    BY <1>3 DEF CockpitFooter, Finish
  <2>2. cockpit[t].tasks = {} /\ reader[t].state = "idle"
    BY <1>0, <2>1 DEF Spinning
  <2> QED BY <1>0, <2>1, <2>2 DEF CrashHasCause
<1>4. CASE Header(t)
  BY <1>1, <1>4, HeaderFrame
<1> QED BY <1>1, <1>2, <1>3, <1>4, StepKinds
        DEF Around, ReaderStep, NewTaskOutput, BeforeStart, Execute, StoreBegins, storeTaskOutput, After,
            RawFooter, PrefixedFooter, Finish, Restart, Close, StopSpinner, Frame, PreUpdate, Read,
            WritePiece, ReaderEnds

(***************************************************************************)
(* The invariant, and the properties that follow from it.                  *)
(***************************************************************************)
LEMMA InitIInv == ConfigAssumption /\ Init => IInv
<1> SUFFICES ASSUME ConfigAssumption, Init PROVE IInv
  OBVIOUS
<1>1. TypeOK
  <2>1. cockpit \in [Tasks -> Cockpits]
    BY DEF Init, NewCockpit, Cockpits
  <2>2. reader \in [Tasks -> Readers]
    BY DEF Init, Idle, Readers
  <2>3. run \in [Tasks -> Places]
    BY DEF Init, Places
  <2>4. sink \in [Tasks -> Seq(Items)]
    <3>1. <<>> \in Seq(Items)
      OBVIOUS
    <3> QED BY <3>1 DEF Init
  <2>5. captured = [t \in Tasks |-> captured[t]] /\ ranged = [t \in Tasks |-> ranged[t]]
        /\ cut = [t \in Tasks |-> cut[t]]
    BY DEF Init
  <2> QED BY <2>1, <2>2, <2>3, <2>4, <2>5 DEF Init, TypeOK
<1>2. ASSUME NEW t \in Tasks
      PROVE  TaskInv(t)
  <2>0. /\ run[t] = "new" /\ reader[t] = Idle /\ captured[t] = Empty /\ ranged[t] = {}
        /\ sink[t] = <<>> /\ cut[t] = {} /\ late = {} /\ exported = Empty
        /\ cockpit[t].spinner = "nil" /\ cockpit[t].tasks = {} /\ ~ cockpit[t].finalMsg
    BY DEF Init, NewCockpit
  <2>1. InStep(t) /\ OneLine(t)
    BY <1>1, <2>0, Numbers DEF InStep, OneLine, Idle
  <2>2. CutsKnown(t) /\ AllCaptured(t)
    BY <1>1, <2>0, Numbers DEF CutsKnown, AllCaptured, Idle, Inside
  <2>3. Latest(t) /\ Publishing(t)
    BY <2>0 DEF Latest, Publishing, Empty
  <2>4. Sunk(t)
    BY <2>0 DEF Sunk, Written, Idle
  <2>5. Spinning(t)
    BY <2>0 DEF Spinning, Idle
  <2> QED BY <2>1, <2>2, <2>3, <2>4, <2>5 DEF TaskInv
<1>3. Published /\ CrashHasCause
  BY DEF Init, Published, CrashHasCause, Empty
<1> QED BY <1>1, <1>2, <1>3 DEF IInv

\* A step of any task keeps the invariant, and so does none.
LEMMA StepIInv == IInv /\ [Next]_vars => IInv'
<1>1. ASSUME IInv, crashed = "", NEW t \in Tasks, TaskStep(t)
      PROVE  IInv'
  <2>1. TypeOK' /\ Tasks' = Tasks
    BY <1>1, TypeStep, ConfKept DEF IInv
  <2>2. TaskInv(t)'
    BY <1>1, InStepKept, CutsKnownKept, LatestKept, PublishingKept, OneLineKept, SunkKept,
       SpinningKept DEF IInv, TaskInv
  <2>3. \A u \in Tasks \ {t} : TaskInv(u)'
    BY <1>1, OthersKept DEF IInv
  <2>4. Published' /\ CrashHasCause'
    BY <1>1, PublishedKept, CrashKept DEF IInv
  <2> QED BY <2>1, <2>2, <2>3, <2>4 DEF IInv
<1>2. ASSUME IInv, UNCHANGED vars
      PROVE  IInv'
  <2>0. /\ conf' = conf /\ run' = run /\ reader' = reader /\ captured' = captured
        /\ ranged' = ranged /\ exported' = exported /\ sink' = sink /\ cockpit' = cockpit
        /\ crashed' = crashed /\ cut' = cut /\ late' = late
    BY <1>2 DEF vars
  <2>1. TypeOK' /\ Tasks' = Tasks
    BY <1>2, <2>0 DEF IInv, TypeOK, Tasks, Cockpits
  <2>2. ASSUME NEW t \in Tasks
        PROVE  TaskInv(t)'
    <3>1. /\ T(t)' = T(t) /\ Text(t)' = Text(t)
      BY <2>0 DEF T, Text
    <3>2. Format(t)' = Format(t) /\ \A n : Keys(t, n)' = Keys(t, n)
      BY <2>0, <3>1 DEF Format, Keys
    <3>3. Written(t)' = Written(t) /\ \A n : Whole(t, n)' <=> Whole(t, n)
      BY <2>0, <3>2 DEF Written, Whole
    <3>4. InStep(t)' /\ CutsKnown(t)'
      BY <1>2, <2>0, <3>1 DEF IInv, TaskInv, InStep, CutsKnown, Inside
    <3>5. Latest(t)' /\ AllCaptured(t)'
      BY <1>2, <2>0, <3>1, <3>2, <3>3 DEF IInv, TaskInv, Latest, AllCaptured
    <3>6. Publishing(t)'
      BY <1>2, <2>0, <3>1, <3>3 DEF IInv, TaskInv, Publishing
    <3>7. OneLine(t)' /\ Sunk(t)'
      BY <1>2, <2>0, <3>1, <3>2, <3>3 DEF IInv, TaskInv, OneLine, Sunk
    <3>8. Spinning(t)'
      BY <1>2, <2>0, <3>2 DEF IInv, TaskInv, Spinning
    <3> QED BY <3>4, <3>5, <3>6, <3>7, <3>8 DEF TaskInv
  <2>3. Published'
    <3>1. ASSUME NEW t \in Tasks
          PROVE  \A n : Keys(t, n)' = Keys(t, n) /\ (Whole(t, n)' <=> Whole(t, n))
      BY <2>0 DEF Keys, Whole, Text, T
    <3> QED BY <1>2, <2>0, <2>1, <3>1 DEF IInv, Published
  <2>4. CrashHasCause'
    <3>1. \A t : Format(t)' = Format(t) /\ T(t)' = T(t)
      BY <2>0 DEF Format, T
    <3> QED BY <1>2, <2>0, <2>1, <3>1 DEF IInv, CrashHasCause
  <2> QED BY <2>1, <2>2, <2>3, <2>4 DEF IInv
<1> QED BY <1>1, <1>2 DEF Next

\* The invariant holds of every execution, for any tasks, texts and formats.
THEOREM OutputInvariant == ConfigAssumption /\ Spec => []IInv
BY InitIInv, StepIInv, PTL DEF Spec

\* Raw and prefixed output come out as they were printed, whole once Run has
\* ended, and a cockpit says once that its task has finished.
THEOREM OutputComesInOrder == ConfigAssumption /\ Spec => []OutputInOrder
<1>1. IInv => OutputInOrder
  <2> SUFFICES ASSUME IInv, NEW t \in Tasks
               PROVE  /\ Format(t) # "cockpit" =>
                           /\ \A i \in DOMAIN sink[t] :
                               /\ sink[t][i].from = IF i = 1 THEN 1 ELSE sink[t][i - 1].to + 1
                               /\ sink[t][i].kind # "final"
                           /\ Written(t) <= reader[t].pos
                           /\ run[t] = "end" /\ reader[t].state # "idle" /\ t \notin late =>
                               /\ Written(t) = Len(Text(t))
                               /\ Format(t) = "prefixed" => sink[t][Len(sink[t])].kind = "footer"
                      /\ Format(t) = "prefixed" =>
                          \A i \in DOMAIN sink[t] :
                              /\ sink[t][i].kind = "header" <=> i = 1 /\ reader[t].state # "idle"
                              /\ \A a, b \in sink[t][i].from .. sink[t][i].to :
                                  Text(t)[a].line = Text(t)[b].line
                      /\ Format(t) = "cockpit" =>
                          IF conf.terminal /\ run[t] \in {"close", "end"}
                          THEN Len(sink[t]) = 1 /\ sink[t][1].kind = "final"
                          ELSE sink[t] = <<>>
    BY Zenon DEF OutputInOrder
  <2>1. TypeOK /\ InStep(t) /\ Sunk(t) /\ Spinning(t)
    BY DEF IInv, TaskInv
  <2>2. Written(t) = reader[t].done \/ Format(t) = "cockpit"
    BY <2>1 DEF Sunk
  <2>3. reader[t].done <= reader[t].pos
    BY <2>1, Numbers DEF InStep
  <2>4. run[t] = "end" /\ reader[t].state # "idle" /\ t \notin late =>
          reader[t].done = Len(Text(t))
    BY <2>1, Numbers DEF InStep
  <2> QED BY <2>1, <2>2, <2>3, <2>4 DEF Sunk, Spinning
<1> QED BY <1>1, OutputInvariant, PTL

\* A record with what is known of its fields.
LEMMA WholeCapture ==
  ASSUME NEW v \in Captured, v.whole
  PROVE  v = [at |-> v.at, whole |-> TRUE]
BY DEF Captured

\* What a task prints as EIRCTL_TASK_OUTPUT_N=v last is what the tasks after it
\* get as N, whole, unless a write was cut in it or the output was given up on.
THEOREM ExportedValuesAreWhole == ConfigAssumption /\ Spec => []ExportedIsWhole
<1>1. IInv => ExportedIsWhole
  <2> SUFFICES ASSUME IInv, NEW t \in Tasks
               PROVE  /\ \A n \in DOMAIN exported : exported[n].task = t =>
                           /\ exported[n].val.at \in Keys(t, n)
                           /\ t \notin late /\ Keys(t, n) \cap cut[t] = {} =>
                                exported[n].val = [at |-> Last(Keys(t, n)), whole |-> TRUE]
                      /\ T(t).artifact /\ run[t] = "after" =>
                          \A p \in DOMAIN Text(t) :
                              /\ Text(t)[p].part = "key" /\ t \notin late
                              /\ Keys(t, Text(t)[p].name) \cap cut[t] = {}
                              => Text(t)[p].name \in DOMAIN exported
    BY DEF ExportedIsWhole
  <2>1. TypeOK /\ Publishing(t) /\ Published
    BY DEF IInv, TaskInv
  <2>2. ASSUME NEW n \in DOMAIN exported, exported[n].task = t
        PROVE  /\ exported[n].val \in Captured /\ exported[n].val.at \in Keys(t, n)
               /\ t \notin late /\ Whole(t, n) =>
                    exported[n].val.whole /\ \A p \in Keys(t, n) : p <= exported[n].val.at
    BY <2>1, <2>2 DEF Published
  <2>3. ASSUME NEW n \in DOMAIN exported, exported[n].task = t, t \notin late, Whole(t, n)
        PROVE  exported[n].val = [at |-> Last(Keys(t, n)), whole |-> TRUE]
    <3> DEFINE v == exported[n].val  K == Keys(t, n)
    <3>1. v \in Captured /\ v.at \in K /\ v.whole /\ \A p \in K : p <= v.at
      BY <2>2, <2>3
    <3>2. K \in SUBSET (1 .. Len(Text(t))) /\ Len(Text(t)) \in Nat
      BY <2>1, Numbers DEF Keys
    <3> HIDE DEF K, v
    <3>3. Last(K) \in K /\ \A q \in K : q <= Last(K)
      BY <3>1, <3>2, LastIs
    <3>4. v.at = Last(K)
      <4>0. \A q \in K : q \in Nat
        BY <3>2
      <4>1. v.at \in Nat /\ Last(K) \in Nat
        BY <3>1, <3>3, <4>0, Zenon
      <4>2. v.at <= Last(K) /\ Last(K) <= v.at
        BY <3>1, <3>3
      <4> QED BY <4>1, <4>2
    <3>5. v = [at |-> v.at, whole |-> TRUE]
      BY <3>1, WholeCapture
    <3> QED BY <3>4, <3>5, Zenon DEF v, K
  <2>4. ASSUME T(t).artifact, run[t] = "after", NEW p \in DOMAIN Text(t), Text(t)[p].part = "key",
               t \notin late, Whole(t, Text(t)[p].name)
        PROVE  Text(t)[p].name \in DOMAIN exported
    BY <2>1, <2>4 DEF Publishing
  <2> QED BY <2>2, <2>3, <2>4, Zenon DEF Whole
<1> QED BY <1>1, OutputInvariant, PTL

\* Output brings the process down in the two ways CrashHasCause names only.
THEOREM CrashesHaveCauses == ConfigAssumption /\ Spec => []CrashHasCause
BY OutputInvariant, PTL DEF IInv

=============================================================================
