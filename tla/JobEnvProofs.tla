---------------------------- MODULE JobEnvProofs ----------------------------
(***************************************************************************)
(* Proofs about JobEnv, for any contexts, tasks and env files, however the *)
(* tasks overlap.                                                          *)
(***************************************************************************)
EXTENDS JobEnv, TLAPS, WellFoundedInduction

(***************************************************************************)
(* The inductive invariant, by parts.                                      *)
(***************************************************************************)
Envfile(t) == Ctx(t).envfile

StepsOf(part) ==
  CASE part = "idle" -> {""}
    [] part = "run" -> {"read", "merge", "build"}
    [] part = "compile" -> {"process", "take"}
    [] part = "execute" -> {"read", "merge", "exec"}
    [] part = "store" -> {"open", "set"}
    [] part = "end" -> {"nil", "error", "skipped"}
    [] OTHER -> {"read", "merge", "process", "take", "exec"}

RunParts == {"run", "condition", "before", "compile", "execute", "store", "after"}

Steps == {"", "read", "merge", "build", "process", "take", "exec", "open", "set",
          "nil", "error", "skipped"}
Pcs == [part : RunParts \cup {"idle", "end"}, step : Steps, n : Nat]

\* Where a task is, and that it has something to do there.
InPlace(t) ==
  /\ pc[t].step \in StepsOf(pc[t].part)
  /\ pc[t].part = "condition" => T(t).condition
  /\ pc[t].part \in {"compile", "execute"} => pc[t].n \in 1 .. Commands(t, "compile")

TypeOK ==
  /\ conf \in Configs
  /\ file \in DOMAIN conf.eirctl
  /\ ctxEnv = [o \in Objects |-> ctxEnv[o]]
  /\ pc \in [Tasks -> Pcs]
  /\ snap = [t \in Tasks |-> snap[t]]
  /\ env = [t \in Tasks |-> env[t]]
  /\ jobs = [t \in Tasks |-> jobs[t]]
  /\ shell = [t \in Tasks |-> shell[t]]
  /\ \A r \in ran : r.task \in Tasks /\ pc[r.task].part \notin {"idle", "run"}
  /\ \A t \in Tasks : InPlace(t)

\* Two tasks that use one context at the same time have met.
Active(t) == pc[t].part \notin {"idle", "end"}
Meeting ==
  \A t, u \in Tasks : t # u /\ Share(t, u) /\ Active(t) /\ Active(u) => {t, u} \in met

\* What is found in an env of t comes from t, from its context or from the
\* tasks that share it.
Allowed(t, v) ==
  /\ v.src \in {"task", "variant", "name", "taskfile"} => v.of = t \/ Share(t, v.of)
  /\ v.src \in {"context", "contextfile"} => v.of = T(t).context
Clean(t, e) == \A n \in DOMAIN e : Allowed(t, e[n])
Separate(t) ==
  /\ Clean(t, ctxEnv[Obj(t)]) /\ Clean(t, snap[t]) /\ Clean(t, env[t]) /\ Clean(t, shell[t])
  /\ \A i \in DOMAIN jobs[t] : Clean(t, jobs[t][i])
RunnerClean == \A n \in DOMAIN runnerEnv : runnerEnv[n].src \in {"args", "artifact"}

\* What the context sets is there, in one form or the other.
Given(t) == {n \in DOMAIN conf.contexts[T(t).context].env : ~Nameless(n)}
Skipped(t, n) == includeExcludeSkip(Envfile(t), modifyName(Envfile(t), n))
Holds(t, e) ==
  \A n \in Given(t) : Skipped(t, n) \/ n \in DOMAIN e \/ modifyName(Envfile(t), n) \in DOMAIN e
Reached(t, e) ==
  \A n \in Given(t) :
    Skipped(t, n) \/ modifyName(Envfile(t), n) \in DOMAIN e \/ (n \in DOMAIN e /\ Mixed(t))

\* No condition has been compiled in the context of t; or none that matters to t.
Untouched(t) ==
  \A u \in Tasks : Share(u, t) /\ T(u).condition => pc[u].part \in {"idle", "run"}
Exempt(t) ==
  \E u \in Tasks : Share(u, t) /\ T(u).condition /\ pc[u].part # "idle" /\ (u # t \/ Mixed(u))

ContextKept(t) ==
  Named(t) =>
    /\ Untouched(t) =>
         Holds(t, ctxEnv[Obj(t)]) /\ (pc[t].step = "merge" => Holds(t, snap[t]))
    /\ (Untouched(t) \/ ~Exempt(t)) /\ pc[t].part \in RunParts \ {"run"} => Holds(t, env[t])

\* The env Run has put together has what the task sets, and so has every job
\* that was compiled while no other task used the context.
EnvOwn(t) ==
  pc[t].part \in RunParts \ {"run"} =>
    \A n \in DOMAIN OwnEnv(t) : n \in DOMAIN env[t] /\ env[t][n] = OwnEnv(t)[n]
Good(t, j, given) ==
  /\ ~Mixed(t) => j \in ProcessEnvfile(Envfile(t), given)
  /\ Named(t) /\ ~Exempt(t) => Reached(t, j)
Compiled(t, i) ==
  i \in DOMAIN jobs[t] /\ Good(t, jobs[t][i], Merge(env[t], Variation(t, i)))
JobsGood(t) ==
  /\ pc[t].step = "take" /\ pc[t].part # "condition" /\ ~Mixed(t) =>
       ctxEnv[Obj(t)] \in ProcessEnvfile(Envfile(t), Input(t))
  /\ pc[t].part = "compile" => \A i \in 1 .. pc[t].n - 1 : Compiled(t, i)
  /\ pc[t].part = "execute" => \A i \in 1 .. Commands(t, "compile") : Compiled(t, i)
  /\ pc[t].part \in {"condition", "before", "after"} /\ pc[t].step = "exec" => 1 \in DOMAIN jobs[t]
  /\ pc[t].part \in {"before", "after"} /\ pc[t].step = "exec" => Good(t, jobs[t][1], env[t])
  /\ pc[t].part = "execute" /\ pc[t].n # 1 /\ ~InContainer(t, "execute") /\ ~T(t).reset =>
       shell[t] = Merge(conf.os, jobs[t][1])

TaskInv(t) == Separate(t) /\ ContextKept(t) /\ EnvOwn(t) /\ JobsGood(t)

StateInv == TypeOK /\ Meeting /\ RunnerClean /\ \A t \in Tasks : TaskInv(t)

IInv ==
  /\ StateInv
  /\ JobEnvIsOwn /\ NoCrossTalk /\ ContextEnvReaches

(***************************************************************************)
(* Facts about the operators.                                              *)
(***************************************************************************)
\* A set of numbers that has one has a least one.
LEMMA LeastIs ==
  ASSUME NEW S \in SUBSET Nat, S # {}
  PROVE  \E x \in S : \A y \in S : x <= y
<1>1. IsWellFoundedOn(OpToRel(<, Nat), Nat)
  BY NatLessThanWellFounded
<1>2. PICK x \in S : \A y \in S : ~ (<<y, x>> \in OpToRel(<, Nat))
  <2>1. S \subseteq Nat
    OBVIOUS
  <2> QED BY <1>1, <2>1, WFMin
<1>3. \A y \in S : ~ (y < x)
  BY <1>2 DEF OpToRel
<1> QED BY <1>3

\* Induction over the numbers, for a property given as a set.
LEMMA Induction ==
  ASSUME NEW S \in SUBSET Nat, 0 \in S, \A m \in S : m + 1 \in S
  PROVE  S = Nat
<1> SUFFICES ASSUME Nat \ S # {} PROVE FALSE
  OBVIOUS
<1>1. PICK x \in Nat \ S : \A y \in Nat \ S : x <= y
  BY LeastIs
<1>2. x - 1 \in Nat /\ x - 1 < x
  BY <1>1
<1>3. x - 1 \in S
  BY <1>1, <1>2
<1>4. (x - 1) + 1 \in S
  BY <1>3
<1> QED BY <1>1, <1>4

\* The first and the last of some places.
LEMMA FirstIs ==
  ASSUME NEW S \in SUBSET Nat, S # {}
  PROVE  First(S) \in S /\ \A j \in S : First(S) <= j
BY LeastIs DEF First

\* Of places up to a bound.
LEMMA LastIs ==
  ASSUME NEW m \in Nat, NEW S \in SUBSET (1 .. m), S # {}
  PROVE  Last(S) \in S /\ \A q \in S : q <= Last(S)
<1> DEFINE D == {m - p : p \in S}
<1>1. D \in SUBSET Nat /\ D # {}
  <2>1. \A p \in S : m - p \in Nat
    OBVIOUS
  <2>2. PICK p \in S : TRUE
    OBVIOUS
  <2>3. m - p \in D
    OBVIOUS
  <2> QED BY <2>1, <2>3
<1>2. PICK d \in D : \A e \in D : d <= e
  BY <1>1, LeastIs
<1>3. PICK p \in S : d = m - p
  OBVIOUS
<1>4. ASSUME NEW q \in S
      PROVE  q <= p
  <2>1. m - p <= m - q
    BY <1>2, <1>3
  <2> QED BY <2>1
<1> QED BY <1>4 DEF Last

\* Merge keeps the names of both, and the values of the second.
LEMMA MergeIs ==
  ASSUME NEW dst, NEW src, NEW m, m = Merge(dst, src)
  PROVE  /\ DOMAIN m = DOMAIN dst \cup DOMAIN src
         /\ \A n \in DOMAIN src : m[n] = src[n]
         /\ \A n \in DOMAIN m \ DOMAIN src : n \in DOMAIN dst /\ m[n] = dst[n]
BY DEF Merge

\* Line by line, the recursive definition is what it says.
LEMMA LinesUpToIs ==
  ASSUME NEW lines, Len(lines) \in Nat
  PROVE  LinesUpTo(lines) = [i \in 0 .. Len(lines) |->
            IF i = 0 THEN Empty ELSE AddLine(LinesUpTo(lines)[i - 1], lines[i])]
<1> DEFINE S == {m \in Nat : \E f : f = [i \in 0 .. m |->
                    IF i = 0 THEN Empty ELSE AddLine(f[i - 1], lines[i])]}
<1>1. 0 \in S
  <2> DEFINE g == [i \in 0 .. 0 |-> Empty]
  <2>1. g = [i \in 0 .. 0 |-> IF i = 0 THEN Empty ELSE AddLine(g[i - 1], lines[i])]
    OBVIOUS
  <2> QED BY <2>1
<1>2. ASSUME NEW m \in S
      PROVE  m + 1 \in S
  <2>1. PICK f : f = [i \in 0 .. m |-> IF i = 0 THEN Empty ELSE AddLine(f[i - 1], lines[i])]
    OBVIOUS
  <2> DEFINE g == [i \in 0 .. m + 1 |-> IF i = m + 1 THEN AddLine(f[m], lines[m + 1]) ELSE f[i]]
  <2>2. ASSUME NEW i \in 0 .. m + 1
        PROVE  g[i] = IF i = 0 THEN Empty ELSE AddLine(g[i - 1], lines[i])
    <3>1. CASE i = m + 1
      BY <3>1
    <3>2. CASE i # m + 1
      <4>1. i \in 0 .. m /\ g[i] = f[i]
        BY <3>2
      <4>2. i # 0 => g[i - 1] = f[i - 1]
        BY <4>1
      <4>3. f[i] = IF i = 0 THEN Empty ELSE AddLine(f[i - 1], lines[i])
        BY <2>1, <4>1
      <4> QED BY <4>1, <4>2, <4>3
    <3> QED BY <3>1, <3>2
  <2>3. g = [i \in 0 .. m + 1 |-> IF i = 0 THEN Empty ELSE AddLine(g[i - 1], lines[i])]
    <3> HIDE DEF g
    <3>1. g = [i \in 0 .. m + 1 |-> g[i]]
      BY DEF g
    <3> QED BY <2>2, <3>1
  <2> HIDE DEF g
  <2>4. m + 1 \in Nat
    OBVIOUS
  <2>5. \E h : h = [i \in 0 .. m + 1 |-> IF i = 0 THEN Empty ELSE AddLine(h[i - 1], lines[i])]
    BY <2>3
  <2> QED BY <2>4, <2>5, Zenon
<1>3. S = Nat
  <2> HIDE DEF S
  <2>1. S \in SUBSET Nat
    BY DEF S
  <2> QED BY <1>1, <1>2, <2>1, Induction
<1>4. \E f : f = [i \in 0 .. Len(lines) |-> IF i = 0 THEN Empty ELSE AddLine(f[i - 1], lines[i])]
  BY <1>3
<1> QED BY <1>4, Zenon DEF LinesUpTo

\* Whoever wrote the lines of an env file set its values, but for a reference
\* to nothing.
LEMMA ReadEnvFileIs ==
  ASSUME NEW lines, IsList(lines), NEW src, NEW of,
         \A k \in DOMAIN lines : lines[k].val.src = src /\ lines[k].val.of = of,
         NEW e, e = ReadEnvFile(lines)
  PROVE  \A n \in DOMAIN e : e[n] = Unset \/ (e[n].src = src /\ e[n].of = of)
<1> DEFINE Set(v) == v = Unset \/ (v.src = src /\ v.of = of)
           f == LinesUpTo(lines)
           S == {m \in Nat : m <= Len(lines) => \A n \in DOMAIN f[m] : Set(f[m][n])}
<1>1. \A i \in 0 .. Len(lines) : f[i] = IF i = 0 THEN Empty ELSE AddLine(f[i - 1], lines[i])
  BY LinesUpToIs DEF IsList
<1>2. 0 \in S
  <2>1. f[0] = Empty
    BY <1>1 DEF IsList
  <2> QED BY <2>1 DEF Empty
<1>3. ASSUME NEW m \in S
      PROVE  m + 1 \in S
  <2>1. CASE m + 1 <= Len(lines)
    <3> DEFINE acc == f[m]  l == lines[m + 1]
    <3>1. f[m + 1] = AddLine(acc, l) /\ m + 1 \in DOMAIN lines
      BY <1>1, <2>1 DEF IsList
    <3>2. \A n \in DOMAIN acc : Set(acc[n])
      BY <2>1 DEF IsList
    <3>3. Set(l.val)
      BY <3>1
    <3> HIDE DEF f, acc, l, Set
    <3>4. ASSUME NEW n \in DOMAIN AddLine(acc, l)
          PROVE  Set(AddLine(acc, l)[n])
      <4> DEFINE v == CASE l.ref = NoName -> l.val
                        [] l.ref # NoName /\ l.ref \in DOMAIN acc -> acc[l.ref]
                        [] OTHER -> Unset
      <4>1. v \in {l.val, Unset} \/ (l.ref \in DOMAIN acc /\ v = acc[l.ref])
        OBVIOUS
      <4>2. Set(v)
        BY <3>2, <3>3, <4>1 DEF Set
      <4>3. AddLine(acc, l)[n] = v \/ (n \in DOMAIN acc /\ AddLine(acc, l)[n] = acc[n])
        BY DEF AddLine, Merge
      <4> HIDE DEF v
      <4> QED BY <3>2, <4>2, <4>3
    <3> QED BY <3>1, <3>4
  <2> QED BY <2>1
<1>4. S = Nat
  <2> HIDE DEF S
  <2>1. S \in SUBSET Nat
    BY DEF S
  <2> QED BY <1>2, <1>3, <2>1, Induction
<1>5. \A n \in DOMAIN f[Len(lines)] : Set(f[Len(lines)][n])
  BY <1>4 DEF IsList
<1> QED BY <1>5 DEF ReadEnvFile

\* So did whoever wrote the files.
LEMMA FilesEnvIs ==
  ASSUME NEW paths, NEW src, NEW of, FilesSetBy(paths, src, of), NEW from \in SUBSET DOMAIN paths,
         NEW e, e = FilesEnv(paths, from)
  PROVE  \A n \in DOMAIN e : e[n] = Unset \/ (e[n].src = src /\ e[n].of = of)
<1> DEFINE file_(i) == ReadEnvFile(paths[i].lines)
           setBy(n) == {i \in from : n \in DOMAIN file_(i)}
<1>1. e = [n \in UNION {DOMAIN file_(i) : i \in from} |-> file_(Last(setBy(n)))[n]]
  BY DEF FilesEnv
<1>2. ASSUME NEW n \in DOMAIN e
      PROVE  e[n] = Unset \/ (e[n].src = src /\ e[n].of = of)
  <2>1. setBy(n) # {}
    BY <1>1
  <2>2. setBy(n) \in SUBSET (1 .. Len(paths)) /\ Len(paths) \in Nat
    BY DEF FilesSetBy, IsList
  <2> DEFINE i == Last(setBy(n))
  <2>3. i \in setBy(n)
    <3> HIDE DEF setBy
    <3> QED BY <2>1, <2>2, LastIs
  <2>4. e[n] = file_(i)[n] /\ n \in DOMAIN file_(i) /\ i \in DOMAIN paths
    BY <1>1, <2>3
  <2> HIDE DEF i
  <2>5. /\ IsList(paths[i].lines)
        /\ \A k \in DOMAIN paths[i].lines :
             paths[i].lines[k].val.src = src /\ paths[i].lines[k].val.of = of
    BY <2>4 DEF FilesSetBy
  <2>6. file_(i)[n] = Unset \/ (file_(i)[n].src = src /\ file_(i)[n].of = of)
    <3> DEFINE f == file_(i)
    <3>1. f = ReadEnvFile(paths[i].lines) /\ n \in DOMAIN f
      BY <2>4
    <3> HIDE DEF f
    <3> QED BY <2>5, <3>1, ReadEnvFileIs DEF f
  <2> QED BY <2>4, <2>6
<1> QED BY <1>2

\* ProcessEnvfile leaves the names that are not skipped, each with the value of
\* a name it is made from.
LEMMA ProcessIs ==
  ASSUME NEW ef, NEW given, NEW e \in ProcessEnvfile(ef, given)
  PROVE  /\ DOMAIN e = Kept(ef, Gathered(ef, given))
         /\ \A n \in DOMAIN e : \E m \in Sources(ef, Gathered(ef, given), n) :
                               e[n] = Gathered(ef, given)[m]
         /\ \A n \in DOMAIN e : ~ includeExcludeSkip(ef, n)
<1> DEFINE all == Gathered(ef, given)
           from(n) == Sources(ef, all, n)
           clash == {n \in Kept(ef, all) : \E a, b \in from(n) : a # b}
           picks == {p \in [clash -> DOMAIN all] : \A n \in clash : p[n] \in from(n)}
           left_(pick) == [n \in Kept(ef, all) |-> all[IF n \in clash THEN pick[n]
                                                      ELSE CHOOSE m \in from(n) : TRUE]]
<1>1. PICK pick \in picks : e = left_(pick)
  <2>1. ProcessEnvfile(ef, given) = {left_(pick) : pick \in picks}
    BY Zenon DEF ProcessEnvfile
  <2> HIDE DEF left_, picks
  <2> QED BY <2>1
<1> HIDE DEF all
<1>2. ASSUME NEW n \in Kept(ef, all)
      PROVE  (IF n \in clash THEN pick[n] ELSE CHOOSE m \in from(n) : TRUE) \in from(n)
  <2>1. \E m : m \in from(n)
    BY DEF Kept, Sources
  <2>2. (CHOOSE m \in from(n) : TRUE) \in from(n)
    <3> HIDE DEF from
    <3> QED BY <2>1
  <2>3. n \in clash => pick[n] \in from(n)
    BY <1>1
  <2> QED BY <2>2, <2>3
<1>3. DOMAIN e = Kept(ef, all)
  BY <1>1
<1>4. ASSUME NEW n \in DOMAIN e
      PROVE  \E m \in from(n) : e[n] = all[m]
  <2> DEFINE m == IF n \in clash THEN pick[n] ELSE CHOOSE m \in from(n) : TRUE
  <2>1. e[n] = all[m]
    BY <1>1, <1>3
  <2>2. m \in from(n)
    BY <1>2, <1>3
  <2> HIDE DEF m
  <2> QED BY <2>1, <2>2
<1>5. \A n \in DOMAIN e : ~ includeExcludeSkip(ef, n)
  BY <1>3 DEF Kept
<1> QED BY <1>3, <1>4, <1>5 DEF all

\* A name is modified once.
LEMMA ModifyTwice ==
  ASSUME NEW ef, NEW n
  PROVE  /\ modifyName(ef, modifyName(ef, n)) = modifyName(ef, n)
         /\ Nameless(modifyName(ef, n)) <=> Nameless(n)
<1> DEFINE fits == {i \in DOMAIN ef.modify : ef.modify[i].kw = n.kw}
           up == ef.modify[First(fits)].operation = "upper"
           m == modifyName(ef, n)
<1>1. CASE fits = {}
  <2>1. m = n
    BY <1>1 DEF modifyName
  <2> QED BY <2>1
<1>2. CASE fits # {}
  <2>1. m = [kw |-> n.kw, var |-> n.var, up |-> up]
    BY <1>2 DEF modifyName
  <2>2. m.kw = n.kw /\ m.var = n.var
    BY <2>1
  <2> HIDE DEF m, up
  <2>3. modifyName(ef, m) = IF fits = {} THEN m ELSE [kw |-> m.kw, var |-> m.var, up |-> up]
    BY <2>2 DEF modifyName, up
  <2>4. modifyName(ef, m) = m
    BY <1>2, <2>1, <2>2, <2>3, Zenon
  <2> QED BY <2>2, <2>4 DEF m, Nameless
<1> QED BY <1>1, <1>2

(***************************************************************************)
(* Where the steps lead.                                                   *)
(***************************************************************************)
\* Tasks that have the same context object share a named context.
LEMMA ObjIs ==
  ASSUME conf \in Configs, NEW t \in Tasks
  PROVE  /\ Obj(t) \in Objects
         /\ \A u \in Tasks : Obj(t) = Obj(u) => t = u \/ (Share(t, u) /\ Share(u, t))
         /\ \A u \in Tasks : Share(t, u) => Obj(t) = Obj(u)
<1>1. T(t).context \in DOMAIN conf.contexts \cup {""}
  BY ConfigAssumption DEF Tasks, T
<1>2. Obj(t) \in Objects
  BY <1>1 DEF Obj, Objects, Named
<1>3. \A u \in Tasks : Obj(t) = Obj(u) => t = u \/ (Share(t, u) /\ Share(u, t))
  BY DEF Obj, Share, Named
<1>4. \A u \in Tasks : Share(t, u) => Obj(t) = Obj(u)
  BY DEF Obj, Share, Named
<1> QED BY <1>2, <1>3, <1>4

\* A task moves alone.
LEMMA GoIs ==
  ASSUME TypeOK, NEW t \in Tasks, NEW part \in RunParts \cup {"idle", "end"}, NEW step \in Steps,
         NEW n \in Nat, Go(t, part, step, n)
  PROVE  /\ pc' \in [Tasks -> Pcs]
         /\ pc'[t].part = part /\ pc'[t].step = step /\ pc'[t].n = n
         /\ \A u \in Tasks \ {t} : pc'[u] = pc[u]
<1>1. [part |-> part, step |-> step, n |-> n] \in Pcs
  BY DEF Pcs
<1> QED BY <1>1 DEF TypeOK, Go

\* There is one job for each command and variation.
LEMMA CommandsIs ==
  ASSUME conf \in Configs, NEW t \in Tasks
  PROVE  /\ Commands(t, "compile") \in Nat
         /\ Commands(t, "execute") = Commands(t, "compile")
<1>1. T(t).commands \in Nat /\ Len(T(t).variations) \in Nat
  BY ConfigAssumption DEF Tasks, T, IsList
<1>2. Len(GetVariations(t)) \in Nat
  BY <1>1 DEF GetVariations
<1>3. T(t).commands * Len(GetVariations(t)) \in Nat
  BY <1>1, <1>2
<1> QED BY <1>3 DEF Commands

\* The next part is one with something to do, and the jobs are executed right
\* after they are compiled.
LEMMA NextPartIs ==
  ASSUME conf \in Configs, NEW t \in Tasks, NEW part \in RunParts
  PROVE  /\ NextPart(t, part) \in (RunParts \ {"run"}) \cup {"end"}
         /\ NextPart(t, part) = "condition" => T(t).condition
         /\ NextPart(t, part) \in {"compile", "execute"} => 1 \in 1 .. Commands(t, "compile")
         /\ NextPart(t, part) = "execute" => part = "compile"
<1> DEFINE later == {j \in DOMAIN Parts : /\ \E i \in 1 .. j - 1 : Parts[i] = part
                                        /\ HasWork(t, Parts[j])}
           next == NextPart(t, part)
<1>1. DOMAIN Parts = 1 .. 7
  BY DEF Parts
<1>2. /\ Parts[1] = "run" /\ Parts[2] = "condition" /\ Parts[3] = "before" /\ Parts[4] = "compile"
      /\ Parts[5] = "execute" /\ Parts[6] = "store" /\ Parts[7] = "after"
  BY DEF Parts
<1>3. CASE later = {}
  BY <1>3 DEF NextPart, RunParts
<1>4. CASE later # {}
  <2> DEFINE j == First(later)
  <2>1. next = Parts[j]
    BY <1>4 DEF NextPart
  <2>2. j \in later /\ \A k \in later : j <= k
    <3>1. later \in SUBSET Nat
      BY <1>1
    <3> HIDE DEF later
    <3> QED BY <1>4, <3>1, FirstIs
  <2> HIDE DEF j
  <2>3. j \in 1 .. 7 /\ HasWork(t, Parts[j])
    BY <1>1, <2>2
  <2>4. PICK i \in 1 .. j - 1 : Parts[i] = part
    BY <2>2
  <2>5. j \in 2 .. 7
    BY <2>3, <2>4
  <2>6. next \in RunParts \ {"run"}
    BY <1>2, <2>1, <2>5 DEF RunParts
  <2>7. next = "condition" => T(t).condition
    BY <2>1, <2>3 DEF HasWork, Commands
  <2>8. next \in {"compile", "execute"} => 1 \in 1 .. Commands(t, "compile")
    BY <2>1, <2>3, CommandsIs DEF HasWork
  <2>9. ASSUME next = "execute", part # "compile"
        PROVE  FALSE
    <3> DEFINE at == Parts[j]
    <3>1. j = 5
      <4>1. j = 2 \/ j = 3 \/ j = 4 \/ j = 5 \/ j = 6 \/ j = 7
        BY <2>5
      <4>2. at = "execute"
        BY <2>1, <2>9
      <4>3. (j = 2 => at = "condition") /\ (j = 3 => at = "before") /\ (j = 4 => at = "compile")
        BY <1>2
      <4>4. (j = 6 => at = "store") /\ (j = 7 => at = "after")
        BY <1>2
      <4> HIDE DEF at
      <4> QED BY <4>1, <4>2, <4>3, <4>4
    <3>2. i \in 1 .. 3
      BY <1>2, <2>4, <2>9, <3>1
    <3>3. HasWork(t, "compile")
      BY <1>2, <2>3, <3>1, CommandsIs DEF HasWork
    <3>4. 4 \in later
      BY <1>1, <1>2, <2>4, <3>2, <3>3
    <3> QED BY <2>2, <3>1, <3>4
  <2> QED BY <2>6, <2>7, <2>8, <2>9
<1> QED BY <1>3, <1>4

\* So is the step of the next part a task begins with.
LEMMA FollowIs ==
  ASSUME TypeOK, NEW t \in Tasks, NEW part \in RunParts, Follow(t, part)
  PROVE  /\ pc' \in [Tasks -> Pcs] /\ \A u \in Tasks \ {t} : pc'[u] = pc[u]
         /\ pc'[t].part \in (RunParts \ {"run"}) \cup {"end"}
         /\ pc'[t].step \in StepsOf(pc'[t].part) /\ pc'[t].step \in {"nil", "process", "open", "read"}
         /\ pc'[t].part = "condition" => T(t).condition
         /\ pc'[t].part \in {"compile", "execute"} =>
              pc'[t].n = 1 /\ 1 \in 1 .. Commands(t, "compile")
         /\ pc'[t].part = "execute" => part = "compile"
<1> DEFINE p == NextPart(t, part)
           step == CASE p = "end" -> "nil" [] p = "compile" -> "process"
                     [] p = "store" -> "open" [] OTHER -> "read"
           n == IF p = "end" THEN 0 ELSE 1
<1>1. /\ p \in (RunParts \ {"run"}) \cup {"end"}
      /\ p = "condition" => T(t).condition
      /\ p \in {"compile", "execute"} => 1 \in 1 .. Commands(t, "compile")
      /\ p = "execute" => part = "compile"
  BY NextPartIs DEF TypeOK
<1>2. Go(t, p, step, n)
  BY DEF Follow
<1> HIDE DEF p
<1>3. step \in StepsOf(p) /\ step \in {"nil", "process", "open", "read"}
  BY <1>1 DEF StepsOf, RunParts
<1>4. step \in Steps /\ n \in Nat /\ (p # "end" => n = 1)
  BY <1>3 DEF Steps
<1> HIDE DEF step, n
<1>5. /\ pc' \in [Tasks -> Pcs]
      /\ pc'[t].part = p /\ pc'[t].step = step /\ pc'[t].n = n
      /\ \A u \in Tasks \ {t} : pc'[u] = pc[u]
  BY <1>1, <1>2, <1>4, GoIs
<1> QED BY <1>1, <1>3, <1>4, <1>5

\* What is loaded stays, and all that is read off it.
LEMMA ConfIs ==
  ASSUME UNCHANGED conf
  PROVE  /\ Tasks' = Tasks /\ Objects' = Objects
         /\ \A t : T(t)' = T(t) /\ Ctx(t)' = Ctx(t) /\ (Named(t)' <=> Named(t)) /\ Obj(t)' = Obj(t)
                   /\ Envfile(t)' = Envfile(t) /\ OwnEnv(t)' = OwnEnv(t) /\ Given(t)' = Given(t)
         /\ \A t, u : Share(t, u)' <=> Share(t, u)
         /\ \A t, part : /\ Commands(t, part)' = Commands(t, part)
                         /\ InContainer(t, part)' <=> InContainer(t, part)
         /\ \A t, n : Variation(t, n)' = Variation(t, n) /\ (Skipped(t, n)' <=> Skipped(t, n))
<1> USE DEF T
<1>1. Tasks' = Tasks /\ Objects' = Objects
  BY DEF Tasks, Objects
<1>2. \A t : T(t)' = T(t) /\ (Named(t)' <=> Named(t)) /\ Obj(t)' = Obj(t)
  BY DEF Named, Obj
<1>3. \A t : Ctx(t)' = Ctx(t)
  BY DEF Ctx, Named, buildContext, DefaultContext
<1>4. \A t : Envfile(t)' = Envfile(t) /\ OwnEnv(t)' = OwnEnv(t) /\ Given(t)' = Given(t)
  BY <1>3 DEF Envfile, OwnEnv, Given
<1>5. \A t, u : Share(t, u)' <=> Share(t, u)
  BY DEF Share, Named
<1>6. \A t, part : /\ Commands(t, part)' = Commands(t, part)
                   /\ InContainer(t, part)' <=> InContainer(t, part)
  BY <1>3 DEF Commands, InContainer, GetVariations
<1>7. \A t, n : Variation(t, n)' = Variation(t, n) /\ (Skipped(t, n)' <=> Skipped(t, n))
  BY <1>4 DEF Variation, GetVariations, Skipped
<1> QED BY <1>1, <1>2, <1>3, <1>4, <1>5, <1>6, <1>7

\* What a step of t does to where the tasks are.
TaskStep(t) ==
  \/ Start(t) \/ ReadContext(t) \/ MergeContext(t) \/ BuildEnv(t)
  \/ Process(t) \/ Take(t) \/ Execute(t)
  \/ OpenArtifact(t) \/ storeTaskOutput(t)
Moves(t) ==
  /\ pc' \in [Tasks -> Pcs] /\ \A u \in Tasks \ {t} : pc'[u] = pc[u]
  /\ pc[t].part # "end" /\ pc'[t].part # "idle"
  /\ pc[t].part = "idle" => pc'[t].part = "run"
  /\ pc'[t].part = "run" => pc[t].part \in {"idle", "run"}
  /\ InPlace(t)'

\* The steps of a task are those of the part it is in.
LEMMA StepIs ==
  ASSUME TypeOK, NEW t \in Tasks
  PROVE  /\ pc[t] \in Pcs
         /\ pc[t].step = "read" => pc[t].part \in {"run", "condition", "before", "execute", "after"}
         /\ pc[t].step = "merge" => pc[t].part \in {"run", "condition", "before", "execute", "after"}
         /\ pc[t].step = "process" => pc[t].part \in {"condition", "before", "compile", "after"}
         /\ pc[t].step = "take" => pc[t].part \in {"condition", "before", "compile", "after"}
         /\ pc[t].step = "exec" => pc[t].part \in {"condition", "before", "execute", "after"}
<1>1. pc[t] \in Pcs /\ pc[t].step \in StepsOf(pc[t].part)
  BY DEF TypeOK, InPlace
<1>2. pc[t].part \in RunParts \cup {"idle", "end"}
  BY <1>1 DEF Pcs
<1> QED BY <1>1, <1>2 DEF StepsOf, RunParts

\* Within a part a task goes on to one of its steps.
LEMMA GoMoves ==
  ASSUME TypeOK, UNCHANGED conf, NEW t \in Tasks, NEW part \in RunParts, NEW step \in StepsOf(part),
         NEW n \in Nat, Go(t, part, step, n), pc[t].part \in RunParts \cup {"idle"},
         pc[t].part = "idle" => part = "run", part = "run" => pc[t].part \in {"idle", "run"},
         part = "condition" => T(t).condition,
         part \in {"compile", "execute"} => n \in 1 .. Commands(t, "compile")
  PROVE  Moves(t) /\ pc'[t].part = part /\ pc'[t].step = step /\ pc'[t].n = n
<1>1. step \in Steps
  BY DEF RunParts, StepsOf, Steps
<1>2. /\ pc' \in [Tasks -> Pcs]
      /\ pc'[t].part = part /\ pc'[t].step = step /\ pc'[t].n = n
      /\ \A u \in Tasks \ {t} : pc'[u] = pc[u]
  BY <1>1, GoIs
<1>3. InPlace(t)'
  BY <1>2, ConfIs DEF InPlace
<1> QED BY <1>2, <1>3 DEF Moves, RunParts

\* An error, or a condition that is not met, ends it.
LEMMA EndMoves ==
  ASSUME TypeOK, UNCHANGED conf, NEW t \in Tasks, NEW how \in {"error", "skipped"}, End(t, how),
         pc[t].part \in RunParts
  PROVE  Moves(t) /\ pc'[t].part = "end"
<1>1. how \in Steps /\ "end" \in RunParts \cup {"idle", "end"} /\ 0 \in Nat
  BY DEF Steps
<1>2. Go(t, "end", how, 0)
  BY DEF End
<1>3. /\ pc' \in [Tasks -> Pcs]
      /\ pc'[t].part = "end" /\ pc'[t].step = how /\ pc'[t].n = 0
      /\ \A u \in Tasks \ {t} : pc'[u] = pc[u]
  BY <1>1, <1>2, GoIs
<1>4. InPlace(t)'
  BY <1>3 DEF InPlace, StepsOf
<1> QED BY <1>3, <1>4 DEF Moves, RunParts

\* So does the last part; else the next one begins.
LEMMA FollowMoves ==
  ASSUME TypeOK, UNCHANGED conf, NEW t \in Tasks, NEW part \in RunParts, Follow(t, part),
         pc[t].part \in RunParts
  PROVE  /\ Moves(t) /\ pc'[t].part \in (RunParts \ {"run"}) \cup {"end"}
         /\ pc'[t].step \in {"nil", "process", "open", "read"}
         /\ pc'[t].part \in {"compile", "execute"} => pc'[t].n = 1
         /\ pc'[t].part = "execute" => part = "compile"
<1>1. /\ pc' \in [Tasks -> Pcs] /\ \A u \in Tasks \ {t} : pc'[u] = pc[u]
      /\ pc'[t].part \in (RunParts \ {"run"}) \cup {"end"}
      /\ pc'[t].step \in StepsOf(pc'[t].part) /\ pc'[t].step \in {"nil", "process", "open", "read"}
      /\ pc'[t].part = "condition" => T(t).condition
      /\ pc'[t].part \in {"compile", "execute"} =>
           pc'[t].n = 1 /\ 1 \in 1 .. Commands(t, "compile")
      /\ pc'[t].part = "execute" => part = "compile"
  BY FollowIs
<1>2. InPlace(t)'
  BY <1>1, ConfIs DEF InPlace
<1> QED BY <1>1, <1>2 DEF Moves, RunParts

\* Where each step of a task leads.
LEMMA ContextMoves ==
  ASSUME TypeOK, NEW t \in Tasks, ReadContext(t) \/ MergeContext(t)
  PROVE  /\ Moves(t) /\ pc[t].part \in RunParts /\ pc'[t].part = pc[t].part
         /\ pc'[t].step \notin {"take", "read"} /\ pc'[t].n = 1
         /\ MergeContext(t) => pc'[t].step # "merge"
         /\ pc'[t].step = "exec" => pc[t].part = "execute"
         /\ pc[t].part \notin {"compile", "store"}
<1>1. /\ pc[t].part \in {"run", "condition", "before", "execute", "after"}
      /\ UNCHANGED conf
  BY StepIs DEF ReadContext, MergeContext
<1>2. /\ pc[t].part = "condition" => T(t).condition
      /\ pc[t].part = "execute" => 1 \in 1 .. Commands(t, "compile")
  <2>1. InPlace(t) /\ Commands(t, "compile") \in Nat
    BY CommandsIs DEF TypeOK
  <2> QED BY <2>1 DEF InPlace
<1> DEFINE part == pc[t].part
           next == CASE part = "run" -> "build" [] part = "execute" -> "exec"
                     [] OTHER -> "process"
<1>3. part \in RunParts /\ part \notin {"compile", "idle", "end", "store"}
  BY <1>1 DEF RunParts
<1>4. CASE ReadContext(t)
  <2>1. Go(t, part, "merge", 1)
    BY <1>4 DEF ReadContext
  <2>2. "merge" \in StepsOf(part)
    BY <1>1 DEF StepsOf
  <2> HIDE DEF part
  <2>3. Moves(t) /\ pc'[t].part = part /\ pc'[t].step = "merge" /\ pc'[t].n = 1
    BY <1>1, <1>2, <1>3, <2>1, <2>2, GoMoves DEF part
  <2>4. ~ MergeContext(t)
    BY <1>4, StepIs DEF MergeContext, ReadContext
  <2> QED BY <1>3, <2>3, <2>4 DEF part
<1>5. CASE MergeContext(t)
  <2>1. Go(t, part, next, 1)
    BY <1>5 DEF MergeContext
  <2>2. /\ next \in StepsOf(part) /\ next \in {"build", "exec", "process"}
        /\ next = "exec" => part = "execute"
    BY <1>1 DEF StepsOf
  <2> HIDE DEF part, next
  <2>3. Moves(t) /\ pc'[t].part = part /\ pc'[t].step = next /\ pc'[t].n = 1
    BY <1>1, <1>2, <1>3, <2>1, <2>2, GoMoves DEF part
  <2> QED BY <1>3, <2>2, <2>3 DEF part
<1> QED BY <1>4, <1>5

\* Run begins, builds the env and stores what the artifact says.
LEMMA RunMoves ==
  ASSUME TypeOK, NEW t \in Tasks, Start(t) \/ BuildEnv(t) \/ OpenArtifact(t) \/ storeTaskOutput(t)
  PROVE  /\ Moves(t)
         /\ pc'[t] = pc[t] \/ pc'[t].step \notin {"merge", "take", "exec"}
         /\ pc'[t] = pc[t] \/ (pc'[t].part # "execute" /\ (pc'[t].part = "compile" => pc'[t].n = 1))
         /\ pc[t].part \in {"idle", "run", "store"}
<1>1. CASE Start(t)
  <2>1. pc[t].part = "idle" /\ Go(t, "run", "read", 1) /\ UNCHANGED conf
    BY <1>1 DEF Start
  <2>2. "run" \in RunParts /\ "read" \in StepsOf("run")
    BY DEF RunParts, StepsOf
  <2>3. Moves(t) /\ pc'[t].part = "run" /\ pc'[t].step = "read"
    BY <2>1, <2>2, GoMoves
  <2> QED BY <2>1, <2>3
<1>2. CASE BuildEnv(t)
  <2>1. pc[t].part = "run" /\ UNCHANGED conf /\ (End(t, "error") \/ Follow(t, "run"))
    BY <1>2 DEF BuildEnv, At
  <2>2. "run" \in RunParts /\ pc[t].part \in RunParts
    BY <2>1 DEF RunParts
  <2>3. CASE End(t, "error")
    <3>1. Moves(t) /\ pc'[t].part = "end"
      BY <2>1, <2>2, <2>3, EndMoves
    <3>2. pc'[t].step \in {"nil", "error", "skipped"}
      BY <3>1 DEF Moves, InPlace, StepsOf
    <3> QED BY <2>1, <3>1, <3>2
  <2>4. CASE Follow(t, "run")
    <3>1. /\ Moves(t) /\ pc'[t].part \in (RunParts \ {"run"}) \cup {"end"}
          /\ pc'[t].step \in {"nil", "process", "open", "read"}
          /\ pc'[t].part \in {"compile", "execute"} => pc'[t].n = 1
          /\ pc'[t].part # "execute"
      BY <2>1, <2>2, <2>4, FollowMoves
    <3> QED BY <2>1, <3>1
  <2> QED BY <2>1, <2>3, <2>4
<1>3. CASE OpenArtifact(t)
  <2>1. pc[t].part = "store" /\ UNCHANGED conf /\ (End(t, "error") \/ Go(t, "store", "set", 1))
    BY <1>3 DEF OpenArtifact, At
  <2>2. "store" \in RunParts /\ "set" \in StepsOf("store")
    BY DEF RunParts, StepsOf
  <2>3. CASE End(t, "error")
    <3>1. Moves(t) /\ pc'[t].part = "end"
      BY <2>1, <2>2, <2>3, EndMoves
    <3>2. pc'[t].step \in {"nil", "error", "skipped"}
      BY <3>1 DEF Moves, InPlace, StepsOf
    <3> QED BY <2>1, <3>1, <3>2
  <2>4. CASE Go(t, "store", "set", 1)
    <3>1. Moves(t) /\ pc'[t].part = "store" /\ pc'[t].step = "set"
      BY <2>1, <2>2, <2>4, GoMoves
    <3> QED BY <2>1, <2>2, <3>1
  <2> QED BY <2>1, <2>3, <2>4
<1>4. CASE storeTaskOutput(t)
  <2>1. pc[t].part = "store" /\ pc[t].step = "set" /\ UNCHANGED conf /\ (UNCHANGED pc \/ Follow(t, "store"))
    BY <1>4 DEF storeTaskOutput, At
  <2>2. "store" \in RunParts /\ pc[t].part \in RunParts
    BY <2>1 DEF RunParts
  <2>3. CASE UNCHANGED pc
    <3>1. InPlace(t)'
      BY <2>1, <2>3, ConfIs DEF TypeOK, InPlace
    <3>2. Moves(t)
      BY <2>1, <2>3, <3>1 DEF TypeOK, Moves
    <3> QED BY <2>1, <2>2, <2>3, <3>2
  <2>4. CASE Follow(t, "store")
    <3>1. /\ Moves(t) /\ pc'[t].part \in (RunParts \ {"run"}) \cup {"end"}
          /\ pc'[t].step \in {"nil", "process", "open", "read"}
          /\ pc'[t].part \in {"compile", "execute"} => pc'[t].n = 1
          /\ pc'[t].part # "execute"
      BY <2>1, <2>2, <2>4, FollowMoves
    <3> QED BY <2>1, <3>1
  <2> QED BY <2>1, <2>3, <2>4
<1> QED BY <1>1, <1>2, <1>3, <1>4

\* compileCommand leaves what ProcessEnvfile makes in the context, or an error.
LEMMA ProcessMoves ==
  ASSUME TypeOK, NEW t \in Tasks, Process(t)
  PROVE  /\ Moves(t) /\ pc[t].part \in {"condition", "before", "compile", "after"}
         /\ \/ pc'[t].part = "end" /\ UNCHANGED ctxEnv
            \/ /\ pc'[t].part = pc[t].part /\ pc'[t].step = "take" /\ pc'[t].n = pc[t].n
               /\ \E e \in ProcessEnvfile(Envfile(t), Input(t)) :
                     ctxEnv' = [ctxEnv EXCEPT ![Obj(t)] = e]
<1>1. /\ pc[t].part \in {"condition", "before", "compile", "after"} /\ pc[t] \in Pcs
      /\ UNCHANGED conf /\ InPlace(t)
  BY StepIs DEF Process, TypeOK
<1> DEFINE part == pc[t].part  n == pc[t].n
<1>2. part \in RunParts /\ n \in Nat /\ "take" \in StepsOf(part)
  BY <1>1 DEF RunParts, StepsOf, Pcs
<1>3. /\ part = "condition" => T(t).condition
      /\ part \in {"compile", "execute"} => n \in 1 .. Commands(t, "compile")
  BY <1>1 DEF InPlace
<1>4. \/ End(t, "error") /\ UNCHANGED ctxEnv
      \/ /\ Go(t, part, "take", n)
         /\ \E e \in ProcessEnvfile(Envfile(t), Input(t)) : ctxEnv' = [ctxEnv EXCEPT ![Obj(t)] = e]
  BY DEF Process, Envfile
<1>5. CASE End(t, "error") /\ UNCHANGED ctxEnv
  BY <1>1, <1>2, <1>5, EndMoves
<1>6. CASE /\ Go(t, part, "take", n)
           /\ \E e \in ProcessEnvfile(Envfile(t), Input(t)) : ctxEnv' = [ctxEnv EXCEPT ![Obj(t)] = e]
  <2>1. part # "idle" /\ part # "run"
    BY <1>1
  <2>2. pc[t].part \in RunParts \cup {"idle"} /\ pc[t].part # "idle" /\ UNCHANGED conf
    BY <1>1, <1>2
  <2> HIDE DEF part, n
  <2>3. Moves(t) /\ pc'[t].part = part /\ pc'[t].step = "take" /\ pc'[t].n = n
    BY <1>2, <1>3, <1>6, <2>1, <2>2, GoMoves
  <2> QED BY <1>1, <1>6, <2>3 DEF part, n
<1> QED BY <1>4, <1>5, <1>6

\* It reads it back, and the part ends with its last job.
LEMMA TakeMoves ==
  ASSUME TypeOK, NEW t \in Tasks, Take(t)
  PROVE  /\ Moves(t) /\ pc[t].part \in {"condition", "before", "compile", "after"}
         /\ pc[t] \in Pcs
         /\ \/ pc'[t].part = "end" /\ UNCHANGED jobs
            \/ /\ \/ /\ pc[t].part # "compile" /\ pc'[t].part = pc[t].part
                     /\ pc'[t].step = "exec" /\ pc'[t].n = pc[t].n
                  \/ /\ pc[t].part = "compile" /\ pc'[t].part = "compile"
                     /\ pc'[t].step = "process" /\ pc'[t].n = pc[t].n + 1
                  \/ /\ pc[t].part = "compile" /\ pc[t].n = Commands(t, "compile")
                     /\ pc'[t].part \in (RunParts \ {"run"}) \cup {"end"}
                     /\ pc'[t].step \in {"nil", "process", "open", "read"}
                     /\ pc'[t].part \in {"compile", "execute"} => pc'[t].n = 1
               /\ jobs' = [jobs EXCEPT ![t] =
                     [i \in 1 .. (IF pc[t].part = "compile" THEN pc[t].n ELSE 1) |->
                        IF i = (IF pc[t].part = "compile" THEN pc[t].n ELSE 1)
                        THEN ctxEnv[Obj(t)] ELSE jobs[t][i]]]
<1>1. /\ pc[t].part \in {"condition", "before", "compile", "after"} /\ pc[t] \in Pcs
      /\ UNCHANGED conf /\ InPlace(t)
  BY StepIs DEF Take, TypeOK
<1> DEFINE part == pc[t].part  n == pc[t].n
           k == IF part = "compile" THEN n ELSE 1
           new == [jobs EXCEPT ![t] = [i \in 1 .. k |-> IF i = k THEN ctxEnv[Obj(t)] ELSE jobs[t][i]]]
           move == IF part # "compile" THEN Go(t, part, "exec", n)
                   ELSE IF n < Commands(t, "compile") THEN Go(t, "compile", "process", n + 1)
                   ELSE Follow(t, "compile")
<1>2. /\ part \in RunParts /\ pc[t].part \in RunParts \cup {"idle"} /\ part \notin {"idle", "run", "execute"}
      /\ n \in Nat
      /\ "process" \in StepsOf("compile") /\ (part # "compile" => "exec" \in StepsOf(part))
  BY <1>1 DEF RunParts, StepsOf, Pcs
<1>3. /\ part = "condition" => T(t).condition
      /\ part = "compile" => n \in 1 .. Commands(t, "compile")
      /\ Commands(t, "compile") \in Nat
  BY <1>1, CommandsIs DEF InPlace, TypeOK
<1> DEFINE onward == CASE part # "compile" -> Go(t, part, "exec", n)
                       [] part = "compile" /\ n < Commands(t, "compile") ->
                            Go(t, "compile", "process", n + 1)
                       [] OTHER -> Follow(t, "compile")
<1>4. (End(t, "error") /\ UNCHANGED jobs) \/ (move /\ jobs' = new)
  <2>1. (End(t, "error") /\ UNCHANGED jobs) \/ (onward /\ jobs' = new)
    BY DEF Take
  <2>2. ASSUME onward
        PROVE  move
    <3>1. CASE part # "compile"
      BY <2>2, <3>1, Zenon
    <3>2. CASE part = "compile" /\ n < Commands(t, "compile")
      BY <2>2, <3>2, Zenon
    <3>3. CASE part = "compile" /\ ~ (n < Commands(t, "compile"))
      BY <2>2, <3>3, Zenon
    <3> QED BY <3>1, <3>2, <3>3
  <2> QED BY <2>1, <2>2
<1>5. CASE End(t, "error") /\ UNCHANGED jobs
  BY <1>1, <1>2, <1>5, EndMoves
<1>6. CASE move /\ jobs' = new
  <2>1. CASE part # "compile"
    <3>1. Go(t, part, "exec", n)
      BY <1>6, <2>1
    <3> HIDE DEF n, part
    <3>2. Moves(t) /\ pc'[t].part = part /\ pc'[t].step = "exec" /\ pc'[t].n = n
      BY <1>1, <1>2, <1>3, <2>1, <3>1, GoMoves
    <3> QED BY <1>1, <1>6, <2>1, <3>2 DEF part, n
  <2>2. CASE part = "compile" /\ n < Commands(t, "compile")
    <3>1. Go(t, "compile", "process", n + 1)
      BY <1>6, <2>2
    <3>2. n + 1 \in Nat /\ n + 1 \in 1 .. Commands(t, "compile") /\ "compile" \in RunParts
      BY <1>2, <1>3, <2>2 DEF RunParts
    <3>3. Moves(t) /\ pc'[t].part = "compile" /\ pc'[t].step = "process" /\ pc'[t].n = n + 1
      BY <1>1, <1>2, <3>1, <3>2, GoMoves
    <3> QED BY <1>1, <1>6, <2>2, <3>3
  <2>3. CASE part = "compile" /\ ~ (n < Commands(t, "compile"))
    <3>1. Follow(t, "compile") /\ "compile" \in RunParts
      BY <1>6, <2>3 DEF RunParts
    <3>2. /\ Moves(t) /\ pc'[t].part \in (RunParts \ {"run"}) \cup {"end"}
          /\ pc'[t].step \in {"nil", "process", "open", "read"}
          /\ pc'[t].part \in {"compile", "execute"} => pc'[t].n = 1
      BY <1>1, <1>2, <3>1, FollowMoves
    <3>3. n = Commands(t, "compile")
      BY <1>2, <1>3, <2>3
    <3> QED BY <1>1, <1>6, <2>3, <3>2, <3>3
  <2> QED BY <2>1, <2>2, <2>3
<1> QED BY <1>4, <1>5, <1>6

\* The jobs are executed one after the other.
LEMMA ExecuteMoves ==
  ASSUME TypeOK, NEW t \in Tasks, Execute(t)
  PROVE  /\ Moves(t) /\ pc[t].part \in {"condition", "before", "execute", "after"}
         /\ pc[t] \in Pcs
         /\ pc'[t].part = "execute" =>
              pc[t].part = "execute" /\ pc'[t].step = "exec" /\ pc'[t].n = pc[t].n + 1
         /\ pc'[t].part # "execute" => pc'[t].step \notin {"merge", "take", "exec"}
         /\ pc'[t].part = "compile" => pc'[t].n = 1
<1>1. /\ pc[t].part \in {"condition", "before", "execute", "after"} /\ pc[t] \in Pcs
      /\ UNCHANGED conf /\ InPlace(t)
  BY StepIs DEF Execute, TypeOK
<1> DEFINE part == pc[t].part  n == pc[t].n
<1>2. /\ part \in RunParts /\ pc[t].part \in RunParts \cup {"idle"} /\ part \notin {"idle", "run", "compile"}
      /\ n \in Nat /\ n + 1 \in Nat
      /\ part # "execute" => "process" \in StepsOf(part)
      /\ part = "execute" => "exec" \in StepsOf(part)
  BY <1>1 DEF RunParts, StepsOf, Pcs
<1>3. /\ part = "condition" => T(t).condition
      /\ part = "execute" => n \in 1 .. Commands(t, "execute")
      /\ Commands(t, "compile") \in Nat /\ Commands(t, "execute") = Commands(t, "compile")
  BY <1>1, CommandsIs DEF InPlace, TypeOK
<1>4. \/ End(t, "error") \/ End(t, "skipped") \/ Follow(t, part)
      \/ part = "execute" /\ n # Commands(t, part) /\ Go(t, part, "exec", n + 1)
      \/ part # "execute" /\ Go(t, part, "process", n + 1)
  BY DEF Execute
<1>5. CASE End(t, "error") \/ End(t, "skipped")
  <2>1. Moves(t) /\ pc'[t].part = "end"
    BY <1>1, <1>2, <1>5, EndMoves
  <2>2. pc'[t].step \in {"nil", "error", "skipped"}
    BY <2>1 DEF Moves, InPlace, StepsOf
  <2> QED BY <1>1, <2>1, <2>2
<1>6. CASE Follow(t, part)
  <2> HIDE DEF part
  <2>1. /\ Moves(t) /\ pc'[t].part \in (RunParts \ {"run"}) \cup {"end"}
        /\ pc'[t].step \in {"nil", "process", "open", "read"}
        /\ pc'[t].part \in {"compile", "execute"} => pc'[t].n = 1
        /\ pc'[t].part = "execute" => part = "compile"
    BY <1>1, <1>2, <1>6, FollowMoves DEF part
  <2> QED BY <1>1, <1>2, <2>1
<1>7. CASE part = "execute" /\ n # Commands(t, part) /\ Go(t, part, "exec", n + 1)
  <2>1. n + 1 \in 1 .. Commands(t, "compile")
    BY <1>2, <1>3, <1>7
  <2> HIDE DEF part, n
  <2>2. Moves(t) /\ pc'[t].part = part /\ pc'[t].step = "exec" /\ pc'[t].n = n + 1
    BY <1>1, <1>2, <1>7, <2>1, GoMoves
  <2> QED BY <1>1, <1>7, <2>2 DEF part, n
<1>8. CASE part # "execute" /\ Go(t, part, "process", n + 1)
  <2> HIDE DEF part, n
  <2>1. Moves(t) /\ pc'[t].part = part /\ pc'[t].step = "process"
    BY <1>1, <1>2, <1>3, <1>8, GoMoves
  <2> QED BY <1>1, <1>2, <1>8, <2>1 DEF part
<1> QED BY <1>4, <1>5, <1>6, <1>7, <1>8

\* So a task moves whatever its step, and Rewrite moves nobody.
LEMMA StepMoves ==
  ASSUME TypeOK, NEW t \in Tasks, TaskStep(t)
  PROVE  Moves(t)
BY ContextMoves, RunMoves, ProcessMoves, TakeMoves, ExecuteMoves DEF TaskStep

\* The parts of the state that are kept by task are.
LEMMA TypeStep ==
  ASSUME TypeOK, NEW t \in Tasks, TaskStep(t)
  PROVE  TypeOK'
<1>1. Moves(t) /\ Tasks' = Tasks /\ Objects' = Objects /\ UNCHANGED <<conf, file>>
  <2>1. UNCHANGED <<conf, file>>
    BY DEF TaskStep, Start, ReadContext, MergeContext, BuildEnv, Process, Take, Execute,
           OpenArtifact, storeTaskOutput
  <2> QED BY <2>1, StepMoves, ConfIs
<1>2. conf' \in Configs /\ file' \in DOMAIN conf'.eirctl
  BY <1>1 DEF TypeOK
<1>3. ctxEnv' = [o \in Objects |-> ctxEnv'[o]]
  BY ProcessMoves DEF TypeOK, TaskStep, Start, ReadContext, MergeContext, BuildEnv, Take, Execute,
           OpenArtifact, storeTaskOutput
<1>4. snap' = [u \in Tasks |-> snap'[u]] /\ env' = [u \in Tasks |-> env'[u]]
  BY DEF TypeOK, TaskStep, Start, ReadContext, MergeContext, BuildEnv, Process, Take, Execute,
           OpenArtifact, storeTaskOutput
<1>5. jobs' = [u \in Tasks |-> jobs'[u]]
  BY TakeMoves DEF TypeOK, TaskStep, Start, ReadContext, MergeContext, BuildEnv, Process, Execute,
           OpenArtifact, storeTaskOutput
<1>6. shell' = [u \in Tasks |-> shell'[u]]
  BY DEF TypeOK, TaskStep, Start, ReadContext, MergeContext, BuildEnv, Process, Take, Execute,
           OpenArtifact, storeTaskOutput
<1>7. ASSUME NEW r \in ran'
      PROVE  r.task \in Tasks /\ pc'[r.task].part \notin {"idle", "run"}
  <2>1. CASE r \in ran
    BY <1>1, <2>1 DEF TypeOK, Moves
  <2>2. CASE r \notin ran
    <3>1. Execute(t) /\ r.task = t
      BY <2>2 DEF TaskStep, Start, ReadContext, MergeContext, BuildEnv, Process, Take, Execute,
           OpenArtifact, storeTaskOutput
    <3>2. pc[t].part \in {"condition", "before", "execute", "after"}
      BY <3>1, ExecuteMoves
    <3> QED BY <1>1, <3>1, <3>2 DEF Moves
  <2> QED BY <2>1, <2>2
<1>8. ASSUME NEW u \in Tasks
      PROVE  InPlace(u)'
  <2>1. CASE u = t
    BY <1>1, <2>1 DEF Moves
  <2>2. CASE u # t
    BY <1>1, <2>2, ConfIs DEF TypeOK, Moves, InPlace
  <2> QED BY <2>1, <2>2
<1> QED BY <1>1, <1>2, <1>3, <1>4, <1>5, <1>6, <1>7, <1>8 DEF TypeOK, Moves

\* Tasks of one context that run at the same time have met.
LEMMA MeetingStep ==
  ASSUME TypeOK, Meeting, NEW t \in Tasks, TaskStep(t)
  PROVE  Meeting' /\ met \subseteq met'
<1>1. Moves(t) /\ UNCHANGED conf
  BY StepMoves DEF TaskStep, Start, ReadContext, MergeContext, BuildEnv, Process, Take, Execute,
           OpenArtifact, storeTaskOutput
<1>2. met \subseteq met'
  BY DEF TaskStep, Start, ReadContext, MergeContext, BuildEnv, Process, Take, Execute,
           OpenArtifact, storeTaskOutput
<1>3. ASSUME NEW u \in Tasks, u # t, Share(t, u), Active(t)', Active(u)
      PROVE  {t, u} \in met'
  <2>1. CASE Active(t)
    BY <1>2, <1>3, <2>1 DEF Meeting
  <2>2. CASE ~ Active(t)
    <3>1. Start(t)
      BY <2>2, StepIs, RunMoves, ProcessMoves, TakeMoves, ExecuteMoves, ContextMoves
         DEF Active, TaskStep, RunParts, BuildEnv, At, OpenArtifact, storeTaskOutput
    <3> QED BY <1>3, <3>1 DEF Start, Active
  <2> QED BY <2>1, <2>2
<1>4. ASSUME NEW u \in Tasks, NEW v \in Tasks, u # v, Share(u, v), Active(u)', Active(v)'
      PROVE  {u, v} \in met'
  <2>1. Share(v, u)
    BY <1>4 DEF Share, Named
  <2>2. CASE u = t
    BY <1>1, <1>3, <1>4, <2>2 DEF Moves, Active
  <2>3. CASE v = t
    <3>1. {t, u} \in met'
      BY <1>1, <1>3, <1>4, <2>1, <2>3 DEF Moves, Active
    <3>2. {t, u} = {u, v}
      BY <2>3
    <3> QED BY <3>1, <3>2
  <2>4. CASE u # t /\ v # t
    BY <1>1, <1>2, <1>4, <2>4 DEF Moves, Active, Meeting
  <2> QED BY <2>2, <2>3, <2>4
<1> QED BY <1>1, <1>2, <1>4, ConfIs DEF Meeting

\* Once a task is mixed or exempt it stays so, and what was touched stays so.
LEMMA Monotone ==
  ASSUME TypeOK, UNCHANGED conf, NEW t \in Tasks, Moves(t) \/ UNCHANGED pc, met \subseteq met',
         NEW u \in Tasks
  PROVE  /\ Mixed(u) => Mixed(u)'
         /\ Exempt(u) => Exempt(u)'
         /\ Untouched(u)' => Untouched(u)
<1>1. \A v \in Tasks : Mixed(v) => Mixed(v)'
  BY DEF Mixed
<1>2. \A v \in Tasks : /\ pc'[v].part \in {"idle", "run"} => pc[v].part \in {"idle", "run"}
                       /\ pc'[v].part = "idle" => pc[v].part = "idle"
  BY DEF Moves
<1>3. Exempt(u) => Exempt(u)'
  BY <1>1, <1>2, ConfIs, Zenon DEF Exempt
<1>4. Untouched(u)' => Untouched(u)
  BY <1>2, ConfIs, Zenon DEF Untouched
<1> QED BY <1>1, <1>3, <1>4

\* The invariant of a task after a step, in terms of the state then.
LEMMA Primed ==
  ASSUME UNCHANGED conf, NEW t
  PROVE  /\ Separate(t)' <=>
              /\ Clean(t, ctxEnv'[Obj(t)]) /\ Clean(t, snap'[t]) /\ Clean(t, env'[t])
              /\ Clean(t, shell'[t]) /\ \A i \in DOMAIN jobs'[t] : Clean(t, jobs'[t][i])
         /\ ContextKept(t)' <=>
              (Named(t) =>
                 /\ Untouched(t)' => /\ Holds(t, ctxEnv'[Obj(t)])
                                     /\ pc'[t].step = "merge" => Holds(t, snap'[t])
                 /\ (Untouched(t)' \/ ~ Exempt(t)') /\ pc'[t].part \in RunParts \ {"run"} =>
                      Holds(t, env'[t]))
         /\ EnvOwn(t)' <=>
              (pc'[t].part \in RunParts \ {"run"} =>
                 \A n \in DOMAIN OwnEnv(t) : n \in DOMAIN env'[t] /\ env'[t][n] = OwnEnv(t)[n])
<1>1. \A v : Allowed(t, v)' <=> Allowed(t, v)
  BY ConfIs DEF Allowed
<1>2. Clean(t, ctxEnv[Obj(t)])' <=> Clean(t, ctxEnv'[Obj(t)])
  BY <1>1, ConfIs DEF Clean
<1>3. /\ Clean(t, snap[t])' <=> Clean(t, snap'[t])
      /\ Clean(t, env[t])' <=> Clean(t, env'[t])
      /\ Clean(t, shell[t])' <=> Clean(t, shell'[t])
      /\ \A i : Clean(t, jobs[t][i])' <=> Clean(t, jobs'[t][i])
  BY <1>1 DEF Clean
<1>4. /\ Holds(t, ctxEnv[Obj(t)])' <=> Holds(t, ctxEnv'[Obj(t)])
      /\ Holds(t, snap[t])' <=> Holds(t, snap'[t])
      /\ Holds(t, env[t])' <=> Holds(t, env'[t])
  BY ConfIs DEF Holds
<1>5. Separate(t)' <=>
        /\ Clean(t, ctxEnv'[Obj(t)]) /\ Clean(t, snap'[t]) /\ Clean(t, env'[t])
        /\ Clean(t, shell'[t]) /\ \A i \in DOMAIN jobs'[t] : Clean(t, jobs'[t][i])
  BY <1>2, <1>3 DEF Separate
<1>6. ContextKept(t)' <=>
        (Named(t) =>
           /\ Untouched(t)' => /\ Holds(t, ctxEnv'[Obj(t)])
                               /\ pc'[t].step = "merge" => Holds(t, snap'[t])
           /\ (Untouched(t)' \/ ~ Exempt(t)') /\ pc'[t].part \in RunParts \ {"run"} =>
                Holds(t, env'[t]))
  BY <1>4, ConfIs DEF ContextKept
<1>7. EnvOwn(t)' <=>
        (pc'[t].part \in RunParts \ {"run"} =>
           \A n \in DOMAIN OwnEnv(t) : n \in DOMAIN env'[t] /\ env'[t][n] = OwnEnv(t)[n])
  BY ConfIs DEF EnvOwn
<1> QED BY <1>5, <1>6, <1>7

\* A job that is good stays so.
LEMMA JobsKeep ==
  ASSUME UNCHANGED conf, NEW t, env'[t] = env[t], jobs'[t] = jobs[t],
         Mixed(t) => Mixed(t)', Exempt(t) => Exempt(t)'
  PROVE  /\ \A i : Compiled(t, i) => Compiled(t, i)'
         /\ Good(t, jobs[t][1], env[t]) => Good(t, jobs[t][1], env[t])'
<1>1. \A i : Compiled(t, i) => Compiled(t, i)'
  BY ConfIs DEF Compiled, Good, Reached
<1>2. Good(t, jobs[t][1], env[t]) => Good(t, jobs[t][1], env[t])'
  BY ConfIs DEF Good, Reached
<1> QED BY <1>1, <1>2

\* What t knows of itself is kept by the steps of the others, as long as what
\* they put into a context it uses is fit for it.
LEMMA OthersKeep ==
  ASSUME TypeOK, UNCHANGED conf, NEW t \in Tasks, Moves(t) \/ UNCHANGED pc, met \subseteq met',
         NEW u \in Tasks, pc'[u] = pc[u], snap'[u] = snap[u], env'[u] = env[u],
         jobs'[u] = jobs[u], shell'[u] = shell[u], TaskInv(u),
         \/ ctxEnv'[Obj(u)] = ctxEnv[Obj(u)]
         \/ /\ Clean(u, ctxEnv'[Obj(u)])
            /\ Named(u) /\ Untouched(u)' => Holds(u, ctxEnv'[Obj(u)])
            /\ pc[u].step = "take" => Mixed(u)'
  PROVE  TaskInv(u)'
<1>1. /\ Mixed(u) => Mixed(u)'
      /\ Exempt(u) => Exempt(u)'
      /\ Untouched(u)' => Untouched(u)
  BY Monotone
<1>2. Separate(u)'
  <2>1. Clean(u, ctxEnv'[Obj(u)])
    BY DEF TaskInv, Separate
  <2> QED BY <2>1, Primed DEF TaskInv, Separate
<1>3. ContextKept(u)'
  <2>1. Named(u) /\ Untouched(u)' => Holds(u, ctxEnv'[Obj(u)])
    BY <1>1 DEF TaskInv, ContextKept
  <2>2. Named(u) /\ Untouched(u)' => (pc[u].step = "merge" => Holds(u, snap[u]))
    BY <1>1 DEF TaskInv, ContextKept
  <2>3. Named(u) /\ (Untouched(u)' \/ ~ Exempt(u)') /\ pc[u].part \in RunParts \ {"run"} => Holds(u, env[u])
    BY <1>1 DEF TaskInv, ContextKept
  <2> QED BY <2>1, <2>2, <2>3, Primed
<1>4. EnvOwn(u)'
  BY ConfIs DEF TaskInv, EnvOwn
<1>5. JobsGood(u)'
  <2>1. JobsGood(u)
    BY DEF TaskInv
  <2>2. pc[u].part # "condition" => Input(u)' = Input(u)
    BY ConfIs DEF Input
  <2>3. pc[u].step = "take" /\ pc[u].part # "condition" /\ ~ Mixed(u)' =>
          ctxEnv'[Obj(u)] \in ProcessEnvfile(Envfile(u), Input(u))
    BY <1>1, <2>1 DEF JobsGood
  <2>4. /\ \A i : Compiled(u, i) => Compiled(u, i)'
        /\ Good(u, jobs[u][1], env[u]) => Good(u, jobs[u][1], env[u])'
    BY <1>1, JobsKeep
  <2> QED BY <2>1, <2>2, <2>3, <2>4, ConfIs DEF JobsGood
<1> QED BY <1>2, <1>3, <1>4, <1>5 DEF TaskInv

(***************************************************************************)
(* Who sets what.                                                          *)
(***************************************************************************)
\* A place of the list of variations has one.
LEMMA VariationPlace ==
  ASSUME NEW c \in Nat, NEW l \in Nat, NEW n \in 1 .. c * l
  PROVE  1 + (n - 1) \div c \in 1 .. l
<1>1. c # 0 /\ c > 0
  <2>1. c * l >= 1
    OBVIOUS
  <2>2. c = 0 => c * l = 0
    OBVIOUS
  <2> QED BY <2>1, <2>2
<1> DEFINE q == (n - 1) \div c
<1>2. q \in Int /\ c * q <= n - 1 /\ n - 1 < c * q + c
  BY <1>1
<1> HIDE DEF q
<1>3. n - 1 < c * l /\ n - 1 >= 0
  OBVIOUS
<1>4. q < l
  <2> SUFFICES ASSUME q >= l PROVE FALSE
    BY <1>2
  <2>1. c * q >= c * l
    BY <1>1, <1>2
  <2> QED BY <1>2, <1>3, <2>1
<1>5. q >= 0
  <2> SUFFICES ASSUME q <= -1 PROVE FALSE
    BY <1>2
  <2>1. c * q + c <= 0
    BY <1>1, <1>2
  <2> QED BY <1>2, <1>3, <2>1
<1> QED BY <1>2, <1>4, <1>5 DEF q

\* A variation has the values its task lists for it.
LEMMA VariationSet ==
  ASSUME conf \in Configs, NEW t \in Tasks, NEW n \in 1 .. Commands(t, "compile")
  PROVE  SetBy(Variation(t, n), "variant", t)
<1> DEFINE vs == T(t).variations
<1>1. T(t).commands \in Nat /\ IsList(vs) /\ \A i \in DOMAIN vs : SetBy(vs[i], "variant", t)
  BY ConfigAssumption DEF Tasks, T
<1> DEFINE all == GetVariations(t)
           i == 1 + (n - 1) \div T(t).commands
<1>2. Len(all) \in Nat /\ DOMAIN all = 1 .. Len(all) /\ \A k \in DOMAIN all : SetBy(all[k], "variant", t)
  <2>1. CASE vs = <<>>
    <3>1. all = <<Empty>>
      BY <2>1 DEF GetVariations
    <3>2. SetBy(Empty, "variant", t)
      BY DEF SetBy, Empty
    <3> QED BY <3>1, <3>2
  <2>2. CASE vs # <<>>
    BY <1>1, <2>2 DEF GetVariations, IsList
  <2> QED BY <2>1, <2>2
<1>3. n \in 1 .. T(t).commands * Len(all) /\ n # 0
  BY DEF Commands
<1>4. Variation(t, n) = all[i]
  BY <1>3 DEF Variation
<1> HIDE DEF all
<1>5. i \in 1 .. Len(all)
  BY <1>1, <1>2, <1>3, VariationPlace
<1> QED BY <1>2, <1>4, <1>5

\* A value is judged by who set it.
LEMMA CleanSetBy ==
  ASSUME NEW t, NEW e, NEW src, NEW of, SetBy(e, src, of), Allowed(t, [src |-> src, of |-> of])
  PROVE  Clean(t, e)
BY DEF SetBy, Allowed, Clean

\* Merging brings in no other source.
LEMMA CleanMerge ==
  ASSUME NEW t, NEW a, NEW b, Clean(t, a), Clean(t, b)
  PROVE  Clean(t, Merge(a, b))
BY DEF Clean, Merge

\* A file is written by the one it belongs to; a reference to nothing is nobody's.
LEMMA CleanFiles ==
  ASSUME NEW t, NEW paths, NEW src, NEW of, FilesSetBy(paths, src, of),
         Allowed(t, [src |-> src, of |-> of]), NEW from \in SUBSET DOMAIN paths
  PROVE  Clean(t, FilesEnv(paths, from))
<1> DEFINE e == FilesEnv(paths, from)
<1>1. \A n \in DOMAIN e : e[n] = Unset \/ (e[n].src = src /\ e[n].of = of)
  <2>1. e = FilesEnv(paths, from)
    OBVIOUS
  <2> HIDE DEF e
  <2> QED BY <2>1, FilesEnvIs
<1>2. Allowed(t, Unset)
  BY DEF Allowed, Unset, Value
<1> HIDE DEF e
<1>3. Clean(t, e)
  BY <1>1, <1>2 DEF Clean, Allowed
<1> QED BY <1>3 DEF e

\* Who shares a context may have what another one of it has.
LEMMA CleanShared ==
  ASSUME NEW t, NEW u, Share(u, t), NEW e, Clean(t, e)
  PROVE  Clean(u, e)
BY DEF Clean, Allowed, Share, Named

\* The sources of a task's env.
LEMMA CleanSources ==
  ASSUME conf \in Configs, NEW t \in Tasks
  PROVE  /\ Clean(t, conf.os) /\ Clean(t, OwnEnv(t)) /\ Clean(t, Ctx(t).env)
         /\ \A i \in DOMAIN conf.eirctl : Clean(t, conf.eirctl[i])
         /\ Clean(t, FilesEnv(T(t).paths, ReaderFromPath(T(t).paths)))
         /\ \A n \in 1 .. Commands(t, "compile") : Clean(t, Variation(t, n))
         /\ RunnerClean => Clean(t, runnerEnv)
         /\ Clean(t, Empty)
<1>1. Clean(t, conf.os)
  <2>1. SetBy(conf.os, "os", "") /\ Allowed(t, [src |-> "os", of |-> ""])
    BY ConfigAssumption DEF Allowed
  <2> QED BY <2>1, CleanSetBy
<1>2. \A i \in DOMAIN conf.eirctl : Clean(t, conf.eirctl[i])
  <2>1. \A i \in DOMAIN conf.eirctl : SetBy(conf.eirctl[i], "eirctl", "")
    BY ConfigAssumption
  <2>2. Allowed(t, [src |-> "eirctl", of |-> ""])
    BY DEF Allowed
  <2> QED BY <2>1, <2>2, CleanSetBy
<1>3. Clean(t, OwnEnv(t))
  <2>1. Clean(t, TaskName(t))
    BY DEF Clean, TaskName, Value, Allowed
  <2>2. Clean(t, T(t).env)
    <3>1. SetBy(T(t).env, "task", t) /\ Allowed(t, [src |-> "task", of |-> t])
      BY ConfigAssumption DEF Allowed, Tasks, T
    <3> QED BY <3>1, CleanSetBy
  <2> QED BY <2>1, <2>2, CleanMerge DEF OwnEnv
<1>4. Clean(t, Ctx(t).env)
  <2>1. CASE Named(t)
    <3> DEFINE k == T(t).context
    <3>1. k \in DOMAIN conf.contexts
      BY <2>1, ConfigAssumption DEF Tasks, T, Named
    <3>2. SetBy(conf.contexts[k].env, "context", k) /\ Allowed(t, [src |-> "context", of |-> k])
      BY <3>1, ConfigAssumption DEF Allowed
    <3>3. Clean(t, conf.contexts[k].env)
      BY <3>2, CleanSetBy
    <3>4. Ctx(t).env = Merge(conf.os, conf.contexts[k].env)
      BY <2>1 DEF Ctx, buildContext
    <3> QED BY <1>1, <3>3, <3>4, CleanMerge
  <2>2. CASE ~ Named(t)
    BY <1>1, <2>2 DEF Ctx, DefaultContext
  <2> QED BY <2>1, <2>2
<1>5. Clean(t, FilesEnv(T(t).paths, ReaderFromPath(T(t).paths)))
  <2>1. FilesSetBy(T(t).paths, "taskfile", t) /\ Allowed(t, [src |-> "taskfile", of |-> t])
    BY ConfigAssumption DEF Allowed, Tasks, T
  <2>2. ReaderFromPath(T(t).paths) \in SUBSET DOMAIN T(t).paths
    BY DEF ReaderFromPath
  <2> QED BY <2>1, <2>2, CleanFiles
<1>6. \A n \in 1 .. Commands(t, "compile") : Clean(t, Variation(t, n))
  <2>1. Allowed(t, [src |-> "variant", of |-> t])
    BY DEF Allowed
  <2> QED BY <2>1, VariationSet, CleanSetBy
<1>7. RunnerClean => Clean(t, runnerEnv)
  BY DEF RunnerClean, Clean, Allowed
<1>8. Clean(t, Empty)
  BY DEF Clean, Empty
<1> QED BY <1>1, <1>2, <1>3, <1>4, <1>5, <1>6, <1>7, <1>8

\* What ProcessEnvfile leaves has no other source than what it is given and
\* the files of the context.
LEMMA CleanProcess ==
  ASSUME conf \in Configs, NEW t \in Tasks, NEW given, Clean(t, given),
         NEW e \in ProcessEnvfile(Envfile(t), given)
  PROVE  Clean(t, e)
<1> DEFINE ef == Envfile(t)
           from == {i \in ReaderFromPath(ef.paths) : ef.paths[i].readable}
           k == T(t).context
<1>1. FilesSetBy(ef.paths, "contextfile", k)
  <2>1. CASE Named(t)
    <3>1. k \in DOMAIN conf.contexts
      BY <2>1, ConfigAssumption DEF Tasks, T, Named
    <3>2. ef.paths = conf.contexts[k].envfile.paths
      BY <2>1 DEF Envfile, Ctx, buildContext, newEnvFile
    <3> QED BY <3>1, <3>2, ConfigAssumption
  <2>2. CASE ~ Named(t)
    <3>1. ef.paths = <<>>
      BY <2>2 DEF Envfile, Ctx, DefaultContext, NoEnvfile
    <3> QED BY <3>1 DEF FilesSetBy, IsList
  <2> QED BY <2>1, <2>2
<1>2. Allowed(t, [src |-> "contextfile", of |-> k])
  BY DEF Allowed
<1>3. from \in SUBSET DOMAIN ef.paths
  BY DEF ReaderFromPath
<1>4. Gathered(ef, given) = Merge(FilesEnv(ef.paths, from), given)
  BY DEF Gathered
<1> HIDE DEF from, ef
<1>5. Clean(t, FilesEnv(ef.paths, from))
  BY <1>1, <1>2, <1>3, CleanFiles
<1>6. Clean(t, Gathered(ef, given))
  BY <1>4, <1>5, CleanMerge
<1>7. \A n \in DOMAIN e : \E m \in Sources(ef, Gathered(ef, given), n) : e[n] = Gathered(ef, given)[m]
  BY ProcessIs DEF ef
<1> QED BY <1>6, <1>7 DEF Clean, Sources

(***************************************************************************)
(* What the context sets.                                                  *)
(***************************************************************************)
\* More names do no harm.
LEMMA HoldsMore ==
  ASSUME NEW t, NEW a, NEW b, Holds(t, a), DOMAIN a \subseteq DOMAIN b
  PROVE  Holds(t, b)
BY DEF Holds

\* The env a named context is built with has what the context sets.
LEMMA HoldsContext ==
  ASSUME NEW t, Named(t)
  PROVE  Holds(t, Ctx(t).env)
<1>1. Ctx(t).env = Merge(conf.os, conf.contexts[T(t).context].env)
  BY DEF Ctx, buildContext
<1>2. \A n \in Given(t) : n \in DOMAIN Ctx(t).env
  BY <1>1 DEF Given, Merge
<1> QED BY <1>2 DEF Holds

\* ProcessEnvfile gives what it is given the form the context asks for.
LEMMA HoldsProcess ==
  ASSUME NEW t, NEW given, Holds(t, given), NEW e \in ProcessEnvfile(Envfile(t), given),
         NEW n \in Given(t)
  PROVE  Skipped(t, n) \/ modifyName(Envfile(t), n) \in DOMAIN e
<1> DEFINE ef == Envfile(t)
           all == Gathered(ef, given)
           goal == modifyName(ef, n)
<1> SUFFICES ASSUME ~ Skipped(t, n) PROVE goal \in DOMAIN e
  OBVIOUS
<1>1. PICK m \in {n, goal} : m \in DOMAIN given
  BY DEF Holds
<1>2. modifyName(ef, m) = goal /\ ~ Nameless(m)
  BY <1>1, ModifyTwice DEF Given
<1>3. m \in DOMAIN all
  BY <1>1 DEF Gathered, Merge
<1>4. ~ includeExcludeSkip(ef, goal)
  BY DEF Skipped
<1> HIDE DEF goal, all
<1>5. goal \in Kept(ef, all)
  BY <1>2, <1>3, <1>4 DEF Kept
<1> QED BY <1>5, ProcessIs DEF all

\* For the tasks of one context it is the same.
LEMMA SharedSame ==
  ASSUME NEW t, NEW u, Share(u, t)
  PROVE  /\ Named(t) /\ Named(u) /\ Envfile(u) = Envfile(t)
         /\ \A e : Holds(t, e) => Holds(u, e)
         /\ Untouched(u) <=> Untouched(t)
<1>1. Named(t) /\ Named(u) /\ T(u).context = T(t).context
  BY DEF Share, Named
<1>2. Envfile(u) = Envfile(t)
  BY <1>1 DEF Envfile, Ctx
<1>3. Given(u) = Given(t)
  BY <1>1 DEF Given
<1>4. \A e : Holds(t, e) => Holds(u, e)
  BY <1>2, <1>3 DEF Holds, Skipped
<1>5. \A w : Share(w, u) <=> Share(w, t)
  BY <1>1 DEF Share, Named
<1>6. Untouched(u) <=> Untouched(t)
  BY <1>5 DEF Untouched
<1> QED BY <1>1, <1>2, <1>4, <1>6

\* What one task writes into a context is fit for all that use it; who was
\* about to read what it had written itself has met the other one.
LEMMA WriteKeeps ==
  ASSUME TypeOK, Meeting, UNCHANGED conf, NEW t \in Tasks, Moves(t), met \subseteq met', Active(t),
         NEW e, ctxEnv' = [ctxEnv EXCEPT ![Obj(t)] = e],
         Clean(t, e), Named(t) /\ Untouched(t)' => Holds(t, e),
         NEW u \in Tasks \ {t}, snap'[u] = snap[u], env'[u] = env[u],
         jobs'[u] = jobs[u], shell'[u] = shell[u], TaskInv(u)
  PROVE  TaskInv(u)'
<1>1. pc'[u] = pc[u]
  BY DEF Moves
<1>2. CASE Obj(u) # Obj(t)
  <2>1. ctxEnv'[Obj(u)] = ctxEnv[Obj(u)]
    BY <1>2
  <2> QED BY <1>1, <2>1, OthersKeep
<1>3. CASE Obj(u) = Obj(t)
  <2>1. Share(t, u) /\ Share(u, t)
    BY <1>3, ObjIs DEF TypeOK
  <2>2. ctxEnv'[Obj(u)] = e
    <3>1. Obj(t) \in DOMAIN ctxEnv
      BY ObjIs DEF TypeOK
    <3> QED BY <1>3, <3>1
  <2>3. Clean(u, e)
    BY <2>1, CleanShared
  <2>4. Named(u) /\ Untouched(u)' => Holds(u, e)
    <3>1. \A w \in Tasks : Share(w, u) <=> Share(w, t)
      BY <2>1 DEF Share, Named
    <3>2. Untouched(u)' => Untouched(t)'
      BY <3>1, ConfIs DEF Untouched
    <3> QED BY <2>1, <3>2, SharedSame
  <2>5. pc[u].step = "take" => Mixed(u)'
    <3>1. pc[u].step = "take" => Active(u)
      BY StepIs DEF Active
    <3>2. Active(u) => {t, u} \in met'
      BY <2>1 DEF Meeting
    <3> QED BY <3>1, <3>2 DEF Mixed
  <2> QED BY <1>1, <2>2, <2>3, <2>4, <2>5, OthersKeep
<1> QED BY <1>2, <1>3

(***************************************************************************)
(* The invariant is kept, step by step.                                    *)
(***************************************************************************)
\* Outside the parts that compile and execute there is nothing to say of jobs.
LEMMA NoJobs ==
  ASSUME NEW t, pc'[t].step \notin {"take", "exec"}, pc'[t].part # "execute",
         pc'[t].part = "compile" => pc'[t].n = 1
  PROVE  JobsGood(t)'
<1>1. pc'[t].part = "compile" => 1 .. pc'[t].n - 1 = {}
  OBVIOUS
<1> QED BY <1>1, ConfIs DEF JobsGood

\* A start, and storeTaskOutput, change no env of a task.
LEMMA StartKeeps ==
  ASSUME StateInv, NEW t \in Tasks, Start(t) \/ OpenArtifact(t) \/ storeTaskOutput(t), NEW u \in Tasks
  PROVE  TaskInv(u)'
<1>1. TypeOK /\ Meeting /\ TaskInv(u) /\ TaskInv(t) /\ TaskStep(t)
  BY DEF StateInv, TaskStep
<1>2. /\ UNCHANGED <<conf, ctxEnv, snap, env, jobs, shell>>
      /\ Moves(t) /\ met \subseteq met'
  BY <1>1, StepMoves, MeetingStep DEF Start, OpenArtifact, storeTaskOutput
<1>3. CASE u # t
  <2>1. pc'[u] = pc[u]
    BY <1>2, <1>3 DEF Moves
  <2> QED BY <1>1, <1>2, <2>1, OthersKeep
<1>4. CASE u = t
  <2>1. /\ Mixed(t) => Mixed(t)'
        /\ Exempt(t) => Exempt(t)'
        /\ Untouched(t)' => Untouched(t)
    BY <1>1, <1>2, Monotone
  <2>2. /\ pc'[t] = pc[t] \/ pc'[t].step \notin {"merge", "take", "exec"}
        /\ pc'[t] = pc[t] \/ (pc'[t].part # "execute" /\ (pc'[t].part = "compile" => pc'[t].n = 1))
        /\ pc[t].part \in {"idle", "run", "store"}
    BY <1>1, RunMoves
  <2>3. pc[t].step \notin {"take", "exec"}
    BY <1>1, <2>2, StepIs
  <2>4. pc'[t].part \in RunParts \ {"run"} => pc[t].part \in RunParts \ {"run"}
    <3>1. CASE Start(t)
      <4>1. pc'[t].part = "run"
        BY <1>2, <3>1 DEF Moves, Start
      <4> QED BY <4>1
    <3>2. CASE OpenArtifact(t) \/ storeTaskOutput(t)
      BY <3>2 DEF OpenArtifact, storeTaskOutput, At, RunParts
    <3> QED BY <3>1, <3>2
  <2>5. Separate(t)'
    BY <1>1, <1>2, Primed DEF TaskInv, Separate
  <2>6. ContextKept(t)'
    BY <1>1, <1>2, <2>1, <2>2, <2>4, Primed DEF TaskInv, ContextKept
  <2>7. EnvOwn(t)'
    BY <1>1, <1>2, <2>4, Primed DEF TaskInv, EnvOwn
  <2>8. JobsGood(t)'
    BY <2>2, <2>3, NoJobs
  <2> QED BY <1>4, <2>5, <2>6, <2>7, <2>8 DEF TaskInv
<1> QED BY <1>3, <1>4

\* contextForTask reads the Env of the context,
LEMMA ReadContextKeeps ==
  ASSUME StateInv, NEW t \in Tasks, ReadContext(t), NEW u \in Tasks
  PROVE  TaskInv(u)'
<1>1. TypeOK /\ Meeting /\ TaskInv(u) /\ TaskInv(t) /\ TaskStep(t)
  BY DEF StateInv, TaskStep
<1>2. /\ UNCHANGED <<conf, ctxEnv, env, jobs, shell>>
      /\ snap' = [snap EXCEPT ![t] = IF Named(t) THEN ctxEnv[Obj(t)] ELSE DefaultContext.env]
      /\ Moves(t) /\ met \subseteq met'
  BY <1>1, StepMoves, MeetingStep DEF ReadContext
<1>3. CASE u # t
  <2>1. pc'[u] = pc[u]
    BY <1>2, <1>3 DEF Moves
  <2>2. snap'[u] = snap[u]
    BY <1>2, <1>3
  <2> QED BY <1>1, <1>2, <2>1, <2>2, OthersKeep
<1>4. CASE u = t
  <2>1. /\ Mixed(t) => Mixed(t)'
        /\ Exempt(t) => Exempt(t)'
        /\ Untouched(t)' => Untouched(t)
    BY <1>1, <1>2, Monotone
  <2>2. /\ pc[t].part \in RunParts /\ pc'[t].part = pc[t].part
        /\ pc'[t].step \notin {"take", "read"} /\ pc'[t].n = 1
        /\ pc'[t].step = "exec" => pc[t].part = "execute"
        /\ pc[t].part \notin {"compile", "store"}
    BY <1>1, ContextMoves
  <2>3. snap'[t] = IF Named(t) THEN ctxEnv[Obj(t)] ELSE conf.os
    <3>1. t \in DOMAIN snap
      BY <1>1 DEF TypeOK
    <3> QED BY <1>2, <3>1 DEF DefaultContext
  <2>4. Separate(t)'
    <3>1. Clean(t, snap'[t])
      BY <1>1, <2>3, CleanSources DEF TypeOK, TaskInv, Separate
    <3> QED BY <1>1, <1>2, <3>1, Primed DEF TaskInv, Separate
  <2>5. ContextKept(t)'
    BY <1>1, <1>2, <2>1, <2>2, <2>3, Primed DEF TaskInv, ContextKept
  <2>6. EnvOwn(t)'
    BY <1>1, <1>2, <2>2, Primed DEF TaskInv, EnvOwn
  <2>7. JobsGood(t)'
    <3>1. \A i : Compiled(t, i) => Compiled(t, i)'
      BY <1>2, <2>1, JobsKeep
    <3> QED BY <1>1, <1>2, <2>2, <3>1, ConfIs DEF TaskInv, JobsGood
  <2> QED BY <1>4, <2>4, <2>5, <2>6, <2>7 DEF TaskInv
<1> QED BY <1>3, <1>4

\* and writes it back with eirctl.env.
LEMMA MergeContextKeeps ==
  ASSUME StateInv, NEW t \in Tasks, MergeContext(t), NEW u \in Tasks
  PROVE  TaskInv(u)'
<1> DEFINE e == Merge(snap[t], DefaultTaskctlEnv)
<1>1. TypeOK /\ Meeting /\ TaskInv(u) /\ TaskInv(t) /\ TaskStep(t)
  BY DEF StateInv, TaskStep
<1>2. /\ UNCHANGED <<conf, snap, env, jobs, shell>> /\ pc[t].step = "merge"
      /\ ctxEnv' = [ctxEnv EXCEPT ![Obj(t)] = e]
      /\ Moves(t) /\ met \subseteq met'
  BY <1>1, StepMoves, MeetingStep DEF MergeContext
<1>3. Clean(t, e)
  <2>1. Clean(t, DefaultTaskctlEnv)
    BY <1>1, CleanSources DEF TypeOK, DefaultTaskctlEnv
  <2> QED BY <1>1, <2>1, CleanMerge DEF TaskInv, Separate
<1>4. /\ Mixed(t) => Mixed(t)'
      /\ Exempt(t) => Exempt(t)'
      /\ Untouched(t)' => Untouched(t)
  BY <1>1, <1>2, Monotone
<1>5. Named(t) /\ Untouched(t)' => Holds(t, e)
  <2>1. Named(t) /\ Untouched(t)' => Holds(t, snap[t])
    BY <1>1, <1>2, <1>4 DEF TaskInv, ContextKept
  <2>2. DOMAIN snap[t] \subseteq DOMAIN e
    BY DEF Merge
  <2> HIDE DEF e
  <2> QED BY <2>1, <2>2, HoldsMore
<1>6. /\ pc[t].part \in RunParts /\ pc'[t].part = pc[t].part
      /\ pc'[t].step \notin {"take", "read"} /\ pc'[t].n = 1
      /\ pc'[t].step # "merge"
      /\ pc'[t].step = "exec" => pc[t].part = "execute"
      /\ pc[t].part \notin {"compile", "store"}
  BY <1>1, ContextMoves
<1> HIDE DEF e
<1>7. CASE u # t
  <2>1. Active(t)
    BY <1>6 DEF Active, RunParts
  <2> QED BY <1>1, <1>2, <1>3, <1>5, <1>7, <2>1, WriteKeeps
<1>8. CASE u = t
  <2>1. ctxEnv'[Obj(t)] = e
    BY <1>1, <1>2, ObjIs DEF TypeOK
  <2>2. Separate(t)'
    BY <1>1, <1>2, <1>3, <2>1, Primed DEF TaskInv, Separate
  <2>3. ContextKept(t)'
    BY <1>1, <1>2, <1>4, <1>5, <1>6, <2>1, Primed DEF TaskInv, ContextKept
  <2>4. EnvOwn(t)'
    BY <1>1, <1>2, <1>6, Primed DEF TaskInv, EnvOwn
  <2>5. JobsGood(t)'
    <3>1. \A i : Compiled(t, i) => Compiled(t, i)'
      BY <1>2, <1>4, JobsKeep
    <3> QED BY <1>1, <1>2, <1>6, <3>1, ConfIs DEF TaskInv, JobsGood
  <2> QED BY <1>8, <2>2, <2>3, <2>4, <2>5 DEF TaskInv
<1> QED BY <1>7, <1>8

\* Run puts the task's own values on top, and what the context has below them.
LEMMA RunEnvIs ==
  ASSUME StateInv, NEW t \in Tasks
  PROVE  /\ Clean(t, RunEnv(t))
         /\ \A n \in DOMAIN OwnEnv(t) : n \in DOMAIN RunEnv(t) /\ RunEnv(t)[n] = OwnEnv(t)[n]
         /\ Named(t) /\ Untouched(t) => Holds(t, RunEnv(t))
<1> DEFINE files == FilesEnv(T(t).paths, ReaderFromPath(T(t).paths))
           shared == ctxEnv[Obj(t)]
           below == Merge(runnerEnv, shared)
           own == OwnEnv(t)
           all == Merge(below, own)
<1>1. RunEnv(t) = Merge(files, all)
  BY DEF RunEnv
<1>2. Clean(t, files) /\ Clean(t, runnerEnv) /\ Clean(t, own)
  BY CleanSources DEF StateInv, TypeOK
<1>3. Clean(t, shared)
  BY DEF StateInv, TaskInv, Separate
<1> HIDE DEF files, shared, own
<1>4. Clean(t, all)
  BY <1>2, <1>3, CleanMerge
<1>5. Clean(t, RunEnv(t))
  BY <1>1, <1>2, <1>4, CleanMerge
<1>6. \A n \in DOMAIN own : n \in DOMAIN RunEnv(t) /\ RunEnv(t)[n] = own[n]
  BY <1>1 DEF Merge
<1>7. DOMAIN shared \subseteq DOMAIN RunEnv(t)
  BY <1>1 DEF Merge
<1>8. Named(t) /\ Untouched(t) => Holds(t, shared)
  BY DEF shared, StateInv, TaskInv, ContextKept
<1> QED BY <1>5, <1>6, <1>7, <1>8, HoldsMore DEF own

\* Run puts its env together.
LEMMA BuildEnvKeeps ==
  ASSUME StateInv, NEW t \in Tasks, BuildEnv(t), NEW u \in Tasks
  PROVE  TaskInv(u)'
<1>1. TypeOK /\ Meeting /\ TaskInv(u) /\ TaskInv(t) /\ TaskStep(t)
  BY DEF StateInv, TaskStep
<1>2. /\ UNCHANGED <<conf, ctxEnv, snap, jobs, shell>> /\ pc[t].part = "run" /\ pc[t].step = "build"
      /\ (env' = [env EXCEPT ![t] = RunEnv(t)] /\ Follow(t, "run")) \/ (End(t, "error") /\ UNCHANGED env)
      /\ Moves(t) /\ met \subseteq met'
  BY <1>1, StepMoves, MeetingStep DEF BuildEnv, At
<1>3. CASE u # t
  <2>1. pc'[u] = pc[u]
    BY <1>2, <1>3 DEF Moves
  <2>2. env'[u] = env[u]
    BY <1>1, <1>2, <1>3 DEF TypeOK
  <2> QED BY <1>1, <1>2, <2>1, <2>2, OthersKeep
<1>4. CASE u = t
  <2>1. /\ Mixed(t) => Mixed(t)'
        /\ Exempt(t) => Exempt(t)'
        /\ Untouched(t)' => Untouched(t)
    BY <1>1, <1>2, Monotone
  <2>2. /\ pc'[t] = pc[t] \/ pc'[t].step \notin {"merge", "take", "exec"}
        /\ pc'[t] = pc[t] \/ (pc'[t].part # "execute" /\ (pc'[t].part = "compile" => pc'[t].n = 1))
    BY <1>1, RunMoves
  <2>3. JobsGood(t)'
    BY <1>2, <2>2, NoJobs
  <2>4. CASE End(t, "error") /\ UNCHANGED env
    <3>1. pc'[t].part \notin RunParts
      <4>1. pc[t].part \in RunParts
        BY <1>2 DEF RunParts
      <4>2. pc'[t].part = "end"
        BY <1>1, <1>2, <2>4, <4>1, EndMoves
      <4> QED BY <4>2 DEF RunParts
    <3>2. Separate(t)'
      BY <1>1, <1>2, <2>4, Primed DEF TaskInv, Separate
    <3>3. ContextKept(t)' /\ EnvOwn(t)'
      BY <1>1, <1>2, <2>1, <2>2, <2>4, <3>1, Primed DEF TaskInv, ContextKept
    <3> QED BY <1>4, <2>3, <3>2, <3>3 DEF TaskInv
  <2>5. CASE env' = [env EXCEPT ![t] = RunEnv(t)] /\ Follow(t, "run")
    <3>1. env'[t] = RunEnv(t)
      <4>1. t \in DOMAIN env
        BY <1>1 DEF TypeOK
      <4> QED BY <2>5, <4>1
    <3>2. /\ Clean(t, RunEnv(t))
          /\ \A n \in DOMAIN OwnEnv(t) : n \in DOMAIN RunEnv(t) /\ RunEnv(t)[n] = OwnEnv(t)[n]
          /\ Named(t) /\ Untouched(t) => Holds(t, RunEnv(t))
      BY RunEnvIs
    <3>3. ~ Exempt(t)' => Untouched(t)
      <4>1. ASSUME ~ Exempt(t)', NEW w \in Tasks, Share(w, t), T(w).condition
            PROVE  pc[w].part \in {"idle", "run"}
        <5>1. CASE w = t
          BY <1>2, <5>1
        <5>2. CASE w # t
          <6>1. pc'[w].part = "idle"
            BY <1>2, <4>1, <5>2, ConfIs DEF Exempt
          <6> QED BY <1>2, <5>2, <6>1 DEF Moves
        <5> QED BY <5>1, <5>2
      <4> QED BY <4>1 DEF Untouched
    <3>4. Separate(t)'
      BY <1>1, <1>2, <3>1, <3>2, Primed DEF TaskInv, Separate
    <3>5. ContextKept(t)'
      BY <1>1, <1>2, <2>1, <2>2, <3>1, <3>2, <3>3, Primed DEF TaskInv, ContextKept
    <3>6. EnvOwn(t)'
      BY <1>2, <3>1, <3>2, Primed
    <3> QED BY <1>4, <2>3, <3>4, <3>5, <3>6 DEF TaskInv
  <2> QED BY <1>2, <2>4, <2>5
<1> QED BY <1>3, <1>4

\* What is handed to ProcessEnvfile.
LEMMA InputIs ==
  ASSUME StateInv, NEW t \in Tasks, pc[t].step = "process" \/ pc[t].step = "take"
  PROVE  /\ Clean(t, Input(t))
         /\ pc[t].part = "compile" => Input(t) = Merge(env[t], Variation(t, pc[t].n))
         /\ pc[t].part \in {"before", "after"} => Input(t) = env[t]
         /\ pc[t].part # "condition" /\ Named(t) /\ (Untouched(t) \/ ~ Exempt(t)) => Holds(t, Input(t))
<1>1. /\ TypeOK /\ TaskInv(t) /\ RunnerClean /\ conf \in Configs
      /\ pc[t].part \in {"condition", "before", "compile", "after"}
  BY StepIs DEF StateInv, TypeOK
<1>2. pc[t].part = "compile" => Input(t) = Merge(env[t], Variation(t, pc[t].n))
  BY DEF Input
<1>3. pc[t].part \in {"before", "after"} => Input(t) = env[t]
  BY DEF Input
<1>4. pc[t].part = "condition" => Input(t) = runnerEnv
  BY DEF Input
<1>5. Clean(t, env[t]) /\ Clean(t, runnerEnv)
  BY <1>1, CleanSources DEF TaskInv, Separate
<1>6. pc[t].part = "compile" => Clean(t, Variation(t, pc[t].n))
  <2>1. pc[t].part = "compile" => pc[t].n \in 1 .. Commands(t, "compile")
    BY <1>1 DEF TypeOK, InPlace
  <2> QED BY <1>1, <2>1, CleanSources
<1>7. Clean(t, Input(t))
  BY <1>1, <1>2, <1>3, <1>4, <1>5, <1>6, CleanMerge
<1>8. pc[t].part # "condition" /\ Named(t) /\ (Untouched(t) \/ ~ Exempt(t)) => Holds(t, Input(t))
  <2>1. pc[t].part # "condition" => DOMAIN env[t] \subseteq DOMAIN Input(t)
    BY <1>1, <1>2, <1>3 DEF Merge
  <2>2. pc[t].part \in RunParts \ {"run"}
    BY <1>1 DEF RunParts
  <2>3. Named(t) /\ (Untouched(t) \/ ~ Exempt(t)) => Holds(t, env[t])
    BY <1>1, <2>2 DEF TaskInv, ContextKept
  <2> QED BY <2>1, <2>3, HoldsMore
<1> QED BY <1>2, <1>3, <1>7, <1>8

\* ProcessEnvfile replaces the Env of the context.
LEMMA ProcessKeeps ==
  ASSUME StateInv, NEW t \in Tasks, Process(t), NEW u \in Tasks
  PROVE  TaskInv(u)'
<1>1. TypeOK /\ Meeting /\ TaskInv(u) /\ TaskInv(t) /\ TaskStep(t)
  BY DEF StateInv, TaskStep
<1>2. /\ UNCHANGED <<conf, snap, env, jobs, shell, runnerEnv>> /\ pc[t].step = "process"
      /\ Moves(t) /\ met \subseteq met'
  BY <1>1, StepMoves, MeetingStep DEF Process
<1>3. pc[t].part \in {"condition", "before", "compile", "after"}
  BY <1>1, ProcessMoves
<1>4. /\ Mixed(t) => Mixed(t)'
      /\ Exempt(t) => Exempt(t)'
      /\ Untouched(t)' => Untouched(t)
  BY <1>1, <1>2, Monotone
<1>5. CASE pc'[t].part = "end" /\ UNCHANGED ctxEnv
  <2>1. CASE u # t
    <3>1. pc'[u] = pc[u]
      BY <1>2, <2>1 DEF Moves
    <3> QED BY <1>1, <1>2, <1>5, <3>1, OthersKeep
  <2>2. CASE u = t
    <3>1. pc'[t].part \notin RunParts /\ pc'[t].step \in {"nil", "error", "skipped"}
      BY <1>2, <1>5 DEF RunParts, Moves, InPlace, StepsOf
    <3>2. Separate(t)'
      BY <1>1, <1>2, <1>5, Primed DEF TaskInv, Separate
    <3>3. ContextKept(t)' /\ EnvOwn(t)'
      BY <1>1, <1>2, <1>4, <1>5, <3>1, Primed DEF TaskInv, ContextKept
    <3>4. JobsGood(t)'
      BY <1>5, <3>1, NoJobs
    <3> QED BY <2>2, <3>2, <3>3, <3>4 DEF TaskInv
  <2> QED BY <2>1, <2>2
<1>6. CASE /\ pc'[t].part = pc[t].part /\ pc'[t].step = "take" /\ pc'[t].n = pc[t].n
           /\ \E e \in ProcessEnvfile(Envfile(t), Input(t)) : ctxEnv' = [ctxEnv EXCEPT ![Obj(t)] = e]
  <2>1. PICK e \in ProcessEnvfile(Envfile(t), Input(t)) : ctxEnv' = [ctxEnv EXCEPT ![Obj(t)] = e]
    BY <1>6
  <2>2. Clean(t, e)
    BY <1>1, <1>2, InputIs, CleanProcess DEF TypeOK
  <2>3. Named(t) /\ Untouched(t)' => Holds(t, e)
    <3>1. Untouched(t) /\ Named(t) => pc[t].part # "condition"
      <4>1. InPlace(t)
        BY <1>1 DEF TypeOK
      <4>2. Named(t) => Share(t, t)
        BY DEF Share
      <4> QED BY <4>1, <4>2 DEF Untouched, InPlace
    <3>2. Untouched(t) /\ Named(t) => Holds(t, Input(t))
      BY <1>2, <3>1, InputIs
    <3> QED BY <1>4, <3>2, HoldsProcess DEF Holds
  <2>4. CASE u # t
    <3>1. Active(t)
      BY <1>3 DEF Active
    <3> QED BY <1>1, <1>2, <2>1, <2>2, <2>3, <2>4, <3>1, WriteKeeps
  <2>5. CASE u = t
    <3>1. ctxEnv'[Obj(t)] = e
      BY <1>1, <2>1, ObjIs DEF TypeOK
    <3>2. Separate(t)'
      BY <1>1, <1>2, <2>2, <3>1, Primed DEF TaskInv, Separate
    <3>3. ContextKept(t)'
      BY <1>1, <1>2, <1>4, <1>6, <2>3, <3>1, Primed DEF TaskInv, ContextKept
    <3>4. EnvOwn(t)'
      BY <1>1, <1>2, <1>6, Primed DEF TaskInv, EnvOwn
    <3>5. JobsGood(t)'
      <4>1. Input(t)' = Input(t)
        BY <1>2, <1>6, ConfIs DEF Input
      <4>2. \A i : Compiled(t, i) => Compiled(t, i)'
        BY <1>2, <1>4, JobsKeep
      <4>3. pc'[t].step # "exec" /\ pc'[t].part # "execute"
        BY <1>3, <1>6
      <4>4. pc'[t].part = "compile" => \A i \in 1 .. pc'[t].n - 1 : Compiled(t, i)'
        BY <1>1, <1>6, <4>2 DEF TaskInv, JobsGood
      <4>5. ctxEnv'[Obj(t)'] \in ProcessEnvfile(Envfile(t)', Input(t)')
        BY <1>2, <3>1, <4>1, ConfIs
      <4> QED BY <4>3, <4>4, <4>5 DEF JobsGood
    <3> QED BY <2>5, <3>2, <3>3, <3>4, <3>5 DEF TaskInv
  <2> QED BY <2>4, <2>5
<1> QED BY <1>1, <1>5, <1>6, ProcessMoves

\* A job that is good after the step.
GoodThen(t, j, given) ==
  /\ ~Mixed(t)' => j \in ProcessEnvfile(Envfile(t), given)
  /\ Named(t) /\ ~Exempt(t)' =>
       \A n \in Given(t) :
         \/ Skipped(t, n) \/ modifyName(Envfile(t), n) \in DOMAIN j
         \/ n \in DOMAIN j /\ Mixed(t)'

\* It is what the invariant then says of it.
LEMMA GoodPrimed ==
  ASSUME UNCHANGED conf, NEW t
  PROVE  /\ \A i : Compiled(t, i)' <=>
                     /\ i \in DOMAIN jobs'[t]
                     /\ GoodThen(t, jobs'[t][i], Merge(env'[t], Variation(t, i)))
         /\ Good(t, jobs[t][1], env[t])' <=> GoodThen(t, jobs'[t][1], env'[t])
<1>1. \A i : Compiled(t, i)' <=>
               /\ i \in DOMAIN jobs'[t]
               /\ GoodThen(t, jobs'[t][i], Merge(env'[t], Variation(t, i)))
  BY ConfIs DEF Compiled, Good, Reached, GoodThen
<1>2. Good(t, jobs[t][1], env[t])' <=> GoodThen(t, jobs'[t][1], env'[t])
  BY ConfIs DEF Good, Reached, GoodThen
<1> QED BY <1>1, <1>2

\* What compileCommand reads back is good, unless another task was in between.
LEMMA TakenIsGood ==
  ASSUME StateInv, UNCHANGED conf, NEW t \in Tasks, pc[t].step = "take", pc[t].part # "condition",
         Mixed(t) => Mixed(t)', Exempt(t) => Exempt(t)'
  PROVE  GoodThen(t, ctxEnv[Obj(t)], Input(t))
<1> DEFINE j == ctxEnv[Obj(t)]
<1>1. TaskInv(t)
  BY DEF StateInv
<1>2. ~ Mixed(t) => j \in ProcessEnvfile(Envfile(t), Input(t))
  BY <1>1 DEF TaskInv, JobsGood
<1>3. ASSUME Named(t), ~ Exempt(t), ~ Mixed(t), NEW n \in Given(t)
      PROVE  Skipped(t, n) \/ modifyName(Envfile(t), n) \in DOMAIN j
  <2>1. Holds(t, Input(t))
    BY <1>3, InputIs
  <2> HIDE DEF j
  <2> QED BY <1>2, <1>3, <2>1, HoldsProcess
<1>4. ASSUME Named(t), ~ Exempt(t), Mixed(t)
      PROVE  Holds(t, j)
  <2>1. Untouched(t)
    BY <1>4 DEF Untouched, Exempt
  <2> QED BY <1>1, <1>4, <2>1 DEF TaskInv, ContextKept
<1> QED BY <1>2, <1>3, <1>4 DEF GoodThen, Holds

\* The job gets the Env the context has now.
LEMMA TakeKeeps ==
  ASSUME StateInv, NEW t \in Tasks, Take(t), NEW u \in Tasks
  PROVE  TaskInv(u)'
<1> DEFINE j == ctxEnv[Obj(t)]
           n == pc[t].n
           k == IF pc[t].part = "compile" THEN n ELSE 1
           new == [i \in 1 .. k |-> IF i = k THEN j ELSE jobs[t][i]]
<1>1. TypeOK /\ Meeting /\ TaskInv(u) /\ TaskInv(t) /\ TaskStep(t)
  BY DEF StateInv, TaskStep
<1>2. /\ UNCHANGED <<conf, ctxEnv, snap, env, shell, runnerEnv>> /\ pc[t].step = "take"
      /\ Moves(t) /\ met \subseteq met'
  BY <1>1, StepMoves, MeetingStep DEF Take
<1>3. /\ Mixed(t) => Mixed(t)'
      /\ Exempt(t) => Exempt(t)'
      /\ Untouched(t)' => Untouched(t)
  BY <1>1, <1>2, Monotone
<1>4. /\ pc[t].part \in {"condition", "before", "compile", "after"} /\ n \in Nat
      /\ \/ pc'[t].part = "end" /\ UNCHANGED jobs
         \/ /\ \/ /\ pc[t].part # "compile" /\ pc'[t].part = pc[t].part
                  /\ pc'[t].step = "exec" /\ pc'[t].n = n
               \/ /\ pc[t].part = "compile" /\ pc'[t].part = "compile"
                  /\ pc'[t].step = "process" /\ pc'[t].n = n + 1
               \/ /\ pc[t].part = "compile" /\ n = Commands(t, "compile")
                  /\ pc'[t].part \in (RunParts \ {"run"}) \cup {"end"}
                  /\ pc'[t].step \in {"nil", "process", "open", "read"}
                  /\ pc'[t].part \in {"compile", "execute"} => pc'[t].n = 1
            /\ jobs' = [jobs EXCEPT ![t] = new]
  BY <1>1, TakeMoves DEF Pcs
<1> HIDE DEF new
<1>5. CASE u # t
  <2>1. pc'[u] = pc[u]
    BY <1>2, <1>5 DEF Moves
  <2>2. jobs'[u] = jobs[u]
    BY <1>1, <1>4, <1>5 DEF TypeOK
  <2> QED BY <1>1, <1>2, <2>1, <2>2, OthersKeep
<1>6. CASE u = t
  <2>1. pc'[t].part \in RunParts \ {"run"} => pc[t].part \in RunParts \ {"run"}
    BY <1>4 DEF RunParts
  <2>2. pc'[t].step # "merge"
    <3>1. pc'[t].part = "end" => pc'[t].step \in {"nil", "error", "skipped"}
      BY <1>2 DEF Moves, InPlace, StepsOf
    <3> QED BY <1>4, <3>1
  <2>3. ContextKept(t)'
    BY <1>1, <1>2, <1>3, <2>1, <2>2, Primed DEF TaskInv, ContextKept
  <2>4. EnvOwn(t)'
    BY <1>1, <1>2, <2>1, Primed DEF TaskInv, EnvOwn
  <2>5. CASE pc'[t].part = "end" /\ UNCHANGED jobs
    <3>1. Separate(t)'
      BY <1>1, <1>2, <2>5, Primed DEF TaskInv, Separate
    <3>2. JobsGood(t)'
      <4>1. pc'[t].step \in {"nil", "error", "skipped"}
        BY <1>2, <2>5 DEF Moves, InPlace, StepsOf
      <4> QED BY <2>5, <4>1, NoJobs
    <3> QED BY <1>6, <2>3, <2>4, <3>1, <3>2 DEF TaskInv
  <2>6. CASE jobs' = [jobs EXCEPT ![t] = new] /\ ~ (pc'[t].part = "end" /\ UNCHANGED jobs)
    <3>1. jobs'[t] = new
      BY <1>1, <2>6 DEF TypeOK
    <3>2. DOMAIN new = 1 .. k /\ \A i \in 1 .. k : new[i] = IF i = k THEN j ELSE jobs[t][i]
      BY DEF new
    <3>3. pc[t].part = "compile" => \A i \in 1 .. n - 1 : Compiled(t, i)
      BY <1>1, <1>2 DEF TaskInv, JobsGood
    <3>4. k \in Nat /\ k >= 1 /\ k \in 1 .. k
      <4>1. InPlace(t)
        BY <1>1 DEF TypeOK
      <4> QED BY <1>4, <4>1 DEF InPlace
    <3>5. Separate(t)'
      <4>1. Clean(t, j)
        BY <1>1 DEF TaskInv, Separate
      <4>2. ASSUME NEW i \in 1 .. k
            PROVE  Clean(t, new[i])
        <5>1. CASE i = k
          BY <3>2, <4>1, <5>1
        <5>2. CASE i # k
          <6>1. pc[t].part = "compile" /\ i \in 1 .. n - 1
            BY <1>4, <5>2
          <6>2. i \in DOMAIN jobs[t] /\ new[i] = jobs[t][i]
            BY <3>2, <3>3, <5>2, <6>1 DEF Compiled
          <6> QED BY <1>1, <6>2 DEF TaskInv, Separate
        <5> QED BY <5>1, <5>2
      <4> QED BY <1>1, <1>2, <3>1, <3>2, <4>2, Primed DEF TaskInv, Separate
    <3>6. pc[t].part = "compile" => \A i \in 1 .. n : Compiled(t, i)'
      <4> SUFFICES ASSUME pc[t].part = "compile", NEW i \in 1 .. n
                   PROVE  i \in DOMAIN new /\ GoodThen(t, new[i], Merge(env[t], Variation(t, i)))
        BY <1>2, <3>1, GoodPrimed
      <4>1. CASE i = n
        <5>1. Input(t) = Merge(env[t], Variation(t, i))
          BY <1>2, <4>1, InputIs
        <5>2. GoodThen(t, j, Input(t))
          BY <1>2, <1>3, TakenIsGood
        <5> QED BY <3>2, <3>4, <4>1, <5>1, <5>2
      <4>2. CASE i # n
        <5>1. i \in 1 .. n - 1
          BY <1>4, <4>2
        <5>2. Good(t, jobs[t][i], Merge(env[t], Variation(t, i))) /\ new[i] = jobs[t][i] /\ i \in 1 .. k
          BY <1>4, <3>2, <3>3, <4>2, <5>1 DEF Compiled
        <5> QED BY <1>3, <3>2, <5>2 DEF Good, GoodThen, Reached
      <4> QED BY <4>1, <4>2
    <3>7. pc[t].part # "compile" => 1 \in DOMAIN jobs'[t]
      BY <3>1, <3>2
    <3>8. pc[t].part \in {"before", "after"} => Good(t, jobs[t][1], env[t])'
      <4> SUFFICES ASSUME pc[t].part \in {"before", "after"}
                   PROVE  GoodThen(t, new[1], env[t])
        BY <1>2, <3>1, GoodPrimed
      <4>1. Input(t) = env[t]
        BY <1>2, InputIs
      <4>2. GoodThen(t, j, Input(t))
        BY <1>2, <1>3, TakenIsGood
      <4>3. new[1] = j
        BY <3>2, <3>4
      <4> QED BY <4>1, <4>2, <4>3
    <3>9. JobsGood(t)'
      <4>1. pc'[t].step # "take"
        BY <1>4, <2>6
      <4>2. pc'[t].part = "compile" => \A i \in 1 .. pc'[t].n - 1 : Compiled(t, i)'
        BY <1>4, <2>6, <3>6
      <4>3. pc'[t].part = "execute" => \A i \in 1 .. Commands(t, "compile") : Compiled(t, i)'
        BY <1>4, <2>6, <3>6
      <4>4. pc'[t].step = "exec" => pc[t].part # "compile" /\ pc'[t].part = pc[t].part
        BY <1>4, <2>6
      <4>5. pc'[t].part = "execute" => pc'[t].n = 1
        BY <1>4, <2>6
      <4> QED BY <1>2, <3>7, <3>8, <4>1, <4>2, <4>3, <4>4, <4>5, ConfIs DEF JobsGood
    <3> QED BY <1>6, <2>3, <2>4, <3>5, <3>9 DEF TaskInv
  <2> QED BY <1>4, <2>5, <2>6
<1> QED BY <1>5, <1>6

\* A command sees a job of its task, in a container alone and on the host above
\* the env of the process, and the job was compiled for the variation it runs.
LEMMA SeenIs ==
  ASSUME StateInv, NEW t \in Tasks, pc[t].step = "exec",
         NEW r, r.task = t, r.part = pc[t].part, r.n = pc[t].n
  PROVE  \E k \in DOMAIN jobs[t] :
           /\ Seen(t) \in {jobs[t][k], Merge(conf.os, jobs[t][k])}
           /\ InContainer(t, r.part) => Seen(t) = jobs[t][k]
           /\ ~ InContainer(t, r.part) /\ r.part = "execute" /\ ~ T(t).reset =>
                Seen(t) = Merge(conf.os, jobs[t][1])
           /\ r.part = "execute" => Good(t, jobs[t][k], Merge(env[t], RunsVariation(r)))
           /\ r.part \in {"before", "after"} =>
                Good(t, jobs[t][k], env[t]) /\ RunsVariation(r) = Empty
<1>1. /\ TypeOK /\ TaskInv(t) /\ conf \in Configs
      /\ r.part \in {"condition", "before", "execute", "after"} /\ r.n \in Nat
  BY StepIs DEF StateInv, TypeOK, Pcs
<1>2. /\ r.part = "execute" => \A i \in 1 .. Commands(t, "compile") : Compiled(t, i)
      /\ r.part # "execute" => 1 \in DOMAIN jobs[t]
      /\ r.part \in {"before", "after"} => Good(t, jobs[t][1], env[t])
      /\ r.part = "execute" /\ r.n # 1 /\ ~ InContainer(t, "execute") /\ ~ T(t).reset =>
           shell[t] = Merge(conf.os, jobs[t][1])
  BY <1>1 DEF TaskInv, JobsGood
<1> DEFINE inside == InContainer(t, r.part)
           again == r.part = "execute" /\ r.n > 1 /\ ~ T(t).reset
           job == jobs[t][IF r.part = "execute" THEN r.n ELSE 1]
<1>3. /\ inside => Seen(t) = job
      /\ ~ inside /\ again => Seen(t) = shell[t]
      /\ ~ inside /\ ~ again => Seen(t) = Merge(conf.os, job)
  BY DEF Seen
<1>4. CASE r.part # "execute"
  <2>1. job = jobs[t][1] /\ 1 \in DOMAIN jobs[t]
    BY <1>2, <1>4
  <2>2. RunsVariation(r) = Empty
    BY <1>4 DEF RunsVariation
  <2>3. ~ again
    BY <1>4
  <2> HIDE DEF job, again, inside
  <2>4. Seen(t) \in {jobs[t][1], Merge(conf.os, jobs[t][1])} /\ (inside => Seen(t) = jobs[t][1])
    BY <1>3, <2>1, <2>3
  <2> QED BY <1>2, <1>4, <2>1, <2>2, <2>4 DEF inside
<1>5. CASE r.part = "execute"
  <2>1. r.n \in 1 .. Commands(t, "compile")
    BY <1>1, <1>5 DEF TypeOK, InPlace
  <2>2. job = jobs[t][r.n] /\ Compiled(t, r.n)
    BY <1>2, <1>5, <2>1
  <2>3. 1 \in 1 .. Commands(t, "compile")
    <3>1. Commands(t, "compile") \in Nat
      BY <1>1, CommandsIs
    <3> QED BY <2>1, <3>1
  <2>4. Compiled(t, 1)
    BY <1>2, <1>5, <2>3
  <2>5. inside <=> Ctx(t).container
    BY <1>5 DEF InContainer
  <2>6. CASE inside \/ T(t).reset
    <3>1. RunsVariation(r) = Variation(t, r.n)
      BY <1>5, <2>5, <2>6 DEF RunsVariation
    <3>2. inside \/ ~ again
      BY <2>6
    <3>3. ~ (~ inside /\ ~ T(t).reset)
      BY <2>6
    <3> HIDE DEF job, again, inside
    <3>4. Seen(t) \in {jobs[t][r.n], Merge(conf.os, jobs[t][r.n])} /\ (inside => Seen(t) = jobs[t][r.n])
      BY <1>3, <2>2, <3>2
    <3> QED BY <1>5, <2>2, <3>1, <3>3, <3>4 DEF inside, Compiled
  <2>7. CASE ~ inside /\ ~ T(t).reset
    <3>1. RunsVariation(r) = Variation(t, 1)
      BY <1>5, <2>5, <2>7 DEF RunsVariation
    <3>2. Seen(t) = Merge(conf.os, jobs[t][1])
      <4>1. CASE r.n = 1
        <5>1. ~ again /\ job = jobs[t][1]
          BY <1>5, <4>1
        <5> HIDE DEF job, again, inside
        <5> QED BY <1>3, <2>7, <5>1
      <4>2. CASE r.n # 1
        <5>1. again
          BY <1>1, <1>5, <2>1, <2>7, <4>2
        <5>2. shell[t] = Merge(conf.os, jobs[t][1])
          BY <1>2, <1>5, <2>7, <4>2
        <5> HIDE DEF job, again, inside
        <5> QED BY <1>3, <2>7, <5>1, <5>2
      <4> QED BY <4>1, <4>2
    <3> HIDE DEF inside
    <3> QED BY <1>5, <2>4, <2>7, <3>1, <3>2 DEF inside, Compiled
  <2> QED BY <2>6, <2>7
<1> QED BY <1>4, <1>5

\* A command is run with its job or with what the interpreter holds.
LEMMA ExecuteKeeps ==
  ASSUME StateInv, NEW t \in Tasks, Execute(t), NEW u \in Tasks
  PROVE  TaskInv(u)' /\ (u = t => Clean(t, Seen(t)))
<1>1. TypeOK /\ Meeting /\ TaskInv(u) /\ TaskInv(t) /\ TaskStep(t)
  BY DEF StateInv, TaskStep
<1>2. /\ UNCHANGED <<conf, ctxEnv, snap, env, jobs, runnerEnv>> /\ pc[t].step = "exec"
      /\ shell' = [shell EXCEPT ![t] = Seen(t)]
      /\ Moves(t) /\ met \subseteq met'
  BY <1>1, StepMoves, MeetingStep DEF Execute
<1>3. /\ Mixed(t) => Mixed(t)'
      /\ Exempt(t) => Exempt(t)'
      /\ Untouched(t)' => Untouched(t)
  BY <1>1, <1>2, Monotone
<1>4. /\ pc[t].part \in {"condition", "before", "execute", "after"} /\ pc[t].n \in Nat
      /\ pc'[t].part = "execute" =>
           pc[t].part = "execute" /\ pc'[t].step = "exec" /\ pc'[t].n = pc[t].n + 1
      /\ pc'[t].part # "execute" => pc'[t].step \notin {"merge", "take", "exec"}
      /\ pc'[t].part = "compile" => pc'[t].n = 1
  BY <1>1, ExecuteMoves DEF Pcs
<1>5. CASE u # t
  <2>1. pc'[u] = pc[u]
    BY <1>2, <1>5 DEF Moves
  <2>2. shell'[u] = shell[u]
    BY <1>1, <1>2, <1>5 DEF TypeOK
  <2> QED BY <1>1, <1>2, <1>5, <2>1, <2>2, OthersKeep
<1>6. CASE u = t
  <2> DEFINE r == [task |-> t, part |-> pc[t].part, n |-> pc[t].n, env |-> Seen(t)]
  <2>1. r.task = t /\ r.part = pc[t].part /\ r.n = pc[t].n
    OBVIOUS
  <2> HIDE DEF r
  <2>2. PICK k \in DOMAIN jobs[t] :
          /\ Seen(t) \in {jobs[t][k], Merge(conf.os, jobs[t][k])}
          /\ ~ InContainer(t, r.part) /\ r.part = "execute" /\ ~ T(t).reset =>
               Seen(t) = Merge(conf.os, jobs[t][1])
    BY <1>2, <2>1, SeenIs
  <2>3. Clean(t, Seen(t))
    BY <1>1, <2>2, CleanSources, CleanMerge DEF TypeOK, TaskInv, Separate
  <2>4. shell'[t] = Seen(t)
    BY <1>1, <1>2 DEF TypeOK
  <2>5. Separate(t)'
    BY <1>1, <1>2, <2>3, <2>4, Primed DEF TaskInv, Separate
  <2>6. pc'[t].part \in RunParts \ {"run"} => pc[t].part \in RunParts \ {"run"}
    BY <1>4 DEF RunParts
  <2>7. pc'[t].step # "merge"
    BY <1>4
  <2>8. ContextKept(t)'
    BY <1>1, <1>2, <1>3, <2>6, <2>7, Primed DEF TaskInv, ContextKept
  <2>9. EnvOwn(t)'
    BY <1>1, <1>2, <2>6, Primed DEF TaskInv, EnvOwn
  <2>10. JobsGood(t)'
    <3>1. CASE pc'[t].part # "execute"
      BY <1>4, <3>1, NoJobs
    <3>2. CASE pc'[t].part = "execute"
      <4>1. \A i : Compiled(t, i) => Compiled(t, i)'
        BY <1>2, <1>3, JobsKeep
      <4>2. \A i \in 1 .. Commands(t, "compile") : Compiled(t, i)'
        BY <1>1, <1>4, <3>2, <4>1 DEF TaskInv, JobsGood
      <4>3. ~ InContainer(t, "execute") /\ ~ T(t).reset => shell'[t] = Merge(conf.os, jobs[t][1])
        BY <1>4, <2>1, <2>2, <2>4, <3>2
      <4> QED BY <1>2, <1>4, <3>2, <4>2, <4>3, ConfIs DEF JobsGood
    <3> QED BY <3>1, <3>2
  <2> QED BY <1>6, <2>3, <2>5, <2>8, <2>9, <2>10 DEF TaskInv
<1> QED BY <1>5, <1>6

\* The state is kept as it should be.
LEMMA StateStep ==
  ASSUME StateInv, NEW t \in Tasks, TaskStep(t)
  PROVE  StateInv'
<1>1. TypeOK' /\ Meeting' /\ UNCHANGED conf
  BY TypeStep, MeetingStep
     DEF StateInv, TaskStep, Start, ReadContext, MergeContext, BuildEnv, Process, Take, Execute,
         OpenArtifact, storeTaskOutput
<1>2. RunnerClean'
  <2>1. CASE storeTaskOutput(t)
    <3>1. PICK n \in left[t] : runnerEnv' = Merge(runnerEnv, Stored(t, n))
      BY <2>1 DEF storeTaskOutput
    <3>2. \A m \in DOMAIN Stored(t, n) : Stored(t, n)[m].src = "artifact"
      BY DEF Stored, Value
    <3> QED BY <3>1, <3>2 DEF StateInv, RunnerClean, Merge
  <2>2. CASE UNCHANGED runnerEnv
    BY <2>2 DEF StateInv, RunnerClean
  <2> QED BY <2>1, <2>2
     DEF TaskStep, Start, ReadContext, MergeContext, BuildEnv, Process, Take, Execute, OpenArtifact
<1>3. \A u \in Tasks : TaskInv(u)'
  BY StartKeeps, ReadContextKeeps, MergeContextKeeps, BuildEnvKeeps, ProcessKeeps, TakeKeeps,
     ExecuteKeeps DEF TaskStep
<1> QED BY <1>1, <1>2, <1>3, ConfIs DEF StateInv

(***************************************************************************)
(* The properties.                                                         *)
(***************************************************************************)
\* A command that is new is the one that was executed now; for the others the
\* env of their task is what it was.
LEMMA RanIs ==
  ASSUME StateInv, NEW t \in Tasks, TaskStep(t), NEW r \in ran'
  PROVE  /\ UNCHANGED conf /\ r.task \in Tasks /\ env'[r.task] = env[r.task]
         /\ \/ r \in ran
            \/ /\ Execute(t) /\ pc[t].step = "exec" /\ r.task = t /\ r.part = pc[t].part
               /\ r.n = pc[t].n /\ r.env = Seen(t)
         /\ \A u \in Tasks : Mixed(u) => Mixed(u)'
         /\ \A u \in Tasks : Exempt(u) => Exempt(u)'
<1>1. UNCHANGED conf /\ TypeOK /\ TypeOK'
  BY TypeStep DEF StateInv, TaskStep, Start, ReadContext, MergeContext, BuildEnv, Process, Take,
         Execute, OpenArtifact, storeTaskOutput
<1>2. \/ r \in ran
      \/ /\ Execute(t) /\ pc[t].step = "exec" /\ r.task = t /\ r.part = pc[t].part
         /\ r.n = pc[t].n /\ r.env = Seen(t)
  BY DEF TaskStep, Start, ReadContext, MergeContext, BuildEnv, Process, Take, Execute,
         OpenArtifact, storeTaskOutput
<1>3. r.task \in Tasks
  BY <1>1, <1>2 DEF TypeOK
<1>4. env'[r.task] = env[r.task]
  <2>1. CASE BuildEnv(t)
    <3>1. r \in ran /\ pc[t].part = "run"
      BY <1>2, <2>1 DEF BuildEnv, Execute, At
    <3>2. r.task # t
      BY <1>1, <3>1 DEF TypeOK
    <3> QED BY <1>1, <1>3, <2>1, <3>2 DEF BuildEnv, TypeOK
  <2>2. CASE UNCHANGED env
    BY <2>2
  <2> QED BY <2>1, <2>2
     DEF TaskStep, Start, ReadContext, MergeContext, Process, Take, Execute, OpenArtifact,
         storeTaskOutput
<1>5. Moves(t) /\ met \subseteq met'
  BY StepMoves, MeetingStep DEF StateInv
<1> QED BY <1>1, <1>2, <1>3, <1>4, <1>5, Monotone

\* What is set nowhere else arrives as it is.
LEMMA OwnArrives ==
  ASSUME NEW ef, NEW given, NEW j \in ProcessEnvfile(ef, given), NEW n \in DOMAIN given,
         ~ Nameless(n), NEW m, m = modifyName(ef, n), ~ includeExcludeSkip(ef, m),
         \A k \in DOMAIN Gathered(ef, given) \ {n} : modifyName(ef, k) # m
  PROVE  m \in DOMAIN j /\ j[m] = given[n]
<1> DEFINE all == Gathered(ef, given)
<1>1. n \in DOMAIN all /\ all[n] = given[n]
  BY DEF Gathered, Merge
<1> HIDE DEF all
<1>2. m \in Kept(ef, all)
  BY <1>1 DEF Kept
<1>3. m \in DOMAIN j
  BY <1>2, ProcessIs DEF all
<1>4. PICK s \in Sources(ef, all, m) : j[m] = all[s]
  BY <1>3, ProcessIs DEF all
<1>5. s = n
  BY <1>4 DEF Sources, all
<1> QED BY <1>1, <1>3, <1>4, <1>5

\* The env of the run is below what it is for.
LEMMA GivenHasOwn ==
  ASSUME StateInv, NEW t \in Tasks, pc[t].part \in RunParts \ {"run"}, NEW v,
         NEW n \in DOMAIN Merge(OwnEnv(t), v)
  PROVE  /\ n \in DOMAIN Merge(env[t], v)
         /\ Merge(env[t], v)[n] = Merge(OwnEnv(t), v)[n]
<1>1. \A k \in DOMAIN OwnEnv(t) : k \in DOMAIN env[t] /\ env[t][k] = OwnEnv(t)[k]
  BY DEF StateInv, TaskInv, EnvOwn
<1> QED BY <1>1 DEF Merge

\* What a task sets reaches the command that is run now, and those that ran keep it.
LEMMA OwnStep ==
  ASSUME StateInv, JobEnvIsOwn, NEW t \in Tasks, TaskStep(t)
  PROVE  JobEnvIsOwn'
<1> DEFINE Own(r) == Merge(OwnEnv(r.task), RunsVariation(r))
           Below(r) == Gathered(Envfile(r.task), Merge(env[r.task], RunsVariation(r)))
           IsOwn(r) ==
             LET ef == Envfile(r.task)
             IN  /\ \A n \in {n \in DOMAIN Own(r) : ~ Nameless(n)} :
                      LET m == modifyName(ef, n)
                      IN  \/ includeExcludeSkip(ef, m)
                          \/ \E k \in DOMAIN Below(r) \ {n} : modifyName(ef, k) = m
                          \/ m \in DOMAIN r.env /\ r.env[m] = Own(r)[n]
                 /\ InContainer(r.task, r.part) => \A n \in DOMAIN r.env : ~ includeExcludeSkip(ef, n)
<1>1. ASSUME NEW r \in ran', r.part # "condition", ~ Mixed(r.task)'
      PROVE  IsOwn(r)
  <2>1. /\ r \in ran
           \/ /\ Execute(t) /\ pc[t].step = "exec" /\ r.task = t /\ r.part = pc[t].part
              /\ r.n = pc[t].n /\ r.env = Seen(t)
        /\ ~ Mixed(r.task)
    BY <1>1, RanIs
  <2>2. CASE r \in ran
    BY <1>1, <2>1, <2>2 DEF JobEnvIsOwn, Envfile
  <2>3. CASE /\ Execute(t) /\ pc[t].step = "exec" /\ r.task = t /\ r.part = pc[t].part
             /\ r.n = pc[t].n /\ r.env = Seen(t)
    <3> DEFINE rv == RunsVariation(r)  ef == Envfile(t)
    <3>1. PICK i \in DOMAIN jobs[t] :
            /\ Seen(t) \in {jobs[t][i], Merge(conf.os, jobs[t][i])}
            /\ InContainer(t, r.part) => Seen(t) = jobs[t][i]
            /\ r.part = "execute" => Good(t, jobs[t][i], Merge(env[t], RunsVariation(r)))
            /\ r.part \in {"before", "after"} =>
                 Good(t, jobs[t][i], env[t]) /\ RunsVariation(r) = Empty
      BY <2>3, SeenIs
    <3> DEFINE j == jobs[t][i]
    <3>2. r.part \in {"before", "after", "execute"} /\ pc[t].part \in RunParts \ {"run"}
      BY <1>1, <2>3, ExecuteMoves DEF StateInv, RunParts
    <3> HIDE DEF rv
    <3>3. PICK given :
            /\ j \in ProcessEnvfile(ef, given)
            /\ DOMAIN Gathered(ef, given) = DOMAIN Gathered(ef, Merge(env[t], rv))
            /\ \A n \in DOMAIN Merge(OwnEnv(t), rv) :
                 n \in DOMAIN given /\ given[n] = Merge(OwnEnv(t), rv)[n]
      <4>1. CASE r.part = "execute"
        <5>1. j \in ProcessEnvfile(ef, Merge(env[t], rv))
          BY <2>1, <2>3, <3>1, <4>1 DEF Good, rv
        <5>2. \A n \in DOMAIN Merge(OwnEnv(t), rv) :
                n \in DOMAIN Merge(env[t], rv) /\ Merge(env[t], rv)[n] = Merge(OwnEnv(t), rv)[n]
          BY <3>2, GivenHasOwn
        <5> QED BY <5>1, <5>2
      <4>2. CASE r.part # "execute"
        <5>1. j \in ProcessEnvfile(ef, env[t]) /\ rv = Empty
          BY <2>1, <2>3, <3>1, <3>2, <4>2 DEF Good, rv
        <5>2. DOMAIN Gathered(ef, env[t]) = DOMAIN Gathered(ef, Merge(env[t], rv))
          BY <5>1 DEF Gathered, Merge, Empty
        <5>3. \A n \in DOMAIN Merge(OwnEnv(t), rv) :
                n \in DOMAIN Merge(env[t], rv) /\ Merge(env[t], rv)[n] = Merge(OwnEnv(t), rv)[n]
          BY <3>2, GivenHasOwn
        <5>4. \A n \in DOMAIN Merge(env[t], rv) : n \in DOMAIN env[t] /\ Merge(env[t], rv)[n] = env[t][n]
          BY <5>1 DEF Merge, Empty
        <5> QED BY <5>1, <5>2, <5>3, <5>4
      <4> QED BY <4>1, <4>2
    <3> HIDE DEF j, ef
    <3>4. ASSUME NEW n \in DOMAIN Own(r), ~ Nameless(n), NEW m, m = modifyName(ef, n)
          PROVE  \/ includeExcludeSkip(ef, m)
                 \/ \E k \in DOMAIN Below(r) \ {n} : modifyName(ef, k) = m
                 \/ m \in DOMAIN r.env /\ r.env[m] = Own(r)[n]
      <4>1. Own(r) = Merge(OwnEnv(t), rv) /\ Below(r) = Gathered(ef, Merge(env[t], rv))
        BY <2>3 DEF rv, ef
      <4> HIDE DEF Own, Below
      <4> SUFFICES ASSUME ~ includeExcludeSkip(ef, m),
                          ~ \E k \in DOMAIN Below(r) \ {n} : modifyName(ef, k) = m
                   PROVE  m \in DOMAIN r.env /\ r.env[m] = Own(r)[n]
        OBVIOUS
      <4>2. m \in DOMAIN j /\ j[m] = given[n]
        BY <3>3, <3>4, <4>1, OwnArrives
      <4>3. given[n] = Own(r)[n]
        BY <3>3, <3>4, <4>1
      <4>4. r.env = j \/ r.env = Merge(conf.os, j)
        BY <2>3, <3>1 DEF j
      <4>5. m \in DOMAIN Merge(conf.os, j) /\ Merge(conf.os, j)[m] = j[m]
        BY <4>2 DEF Merge
      <4> QED BY <4>2, <4>3, <4>4, <4>5
    <3>5. InContainer(r.task, r.part) => \A n \in DOMAIN r.env : ~ includeExcludeSkip(ef, n)
      BY <2>3, <3>1, <3>3, ProcessIs DEF j
    <3> HIDE DEF Own, Below
    <3> QED BY <2>3, <3>4, <3>5 DEF ef
  <2> QED BY <2>1, <2>2, <2>3
<1>2. \A r \in ran' : env'[r.task] = env[r.task] /\ RunsVariation(r)' = RunsVariation(r) /\ UNCHANGED conf
  BY RanIs, ConfIs DEF RunsVariation
<1> QED BY <1>1, <1>2, ConfIs DEF JobEnvIsOwn, Envfile

\* The command that is run now sees nothing foreign.
LEMMA NoCrossTalkStep ==
  ASSUME StateInv, NoCrossTalk, NEW t \in Tasks, TaskStep(t)
  PROVE  NoCrossTalk'
<1>1. ASSUME NEW r \in ran'
      PROVE  Clean(r.task, r.env)
  <2>1. CASE r \in ran
    BY <2>1 DEF NoCrossTalk, Clean, Allowed
  <2>2. CASE r \notin ran
    BY <1>1, <2>2, RanIs, ExecuteKeeps
  <2> QED BY <2>1, <2>2
<1>2. \A r \in ran' : UNCHANGED conf
  BY RanIs
<1> QED BY <1>1, <1>2, ConfIs DEF NoCrossTalk, Clean, Allowed

\* What the context sets reaches it, too.
LEMMA ContextStep ==
  ASSUME StateInv, ContextEnvReaches, NEW t \in Tasks, TaskStep(t)
  PROVE  ContextEnvReaches'
<1> DEFINE Reaches(r, mixed) ==
             \A n \in Given(r.task) :
               \/ Skipped(r.task, n)
               \/ modifyName(Envfile(r.task), n) \in DOMAIN r.env
               \/ n \in DOMAIN r.env /\ mixed
<1>1. ASSUME NEW r \in ran', r.part # "condition", Named(r.task), ~ Exempt(r.task)'
      PROVE  Reaches(r, Mixed(r.task)')
  <2>1. /\ r \in ran
           \/ /\ Execute(t) /\ pc[t].step = "exec" /\ r.task = t /\ r.part = pc[t].part
              /\ r.n = pc[t].n /\ r.env = Seen(t)
        /\ ~ Exempt(r.task) /\ (Mixed(r.task) => Mixed(r.task)')
    BY <1>1, RanIs
  <2>2. Reaches(r, Mixed(r.task)) => Reaches(r, Mixed(r.task)')
    BY <2>1
  <2>3. CASE r \in ran
    <3>1. Reaches(r, Mixed(r.task))
      BY <1>1, <2>1, <2>3 DEF ContextEnvReaches, Exempt, Given, Skipped, Envfile
    <3> HIDE DEF Reaches
    <3> QED BY <2>2, <3>1
  <2>4. CASE /\ Execute(t) /\ pc[t].step = "exec" /\ r.task = t /\ r.part = pc[t].part
             /\ r.n = pc[t].n /\ r.env = Seen(t)
    <3>1. PICK i \in DOMAIN jobs[t] :
            /\ Seen(t) \in {jobs[t][i], Merge(conf.os, jobs[t][i])}
            /\ r.part = "execute" => Good(t, jobs[t][i], Merge(env[t], RunsVariation(r)))
            /\ r.part \in {"before", "after"} => Good(t, jobs[t][i], env[t])
      BY <2>4, SeenIs
    <3>2. r.part \in {"before", "after", "execute"}
      BY <1>1, <2>4, ExecuteMoves DEF StateInv
    <3>3. Reached(t, jobs[t][i])
      BY <1>1, <2>1, <2>4, <3>1, <3>2 DEF Good
    <3>4. DOMAIN jobs[t][i] \subseteq DOMAIN r.env
      BY <2>4, <3>1 DEF Merge
    <3>5. Reaches(r, Mixed(r.task))
      BY <2>4, <3>3, <3>4 DEF Reached
    <3> HIDE DEF Reaches
    <3> QED BY <2>2, <3>5
  <2> QED BY <2>1, <2>3, <2>4
<1>2. \A r \in ran' : UNCHANGED conf
  BY RanIs
<1> QED BY <1>1, <1>2, ConfIs DEF ContextEnvReaches, Exempt, Given, Skipped, Envfile

\* Nothing but eirctl.env changes, or nothing at all.
LEMMA FileStep ==
  ASSUME IInv, file' \in DOMAIN conf.eirctl,
         UNCHANGED <<conf, ctxEnv, runnerEnv, pc, snap, env, jobs, shell, left, ran, met>>
  PROVE  IInv'
<1>1. TypeOK /\ UNCHANGED conf /\ Tasks' = Tasks /\ Objects' = Objects
  BY ConfIs DEF IInv, StateInv
<1>2. TypeOK'
  <2>1. \A t \in Tasks : InPlace(t)'
    BY <1>1, ConfIs DEF TypeOK, InPlace
  <2> QED BY <1>1, <2>1 DEF TypeOK
<1>3. Meeting' /\ RunnerClean'
  BY <1>1, ConfIs DEF IInv, StateInv, Meeting, RunnerClean, Active
<1>4. \A t \in Tasks : TaskInv(t)'
  BY <1>1, OthersKeep DEF IInv, StateInv
<1>5. \A t \in Tasks : (Mixed(t)' <=> Mixed(t)) /\ (Exempt(t)' <=> Exempt(t))
  <2>1. \A t : Mixed(t)' <=> Mixed(t)
    BY DEF Mixed
  <2> QED BY <1>1, <2>1, ConfIs DEF Exempt
<1>6. \A r \in ran : r.task \in Tasks /\ RunsVariation(r)' = RunsVariation(r)
  BY <1>1, ConfIs DEF RunsVariation, TypeOK
<1>7. JobEnvIsOwn'
  BY <1>1, <1>5, <1>6, ConfIs DEF IInv, JobEnvIsOwn
<1>8. NoCrossTalk'
  BY <1>1, ConfIs DEF IInv, NoCrossTalk
<1>9. ContextEnvReaches'
  BY <1>1, <1>5, <1>6, ConfIs DEF IInv, ContextEnvReaches
<1> QED BY <1>1, <1>2, <1>3, <1>4, <1>7, <1>8, <1>9 DEF IInv, StateInv

\* The invariant holds before the first task starts.
LEMMA InitIInv ==
  ASSUME Init
  PROVE  IInv
<1>1. conf \in Configs /\ ran = {} /\ met = {}
  BY DEF Init
<1>2. ASSUME NEW t \in Tasks
      PROVE  /\ pc[t].part = "idle" /\ pc[t].step = ""
             /\ snap[t] = Empty /\ env[t] = Empty /\ shell[t] = Empty /\ DOMAIN jobs[t] = {}
  <2>1. pc[t].part = "idle" /\ pc[t].step = ""
    BY DEF Init
  <2>2. snap[t] = Empty /\ env[t] = Empty /\ shell[t] = Empty
    BY DEF Init
  <2>3. jobs[t] = <<>>
    BY DEF Init
  <2>4. DOMAIN jobs[t] = {}
    BY <2>3
  <2> QED BY <2>1, <2>2, <2>4
<1>3. TypeOK
  <2>1. file \in DOMAIN conf.eirctl
    <3>1. IsList(conf.eirctl) /\ Len(conf.eirctl) # 0
      BY <1>1, ConfigAssumption
    <3>2. file = 1
      BY DEF Init
    <3> QED BY <3>1, <3>2 DEF IsList
  <2>2. pc \in [Tasks -> Pcs]
    <3>1. [part |-> "idle", step |-> "", n |-> 0] \in Pcs
      BY DEF Pcs, Steps
    <3>2. pc = [t \in Tasks |-> [part |-> "idle", step |-> "", n |-> 0]]
      BY DEF Init
    <3> QED BY <3>1, <3>2
  <2>3. \A t \in Tasks : InPlace(t)
    BY <1>2 DEF InPlace, StepsOf
  <2>4. /\ ctxEnv = [o \in Objects |-> ctxEnv[o]] /\ snap = [t \in Tasks |-> snap[t]]
        /\ env = [t \in Tasks |-> env[t]] /\ jobs = [t \in Tasks |-> jobs[t]]
        /\ shell = [t \in Tasks |-> shell[t]]
    BY DEF Init
  <2> QED BY <1>1, <2>1, <2>2, <2>3, <2>4 DEF TypeOK
<1>4. Meeting
  BY <1>2 DEF Meeting, Active
<1>5. RunnerClean
  <2>1. SetBy(conf.args, "args", "") /\ runnerEnv = conf.args
    BY <1>1, ConfigAssumption DEF Init
  <2> QED BY <2>1 DEF RunnerClean, SetBy
<1>6. ASSUME NEW t \in Tasks
      PROVE  TaskInv(t)
  <2>1. ctxEnv[Obj(t)] = Ctx(t).env
    <3>1. Obj(t) \in Objects
      BY <1>1, ObjIs
    <3>2. ctxEnv[Obj(t)] = IF Obj(t)[1] = "" THEN DefaultContext.env
                           ELSE buildContext(conf.contexts[Obj(t)[1]]).env
      BY <3>1 DEF Init
    <3>3. Obj(t)[1] = T(t).context
      BY DEF Obj
    <3> QED BY <3>2, <3>3 DEF Ctx, Named
  <2>2. Separate(t)
    <3>1. Clean(t, Ctx(t).env) /\ Clean(t, Empty)
      BY <1>1, CleanSources
    <3> QED BY <1>2, <2>1, <3>1 DEF Separate
  <2>3. pc[t].part \notin RunParts
    BY <1>2 DEF RunParts
  <2>4. ContextKept(t)
    BY <1>2, <2>1, <2>3, HoldsContext DEF ContextKept
  <2>5. EnvOwn(t)
    BY <2>3 DEF EnvOwn
  <2>6. JobsGood(t)
    BY <1>2 DEF JobsGood
  <2> QED BY <2>2, <2>4, <2>5, <2>6 DEF TaskInv
<1>7. JobEnvIsOwn /\ NoCrossTalk /\ ContextEnvReaches
  BY <1>1 DEF JobEnvIsOwn, NoCrossTalk, ContextEnvReaches
<1> QED BY <1>3, <1>4, <1>5, <1>6, <1>7 DEF IInv, StateInv

\* However the tasks are loaded, whatever they share and in whatever order
\* their steps come, the invariant of JobEnv holds.
THEOREM JobEnvInvariant == Spec => []IInv
<1>1. Init => IInv
  BY InitIInv
<1>2. IInv /\ [Next]_vars => IInv'
  <2> SUFFICES ASSUME IInv, [Next]_vars PROVE IInv'
    OBVIOUS
  <2>1. StateInv /\ JobEnvIsOwn /\ NoCrossTalk /\ ContextEnvReaches
    BY DEF IInv
  <2>2. ASSUME NEW t \in Tasks, TaskStep(t)
        PROVE  IInv'
    BY <2>1, <2>2, StateStep, OwnStep, NoCrossTalkStep, ContextStep DEF IInv
  <2>3. CASE Rewrite
    <3>1. file' \in DOMAIN conf.eirctl
      <4>1. IsList(conf.eirctl) /\ file \in DOMAIN conf.eirctl
        BY <2>1, ConfigAssumption DEF StateInv, TypeOK
      <4> QED BY <2>3, <4>1 DEF Rewrite, IsList
    <3> QED BY <2>3, <3>1, FileStep DEF Rewrite
  <2>4. CASE UNCHANGED vars
    <3>1. file' \in DOMAIN conf.eirctl
      BY <2>1, <2>4 DEF vars, StateInv, TypeOK
    <3> QED BY <2>4, <3>1, FileStep DEF vars
  <2> QED BY <2>2, <2>3, <2>4 DEF Next, TaskStep
<1> QED BY <1>1, <1>2, PTL DEF Spec

\* What a task sets is what its hooks and commands see, and what its variation
\* sets what its commands do, for the tasks that met no other one on their
\* context; in the default executor without reset_context the first variation
\* stays.
THEOREM JobEnvIsItsOwn == Spec => []JobEnvIsOwn
<1>1. IInv => JobEnvIsOwn
  BY DEF IInv
<1> QED BY <1>1, JobEnvInvariant, PTL

\* What a task sets stays in its context, and what a context sets in its tasks.
THEOREM TasksAreSeparate == Spec => []NoCrossTalk
<1>1. IInv => NoCrossTalk
  BY DEF IInv
<1> QED BY <1>1, JobEnvInvariant, PTL

\* What a context sets reaches the commands of its tasks, but for the conditions
\* of the others.
THEOREM ContextsReachTheirTasks == Spec => []ContextEnvReaches
<1>1. IInv => ContextEnvReaches
  BY DEF IInv
<1> QED BY <1>1, JobEnvInvariant, PTL

=============================================================================
