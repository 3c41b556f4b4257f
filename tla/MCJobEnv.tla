------------------------------ MODULE MCJobEnv ------------------------------
(***************************************************************************)
(* Configurations for TLC.                                                 *)
(***************************************************************************)
EXTENDS JobEnv, TLC

CONSTANT Families   \* which of the families below to explore

Name(kw, var) == [kw |-> kw, var |-> var, up |-> TRUE]
K == Name("K", "")
X == Name("X", "")
Path == Name("PATH", "")
PathExt == Name("PATH", "EXT")
TFA == Name("TF_", "A")
TFa == [TFA EXCEPT !.up = FALSE]
Args == Name("ARGS", "")

All(names, v) == [n \in names |-> v]
Line(name, of) == [name |-> name, ref |-> NoName, val |-> Value("contextfile", of, 0)]
File(place, lines) == [place |-> place, readable |-> TRUE, lines |-> lines]

Context(c, names, container, ef) ==
    [env |-> All(names, Value("context", c, 0)), container |-> container, envfile |-> ef]

Task(t, context, names) ==
    [context |-> context, env |-> All(names, Value("task", t, 0)), paths |-> <<>>,
     variations |-> <<>>, commands |-> 1, condition |-> FALSE, before |-> 0, after |-> 0,
     reset |-> FALSE, required |-> {}, artifact |-> {},
     after_tasks |-> {}]

Base == [os |-> All({Path, K}, Value("os", "", 0)), args |-> All({Args}, Value("args", "", 0)),
         eirctl |-> <<Empty>>, contexts |-> <<>>, tasks |-> <<>>]

\* Two tasks at the same time or one after the other, with eirctl.env rewritten
\* under them: on one container context, or the second on the default context.
Shared ==
  LET lower == <<[kw |-> "TF_", operation |-> "lower"]>>
      lists == {[NoEnvfile EXCEPT !.exclude = {[kw |-> "X", var |-> ""]}],
                [NoEnvfile EXCEPT !.modify = lower]}
  IN  {[Base EXCEPT
          !.eirctl = <<All({X}, Value("eirctl", "", 1)), All({X, K}, Value("eirctl", "", 2))>>,
          !.contexts = "c" :> Context("c", {TFA, K}, TRUE, w.ef),
          !.tasks = "a" :> [Task("a", "c", {K}) EXCEPT !.condition = w.cond]
                 @@ "b" :> [Task("b", w.b, {TFA}) EXCEPT !.after = 1, !.after_tasks = w.deps]] :
         w \in [cond : BOOLEAN, b : {"c", ""}, deps : {{}, {"a"}}, ef : lists]}

\* Three tasks in a row, each on the context or on its own; artifacts and
\* conditions on the way.
Ordered ==
    {[Base EXCEPT
        !.contexts = "c" :> Context("c", {TFA}, w.container, NoEnvfile)
                  @@ "d" :> Context("d", {X}, FALSE, NoEnvfile),
        !.tasks = "a" :> [Task("a", w.a, {w.own}) EXCEPT !.artifact = {X, TFa}, !.condition = w.cond]
               @@ "b" :> [Task("b", w.b, {K}) EXCEPT !.after_tasks = {"a"}, !.before = 1]
               @@ "e" :> [Task("e", w.e, {TFA}) EXCEPT !.after_tasks = {"a", "b"}, !.after = 1,
                                                       !.required = {X}]] :
       w \in [a : {"c", ""}, b : {"c", "d"}, e : {"c", "d", ""}, container : BOOLEAN,
              own : {K, X}, cond : BOOLEAN]}

\* Variations, with and without reset_context, in either executor; at the same
\* time with another task, in one executor with it and in one without.
Varied ==
    {[Base EXCEPT
        !.contexts = "c" :> Context("c", {K, PathExt}, w.container,
            [NoEnvfile EXCEPT !.modify = <<[kw |-> "TF_", operation |-> "lower"]>>]),
        !.tasks = "a" :> [Task("a", w.a, {TFA, PathExt}) EXCEPT
                            !.variations = <<All({X}, Value("variant", "a", 1)),
                                             All({X, TFa}, Value("variant", "a", 2))>>,
                            !.commands = 2, !.reset = w.reset, !.before = 1]
               @@ "b" :> [Task("b", w.b, {X}) EXCEPT !.after_tasks = w.deps]] :
       w \in {w \in [a : {"c", ""}, b : {"c", ""}, container : BOOLEAN, reset : BOOLEAN,
                     deps : {{}, {"a"}}] : w.deps = {} => w.reset = w.container}}

\* Env files of every sort, names that modify makes equal, and lists that
\* exclude one another.
Filed ==
  LET inside == File("inside", <<Line(X, "c"), [Line(TFa, "c") EXCEPT !.ref = X]>>)
      broken == [inside EXCEPT !.readable = FALSE]
      some == {<<>>, <<inside>>, <<broken, File("outside", <<>>)>>, <<inside, File("locked", <<>>)>>}
      mine(f) == [f EXCEPT !.lines = [i \in DOMAIN f.lines |->
                      [f.lines[i] EXCEPT !.val = Value("taskfile", "a", 0)]]]
  IN  {[Base EXCEPT
          !.contexts = "c" :> Context("c", {TFA}, w.container,
              [paths |-> w.cp, include |-> w.include, exclude |-> {},
               modify |-> <<[kw |-> "TF_", operation |-> w.operation]>>]),
          !.tasks = "a" :> [Task("a", "c", {TFA}) EXCEPT !.paths = [i \in DOMAIN w.tp |-> mine(w.tp[i])],
                              !.required = {X}]
                 @@ "b" :> [Task("b", "c", {TFa}) EXCEPT !.after_tasks = {"a"}]] :
         w \in [cp : some, tp : some, container : BOOLEAN, operation : {"lower", "upper"},
                include : {{}, {[kw |-> "TF_", var |-> ""], [kw |-> "X", var |-> ""]}}]}

MCConfigs == UNION {CASE f = "shared" -> Shared [] f = "ordered" -> Ordered
                      [] f = "varied" -> Varied [] f = "filed" -> Filed : f \in Families}

=============================================================================
