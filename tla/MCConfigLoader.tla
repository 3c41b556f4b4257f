--------------------------- MODULE MCConfigLoader ---------------------------
(***************************************************************************)
(* Worlds for TLC.                                                         *)
(***************************************************************************)
EXTENDS ConfigLoader, TLC

CONSTANTS
  MCFamilies,
  MaxFaults

Import(src) == [line |-> "import", entry |-> Plain(src)]

File(src, dest, hash) == [line |-> "import", entry |-> [src |-> src, dest |-> dest, hash |-> hash]]

Def(kind, name, needs) == [line |-> "def", name |-> <<kind, name>>, needs |-> needs]

NoSsh == [exists |-> {}, knows |-> {}, command |-> <<>>, config |-> <<>>, keyFits |-> TRUE]

Base ==
  [kind   |-> "local" :> "file" @@ "global" :> "file" @@ "a" :> "file" @@ "b" :> "file" @@ "d" :> "dir" @@ "u" :> "url"
              @@ "g" :> "git" @@ "missing" :> "file",
   lists  |-> "d" :> <<"a", "b">>,
   global |-> Empty, local |-> <<"missing", "local">>, absolute |-> {},
   git    |-> <<>>, ssh |-> NoSsh, dests |-> {}, hashes |-> <<>>, docs |-> <<>>,
   loaders |-> Processes, faults |-> MaxFaults]

\* One process, and nothing fails: for worlds in which only the input matters.
Single(w) == [w EXCEPT !.loaders = {CHOOSE p \in Processes : TRUE}, !.faults = 0]

\* Files that import one another in every way, the global file among them.
Files ==
  LET T(n) == Def("task", n, {})
      lines(n, s) == [i \in DOMAIN s |-> Import(s[i])] \o <<T(n), Def("watcher", n, {<<"task", n>>})>>
      some == {<<>>, <<"a">>, <<"b">>, <<"a", "b">>, <<"d">>, <<"local">>, <<"b", "d">>}
  IN  {[Base EXCEPT
          !.global = IF w.global THEN "global" ELSE Empty,
          !.docs = "local" :> <<lines("l", w.l) \o <<Def("pipeline", "p", {<<"task", w.t>>})>> >> @@
                   "a" :> <<lines("a", w.a)>> @@ "b" :> <<lines(w.clash, w.b)>> @@
                   "global" :> <<<<Import("a"), T("l"), Def("context", "c", {})>>>>] :
         w \in [global : BOOLEAN, l : some, a : some, b : {<<>>, <<"a">>, <<"d">>, <<"missing">>},
                t : {"l", "a"}, clash : {"a", "b"}]}

\* The global file imports the local one, which is loaded again.
Twice ==
  {[Base EXCEPT
      !.global = "global",
      !.docs = "global" :> <<<<Import("local"), Import("b"), Def("task", "g", {})>>>> @@
               "local" :> <<<<Import(i), Import("d"), Def("task", "l", {})>>>> @@
               "a" :> <<<<Def("task", "a", {})>>>> @@ "b" :> <<<<Import("global"), Def("task", b, {})>>>>] :
     i \in {"a", "b", "global"}, b \in {"b", "l"}}

\* A remote config of two versions, one of them bad, which may have an
\* import of a file, and a task that needs a context.
Remotes ==
  LET body(extra) == <<Def("task", "t", {<<"context", "c">>})>> \o extra IN
  {[Base EXCEPT
      !.absolute = absolute,
      !.docs = "local" :> <<<<Import("u"), Def("context", c, {})>>>> @@
               "u" :> <<one, <<Def("task", "v", {}), Def("task", "t", {})>>>> @@
               "a" :> <<<<Def("task", "a", {})>>>>] :
     one \in {body(<<>>), body(<<Import("a")>>), <<Garbage>>, <<>>}, c \in {"c", "x"},
     absolute \in {{}, {"a"}}}

\* Files written by imports; the hash is that of the second version.  Other
\* imports may have their Src or their Dest.
Written ==
  LET one == <<Def("task", "1", {}), Def("task", "2", {})>>
      two == <<Def("task", "3", {})>>
      doc == {<<f, File("a", "copy", Empty)>> :
                f \in {File("u", d, h) : d \in {"out", "outside"}, h \in {Empty, "h", "bad"}}}
  IN  {[Base EXCEPT
          !.dests = {"out", "copy"}, !.hashes = "h" :> two,
          !.docs = "local" :> <<lines>> @@ "u" :> <<one, two>> @@ "a" :> <<two>>] :
         lines \in doc \cup {<<Import("u"), File("u", "out", "h")>>, <<File("u", "out", "h"), Import("u")>>,
                            <<File("u", "out", "h"), File("a", "out", Empty)>>}}

\* Git over ssh.
Args == [flag : {"o"}, key : {"userknownhostsfile"}, value : {"U"}] \cup
        [flag : {"o"}, key : {"stricthostkeychecking"}, value : {"no", "yes"}] \cup
        [flag : {"o"}, key : {"systemknownhostsfile"}, value : {"S"}] \cup
        [flag : {"x"}, key : {""}, value : {""}] \cup
        [flag : {"i"}, key : {""}, value : {"id"}] \cup [flag : {"F"}, key : {""}, value : {"other"}]

Commands == {<<>>} \cup {<<a>> : a \in Args} \cup
            {<<a, b>> : a \in {a \in Args : a.flag = "x"}, b \in Args} \cup
            {<<a, b>> : a, b \in {a \in Args : a.key = "stricthostkeychecking"}}

Node(key, values) == [key |-> key, include |-> FALSE, values |-> values]

Include(key, quoted) ==
  [key |-> key, include |-> TRUE,
   values |-> <<[quoted |-> quoted, fields |-> <<"V", "W">>, literal |-> "V W"]>>]

Hosts ==
  {<<[matches |-> FALSE, nodes |-> <<Node("stricthostkeychecking", <<"no">>)>>],
     [matches |-> TRUE, nodes |-> nodes]>> :
     nodes \in {<<>>, <<Node("userknownhostsfile", <<"V">>), Node("port", <<"2222">>)>>,
                <<Include("userknownhostsfile", TRUE)>>, <<Include("globalknownhostsfile", FALSE)>>,
                <<Node("stricthostkeychecking", <<"no">>), Node("identityfile", <<"id">>)>>}}

Repos ==
  {[hashes |-> "h1" :> 1, tags |-> tags, heads |-> "main" :> 2, remotes |-> "main" :> 2 @@ "dev" :> 1, head |-> 2] :
     tags \in {<<>>, "dev" :> 2}}

Git(proto, ref, repo) == "g" :> [proto |-> proto, host |-> "h", ref |-> ref, repo |-> repo]

GitDocs ==
  "local" :> <<<<Import("g"), Def("task", "l", {})>>>> @@
  "g" :> <<<<Def("task", "one", {})>>, <<Def("task", "two", {})>>>>

Refs ==
  {[Base EXCEPT !.docs = GitDocs, !.git = Git(proto, ref, repo)] :
     proto \in {"http", "file", "ftp"}, ref \in {Empty, "dev", "main", "h1", "none"}, repo \in Repos}

Ssh ==
  {[Base EXCEPT
      !.docs = GitDocs, !.git = Git("ssh", Empty, CHOOSE r \in Repos : TRUE),
      !.ssh  = [exists |-> there \cup {"~/.ssh/config", "other", "~/.ssh/id_ed25519", "~/.ssh/known_hosts"},
                knows  |-> {k}, command |-> c,
                config |-> "~/.ssh/config" :> hosts @@ "other" :> <<>>, keyFits |-> TRUE]] :
     there \in {{}, {"U"}, {"U", "V", "S", "id"}, {"V", "W"}, {"V W", "V", "W"}},
     k \in {"U", "V", "S", "~/.ssh/known_hosts"}, c \in Commands, hosts \in Hosts}

\* Machines without an ssh configuration, or with one that is of no use.
Bare ==
  {[Base EXCEPT
      !.docs = GitDocs, !.git = Git("ssh", Empty, CHOOSE r \in Repos : TRUE),
      !.ssh  = [exists |-> there, knows |-> there, command |-> <<>>, config |-> <<>>, keyFits |-> fits]] :
     there \in {{}, {"~/.ssh/id_rsa"}, {"~/.ssh/id_rsa", "/etc/ssh/ssh_known_hosts2"}, {"/etc/ssh/ssh_config"}},
     fits \in BOOLEAN}

MCWorlds ==
  UNION {CASE f = "files" -> {Single(w) : w \in Files \cup Twice} [] f = "remotes" -> Remotes [] f = "written" -> Written
           [] f = "git" -> {Single(w) : w \in Refs \cup Ssh \cup Bare} : f \in MCFamilies}
=============================================================================
