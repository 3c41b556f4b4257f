----------------------------- MODULE GitSource ------------------------------
(***************************************************************************)
(* A git import (internal/config/loader_git.go): how the ssh connection is *)
(* configured, which host-key files are trusted, and which commit a ref    *)
(* names.  What the machine has is a record env:                           *)
(*   exists   the files that can be read                                   *)
(*   knows    those of them that hold the key of the host                  *)
(*   command  the flags of GIT_SSH_COMMAND; "x" is a flag pflag rejects    *)
(*   config   the hosts of every ssh config file that decodes              *)
(*   keyFits  the identity can be parsed, with the passphrase if one is set*)
(* Names of options are lower case: the code compares them without case.   *)
(***************************************************************************)
EXTENDS Integers, Sequences, SequencesExt, FiniteSets

Empty == ""

ConfigDefaults == <<"~/.ssh/config", "/etc/ssh/ssh_config">>

IdentityDefaults == <<"~/.ssh/id_rsa", "~/.ssh/id_ed25519">>

UserHostsDefaults == <<"~/.ssh/known_hosts", "~/.ssh/known_hosts2">>

SystemHostsDefaults == <<"/etc/ssh/ssh_known_hosts", "/etc/ssh/ssh_known_hosts2">>

FirstOf(s, default) == IF s = <<>> THEN default ELSE Head(s)

LastOf(s, default) == IF s = <<>> THEN default ELSE Last(s)

Existing(env, s) == SelectSeq(s, LAMBDA f : f \in env.exists)

parseDefaultSshConfigFilePaths(env) ==
  [config   |-> FirstOf(Existing(env, ConfigDefaults), Empty),
   identity |-> FirstOf(Existing(env, IdentityDefaults), Empty)]

Values(s) == [i \in DOMAIN s |-> s[i].value]

\* All values of an option, whatever pflag makes of the flags.
sshOptionValues(args, keys) == Values(SelectSeq(args, LAMBDA a : a.flag = "o" /\ a.key \in keys))

(***************************************************************************)
(* pflag stops at a flag it does not know and keeps the last value of a    *)
(* flag; its error is dropped.                                             *)
(***************************************************************************)
parseGitSshCommandEnv(args) ==
  LET bad      == SelectInSeq(args, LAMBDA a : a.flag = "x")
      seen     == IF bad = 0 THEN args ELSE SubSeq(args, 1, bad - 1)
      flag(f)  == LastOf(Values(SelectSeq(seen, LAMBDA a : a.flag = f)), Empty)
      opt(key) == LastOf(sshOptionValues(seen, {key}), Empty)
  IN  [identity |-> flag("i"), config |-> flag("F"), host |-> opt("hostname"), port |-> opt("port"),
       strict   |-> opt("stricthostkeychecking"),
       login    |-> Empty,
       user     |-> sshOptionValues(args, {"userknownhostsfile"}),
       system   |-> sshOptionValues(args, {"globalknownhostsfile", "systemknownhostsfile"})]

(***************************************************************************)
(* The hosts of a config file: matches, and its nodes, each a directive    *)
(* with its paths or an include.  Quoted values keep their boundaries; of  *)
(* the others what exists decides.                                         *)
(***************************************************************************)
splitIncludedSSHConfigPaths(env, v) ==
  LET fieldsExist == \A f \in Range(v.fields) : f \in env.exists
      one == <<v.literal>>
  IN  CASE v.quoted -> [err |-> FALSE, paths |-> v.fields]
        [] ~v.quoted /\ Len(v.fields) < 2 -> [err |-> FALSE, paths |-> one]
        [] OTHER -> [err |-> fieldsExist /\ v.literal \in env.exists,
                     paths |-> IF fieldsExist THEN v.fields ELSE one]

sshConfigNodePathValues(env, node, option) ==
  CASE node.include -> LET all == [i \in DOMAIN node.values |-> splitIncludedSSHConfigPaths(env, node.values[i])]
                       IN  IF node.key = option THEN all ELSE <<>>
    [] ~node.include /\ node.key = option -> <<[err |-> FALSE, paths |-> node.values]>>
    [] OTHER -> <<>>

sshConfigPathValues(env, hosts, option) ==
  LET nodes  == FlattenSeq([i \in DOMAIN hosts |-> IF hosts[i].matches THEN hosts[i].nodes ELSE <<>>])
      values == FlattenSeq([i \in DOMAIN nodes |-> sshConfigNodePathValues(env, nodes[i], option)])
  IN  [err   |-> \E i \in DOMAIN values : values[i].err,
       paths |-> FlattenSeq([i \in DOMAIN values |-> values[i].paths])]

\* Config.Get of the ssh_config library: the first value for the host.
Get(hosts, option) ==
  LET nodes == FlattenSeq([i \in DOMAIN hosts |-> IF hosts[i].matches THEN hosts[i].nodes ELSE <<>>])
      named == SelectSeq(nodes, LAMBDA n : n.key = option)
  IN  CASE named = <<>> -> Empty
        [] named # <<>> /\ named[1].include -> named[1].values[1].literal
        [] OTHER -> named[1].values[1]

setSSHConfigValue(value, hosts, option, default) ==
  CASE value # Empty -> value
    [] value = Empty /\ Get(hosts, option) # Empty -> Get(hosts, option)
    [] OTHER -> default

mergeSSHKnownHostsFile(env, paths, hosts, option) ==
  IF paths # <<>> THEN [err |-> FALSE, paths |-> paths] ELSE sshConfigPathValues(env, hosts, option)

processSSHConfig(env, hosts, conf, host) ==
  LET user   == mergeSSHKnownHostsFile(env, conf.user, hosts, "userknownhostsfile")
      system == mergeSSHKnownHostsFile(env, conf.system, hosts, "globalknownhostsfile")
  IN  [err |-> user.err \/ system.err,
       conf |-> [conf EXCEPT
         !.port     = setSSHConfigValue(@, hosts, "port", "22"),
         !.login    = setSSHConfigValue(@, hosts, "user", "git"),
         !.host     = setSSHConfigValue(@, hosts, "hostname", host),
         !.identity = setSSHConfigValue(@, hosts, "identityfile", Empty),
         !.user     = user.paths,
         !.system   = system.paths,
         !.strict   = setSSHConfigValue(@, hosts, "stricthostkeychecking", Empty)]]

validateConfiguredKnownHostsFiles(env, conf) == Range(conf.user) \cup Range(conf.system) \subseteq env.exists

knownHostsFiles(env, conf) ==
  env.exists \cap (Range(IF conf.user # <<>> THEN conf.user ELSE UserHostsDefaults) \cup
                   Range(IF conf.system # <<>> THEN conf.system ELSE SystemHostsDefaults))

NoCheck == [err |-> FALSE, check |-> FALSE, files |-> {}]

hostKeyCallback(env, conf) ==
  LET files == knownHostsFiles(env, conf) IN
  IF conf.strict = "no" THEN NoCheck
  ELSE [err   |-> ~validateConfiguredKnownHostsFiles(env, conf) \/ files = {},
        check |-> TRUE,
        files |-> files]

getGitSSHAuth(env, host) ==
  LET default  == parseDefaultSshConfigFilePaths(env)
      command  == parseGitSshCommandEnv(env.command)
      file     == IF command.config # Empty THEN command.config ELSE default.config
      hosts    == IF file # Empty /\ file \in DOMAIN env.config THEN env.config[file] ELSE <<>>
      merged   == processSSHConfig(env, hosts, command, host)
      identity == IF merged.conf.identity # Empty THEN merged.conf.identity ELSE default.identity
      callback == hostKeyCallback(env, merged.conf)
  IN  [err   |-> \/ file # Empty /\ (file \notin env.exists \/ file \notin DOMAIN env.config)
                 \/ merged.err
                 \/ identity \notin env.exists
                 \/ ~env.keyFits
                 \/ callback.err,
       conf  |-> [merged.conf EXCEPT !.identity = identity],
       check |-> callback.check,
       files |-> callback.files]

\* git.Clone: over ssh the host must present a key of one of the files.
Clones(env, auth) == ~auth.check \/ auth.files \cap env.knows # {}

(***************************************************************************)
(* ResolveRevision of go-git on a fresh clone: a hash, a tag, the branch   *)
(* that is checked out.  0 is no commit.                                   *)
(***************************************************************************)
Resolve(names, ref) == IF ref \in DOMAIN names THEN names[ref] ELSE 0

Or(c, other) == IF c # 0 THEN c ELSE other

ResolveRevision(repo, ref) ==
  Or(Resolve(repo.hashes, ref), Or(Resolve(repo.tags, ref), Resolve(repo.heads, ref)))

\* A tag or branch of no commit is an error: HEAD is for imports without a ref.
getCommit(repo, ref) ==
  IF ref = Empty THEN repo.head
  ELSE Or(ResolveRevision(repo, ref), Or(Resolve(repo.remotes, ref), Resolve(repo.hashes, ref)))

(***************************************************************************)
(* NewGitSource, Clone and File: the commit of the repository a source     *)
(* names, or 0.  The pattern has no other protocols.                       *)
(***************************************************************************)
CommitOf(env, src) ==
  LET auth == getGitSSHAuth(env, src.host) IN
  IF \/ src.proto \notin {"ssh", "http", "https", "file"}
     \/ src.proto = "ssh" /\ (auth.err \/ ~Clones(env, auth))
  THEN 0
  ELSE getCommit(src.repo, src.ref)
=============================================================================
