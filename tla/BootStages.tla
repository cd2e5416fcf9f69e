------------------------------ MODULE BootStages ------------------------------
(***************************************************************************)
(* One boot as the Kairos agent sees it: the provider turns the cluster     *)
(* section of the cloud-config into a list of yip stages (main.go and       *)
(* stages/), and yip executes them: it tests the `If`, writes the files and *)
(* runs the commands, going on after one that failed.  A command is a line  *)
(* of text; the shell splits it into words, and a script finds them in $1,  *)
(* $2, ..., so a value that is the empty string is no word at all unless it *)
(* is quoted.                                                               *)
(*                                                                         *)
(* What a script does is modelled elsewhere; here it is a need of files     *)
(* that other stages or scripts provide, and the values it receives.  The   *)
(* node may go down between two commands, and every boot may bring another  *)
(* configuration.  Left out: the commands that turn swap off, the contents  *)
(* of the files, and the difference between the two kubeadm APIs, which     *)
(* lead to the same stages.                                                 *)
(***************************************************************************)
EXTENDS Naturals, Sequences, FiniteSets

CONSTANTS
    Value,          \* what the user can write for a proxy, a list or an address
    WithServices    \* NO_PROXY as the provider computes it from that of the user

Empty == ""
Quotes == "''"

\* The list is never empty: the names of the services are always part of it.
ASSUME StageValues ==
    /\ Empty \notin Value /\ Quotes \notin Value
    /\ \A list \in {Empty} \cup Value : WithServices[list] \notin {Empty, Quotes}

\* The cluster section: the role, the proxy of cluster.env, the node-ip of the
\* kubelet, whether options carry a kubernetesVersion that can be parsed, and
\* (found on the disk) whether the directory of local images exists.
Cluster ==
    [role : {"init", "controlplane", "worker"},
     http : {Empty} \cup Value, https : {Empty} \cup Value, no : {Empty} \cup Value,
     ip : {Empty} \cup Value, version : BOOLEAN, images : BOOLEAN]

VARIABLES
    cluster,    \* the cluster section of this boot
    dead,       \* has the provider ended with logrus.Fatalf?
    todo,       \* the stages still to be executed
    cmds,       \* the commands left of the stage being executed
    files,      \* the files there are
    got         \* the script run last, with what it found in its parameters

vars == <<cluster, dead, todo, cmds, files, got>>

-------------------------------------------------------------------------------
(* Scripts: parameters, needs, results.                                     *)

Params ==
    [pre |-> <<"root">>,
     import |-> <<"path", "log">>,
     init |-> <<"root", "proxy", "http", "https", "no">>,
     join |-> <<"role", "root", "proxy", "http", "https", "no">>,
     post |-> <<"root">>,
     upgrade |-> <<"role", "root", "proxy", "http", "https", "no">>,
     reconfigure |->
         <<"role", "sans", "args", "root", "ip", "http", "https", "no">>]

\* The files a script reads, or executes, and cannot do without.
Needs(script, role) ==
    CASE script = "init" -> {"kubeadm.yaml", "import.sh+x"}
      [] script = "join" -> {"kubeadm.yaml", "import.sh+x"}
      [] script = "post" -> {"admin.conf"}
      [] script = "upgrade" ->
           {"sentinel_kubeadmversion"} \cup
           (IF role = "worker" THEN {"kubelet.conf"}
                               ELSE {"admin.conf", "cluster-config.yaml"})
      [] script = "reconfigure" ->
           {"kubeadm.yaml"} \cup
           (IF role = "worker" THEN {"kubelet.conf"}
              ELSE {"admin.conf", "cluster-config.yaml", "kubelet-config.yaml"})
      [] OTHER -> {}

\* The files a script that succeeds leaves behind.
Provides(script, role) ==
    CASE script = "pre" -> {"sentinel_kubeadmversion", "kubelet"}
      [] script \in {"init", "join"} ->
           IF role = "worker" THEN {"kubelet.conf"}
                              ELSE {"kubelet.conf", "admin.conf"}
      [] OTHER -> {}

-------------------------------------------------------------------------------
(* The stages the provider emits.                                           *)

IsProxyConfigured(c) == c.http # Empty \/ c.https # Empty

NoProxy(c) == WithServices[c.no]

\* Seeded fault: the node-ip is passed as it is.
PlainNodeIp(c) == c.ip

\* Quotes are what keep an absent node-ip a word of its own.
CustomNodeIp(c) == IF c.ip = Empty THEN Quotes ELSE c.ip

Run(script, words) == [script |-> script, words |-> words]
Touch(file) == [script |-> "touch", words |-> <<file>>]

\* The words of a call, with the proxy words only if a proxy is configured.
Call(c, script, words, flag) ==
    Run(script,
        IF IsProxyConfigured(c)
          THEN words \o flag \o <<c.http, c.https, NoProxy(c)>>
          ELSE words)

Stage(unless, writes, commands) ==
    [unless |-> unless, writes |-> writes, commands |-> commands]

Writes(fs) == Stage(Empty, fs, <<>>)
Always(command) == Stage(Empty, {}, <<command>>)

\* Seeded fault: the marker is set before the script is run.
TouchFirst(marker, command) == Stage(marker, {}, <<Touch(marker), command>>)

\* A script that is run until its marker says that it was.
Once(marker, command) == Stage(marker, {}, <<command, Touch(marker)>>)

\* main.go: the five stages every role starts with.  The last one does nothing
\* without its directory.
PreStages(c) ==
    <<Writes({"proxy env"}),
      Always(Run("pre", <<"root">>)),
      Stage(Empty, {}, <<>>),
      Stage(Empty, {}, <<Touch("import.sh+x"),
                         Run("import", <<"kube-images", "log">>)>>),
      Stage(Empty, {}, IF c.images
                         THEN <<Touch("import.sh+x"),
                                Run("import", <<"local images", "log">>)>>
                         ELSE <<>>)>>

UpgradeStage(c) == Always(Call(c, "upgrade", <<c.role, "root">>, <<"true">>))

ReconfigureStage(c) ==
    Always(Call(c, "reconfigure",
                <<c.role, "sans", "args", "root", CustomNodeIp(c)>>, <<>>))

InitStages(c) ==
    <<Writes({"kubeadm.yaml"}),
      Once("kubeadm.init", Call(c, "init", <<"root">>, <<"true">>)),
      Once("post-kubeadm.init", Run("post", <<"root">>)),
      Writes({"cluster-config.yaml"}),
      Writes({"kubelet-config.yaml"}),
      UpgradeStage(c),
      ReconfigureStage(c)>>

\* Seeded fault: the role test is dropped.
EveryRole(c) == TRUE

\* A worker gets neither cluster-config.yaml nor kubelet-config.yaml.
GetsClusterConfig(c) == c.role # "worker"

JoinStages(c) ==
    <<Writes({"kubeadm.yaml"}),
      Once("kubeadm.join", Call(c, "join", <<c.role, "root">>, <<"true">>))>>
    \o (IF GetsClusterConfig(c)
          THEN <<Writes({"cluster-config.yaml"}), Writes({"kubelet-config.yaml"})>>
          ELSE <<>>)
    \o <<UpgradeStage(c), ReconfigureStage(c)>>

\* clusterProvider, for a version that could be parsed.
Stages(c) ==
    PreStages(c) \o (IF c.role = "init" THEN InitStages(c) ELSE JoinStages(c))

-------------------------------------------------------------------------------
(* How yip and the shell execute them.                                      *)

\* What the shell makes of a line: words that are empty disappear, quotes go.
Kept(words) == {i \in 1..Len(words) : words[i] # Empty}
Unquoted(word) == IF word = Quotes THEN Empty ELSE word

\* $k is the kept word up to which k are kept, Empty beyond the last one.
Parameter(words, k) ==
    LET found == {i \in Kept(words) : Cardinality({j \in Kept(words) : j <= i}) = k}
    IN  IF found = {} THEN Empty ELSE Unquoted(words[CHOOSE i \in found : TRUE])

\* The value of each parameter of the script.
Bound(script, words) ==
    LET Number(p) == CHOOSE k \in 1..Len(Params[script]) : Params[script][k] = p
    IN  [p \in {Params[script][k] : k \in 1..Len(Params[script])} |->
            Parameter(words, Number(p))]

Nothing == [script |-> "none", params |-> <<>>]

\* The provider answers with a list of stages, or ends in logrus.Fatalf.
Provide(c) ==
    /\ cluster' = c
    /\ dead' = ~c.version
    /\ todo' = IF c.version THEN Stages(c) ELSE <<>>
    /\ cmds' = <<>>
    /\ got' = Nothing

\* The node was installed, with a role, and has not been booted.
Init ==
    /\ cluster \in {c \in Cluster :
           /\ c.http = Empty /\ c.https = Empty /\ c.no = Empty /\ c.ip = Empty
           /\ c.version /\ ~c.images}
    /\ dead = FALSE
    /\ todo = <<>>
    /\ cmds = <<>>
    /\ files = {}
    /\ got = Nothing

\* The `If` of a stage is looked at once, then its files are written.
BeginStage ==
    /\ cmds = <<>> /\ todo # <<>>
    /\ todo' = Tail(todo)
    /\ LET s == Head(todo) IN
       IF s.unless \in files
         THEN UNCHANGED <<files, cmds>>
         ELSE files' = files \cup s.writes /\ cmds' = s.commands
    /\ got' = Nothing
    /\ UNCHANGED <<cluster, dead>>

\* One command of the stage; the scripts are taken to succeed.
RunCommand ==
    /\ cmds # <<>>
    /\ cmds' = Tail(cmds)
    /\ LET c == Head(cmds) IN
       IF c.script = "touch"
         THEN files' = files \cup {c.words[1]} /\ got' = Nothing
         ELSE /\ files' = files \cup Provides(c.script, cluster.role)
              /\ got' = [script |-> c.script,
                         params |-> Bound(c.script, c.words)]
    /\ UNCHANGED <<cluster, dead, todo>>

\* The node is booted, for the first time, after the last stage or in the middle
\* of any; its role stays, the rest of the configuration may have been edited.
Boot ==
    /\ \E c \in Cluster : c.role = cluster.role /\ Provide(c)
    /\ UNCHANGED files

Next == BeginStage \/ RunCommand \/ Boot

Spec == Init /\ [][Next]_vars

-------------------------------------------------------------------------------
(* Safety.                                                                  *)

\* How many stages each role has, the five of getKubeadmPreStages included.
StageCount == [init |-> 12, controlplane |-> 11, worker |-> 9]

File ==
    {"proxy env", "kubeadm.yaml", "cluster-config.yaml", "kubelet-config.yaml",
     "import.sh+x", "kubeadm.init", "kubeadm.join", "post-kubeadm.init",
     "sentinel_kubeadmversion", "kubelet", "kubelet.conf", "admin.conf"}

Word ==
    Value \cup {WithServices[list] : list \in {Empty} \cup Value} \cup File \cup
    {Empty, Quotes, "init", "controlplane", "worker", "root", "sans", "args", "true",
     "kube-images", "local images", "log"}

Command == [script : DOMAIN Params \cup {"touch"}, words : Seq(Word)]
StageOf == [unless : {Empty} \cup File, writes : SUBSET File, commands : Seq(Command)]

TypeOK ==
    /\ cluster \in Cluster
    /\ dead \in BOOLEAN
    /\ todo \in Seq(StageOf) /\ cmds \in Seq(Command)
    /\ files \subseteq File
    /\ got.script \in DOMAIN Params \cup {"none"}
    /\ Len(todo) <= StageCount[cluster.role] /\ Len(cmds) <= 2

\* stages/init.go:45-53, stages/join.go:36-50.  Wherever earlier boots were cut
\* off, a script that is about to run finds every file that earlier stages, or
\* the scripts in them, were to leave for it.
ScriptsFindTheirFiles ==
    cmds # <<>> => Needs(Head(cmds).script, cluster.role) \subseteq files

\* What the scripts are meant to receive.
Meant(c) ==
    [role |-> c.role, root |-> "root", sans |-> "sans", args |-> "args",
     ip |-> c.ip, http |-> c.http, https |-> c.https,
     proxy |-> IF IsProxyConfigured(c) THEN "true" ELSE Empty,
     no |-> IF IsProxyConfigured(c) THEN NoProxy(c) ELSE Empty]

MeantFor(ps) ==
    got.script \notin {"none", "import"} =>
        \A p \in DOMAIN got.params \cap ps : got.params[p] = Meant(cluster)[p]

\* The proxy values, which come last.
Last == {"http", "https", "no"}

\* stages/init.go:90-163, stages/join.go:167-227 and the first lines of the
\* scripts.  Every script finds every value in the parameter it was meant for, with
\* a node-ip and without; of the proxy values this holds with both proxies set, or
\* none, and one that is missing moves no other value than these.
ParametersReachScripts ==
    /\ MeantFor(DOMAIN Meant(cluster) \ Last)
    /\ (cluster.http = Empty <=> cluster.https = Empty) => MeantFor(Last)

\* tests/integration/proxy_paths_test.go:52, "http_only_proxy_config": a cluster
\* with one of the two proxies is a configuration like the others.
AnyProxyReachesScripts == MeantFor(Last)

-------------------------------------------------------------------------------
(* What makes them inductive.                                               *)

\* The boot has executed all its stages, or the provider emitted none.
Over == todo = <<>> /\ cmds = <<>>

\* How many stages were begun, and which one is being executed.
Begun == Len(Stages(cluster)) - Len(todo)
Current == Stages(cluster)[Begun]
Done == Len(Current.commands) - Len(cmds)

\* What a command, and a stage that is over, leave behind for certain.
Left(command, role) ==
    IF command.script = "touch" THEN {command.words[1]}
                                ELSE Provides(command.script, role)

LeftBy(stage, role) ==
    stage.writes \cup UNION {Left(stage.commands[j], role) : j \in 1..Len(stage.commands)}

\* yip is somewhere in the list the provider made of this configuration.
ListTrail ==
    ~Over =>
        /\ todo = SubSeq(Stages(cluster), Begun + 1, Len(Stages(cluster)))
        /\ Begun >= 0
        /\ cmds # <<>> =>
               /\ Begun > 0 /\ Done >= 0
               /\ cmds = SubSeq(Current.commands, Done + 1, Len(Current.commands))

\* What the stages of this boot have left so far, executed or skipped.
FilesTrail ==
    /\ ~Over => \A k \in 1..Begun :
           k < Begun \/ cmds = <<>> => LeftBy(Stages(cluster)[k], cluster.role) \subseteq files
    /\ cmds # <<>> =>
           /\ Current.writes \subseteq files
           /\ \A j \in 1..Done : Left(Current.commands[j], cluster.role) \subseteq files

\* A marker, which later boots skip a script for, stands for what the script leaves.
MarkersHold ==
    /\ "kubeadm.init" \in files => Provides("init", cluster.role) \subseteq files
    /\ "kubeadm.join" \in files => Provides("join", cluster.role) \subseteq files

SInv ==
    /\ TypeOK /\ ListTrail /\ FilesTrail /\ MarkersHold
    /\ ParametersReachScripts
===============================================================================
