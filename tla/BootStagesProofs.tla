---------------------------- MODULE BootStagesProofs ----------------------------
(***************************************************************************)
(* Theorems about BootStages, for every set of values.  First what the      *)
(* shell makes of a line, then what the list of stages of each role is, then *)
(* the execution of that list by yip.                                       *)
(***************************************************************************)
EXTENDS BootStages, FiniteSetTheorems, SequenceTheorems, TLAPS

USE StageValues

-------------------------------------------------------------------------------
(* Words and parameters.                                                    *)

LEMMA CountOfAll ==
    ASSUME NEW n \in Nat
    PROVE  IsFiniteSet(1..n) /\ Cardinality(1..n) = n
<1>1. IsFiniteSet(1..n) /\ Cardinality(1..n) = IF 1 > n THEN 0 ELSE n - 1 + 1
  BY FS_Interval
<1> QED
  BY <1>1

LEMMA CountOfSome ==
    ASSUME NEW n \in Nat, NEW T \in SUBSET (1..n)
    PROVE  Cardinality(T) \in Nat /\ Cardinality(T) <= n
<1>1. IsFiniteSet(1..n) /\ Cardinality(1..n) = n
  BY CountOfAll
<1>2. IsFiniteSet(T) /\ Cardinality(T) <= n
  BY <1>1, FS_Subset
<1>3. Cardinality(T) \in Nat
  BY <1>2, FS_CardinalityType
<1> QED
  BY <1>2, <1>3

\* Up to the first word that is empty, every word is the parameter of its number.
LEMMA WordIsParameter ==
    ASSUME NEW W, NEW words \in Seq(W), NEW k \in 1..Len(words),
           \A j \in 1..k : words[j] # Empty
    PROVE  Parameter(words, k) = Unquoted(words[k])
<1> DEFINE Upto(i) == {j \in Kept(words) : j <= i}
           found == {i \in Kept(words) : Cardinality(Upto(i)) = k}
<1>1. Len(words) \in Nat /\ k \in Nat /\ Kept(words) \subseteq 1..Len(words)
  BY LenProperties DEF Kept
<1>2. \A i \in 1..k : i \in Kept(words) /\ Upto(i) = 1..i
  BY <1>1 DEF Kept
<1>3. ASSUME NEW i \in 1..k PROVE Cardinality(Upto(i)) = i
  <2>1. i \in Nat /\ Upto(i) = 1..i
    BY <1>1, <1>2
  <2> QED
    BY <2>1, CountOfAll
<1>4. ASSUME NEW i \in Kept(words), i > k PROVE Cardinality(Upto(i)) # k
  <2>1. i \in Nat /\ Upto(i) \in SUBSET (1..i)
    BY <1>1
  <2>2. IsFiniteSet(Upto(i))
    BY <2>1, CountOfAll, FS_Subset
  <2>3. 1..k \in SUBSET Upto(i) /\ i \in Upto(i) /\ i \notin 1..k
    BY <1>1, <1>2, <1>4
  <2>4. Cardinality(Upto(i)) = Cardinality(1..k) => Upto(i) = 1..k
    BY <2>2, <2>3, FS_Subset
  <2>5. Cardinality(1..k) = k
    BY <1>1, CountOfAll
  <2> QED
    BY <2>3, <2>4, <2>5
<1>5. \A i \in Kept(words) : Cardinality(Upto(i)) = k <=> i = k
  <2> SUFFICES ASSUME NEW i \in Kept(words) PROVE Cardinality(Upto(i)) = k <=> i = k
    OBVIOUS
  <2>1. i \in 1..k \/ i > k
    BY <1>1
  <2> HIDE DEF Upto
  <2> QED
    BY <1>1, <1>3, <1>4, <2>1
<1>6. found = {k}
  BY <1>1, <1>2, <1>5
<1> QED
  BY <1>6 DEF Parameter

\* There are no more parameters than words.
LEMMA NoWordNoParameter ==
    ASSUME NEW W, NEW words \in Seq(W), NEW k \in Nat, k > Len(words)
    PROVE  Parameter(words, k) = Empty
<1> DEFINE Upto(i) == {j \in Kept(words) : j <= i}
<1>1. Len(words) \in Nat /\ Kept(words) \subseteq 1..Len(words)
  BY LenProperties DEF Kept
<1>2. ASSUME NEW i \in Kept(words) PROVE Cardinality(Upto(i)) # k
  <2>1. Upto(i) \in SUBSET (1..Len(words))
    BY <1>1
  <2>2. Cardinality(Upto(i)) \in Nat /\ Cardinality(Upto(i)) <= Len(words)
    BY <1>1, <2>1, CountOfSome
  <2> HIDE DEF Upto
  <2> QED
    BY <1>1, <2>2
<1>3. {i \in Kept(words) : Cardinality(Upto(i)) = k} = {}
  BY <1>2
<1> QED
  BY <1>3 DEF Parameter

\* No script has two parameters of one name.
LEMMA ParametersAreDistinct ==
    ASSUME NEW s \in DOMAIN Params, NEW i \in 1..Len(Params[s]), NEW j \in 1..Len(Params[s]),
           Params[s][i] = Params[s][j]
    PROVE  i = j
<1>1. CASE s = "pre"
  BY <1>1 DEF Params
<1>2. CASE s = "import"
  BY <1>2 DEF Params
<1>3. CASE s = "init"
  BY <1>3 DEF Params
<1>4. CASE s = "join"
  BY <1>4 DEF Params
<1>5. CASE s = "post"
  BY <1>5 DEF Params
<1>6. CASE s = "upgrade"
  BY <1>6 DEF Params
<1>7. CASE s = "reconfigure"
  BY <1>7 DEF Params
<1> QED
  BY <1>1, <1>2, <1>3, <1>4, <1>5, <1>6, <1>7 DEF Params

\* A script finds in a name what the shell has for its number.
LEMMA NameIsNumber ==
    ASSUME NEW s \in DOMAIN Params, NEW words, NEW i \in 1..Len(Params[s])
    PROVE  Bound(s, words)[Params[s][i]] = Parameter(words, i)
<1>1. (CHOOSE k \in 1..Len(Params[s]) : Params[s][k] = Params[s][i]) = i
  BY ParametersAreDistinct
<1> QED
  BY <1>1 DEF Bound

-------------------------------------------------------------------------------
(* The list of stages of each role.                                         *)

LEMMA Tuples ==
    ASSUME NEW S, NEW a \in S, NEW b \in S, NEW c \in S, NEW d \in S, NEW e \in S
    PROVE  /\ <<>> \in Seq(S) /\ <<a>> \in Seq(S) /\ <<a, b>> \in Seq(S)
           /\ <<a, b, c, d, e>> \in Seq(S) /\ Len(<<a, b, c, d, e>>) = 5
OBVIOUS

LEMMA CommandTypes ==
    /\ \A script \in DOMAIN Params, words \in Seq(Word) : Run(script, words) \in Command
    /\ \A file \in File : Touch(file) \in Command
<1>1. \A script \in DOMAIN Params, words \in Seq(Word) : Run(script, words) \in Command
  BY DEF Run, Command
<1>2. ASSUME NEW file \in File PROVE Touch(file) \in Command
  <2>1. file \in Word
    BY DEF Word
  <2>2. <<file>> \in Seq(Word)
    BY <2>1
  <2> QED
    BY <2>2 DEF Touch, Command
<1> QED
  BY <1>1, <1>2

LEMMA StageTypes ==
    /\ \A fs \in SUBSET File : Writes(fs) \in StageOf
    /\ \A c \in Command : Always(c) \in StageOf
    /\ \A m \in File, c \in Command : Once(m, c) \in StageOf
    /\ \A cs \in Seq(Command) : Stage(Empty, {}, cs) \in StageOf
<1> USE DEF Stage, StageOf
<1>1. \A fs \in SUBSET File : Writes(fs) \in StageOf
  <2>1. <<>> \in Seq(Command)
    OBVIOUS
  <2> QED
    BY <2>1 DEF Writes
<1>2. ASSUME NEW c \in Command PROVE Always(c) \in StageOf
  <2>1. <<c>> \in Seq(Command)
    OBVIOUS
  <2> QED
    BY <2>1 DEF Always
<1>3. ASSUME NEW m \in File, NEW c \in Command PROVE Once(m, c) \in StageOf
  <2>1. Touch(m) \in Command
    BY CommandTypes
  <2>2. <<c, Touch(m)>> \in Seq(Command)
    BY <2>1
  <2> QED
    BY <2>2 DEF Once
<1>4. \A cs \in Seq(Command) : Stage(Empty, {}, cs) \in StageOf
  OBVIOUS
<1> QED
  BY <1>1, <1>2, <1>3, <1>4

LEMMA CallTypes ==
    ASSUME NEW c \in Cluster, NEW script \in DOMAIN Params,
           NEW words \in Seq(Word), NEW flag \in Seq(Word)
    PROVE  Call(c, script, words, flag) \in Command
<1>1. c.http \in Word /\ c.https \in Word /\ NoProxy(c) \in Word
  BY DEF Cluster, Word, NoProxy
<1>2. <<c.http, c.https, NoProxy(c)>> \in Seq(Word)
  BY <1>1
<1>3. words \o flag \o <<c.http, c.https, NoProxy(c)>> \in Seq(Word)
  BY <1>2, ConcatProperties
<1> QED
  BY <1>3, CommandTypes DEF Call

\* The words and names the stages are put together from.
LEMMA Words ==
    /\ {"root", "sans", "args", "true", "kube-images", "local images", "log"} \subseteq Word
    /\ \A c \in Cluster : c.role \in Word /\ CustomNodeIp(c) \in Word
BY DEF Cluster, CustomNodeIp, Word

\* The stage that imports the images of a directory.
ImportStage(directory) ==
    Stage(Empty, {}, <<Touch("import.sh+x"), Run("import", <<directory, "log">>)>>)

LEMMA PreStageTypes ==
    ASSUME NEW c \in Cluster
    PROVE  PreStages(c) \in Seq(StageOf) /\ Len(PreStages(c)) = 5
<1>1. Writes({"proxy env"}) \in StageOf
  BY StageTypes DEF File
<1>2. Always(Run("pre", <<"root">>)) \in StageOf
  <2>1. "root" \in Word
    BY Words
  <2>2. <<"root">> \in Seq(Word)
    BY <2>1
  <2> QED
    BY <2>2, CommandTypes, StageTypes DEF Params
<1>3. ASSUME NEW w \in {"kube-images", "local images"} PROVE ImportStage(w) \in StageOf
  <2>1. w \in Word /\ "log" \in Word
    BY Words
  <2>2. <<w, "log">> \in Seq(Word)
    BY <2>1, Tuples
  <2>3. Touch("import.sh+x") \in Command /\ Run("import", <<w, "log">>) \in Command
    BY <2>2, CommandTypes DEF Params, File
  <2>4. <<Touch("import.sh+x"), Run("import", <<w, "log">>)>> \in Seq(Command)
    BY <2>3, Tuples
  <2> QED
    BY <2>4, StageTypes DEF ImportStage
<1>4. Stage(Empty, {}, <<>>) \in StageOf
  <2>1. <<>> \in Seq(Command)
    OBVIOUS
  <2> QED
    BY <2>1, StageTypes
<1>5. PreStages(c) =
          <<Writes({"proxy env"}), Always(Run("pre", <<"root">>)), Stage(Empty, {}, <<>>),
            ImportStage("kube-images"),
            IF c.images THEN ImportStage("local images") ELSE Stage(Empty, {}, <<>>)>>
  BY DEF PreStages, ImportStage
<1> DEFINE proxy == Writes({"proxy env"})
           pre == Always(Run("pre", <<"root">>))
           nothing == Stage(Empty, {}, <<>>)
           images == ImportStage("kube-images")
           local == IF c.images THEN ImportStage("local images") ELSE Stage(Empty, {}, <<>>)
<1>6. /\ proxy \in StageOf /\ pre \in StageOf /\ nothing \in StageOf
      /\ images \in StageOf /\ local \in StageOf
  BY <1>1, <1>2, <1>3, <1>4
<1>7. PreStages(c) = <<proxy, pre, nothing, images, local>>
  BY <1>5
<1> HIDE DEF proxy, pre, nothing, images, local
<1>8. /\ <<proxy, pre, nothing, images, local>> \in Seq(StageOf)
      /\ Len(<<proxy, pre, nothing, images, local>>) = 5
  BY <1>6, Tuples
<1> QED
  BY <1>7, <1>8

LEMMA LastStageTypes ==
    ASSUME NEW c \in Cluster
    PROVE  UpgradeStage(c) \in StageOf /\ ReconfigureStage(c) \in StageOf
<1>1. UpgradeStage(c) \in StageOf
  <2>1. c.role \in Word /\ "root" \in Word /\ "true" \in Word
    BY Words
  <2>2. <<c.role, "root">> \in Seq(Word) /\ <<"true">> \in Seq(Word)
    BY <2>1
  <2> QED
    BY <2>2, CallTypes, StageTypes DEF UpgradeStage, Params
<1>2. ReconfigureStage(c) \in StageOf
  <2>1. {c.role, "sans", "args", "root", CustomNodeIp(c)} \subseteq Word
    BY Words
  <2>2. <<c.role, "sans", "args", "root", CustomNodeIp(c)>> \in Seq(Word)
    BY <2>1
  <2>3. <<>> \in Seq(Word)
    OBVIOUS
  <2> QED
    BY <2>2, <2>3, CallTypes, StageTypes DEF ReconfigureStage, Params
<1> QED
  BY <1>1, <1>2

\* The stage of kube-init.sh or kube-join.sh.
BootstrapStage(c) ==
    IF c.role = "init"
      THEN Once("kubeadm.init", Call(c, "init", <<"root">>, <<"true">>))
      ELSE Once("kubeadm.join", Call(c, "join", <<c.role, "root">>, <<"true">>))

PostStage == Once("post-kubeadm.init", Run("post", <<"root">>))

LEMMA BootstrapStageTypes ==
    ASSUME NEW c \in Cluster
    PROVE  /\ BootstrapStage(c) \in StageOf /\ PostStage \in StageOf
           /\ \A f \in {"kubeadm.yaml", "cluster-config.yaml", "kubelet-config.yaml"} :
                  Writes({f}) \in StageOf
<1>1. c.role \in Word /\ "root" \in Word /\ "true" \in Word
  BY Words
<1>2. <<"root">> \in Seq(Word) /\ <<"true">> \in Seq(Word) /\ <<c.role, "root">> \in Seq(Word)
  BY <1>1, Tuples
<1>3. /\ Call(c, "init", <<"root">>, <<"true">>) \in Command
      /\ Call(c, "join", <<c.role, "root">>, <<"true">>) \in Command
      /\ Run("post", <<"root">>) \in Command
  BY <1>2, CallTypes, CommandTypes DEF Params
<1>4. BootstrapStage(c) \in StageOf /\ PostStage \in StageOf
  BY <1>3, StageTypes DEF BootstrapStage, PostStage, File
<1>5. \A f \in {"kubeadm.yaml", "cluster-config.yaml", "kubelet-config.yaml"} :
          Writes({f}) \in StageOf
  BY StageTypes DEF File
<1> QED
  BY <1>4, <1>5

\* What follows the stages of getKubeadmPreStages.
Later(c) == IF c.role = "init" THEN InitStages(c) ELSE JoinStages(c)

LEMMA FiveAndMore ==
    ASSUME NEW S, NEW t \in Seq(S), NEW u \in Seq(S), Len(t) = 5
    PROVE  /\ t \o u \in Seq(S) /\ Len(t \o u) = 5 + Len(u)
           /\ \A i \in 1..5 : (t \o u)[i] = t[i]
           /\ \A i \in 1..Len(u) : (t \o u)[i + 5] = u[i]
<1> DEFINE v == t \o u
<1>1. Len(u) \in Nat
  OBVIOUS
<1>2. /\ v \in Seq(S) /\ Len(v) = 5 + Len(u)
      /\ \A i \in 1..(5 + Len(u)) : v[i] = IF i <= 5 THEN t[i] ELSE u[i - 5]
  <2>1. v \in Seq(S)
    OBVIOUS
  <2>2. Len(v) = Len(t) + Len(u)
    BY ConcatProperties, Zenon
  <2>3. \A i \in 1..(Len(t) + Len(u)) : v[i] = IF i <= Len(t) THEN t[i] ELSE u[i - Len(t)]
    BY ConcatProperties, Zenon
  <2> QED
    BY <2>1, <2>2, <2>3
<1> HIDE DEF v
<1>3. ASSUME NEW i \in 1..Len(u) PROVE v[i + 5] = u[i]
  <2>1. i + 5 \in 1..(5 + Len(u)) /\ ~(i + 5 <= 5) /\ (i + 5) - 5 = i
    BY <1>1
  <2> QED
    BY <1>2, <2>1
<1>4. \A i \in 1..5 : v[i] = t[i]
  BY <1>1, <1>2
<1> QED
  BY <1>2, <1>3, <1>4 DEF v

LEMMA SevenStages ==
    ASSUME NEW S, NEW a \in S, NEW b \in S, NEW d \in S, NEW e \in S, NEW f \in S,
           NEW g \in S, NEW h \in S
    PROVE  LET t == <<a, b, d, e, f, g, h>> IN
           /\ t \in Seq(S) /\ Len(t) = 7
           /\ t[1] = a /\ t[2] = b /\ t[3] = d /\ t[4] = e /\ t[5] = f /\ t[6] = g /\ t[7] = h
OBVIOUS

LEMMA SixStages ==
    ASSUME NEW S, NEW a \in S, NEW b \in S, NEW d \in S, NEW e \in S, NEW f \in S, NEW g \in S
    PROVE  LET t == <<a, b>> \o <<d, e>> \o <<f, g>> IN
           /\ t \in Seq(S) /\ Len(t) = 6
           /\ t[1] = a /\ t[2] = b /\ t[3] = d /\ t[4] = e /\ t[5] = f /\ t[6] = g
OBVIOUS

LEMMA FourStages ==
    ASSUME NEW S, NEW a \in S, NEW b \in S, NEW f \in S, NEW g \in S
    PROVE  LET t == <<a, b>> \o <<>> \o <<f, g>> IN
           /\ t \in Seq(S) /\ Len(t) = 4
           /\ t[1] = a /\ t[2] = b /\ t[3] = f /\ t[4] = g
OBVIOUS

LEMMA LaterStages ==
    ASSUME NEW c \in Cluster
    PROVE  /\ Later(c) \in Seq(StageOf)
           /\ Later(c)[1] = Writes({"kubeadm.yaml"}) /\ Later(c)[2] = BootstrapStage(c)
           /\ c.role = "init" =>
                  /\ Len(Later(c)) = 7 /\ Later(c)[3] = PostStage
                  /\ Later(c)[4] = Writes({"cluster-config.yaml"})
                  /\ Later(c)[5] = Writes({"kubelet-config.yaml"})
                  /\ Later(c)[6] = UpgradeStage(c) /\ Later(c)[7] = ReconfigureStage(c)
           /\ c.role = "controlplane" =>
                  /\ Len(Later(c)) = 6
                  /\ Later(c)[3] = Writes({"cluster-config.yaml"})
                  /\ Later(c)[4] = Writes({"kubelet-config.yaml"})
                  /\ Later(c)[5] = UpgradeStage(c) /\ Later(c)[6] = ReconfigureStage(c)
           /\ c.role = "worker" =>
                  /\ Len(Later(c)) = 4
                  /\ Later(c)[3] = UpgradeStage(c) /\ Later(c)[4] = ReconfigureStage(c)
<1> DEFINE a == Writes({"kubeadm.yaml"})
           b == Writes({"cluster-config.yaml"})
           d == Writes({"kubelet-config.yaml"})
           f == UpgradeStage(c)
           g == ReconfigureStage(c)
           p == PostStage
           q == BootstrapStage(c)
<1>1. /\ a \in StageOf /\ b \in StageOf /\ d \in StageOf /\ f \in StageOf
      /\ g \in StageOf /\ p \in StageOf /\ q \in StageOf
  BY BootstrapStageTypes, LastStageTypes
<1>2. c.role = "init" => Later(c) = <<a, q, p, b, d, f, g>>
  BY DEF Later, InitStages, BootstrapStage, PostStage
<1>3. c.role = "controlplane" => Later(c) = <<a, q>> \o <<b, d>> \o <<f, g>>
  BY DEF Later, JoinStages, BootstrapStage, GetsClusterConfig
<1>4. c.role = "worker" => Later(c) = <<a, q>> \o <<>> \o <<f, g>>
  BY DEF Later, JoinStages, BootstrapStage, GetsClusterConfig
<1>5. c.role \in {"init", "controlplane", "worker"}
  BY DEF Cluster
<1> HIDE DEF a, b, d, f, g, p, q
<1>6. CASE c.role = "init"
  <2>1. Later(c) = <<a, q, p, b, d, f, g>>
    BY <1>2, <1>6
  <2>2. /\ Later(c) \in Seq(StageOf) /\ Len(Later(c)) = 7
        /\ Later(c)[1] = a /\ Later(c)[2] = q /\ Later(c)[3] = p /\ Later(c)[4] = b
        /\ Later(c)[5] = d /\ Later(c)[6] = f /\ Later(c)[7] = g
    BY <1>1, <2>1, SevenStages
  <2> QED
    BY <1>6, <2>2 DEF a, b, d, f, g, p, q
<1>7. CASE c.role = "controlplane"
  <2>1. Later(c) = <<a, q>> \o <<b, d>> \o <<f, g>>
    BY <1>3, <1>7
  <2>2. /\ Later(c) \in Seq(StageOf) /\ Len(Later(c)) = 6
        /\ Later(c)[1] = a /\ Later(c)[2] = q /\ Later(c)[3] = b /\ Later(c)[4] = d
        /\ Later(c)[5] = f /\ Later(c)[6] = g
    BY <1>1, <2>1, SixStages
  <2> QED
    BY <1>7, <2>2 DEF a, b, d, f, g, p, q
<1>8. CASE c.role = "worker"
  <2>1. Later(c) = <<a, q>> \o <<>> \o <<f, g>>
    BY <1>4, <1>8
  <2>2. /\ Later(c) \in Seq(StageOf) /\ Len(Later(c)) = 4
        /\ Later(c)[1] = a /\ Later(c)[2] = q /\ Later(c)[3] = f /\ Later(c)[4] = g
    BY <1>1, <2>1, FourStages
  <2> QED
    BY <1>8, <2>2 DEF a, b, d, f, g, p, q
<1> QED
  BY <1>5, <1>6, <1>7, <1>8

\* The whole list, stage by stage.
LEMMA List ==
    ASSUME NEW c \in Cluster
    PROVE  LET S == Stages(c) IN
           /\ S \in Seq(StageOf)
           /\ S[1] = Writes({"proxy env"}) /\ S[2] = Always(Run("pre", <<"root">>))
           /\ S[3] = Stage(Empty, {}, <<>>) /\ S[4] = ImportStage("kube-images")
           /\ S[5] \in {ImportStage("local images"), Stage(Empty, {}, <<>>)}
           /\ S[6] = Writes({"kubeadm.yaml"}) /\ S[7] = BootstrapStage(c)
           /\ c.role = "init" =>
                  /\ Len(S) = 12 /\ S[8] = PostStage
                  /\ S[9] = Writes({"cluster-config.yaml"})
                  /\ S[10] = Writes({"kubelet-config.yaml"})
                  /\ S[11] = UpgradeStage(c) /\ S[12] = ReconfigureStage(c)
           /\ c.role = "controlplane" =>
                  /\ Len(S) = 11
                  /\ S[8] = Writes({"cluster-config.yaml"})
                  /\ S[9] = Writes({"kubelet-config.yaml"})
                  /\ S[10] = UpgradeStage(c) /\ S[11] = ReconfigureStage(c)
           /\ c.role = "worker" =>
                  /\ Len(S) = 9
                  /\ S[8] = UpgradeStage(c) /\ S[9] = ReconfigureStage(c)
<1> DEFINE later == Later(c)
           pre == PreStages(c)
           S == Stages(c)
<1>1. pre \in Seq(StageOf) /\ Len(pre) = 5
  BY PreStageTypes
<1>2. later \in Seq(StageOf)
  BY LaterStages
<1>3. S = pre \o later
  BY DEF Stages, Later
<1>4. /\ pre[1] = Writes({"proxy env"}) /\ pre[2] = Always(Run("pre", <<"root">>))
      /\ pre[3] = Stage(Empty, {}, <<>>) /\ pre[4] = ImportStage("kube-images")
      /\ pre[5] \in {ImportStage("local images"), Stage(Empty, {}, <<>>)}
  BY DEF PreStages, ImportStage
<1>5. /\ S \in Seq(StageOf) /\ Len(S) = 5 + Len(later)
      /\ \A i \in 1..5 : S[i] = pre[i]
      /\ \A i \in 1..Len(later) : S[i + 5] = later[i]
  <2> HIDE DEF pre, later, S
  <2> QED
    BY <1>1, <1>2, <1>3, FiveAndMore
<1>6. /\ S[1] = pre[1] /\ S[2] = pre[2] /\ S[3] = pre[3] /\ S[4] = pre[4] /\ S[5] = pre[5]
  BY <1>5
<1>7. c.role \in {"init", "controlplane", "worker"}
  BY DEF Cluster
<1>8. CASE c.role = "init"
  <2>1. Len(later) = 7
    BY <1>8, LaterStages
  <2> HIDE DEF S, later
  <2>2. /\ Len(S) = 12 /\ S[6] = later[1] /\ S[7] = later[2] /\ S[8] = later[3]
        /\ S[9] = later[4] /\ S[10] = later[5] /\ S[11] = later[6] /\ S[12] = later[7]
    BY <1>5, <2>1
  <2> QED
    BY <1>4, <1>5, <1>6, <1>8, <2>2, LaterStages DEF S, later
<1>9. CASE c.role = "controlplane"
  <2>1. Len(later) = 6
    BY <1>9, LaterStages
  <2> HIDE DEF S, later
  <2>2. /\ Len(S) = 11 /\ S[6] = later[1] /\ S[7] = later[2] /\ S[8] = later[3]
        /\ S[9] = later[4] /\ S[10] = later[5] /\ S[11] = later[6]
    BY <1>5, <2>1
  <2> QED
    BY <1>4, <1>5, <1>6, <1>9, <2>2, LaterStages DEF S, later
<1>10. CASE c.role = "worker"
  <2>1. Len(later) = 4
    BY <1>10, LaterStages
  <2> HIDE DEF S, later
  <2>2. /\ Len(S) = 9 /\ S[6] = later[1] /\ S[7] = later[2] /\ S[8] = later[3]
        /\ S[9] = later[4]
    BY <1>5, <2>1
  <2> QED
    BY <1>4, <1>5, <1>6, <1>10, <2>2, LaterStages DEF S, later
<1> QED
  BY <1>7, <1>8, <1>9, <1>10

-------------------------------------------------------------------------------
(* What stages do and leave behind.                                         *)

LEMMA CommandFields ==
    /\ \A script, words : Run(script, words).script = script /\ Run(script, words).words = words
    /\ \A file : Touch(file).script = "touch" /\ Touch(file).words[1] = file
    /\ \A c, script, words, flag : Call(c, script, words, flag).script = script
BY DEF Run, Touch, Call

LEMMA WritesDoes ==
    ASSUME NEW fs, NEW role
    PROVE  /\ Writes(fs).unless = Empty /\ Writes(fs).writes = fs
           /\ Writes(fs).commands = <<>> /\ LeftBy(Writes(fs), role) = fs
BY DEF Writes, Stage, LeftBy

LEMMA NothingDoes ==
    ASSUME NEW role, NEW s, s = Stage(Empty, {}, <<>>)
    PROVE  s.unless = Empty /\ s.writes = {} /\ s.commands = <<>> /\ LeftBy(s, role) = {}
BY DEF Stage, LeftBy

LEMMA AlwaysDoes ==
    ASSUME NEW command, NEW role
    PROVE  LET s == Always(command) IN
           /\ s.unless = Empty /\ s.writes = {}
           /\ Len(s.commands) = 1 /\ s.commands[1] = command
           /\ LeftBy(s, role) = Left(command, role)
<1> DEFINE s == Always(command)
<1>1. s.unless = Empty /\ s.writes = {} /\ s.commands = <<command>>
  BY DEF Always, Stage
<1>2. Len(s.commands) = 1 /\ s.commands[1] = command
  BY <1>1
<1> HIDE DEF s
<1>3. LeftBy(s, role) = Left(command, role)
  BY <1>1, <1>2 DEF LeftBy
<1> QED
  BY <1>1, <1>2, <1>3 DEF s

LEMMA TwoCommandsDo ==
    ASSUME NEW unless, NEW a, NEW b, NEW role, NEW s, s = Stage(unless, {}, <<a, b>>)
    PROVE  /\ s.unless = unless /\ s.writes = {}
           /\ Len(s.commands) = 2 /\ s.commands[1] = a /\ s.commands[2] = b
           /\ LeftBy(s, role) = Left(a, role) \cup Left(b, role)
<1>1. s.unless = unless /\ s.writes = {} /\ s.commands = <<a, b>>
  BY DEF Stage
<1>2. Len(s.commands) = 2 /\ s.commands[1] = a /\ s.commands[2] = b
  BY <1>1
<1>3. LeftBy(s, role) = UNION {Left(s.commands[j], role) : j \in {1, 2}}
  BY <1>1, <1>2 DEF LeftBy
<1> QED
  BY <1>1, <1>2, <1>3

LEMMA OnceDoes ==
    ASSUME NEW marker, NEW command, NEW role
    PROVE  LET s == Once(marker, command) IN
           /\ s.unless = marker /\ s.writes = {}
           /\ Len(s.commands) = 2 /\ s.commands[1] = command /\ s.commands[2] = Touch(marker)
           /\ LeftBy(s, role) = Left(command, role) \cup {marker}
<1>1. Left(Touch(marker), role) = {marker}
  BY CommandFields DEF Left
<1> QED
  BY <1>1, TwoCommandsDo DEF Once

LEMMA ImportDoes ==
    ASSUME NEW directory, NEW role
    PROVE  LET s == ImportStage(directory) IN
           /\ s.unless = Empty /\ s.writes = {}
           /\ Len(s.commands) = 2 /\ s.commands[1] = Touch("import.sh+x")
           /\ s.commands[2] = Run("import", <<directory, "log">>)
           /\ LeftBy(s, role) = {"import.sh+x"}
<1>1. /\ Left(Touch("import.sh+x"), role) = {"import.sh+x"}
      /\ Left(Run("import", <<directory, "log">>), role) = {}
  BY CommandFields DEF Left, Provides
<1> QED
  BY <1>1, TwoCommandsDo DEF ImportStage

\* The kinds of stages there are.
Writing == {Writes({"proxy env"}), Writes({"kubeadm.yaml"}),
            Writes({"cluster-config.yaml"}), Writes({"kubelet-config.yaml"})}
Importing == {ImportStage("kube-images"), ImportStage("local images")}
Running(c) == {Always(Run("pre", <<"root">>)), UpgradeStage(c), ReconfigureStage(c)}

LEMMA WritingDoes ==
    ASSUME NEW s \in Writing
    PROVE  /\ s.unless = Empty /\ s.commands = <<>>
           /\ "kubeadm.init" \notin s.writes /\ "kubeadm.join" \notin s.writes
<1>1. PICK fs \in {{"proxy env"}, {"kubeadm.yaml"}, {"cluster-config.yaml"},
                   {"kubelet-config.yaml"}} : s = Writes(fs)
  BY DEF Writing
<1>2. s.unless = Empty /\ s.commands = <<>> /\ s.writes = fs
  BY <1>1, WritesDoes
<1> QED
  BY <1>2

LEMMA ImportingDoes ==
    ASSUME NEW s \in Importing
    PROVE  /\ s.unless = Empty /\ s.writes = {} /\ Len(s.commands) = 2
           /\ s.commands[1].script = "touch" /\ s.commands[1].words[1] = "import.sh+x"
           /\ s.commands[2].script = "import"
<1>1. PICK directory : s = ImportStage(directory)
  BY DEF Importing
<1>2. /\ s.unless = Empty /\ s.writes = {} /\ Len(s.commands) = 2
      /\ s.commands[1] = Touch("import.sh+x")
      /\ s.commands[2] = Run("import", <<directory, "log">>)
  BY <1>1, ImportDoes
<1> QED
  BY <1>2, CommandFields

LEMMA RunningDoes ==
    ASSUME NEW c, NEW s \in Running(c)
    PROVE  /\ s.unless = Empty /\ s.writes = {} /\ Len(s.commands) = 1
           /\ s.commands[1].script \in {"pre", "upgrade", "reconfigure"}
<1>1. PICK command : s = Always(command) /\ command.script \in {"pre", "upgrade", "reconfigure"}
  BY CommandFields DEF Running, UpgradeStage, ReconfigureStage
<1>2. s.unless = Empty /\ s.writes = {} /\ Len(s.commands) = 1 /\ s.commands[1] = command
  BY <1>1, AlwaysDoes
<1> QED
  BY <1>1, <1>2

\* The order of the list, as far as it matters to the scripts.
LEMMA Order ==
    ASSUME NEW c \in Cluster, NEW k \in 1..Len(Stages(c))
    PROVE  LET s == Stages(c)[k] IN
           \/ s \in Writing \cup Importing \cup {Always(Run("pre", <<"root">>))}
           \/ s = Stage(Empty, {}, <<>>)
           \/ k = 7 /\ s = BootstrapStage(c)
           \/ k = 8 /\ c.role = "init" /\ s = PostStage
           \/ /\ k > 7 /\ s \in {UpgradeStage(c), ReconfigureStage(c)}
              /\ c.role # "worker" =>
                     \E a \in 1..(k - 1), b \in 1..(k - 1) :
                         /\ Stages(c)[a] = Writes({"cluster-config.yaml"})
                         /\ Stages(c)[b] = Writes({"kubelet-config.yaml"})
<1> DEFINE S == Stages(c)
           Last2 == {UpgradeStage(c), ReconfigureStage(c)}
           Both(a, b) == /\ S[a] = Writes({"cluster-config.yaml"})
                         /\ S[b] = Writes({"kubelet-config.yaml"})
<1>1. c.role \in {"init", "controlplane", "worker"}
  BY DEF Cluster
<1>2. /\ S[1] \in Writing /\ S[2] = Always(Run("pre", <<"root">>))
      /\ S[3] = Stage(Empty, {}, <<>>)
      /\ S[4] \in Importing /\ S[5] \in Importing \cup {Stage(Empty, {}, <<>>)}
      /\ S[6] \in Writing /\ S[7] = BootstrapStage(c)
  BY List DEF Writing, Importing
<1>3. c.role = "init" =>
          /\ Len(S) = 12 /\ S[8] = PostStage /\ S[9] \in Writing /\ S[10] \in Writing
          /\ S[11] \in Last2 /\ S[12] \in Last2 /\ Both(9, 10)
  BY List DEF Writing
<1>4. c.role = "controlplane" =>
          /\ Len(S) = 11 /\ S[8] \in Writing /\ S[9] \in Writing
          /\ S[10] \in Last2 /\ S[11] \in Last2 /\ Both(8, 9)
  BY List DEF Writing
<1>5. c.role = "worker" => Len(S) = 9 /\ S[8] \in Last2 /\ S[9] \in Last2
  BY List
<1> HIDE DEF S, Last2, Both
<1>6. CASE c.role = "init"
  <2>1. k \in 1..12
    BY <1>3, <1>6 DEF S
  <2>2. k \in {1, 2, 3, 4, 5, 6, 7, 8, 9, 10, 11, 12}
    BY <2>1
  <2>3. CASE k \in {11, 12}
    <3>1. S[k] \in Last2 /\ Both(9, 10) /\ k > 7 /\ 9 \in 1..(k - 1) /\ 10 \in 1..(k - 1)
      BY <1>3, <1>6, <2>3
    <3> QED
      BY <3>1 DEF S, Last2, Both
  <2> QED
    BY <1>2, <1>3, <1>6, <2>2, <2>3 DEF S
<1>7. CASE c.role = "controlplane"
  <2>1. k \in 1..11
    BY <1>4, <1>7 DEF S
  <2>2. k \in {1, 2, 3, 4, 5, 6, 7, 8, 9, 10, 11}
    BY <2>1
  <2>3. CASE k \in {10, 11}
    <3>1. S[k] \in Last2 /\ Both(8, 9) /\ k > 7 /\ 8 \in 1..(k - 1) /\ 9 \in 1..(k - 1)
      BY <1>4, <1>7, <2>3
    <3> QED
      BY <3>1 DEF S, Last2, Both
  <2> QED
    BY <1>2, <1>4, <1>7, <2>2, <2>3 DEF S
<1>8. CASE c.role = "worker"
  <2>1. k \in 1..9
    BY <1>5, <1>8 DEF S
  <2>2. k \in {1, 2, 3, 4, 5, 6, 7, 8, 9}
    BY <2>1
  <2> QED
    BY <1>2, <1>5, <1>8, <2>2 DEF S, Last2
<1> QED
  BY <1>1, <1>6, <1>7, <1>8

LEMMA Kinds ==
    ASSUME NEW c \in Cluster, NEW k \in 1..Len(Stages(c))
    PROVE  \/ Stages(c)[k] \in Writing \cup Importing \cup Running(c)
           \/ Stages(c)[k] = Stage(Empty, {}, <<>>)
           \/ Stages(c)[k] = BootstrapStage(c)
           \/ c.role = "init" /\ Stages(c)[k] = PostStage
BY Order DEF Running

\* What a stage of this role provides with its script, by its marker.
LEMMA BootstrapDoes ==
    ASSUME NEW c \in Cluster
    PROVE  LET s == BootstrapStage(c)
               t == PostStage IN
           /\ s.writes = {} /\ Len(s.commands) = 2
           /\ s.commands[2] = Touch(s.unless)
           /\ c.role = "init" => s.unless = "kubeadm.init" /\ s.commands[1].script = "init"
           /\ c.role # "init" => s.unless = "kubeadm.join" /\ s.commands[1].script = "join"
           /\ Left(s.commands[1], c.role) = Provides(s.commands[1].script, c.role)
           /\ LeftBy(s, c.role) = Provides(s.commands[1].script, c.role) \cup {s.unless}
           /\ t.unless = "post-kubeadm.init" /\ t.writes = {} /\ Len(t.commands) = 2
           /\ t.commands[1].script = "post" /\ t.commands[2] = Touch("post-kubeadm.init")
           /\ Left(t.commands[1], c.role) = {}
           /\ LeftBy(t, c.role) = {"post-kubeadm.init"}
<1> DEFINE s == BootstrapStage(c)
           t == PostStage
           a == Call(c, "init", <<"root">>, <<"true">>)
           b == Call(c, "join", <<c.role, "root">>, <<"true">>)
           p == Run("post", <<"root">>)
<1>1. a.script = "init" /\ b.script = "join" /\ p.script = "post"
  BY CommandFields
<1>2. /\ Left(a, c.role) = Provides(a.script, c.role)
      /\ Left(b, c.role) = Provides(b.script, c.role)
      /\ Left(p, c.role) = Provides(p.script, c.role)
  BY <1>1 DEF Left
<1>3. Provides(p.script, c.role) = {}
  BY <1>1 DEF Provides
<1>4. /\ c.role = "init" => s = Once("kubeadm.init", a)
      /\ c.role # "init" => s = Once("kubeadm.join", b)
      /\ t = Once("post-kubeadm.init", p)
  BY DEF BootstrapStage, PostStage
<1> HIDE DEF a, b, p, s, t
<1>5. /\ t.unless = "post-kubeadm.init" /\ t.writes = {} /\ Len(t.commands) = 2
      /\ t.commands[1].script = "post" /\ t.commands[2] = Touch("post-kubeadm.init")
      /\ Left(t.commands[1], c.role) = {}
      /\ LeftBy(t, c.role) = {"post-kubeadm.init"}
  <2>1. /\ t.unless = "post-kubeadm.init" /\ t.writes = {} /\ Len(t.commands) = 2
        /\ t.commands[1] = p /\ t.commands[2] = Touch("post-kubeadm.init")
        /\ LeftBy(t, c.role) = Left(p, c.role) \cup {"post-kubeadm.init"}
    <3>1. t = Once("post-kubeadm.init", p)
      BY <1>4
    <3> QED
      BY <3>1, OnceDoes
  <2> QED
    BY <1>1, <1>2, <1>3, <2>1
<1>6. CASE c.role = "init"
  <2>1. /\ s.unless = "kubeadm.init" /\ s.writes = {} /\ Len(s.commands) = 2
        /\ s.commands[1] = a /\ s.commands[2] = Touch("kubeadm.init")
        /\ LeftBy(s, c.role) = Left(a, c.role) \cup {"kubeadm.init"}
    BY <1>4, <1>6, OnceDoes
  <2> QED
    BY <1>1, <1>2, <1>5, <1>6, <2>1 DEF s, t
<1>7. CASE c.role # "init"
  <2>1. /\ s.unless = "kubeadm.join" /\ s.writes = {} /\ Len(s.commands) = 2
        /\ s.commands[1] = b /\ s.commands[2] = Touch("kubeadm.join")
        /\ LeftBy(s, c.role) = Left(b, c.role) \cup {"kubeadm.join"}
    BY <1>4, <1>7, OnceDoes
  <2> QED
    BY <1>1, <1>2, <1>5, <1>7, <2>1 DEF s, t
<1> QED
  BY <1>6, <1>7

LEMMA FewCommands ==
    ASSUME NEW c \in Cluster, NEW k \in 1..Len(Stages(c))
    PROVE  Stages(c)[k] \in StageOf /\ Len(Stages(c)[k].commands) \in 0..2
<1> DEFINE s == Stages(c)[k]
<1>1. s \in StageOf
  <2>1. Stages(c) \in Seq(StageOf)
    BY List
  <2> QED
    BY <2>1
<1>2. CASE s \in Writing \cup {Stage(Empty, {}, <<>>)}
  <2>1. s.commands = <<>>
    BY <1>2, WritingDoes, NothingDoes
  <2> HIDE DEF s
  <2>2. Len(s.commands) = 0
    BY <2>1
  <2> QED
    BY <1>1, <2>2 DEF s
<1>3. CASE s \in Importing
  BY <1>1, <1>3, ImportingDoes
<1>4. CASE s \in Running(c)
  BY <1>1, <1>4, RunningDoes
<1>5. CASE s = BootstrapStage(c)
  <2>1. Len(s.commands) = 2
    BY <1>5, BootstrapDoes
  <2> QED
    BY <1>1, <2>1
<1>6. CASE s = PostStage
  <2>1. Len(s.commands) = 2
    BY <1>6, BootstrapDoes
  <2> QED
    BY <1>1, <2>1
<1> QED
  BY <1>2, <1>3, <1>4, <1>5, <1>6, Kinds

\* A stage that is skipped because of its marker has left its files in an earlier boot.
LEMMA SkippedStage ==
    ASSUME NEW c \in Cluster, NEW k \in 1..Len(Stages(c)), NEW fs \in SUBSET File,
           "kubeadm.init" \in fs => Provides("init", c.role) \subseteq fs,
           "kubeadm.join" \in fs => Provides("join", c.role) \subseteq fs,
           Stages(c)[k].unless \in fs
    PROVE  LeftBy(Stages(c)[k], c.role) \subseteq fs
<1> DEFINE s == Stages(c)[k]
<1>1. Empty \notin fs
  BY DEF File, Empty
<1>2. s.unless # Empty
  BY <1>1
<1>3. s \notin Writing \cup Importing \cup Running(c) /\ s # Stage(Empty, {}, <<>>)
  BY <1>2, WritingDoes, ImportingDoes, RunningDoes, NothingDoes
<1>4. CASE s = BootstrapStage(c)
  BY <1>4, BootstrapDoes
<1>5. CASE s = PostStage
  BY <1>5, BootstrapDoes
<1> QED
  BY <1>3, <1>4, <1>5, Kinds

\* A marker of kubeadm is touched by the second command of a stage, after the script.
LEMMA MarkerComesLast ==
    ASSUME NEW c \in Cluster, NEW k \in 1..Len(Stages(c)),
           NEW script \in {"init", "join"}, NEW marker,
           marker = IF script = "init" THEN "kubeadm.init" ELSE "kubeadm.join"
    PROVE  LET s == Stages(c)[k] IN
           /\ marker \notin s.writes
           /\ \A j \in 1..Len(s.commands) : marker \in Left(s.commands[j], c.role) =>
                  j = 2 /\ Left(s.commands[1], c.role) = Provides(script, c.role)
<1> DEFINE s == Stages(c)[k]
<1>1. CASE s \in Writing \cup {Stage(Empty, {}, <<>>)}
  <2>1. s.commands = <<>> /\ marker \notin s.writes
    BY <1>1, WritingDoes, NothingDoes
  <2> HIDE DEF s
  <2>2. 1..Len(s.commands) = {}
    BY <2>1
  <2> QED
    BY <2>1, <2>2 DEF s
<1>2. ASSUME NEW command, command.script \notin {"touch"}
      PROVE  marker \notin Left(command, c.role)
  BY <1>2 DEF Left, Provides
<1>3. CASE s \in Importing
  <2>1. /\ s.writes = {} /\ Len(s.commands) = 2
        /\ s.commands[1].script = "touch" /\ s.commands[1].words[1] = "import.sh+x"
        /\ s.commands[2].script = "import"
    BY <1>3, ImportingDoes
  <2>2. marker \notin Left(s.commands[1], c.role)
    BY <2>1 DEF Left
  <2>3. marker \notin Left(s.commands[2], c.role)
    BY <1>2, <2>1
  <2> HIDE DEF s
  <2>4. 1..Len(s.commands) = {1, 2}
    BY <2>1
  <2> QED
    BY <2>1, <2>2, <2>3, <2>4 DEF s
<1>4. CASE s \in Running(c)
  <2>1. s.writes = {} /\ Len(s.commands) = 1 /\ s.commands[1].script # "touch"
    BY <1>4, RunningDoes
  <2>2. marker \notin Left(s.commands[1], c.role)
    BY <1>2, <2>1
  <2> HIDE DEF s
  <2>3. 1..Len(s.commands) = {1}
    BY <2>1
  <2> QED
    BY <2>1, <2>2, <2>3 DEF s
<1>5. CASE s \in {BootstrapStage(c), PostStage}
  <2>1. /\ s.writes = {} /\ Len(s.commands) = 2 /\ s.commands[1].script # "touch"
        /\ s.commands[2] = Touch(s.unless)
        /\ s.unless = marker => Left(s.commands[1], c.role) = Provides(script, c.role)
    BY <1>5, BootstrapDoes
  <2>2. marker \notin Left(s.commands[1], c.role)
    BY <1>2, <2>1
  <2>3. Left(s.commands[2], c.role) = {s.unless}
    BY <2>1, CommandFields DEF Left
  <2> HIDE DEF s
  <2>4. 1..Len(s.commands) = {1, 2}
    BY <2>1
  <2> QED
    BY <2>1, <2>2, <2>3, <2>4 DEF s
<1> QED
  BY <1>1, <1>3, <1>4, <1>5, Kinds

-------------------------------------------------------------------------------
(* What a script needs, an earlier stage leaves.                            *)

LEMMA NeedsOf ==
    ASSUME NEW role
    PROVE  /\ \A script \in {"touch", "pre", "import"} : Needs(script, role) = {}
           /\ \A script \in {"init", "join"} :
                  Needs(script, role) = {"kubeadm.yaml", "import.sh+x"}
           /\ Needs("post", role) = {"admin.conf"}
           /\ \A script \in {"upgrade", "reconfigure"} :
                  /\ role = "worker" => Needs(script, role) \subseteq
                         {"sentinel_kubeadmversion", "kubeadm.yaml", "kubelet.conf"}
                  /\ role # "worker" => Needs(script, role) \subseteq
                         {"sentinel_kubeadmversion", "kubeadm.yaml", "admin.conf",
                          "cluster-config.yaml", "kubelet-config.yaml"}
<1>1. \A script \in {"touch", "pre", "import"} : Needs(script, role) = {}
  BY DEF Needs
<1>2. Needs("init", role) = {"kubeadm.yaml", "import.sh+x"}
  BY DEF Needs
<1>3. Needs("join", role) = {"kubeadm.yaml", "import.sh+x"}
  BY DEF Needs
<1>4. Needs("post", role) = {"admin.conf"}
  BY DEF Needs
<1>5. Needs("upgrade", role) = {"sentinel_kubeadmversion"} \cup
          (IF role = "worker" THEN {"kubelet.conf"} ELSE {"admin.conf", "cluster-config.yaml"})
  BY DEF Needs
<1>6. Needs("reconfigure", role) = {"kubeadm.yaml"} \cup
          (IF role = "worker" THEN {"kubelet.conf"}
             ELSE {"admin.conf", "cluster-config.yaml", "kubelet-config.yaml"})
  BY DEF Needs
<1> QED
  BY <1>1, <1>2, <1>3, <1>4, <1>5, <1>6

LEMMA WhatIsLeft ==
    ASSUME NEW c \in Cluster
    PROVE  LET L(k) == LeftBy(Stages(c)[k], c.role) IN
           /\ "sentinel_kubeadmversion" \in L(2) /\ "import.sh+x" \in L(4)
           /\ "kubeadm.yaml" \in L(6) /\ "kubelet.conf" \in L(7)
           /\ c.role # "worker" => "admin.conf" \in L(7)
<1>1. "sentinel_kubeadmversion" \in LeftBy(Stages(c)[2], c.role)
  <2> DEFINE pre == Run("pre", <<"root">>)
  <2>1. Left(pre, c.role) = Provides("pre", c.role)
    BY CommandFields DEF Left
  <2>2. Provides("pre", c.role) = {"sentinel_kubeadmversion", "kubelet"}
    BY DEF Provides
  <2>3. Stages(c)[2] = Always(pre)
    BY List
  <2> HIDE DEF pre
  <2> QED
    BY <2>1, <2>2, <2>3, AlwaysDoes
<1>2. "import.sh+x" \in LeftBy(Stages(c)[4], c.role)
  <2>1. Stages(c)[4] = ImportStage("kube-images")
    BY List
  <2> QED
    BY <2>1, ImportDoes
<1>3. "kubeadm.yaml" \in LeftBy(Stages(c)[6], c.role)
  <2>1. Stages(c)[6] = Writes({"kubeadm.yaml"})
    BY List
  <2> QED
    BY <2>1, WritesDoes
<1>4. /\ "kubelet.conf" \in LeftBy(Stages(c)[7], c.role)
      /\ c.role # "worker" => "admin.conf" \in LeftBy(Stages(c)[7], c.role)
  <2>1. PICK script \in {"init", "join"} :
            LeftBy(BootstrapStage(c), c.role) =
                Provides(script, c.role) \cup {BootstrapStage(c).unless}
    BY BootstrapDoes
  <2>2. Provides(script, c.role) = IF c.role = "worker" THEN {"kubelet.conf"}
                                                       ELSE {"kubelet.conf", "admin.conf"}
    BY DEF Provides
  <2>3. Stages(c)[7] = BootstrapStage(c)
    BY List
  <2> QED
    BY <2>1, <2>2, <2>3
<1> QED
  BY <1>1, <1>2, <1>3, <1>4

LEMMA NeedsComeBefore ==
    ASSUME NEW c \in Cluster, NEW k \in 1..Len(Stages(c)),
           NEW j \in 1..Len(Stages(c)[k].commands)
    PROVE  Needs(Stages(c)[k].commands[j].script, c.role) \subseteq
               UNION {LeftBy(Stages(c)[i], c.role) : i \in 1..(k - 1)}
<1> DEFINE s == Stages(c)[k]
           Earlier == UNION {LeftBy(Stages(c)[i], c.role) : i \in 1..(k - 1)}
<1>1. k \in Nat /\ \A i \in 1..(k - 1) : LeftBy(Stages(c)[i], c.role) \subseteq Earlier
  <2>1. Stages(c) \in Seq(StageOf)
    BY List
  <2> QED
    BY <2>1
<1>2. CASE s \in Writing \cup {Stage(Empty, {}, <<>>)}
  <2>1. s.commands = <<>>
    BY <1>2, WritingDoes, NothingDoes
  <2>2. j \in 1..Len(s.commands)
    OBVIOUS
  <2> HIDE DEF s
  <2>3. FALSE
    BY <2>1, <2>2
  <2> QED
    BY <2>3
<1>3. CASE s \in Importing \cup {Always(Run("pre", <<"root">>))}
  <2> DEFINE found == s.commands[j].script \in {"touch", "import", "pre"}
  <2>1. s \in Importing \/ s = Always(Run("pre", <<"root">>))
    BY <1>3
  <2>2. ASSUME s \in Importing PROVE found
    BY <2>2, ImportingDoes
  <2>3. ASSUME s = Always(Run("pre", <<"root">>)) PROVE found
    <3> DEFINE command == Run("pre", <<"root">>)
    <3>1. command.script = "pre"
      BY CommandFields
    <3>2. Len(s.commands) = 1 /\ s.commands[1] = command
      BY <2>3, AlwaysDoes
    <3> HIDE DEF command
    <3>3. j = 1
      BY <3>2
    <3> QED
      BY <3>1, <3>2, <3>3
  <2> HIDE DEF s, found
  <2>4. found
    BY <2>1, <2>2, <2>3
  <2> USE DEF s, found
  <2> QED
    BY <2>4, NeedsOf
<1>4. CASE k = 7 /\ s = BootstrapStage(c)
  <2>1. Len(s.commands) = 2 /\ s.commands[2].script = "touch"
        /\ s.commands[1].script \in {"init", "join"}
    BY <1>4, BootstrapDoes, CommandFields
  <2>2. s.commands[j].script \in {"touch", "init", "join"}
    BY <2>1
  <2>3. Needs(s.commands[j].script, c.role) \subseteq {"kubeadm.yaml", "import.sh+x"}
    BY <2>2, NeedsOf
  <2>4. {"kubeadm.yaml", "import.sh+x"} \subseteq Earlier
    <3>1. 4 \in 1..(k - 1) /\ 6 \in 1..(k - 1)
      BY <1>4
    <3> HIDE DEF Earlier
    <3> QED
      BY <1>1, <3>1, WhatIsLeft
  <2> QED
    BY <2>3, <2>4
<1>5. CASE k = 8 /\ c.role = "init" /\ s = PostStage
  <2>1. Len(s.commands) = 2 /\ s.commands[2].script = "touch" /\ s.commands[1].script = "post"
    BY <1>5, BootstrapDoes, CommandFields
  <2>2. s.commands[j].script \in {"touch", "post"}
    BY <2>1
  <2>3. Needs(s.commands[j].script, c.role) \subseteq {"admin.conf"}
    BY <2>2, NeedsOf
  <2>4. "admin.conf" \in Earlier
    <3>1. 7 \in 1..(k - 1)
      BY <1>5
    <3> HIDE DEF Earlier
    <3> QED
      BY <1>1, <1>5, <3>1, WhatIsLeft
  <2> QED
    BY <2>3, <2>4
<1>6. ASSUME k > 7, s \in {UpgradeStage(c), ReconfigureStage(c)},
             c.role # "worker" =>
                 \E a \in 1..(k - 1), b \in 1..(k - 1) :
                     /\ Stages(c)[a] = Writes({"cluster-config.yaml"})
                     /\ Stages(c)[b] = Writes({"kubelet-config.yaml"})
      PROVE  Needs(s.commands[j].script, c.role) \subseteq Earlier
  <2>1. s.commands[j].script \in {"upgrade", "reconfigure"}
    <3>1. PICK command : s = Always(command) /\ command.script \in {"upgrade", "reconfigure"}
      BY <1>6, CommandFields DEF UpgradeStage, ReconfigureStage
    <3>2. Len(s.commands) = 1 /\ s.commands[1] = command
      BY <3>1, AlwaysDoes
    <3> QED
      BY <3>1, <3>2
  <2>2. 2 \in 1..(k - 1) /\ 6 \in 1..(k - 1) /\ 7 \in 1..(k - 1)
    BY <1>1, <1>6
  <2>3. /\ {"sentinel_kubeadmversion", "kubeadm.yaml", "kubelet.conf"} \subseteq Earlier
        /\ c.role # "worker" => "admin.conf" \in Earlier
    <3> HIDE DEF Earlier
    <3> QED
      BY <1>1, <2>2, WhatIsLeft
  <2>4. CASE c.role = "worker"
    BY <2>1, <2>3, <2>4, NeedsOf
  <2>5. CASE c.role # "worker"
    <3>1. PICK a \in 1..(k - 1), b \in 1..(k - 1) :
              /\ Stages(c)[a] = Writes({"cluster-config.yaml"})
              /\ Stages(c)[b] = Writes({"kubelet-config.yaml"})
      BY <1>6, <2>5
    <3>2. /\ LeftBy(Stages(c)[a], c.role) = {"cluster-config.yaml"}
          /\ LeftBy(Stages(c)[b], c.role) = {"kubelet-config.yaml"}
      BY <3>1, WritesDoes
    <3> HIDE DEF Earlier
    <3>3. {"cluster-config.yaml", "kubelet-config.yaml"} \subseteq Earlier
      BY <1>1, <3>2
    <3> QED
      BY <2>1, <2>3, <2>5, <3>3, NeedsOf
  <2> QED
    BY <2>4, <2>5
<1> QED
  BY <1>2, <1>3, <1>4, <1>5, <1>6, Order

-------------------------------------------------------------------------------
(* What a command hands over is what was meant.                             *)

\* The value of a parameter is claimed, of the proxies only with both or none.
Claimed(c, p) == p \in Last => (c.http = Empty <=> c.https = Empty)

\* Words that are, in this order, what is meant for the first parameters of a script.
Fits(c, script, words) ==
    \A i \in 1..Len(words) :
        words[i] # Empty /\ Unquoted(words[i]) = Meant(c)[Params[script][i]]

\* A script whose parameters end in those for the proxies, the first being number n + 1;
\* one with none but these, and their flag, beyond number m.
EndsInProxies(script, n) ==
    /\ Len(Params[script]) = n + 3
    /\ Params[script][n + 1] = "http" /\ Params[script][n + 2] = "https"
    /\ Params[script][n + 3] = "no"

OnlyProxies(script, m) ==
    \A i \in 1..Len(Params[script]) : i > m => Params[script][i] \in Last \cup {"proxy"}

\* A command whose script finds in every parameter what was meant for it.
Reaches(c, command) ==
    \A i \in 1..Len(Params[command.script]) :
        Claimed(c, Params[command.script][i]) =>
            Parameter(command.words, i) = Meant(c)[Params[command.script][i]]

LEMMA Literals ==
    /\ \A w \in {"init", "controlplane", "worker", "root", "sans", "args", "true"} :
           w # Empty /\ Unquoted(w) = w
    /\ \A c \in Cluster :
           /\ c.role # Empty /\ Unquoted(c.role) = c.role
           /\ CustomNodeIp(c) # Empty /\ Unquoted(CustomNodeIp(c)) = c.ip
           /\ Unquoted(c.http) = c.http /\ Unquoted(c.https) = c.https
           /\ NoProxy(c) # Empty /\ Unquoted(NoProxy(c)) = NoProxy(c)
<1>1. \A w \in {"init", "controlplane", "worker", "root", "sans", "args", "true"} :
          w # Empty /\ Unquoted(w) = w
  BY DEF Empty, Quotes, Unquoted
<1>2. Quotes # Empty
  BY DEF Empty, Quotes
<1>3. ASSUME NEW v \in {Empty} \cup Value PROVE Unquoted(v) = v
  BY <1>2 DEF Unquoted
<1>4. ASSUME NEW c \in Cluster
      PROVE  /\ CustomNodeIp(c) # Empty /\ Unquoted(CustomNodeIp(c)) = c.ip
             /\ Unquoted(c.http) = c.http /\ Unquoted(c.https) = c.https
             /\ NoProxy(c) # Empty /\ Unquoted(NoProxy(c)) = NoProxy(c)
  <2>1. /\ c.http \in {Empty} \cup Value /\ c.https \in {Empty} \cup Value
        /\ c.no \in {Empty} \cup Value /\ c.ip \in {Empty} \cup Value
    BY DEF Cluster
  <2>2. CustomNodeIp(c) # Empty /\ Unquoted(CustomNodeIp(c)) = c.ip
    BY <1>2, <1>3, <2>1 DEF CustomNodeIp, Unquoted
  <2>3. NoProxy(c) # Empty /\ Unquoted(NoProxy(c)) = NoProxy(c)
    BY <2>1 DEF NoProxy, Unquoted
  <2> QED
    BY <1>3, <2>1, <2>2, <2>3
<1>5. \A c \in Cluster : c.role \in {"init", "controlplane", "worker"}
  BY DEF Cluster
<1> QED
  BY <1>1, <1>4, <1>5

\* Words without proxies: those there are, and nothing for the proxies.
LEMMA PlainCall ==
    ASSUME NEW c \in Cluster, NEW script \in DOMAIN Params, NEW words \in Seq(Word), NEW flag,
           ~IsProxyConfigured(c), Fits(c, script, words), OnlyProxies(script, Len(words))
    PROVE  Reaches(c, Call(c, script, words, flag))
<1>1. /\ Call(c, script, words, flag).words = words
      /\ Call(c, script, words, flag).script = script
  BY DEF Call, Run
<1>2. SUFFICES ASSUME NEW k \in 1..Len(Params[script])
               PROVE  Parameter(words, k) = Meant(c)[Params[script][k]]
  BY <1>1 DEF Reaches
<1>3. Len(words) \in Nat /\ k \in Nat /\ k >= 1
  <2>1. k \in 1..Len(Params[script])
    OBVIOUS
  <2> QED
    BY <2>1
<1>4. CASE k <= Len(words)
  <2>1. k \in 1..Len(words) /\ 1..k \subseteq 1..Len(words)
    BY <1>3, <1>4
  <2>2. \A i \in 1..k : words[i] # Empty
    BY <2>1 DEF Fits
  <2>3. Parameter(words, k) = Unquoted(words[k])
    BY <2>1, <2>2, WordIsParameter
  <2> QED
    BY <2>1, <2>3 DEF Fits
<1>5. CASE k > Len(words)
  <2>1. Parameter(words, k) = Empty
    BY <1>3, <1>5, NoWordNoParameter
  <2>2. \A p \in Last \cup {"proxy"} : Meant(c)[p] = Empty
    BY DEF Last, Meant, IsProxyConfigured
  <2> QED
    BY <1>5, <2>1, <2>2 DEF OnlyProxies
<1> QED
  BY <1>3, <1>4, <1>5

LEMMA ThreeMore ==
    ASSUME NEW W, NEW head \in Seq(W), NEW x \in W, NEW y \in W, NEW z \in W
    PROVE  LET n == Len(head)
               v == head \o <<x, y, z>> IN
           /\ n \in Nat /\ v \in Seq(W) /\ Len(v) = n + 3
           /\ \A i \in 1..n : v[i] = head[i]
           /\ v[n + 1] = x /\ v[n + 2] = y /\ v[n + 3] = z
<1> DEFINE t == <<x, y, z>>
<1>1. t \in Seq(W) /\ Len(t) = 3 /\ t[1] = x /\ t[2] = y /\ t[3] = z
  OBVIOUS
<1> HIDE DEF t
<1>2. head \o t \in Seq(W)
  BY <1>1, ConcatProperties, Zenon
<1>3. Len(head \o t) = Len(head) + Len(t)
  BY <1>1, ConcatProperties, Zenon
<1>4. \A i \in 1..(Len(head) + Len(t)) :
          (head \o t)[i] = IF i <= Len(head) THEN head[i] ELSE t[i - Len(head)]
  BY <1>1, ConcatProperties, Zenon
<1>5. Len(head) \in Nat
  OBVIOUS
<1> DEFINE v == head \o t
           n == Len(head)
<1>6. n \in Nat /\ \A i \in 1..(n + 3) : v[i] = IF i <= n THEN head[i] ELSE t[i - n]
  BY <1>1, <1>4, <1>5
<1> HIDE DEF v, n
<1>7. /\ \A i \in 1..n : v[i] = head[i]
      /\ v[n + 1] = t[1] /\ v[n + 2] = t[2] /\ v[n + 3] = t[3]
  <2>1. /\ n + 1 \in 1..(n + 3) /\ ~(n + 1 <= n) /\ (n + 1) - n = 1
        /\ n + 2 \in 1..(n + 3) /\ ~(n + 2 <= n) /\ (n + 2) - n = 2
        /\ n + 3 \in 1..(n + 3) /\ ~(n + 3 <= n) /\ (n + 3) - n = 3
    BY <1>6
  <2>2. \A i \in 1..n : i \in 1..(n + 3) /\ i <= n
    BY <1>6
  <2> QED
    BY <1>6, <2>1, <2>2
<1> QED
  BY <1>1, <1>2, <1>3, <1>5, <1>7 DEF v, n, t

LEMMA UpToThreeMore ==
    ASSUME NEW n \in Nat, NEW k \in 1..(n + 3)
    PROVE  k \in 1..n \/ k \in {n + 1, n + 2, n + 3}
OBVIOUS

\* Words with proxies: one that is missing moves none but the proxies.
LEMMA ProxiedCall ==
    ASSUME NEW c \in Cluster, NEW script \in DOMAIN Params, NEW words, NEW flag,
           NEW head \in Seq(Word), head = words \o flag,
           IsProxyConfigured(c), Fits(c, script, head), EndsInProxies(script, Len(head))
    PROVE  Reaches(c, Call(c, script, words, flag))
<1> DEFINE all == head \o <<c.http, c.https, NoProxy(c)>>
           n == Len(head)
<1>1. /\ Call(c, script, words, flag).words = all
      /\ Call(c, script, words, flag).script = script
  BY DEF Call, Run
<1>2. c.http \in Word /\ c.https \in Word /\ NoProxy(c) \in Word
  BY DEF Cluster, Word, NoProxy
<1>3. /\ n \in Nat /\ all \in Seq(Word) /\ Len(all) = n + 3
      /\ \A i \in 1..n : all[i] = head[i]
      /\ all[n + 1] = c.http /\ all[n + 2] = c.https /\ all[n + 3] = NoProxy(c)
  BY <1>2, ThreeMore
<1>4. \A i \in 1..n : all[i] # Empty /\ Unquoted(all[i]) = Meant(c)[Params[script][i]]
  BY <1>3 DEF Fits
<1>5. Meant(c).http = c.http /\ Meant(c).https = c.https /\ Meant(c).no = NoProxy(c)
  BY DEF Meant
<1>6. SUFFICES ASSUME NEW k \in 1..(n + 3), Claimed(c, Params[script][k])
               PROVE  Parameter(all, k) = Meant(c)[Params[script][k]]
  <2>1. Len(Params[script]) = n + 3
    BY DEF EndsInProxies
  <2> QED
    BY <1>1, <2>1 DEF Reaches
<1> HIDE DEF all, n
<1>7. CASE k \in 1..n
  <2>1. k \in 1..Len(all) /\ \A j \in 1..k : j \in 1..n
    BY <1>3, <1>7
  <2>2. \A j \in 1..k : all[j] # Empty
    BY <1>4, <2>1
  <2>3. Parameter(all, k) = Unquoted(all[k])
    BY <1>3, <2>1, <2>2, WordIsParameter
  <2> QED
    BY <1>4, <1>7, <2>3
<1>8. CASE k \in {n + 1, n + 2, n + 3}
  <2>1. k \in 1..Len(all)
    BY <1>3
  <2>2. /\ k = n + 1 => Params[script][k] = "http"
        /\ k = n + 2 => Params[script][k] = "https"
        /\ k = n + 3 => Params[script][k] = "no"
    BY DEF EndsInProxies, n
  <2>3. c.http # Empty /\ c.https # Empty
    BY <1>6, <1>8, <2>2 DEF Claimed, IsProxyConfigured, Last
  <2>4. NoProxy(c) # Empty
    BY Literals
  <2>5. all[n + 1] # Empty /\ all[n + 2] # Empty /\ all[n + 3] # Empty
    BY <1>3, <2>3, <2>4
  <2>6. \A j \in 1..k : j \in 1..(n + 3)
    BY <1>3
  <2>7. \A j \in 1..k : all[j] # Empty
    <3> SUFFICES ASSUME NEW j \in 1..k PROVE all[j] # Empty
      OBVIOUS
    <3>1. j \in 1..n \/ j \in {n + 1, n + 2, n + 3}
      BY <1>3, <2>6, UpToThreeMore
    <3> QED
      BY <1>4, <2>5, <3>1
  <2>8. Parameter(all, k) = Unquoted(all[k])
    BY <1>3, <2>1, <2>7, WordIsParameter
  <2>9. all[k] = Meant(c)[Params[script][k]] /\ all[k] \in {c.http, c.https, NoProxy(c)}
    BY <1>3, <1>5, <1>8, <2>2
  <2>10. Unquoted(all[k]) = all[k]
    BY <2>9, Literals
  <2> QED
    BY <2>8, <2>9, <2>10
<1> QED
  BY <1>3, <1>7, <1>8, UpToThreeMore

LEMMA InitReaches ==
    ASSUME NEW c \in Cluster
    PROVE  Reaches(c, Call(c, "init", <<"root">>, <<"true">>))
<1> DEFINE words == <<"root">>
           flag == <<"true">>
           head == words \o flag
           names == Params["init"]
<1>1. names = <<"root", "proxy", "http", "https", "no">>
  BY DEF Params
<1>2. /\ Len(names) = 5 /\ names[1] = "root" /\ names[2] = "proxy" /\ names[3] = "http"
      /\ names[4] = "https" /\ names[5] = "no"
  BY <1>1
<1>3. words \in Seq(Word) /\ flag \in Seq(Word)
  <2>1. "root" \in Word /\ "true" \in Word
    BY Words
  <2> QED
    BY <2>1, Tuples
<1>4. /\ Len(words) = 1 /\ words[1] = "root"
      /\ Len(head) = 2 /\ head[1] = "root" /\ head[2] = "true"
  OBVIOUS
<1>5. Meant(c)["root"] = "root" /\ (IsProxyConfigured(c) => Meant(c)["proxy"] = "true")
  BY DEF Meant
<1>6. "root" # Empty /\ Unquoted("root") = "root" /\ "true" # Empty /\ Unquoted("true") = "true"
  BY Literals
<1>7. "init" \in DOMAIN Params
  BY DEF Params
<1>8. head \in Seq(Word)
  BY <1>3, ConcatProperties
<1> HIDE DEF words, flag, names, head
<1>9. Fits(c, "init", words)
  BY <1>2, <1>4, <1>5, <1>6 DEF Fits, names
<1>10. IsProxyConfigured(c) => Fits(c, "init", head)
  <2>1. 1..Len(head) = {1, 2}
    BY <1>4
  <2> QED
    BY <1>2, <1>4, <1>5, <1>6, <2>1 DEF Fits, names
<1>11. OnlyProxies("init", Len(words)) /\ EndsInProxies("init", Len(head))
  <2>1. \A i \in 1..5 : i \in {1, 2, 3, 4, 5}
    OBVIOUS
  <2> QED
    BY <1>2, <1>4, <2>1 DEF Last, OnlyProxies, EndsInProxies, names
<1>12. Reaches(c, Call(c, "init", words, flag))
  <2>1. head = words \o flag
    BY DEF head
  <2> QED
    BY <1>3, <1>7, <1>8, <1>9, <1>10, <1>11, <2>1, PlainCall, ProxiedCall
<1> QED
  BY <1>12 DEF words, flag

LEMMA JoinReaches ==
    ASSUME NEW c \in Cluster, NEW script \in {"join", "upgrade"}
    PROVE  Reaches(c, Call(c, script, <<c.role, "root">>, <<"true">>))
<1> DEFINE words == <<c.role, "root">>
           flag == <<"true">>
           head == words \o flag
           names == Params[script]
<1>1. names = <<"role", "root", "proxy", "http", "https", "no">>
  BY DEF Params
<1>2. /\ Len(names) = 6 /\ names[1] = "role" /\ names[2] = "root" /\ names[3] = "proxy"
      /\ names[4] = "http" /\ names[5] = "https" /\ names[6] = "no"
  BY <1>1
<1>3. words \in Seq(Word) /\ flag \in Seq(Word)
  <2>1. c.role \in Word /\ "root" \in Word /\ "true" \in Word
    BY Words
  <2> QED
    BY <2>1, Tuples
<1>4. /\ Len(words) = 2 /\ words[1] = c.role /\ words[2] = "root"
      /\ Len(head) = 3 /\ head[1] = c.role /\ head[2] = "root" /\ head[3] = "true"
  OBVIOUS
<1>5. /\ Meant(c)["role"] = c.role /\ Meant(c)["root"] = "root"
      /\ (IsProxyConfigured(c) => Meant(c)["proxy"] = "true")
  BY DEF Meant
<1>6. /\ "root" # Empty /\ Unquoted("root") = "root"
      /\ "true" # Empty /\ Unquoted("true") = "true"
      /\ c.role # Empty /\ Unquoted(c.role) = c.role
  BY Literals
<1>7. script \in DOMAIN Params
  BY DEF Params
<1>8. head \in Seq(Word)
  BY <1>3, ConcatProperties
<1> HIDE DEF words, flag, names, head
<1>9. Fits(c, script, words)
  <2>1. 1..Len(words) = {1, 2}
    BY <1>4
  <2> QED
    BY <1>2, <1>4, <1>5, <1>6, <2>1 DEF Fits, names
<1>10. IsProxyConfigured(c) => Fits(c, script, head)
  <2>1. 1..Len(head) = {1, 2, 3}
    BY <1>4
  <2> QED
    BY <1>2, <1>4, <1>5, <1>6, <2>1 DEF Fits, names
<1>11. OnlyProxies(script, Len(words)) /\ EndsInProxies(script, Len(head))
  <2>1. \A i \in 1..6 : i \in {1, 2, 3, 4, 5, 6}
    OBVIOUS
  <2> QED
    BY <1>2, <1>4, <2>1 DEF Last, OnlyProxies, EndsInProxies, names
<1>12. Reaches(c, Call(c, script, words, flag))
  <2>1. head = words \o flag
    BY DEF head
  <2> QED
    BY <1>3, <1>7, <1>8, <1>9, <1>10, <1>11, <2>1, PlainCall, ProxiedCall
<1> QED
  BY <1>12 DEF words, flag

\* The node-ip comes before the proxies, and is quoted when there is none.
LEMMA ReconfigureReaches ==
    ASSUME NEW c \in Cluster
    PROVE  Reaches(c, Call(c, "reconfigure",
                           <<c.role, "sans", "args", "root", CustomNodeIp(c)>>, <<>>))
<1> DEFINE words == <<c.role, "sans", "args", "root", CustomNodeIp(c)>>
           names == Params["reconfigure"]
<1>1. names = <<"role", "sans", "args", "root", "ip", "http", "https", "no">>
  BY DEF Params
<1>2. /\ Len(names) = 8 /\ names[1] = "role" /\ names[2] = "sans" /\ names[3] = "args"
      /\ names[4] = "root" /\ names[5] = "ip"
      /\ names[6] = "http" /\ names[7] = "https" /\ names[8] = "no"
  BY <1>1
<1>3. words \in Seq(Word)
  <2>1. /\ c.role \in Word /\ "sans" \in Word /\ "args" \in Word /\ "root" \in Word
        /\ CustomNodeIp(c) \in Word
    BY Words
  <2> QED
    BY <2>1, Tuples
<1>4. /\ Len(words) = 5 /\ words[1] = c.role /\ words[2] = "sans" /\ words[3] = "args"
      /\ words[4] = "root" /\ words[5] = CustomNodeIp(c)
  OBVIOUS
<1>5. /\ Meant(c)["role"] = c.role /\ Meant(c)["sans"] = "sans" /\ Meant(c)["args"] = "args"
      /\ Meant(c)["root"] = "root" /\ Meant(c)["ip"] = c.ip
  BY DEF Meant
<1>6. /\ \A w \in {"sans", "args", "root"} : w # Empty /\ Unquoted(w) = w
      /\ c.role # Empty /\ Unquoted(c.role) = c.role
      /\ CustomNodeIp(c) # Empty /\ Unquoted(CustomNodeIp(c)) = c.ip
  BY Literals
<1>7. "reconfigure" \in DOMAIN Params
  BY DEF Params
<1> HIDE DEF words, names
<1>8. words \o <<>> = words
  BY <1>3, ConcatEmptySeq
<1>9. Fits(c, "reconfigure", words)
  <2>1. 1..Len(words) = {1, 2, 3, 4, 5}
    BY <1>4
  <2> QED
    BY <1>2, <1>4, <1>5, <1>6, <2>1 DEF Fits, names
<1>10. OnlyProxies("reconfigure", Len(words)) /\ EndsInProxies("reconfigure", Len(words))
  <2>1. \A i \in 1..8 : i \in {1, 2, 3, 4, 5, 6, 7, 8}
    OBVIOUS
  <2> QED
    BY <1>2, <1>4, <2>1 DEF Last, OnlyProxies, EndsInProxies, names
<1>11. Reaches(c, Call(c, "reconfigure", words, <<>>))
  BY <1>3, <1>7, <1>8, <1>9, <1>10, PlainCall, ProxiedCall
<1> QED
  BY <1>11 DEF words

LEMMA RunReaches ==
    ASSUME NEW c \in Cluster, NEW script \in {"pre", "post"}
    PROVE  Reaches(c, Run(script, <<"root">>))
<1> DEFINE words == <<"root">>
           names == Params[script]
<1>1. names = <<"root">>
  BY DEF Params
<1>2. Len(names) = 1 /\ names[1] = "root"
  BY <1>1
<1>3. words \in Seq(Word) /\ Len(words) = 1 /\ words[1] = "root"
  <2>1. "root" \in Word
    BY Words
  <2> QED
    BY <2>1, Tuples
<1>4. "root" # Empty /\ Unquoted("root") = "root" /\ Meant(c)["root"] = "root"
  BY Literals DEF Meant
<1>5. Run(script, words).words = words /\ Run(script, words).script = script
  BY CommandFields
<1> HIDE DEF words, names
<1>6. Parameter(words, 1) = Unquoted(words[1])
  <2>1. 1 \in 1..Len(words) /\ \A j \in 1..1 : words[j] # Empty
    BY <1>3, <1>4
  <2> QED
    BY <1>3, <2>1, WordIsParameter
<1>7. Reaches(c, Run(script, words))
  <2>1. \A i \in 1..Len(names) : i = 1
    BY <1>2
  <2> QED
    BY <1>2, <1>3, <1>4, <1>5, <1>6, <2>1 DEF Reaches, names
<1> QED
  BY <1>7 DEF words

\* So does every command of every stage, but for those of import.sh and touch.
LEMMA EveryCommandReaches ==
    ASSUME NEW c \in Cluster, NEW k \in 1..Len(Stages(c)),
           NEW j \in 1..Len(Stages(c)[k].commands)
    PROVE  LET command == Stages(c)[k].commands[j] IN
           command.script \in {"touch", "import"} \/ Reaches(c, command)
<1> DEFINE s == Stages(c)[k]
<1>1. CASE s \in Writing \cup {Stage(Empty, {}, <<>>)}
  <2>1. s.commands = <<>>
    BY <1>1, WritingDoes, NothingDoes
  <2> HIDE DEF s
  <2>2. 1..Len(s.commands) = {}
    BY <2>1
  <2> QED
    BY <2>2 DEF s
<1>2. CASE s \in Importing
  BY <1>2, ImportingDoes
<1>3. CASE s \in Running(c)
  <2>1. PICK command : s = Always(command) /\ Reaches(c, command)
    BY <1>3, RunReaches, JoinReaches, ReconfigureReaches
       DEF Running, UpgradeStage, ReconfigureStage
  <2>2. Len(s.commands) = 1 /\ s.commands[1] = command
    BY <2>1, AlwaysDoes
  <2> QED
    BY <2>1, <2>2
<1>4. CASE s = BootstrapStage(c) \/ s = PostStage
  <2>1. PICK marker, command : s = Once(marker, command) /\ Reaches(c, command)
    BY <1>4, RunReaches, JoinReaches, InitReaches DEF BootstrapStage, PostStage
  <2>2. /\ Len(s.commands) = 2 /\ s.commands[1] = command
        /\ s.commands[2] = Touch(marker)
        /\ LeftBy(s, c.role) = Left(command, c.role) \cup {marker}
    BY <2>1, OnceDoes
  <2> QED
    BY <2>1, <2>2, CommandFields
<1> QED
  BY <1>1, <1>2, <1>3, <1>4, Kinds

-------------------------------------------------------------------------------
(* The invariant.                                                           *)

\* One step along a sequence of which the first few are done.
LEMMA OneStep ==
    ASSUME NEW T, NEW all \in Seq(T), NEW rest \in Seq(T), NEW done \in Nat, rest # <<>>,
           done = Len(all) - Len(rest)
    PROVE  /\ done + 1 \in 1..Len(all) /\ Len(Tail(rest)) = Len(rest) - 1
           /\ Len(all) - Len(Tail(rest)) = done + 1 /\ Tail(rest) \in Seq(T)
           /\ Head(SubSeq(all, done + 1, Len(all))) = all[done + 1]
           /\ Tail(SubSeq(all, done + 1, Len(all))) = SubSeq(all, (done + 1) + 1, Len(all))
<1>1. Len(all) \in Nat /\ Len(rest) \in Nat /\ Len(rest) # 0
  OBVIOUS
<1>2. done + 1 \in 1..Len(all) /\ Len(all) \in (done + 1)..Len(all)
  BY <1>1
<1>3. Tail(rest) \in Seq(T) /\ Len(Tail(rest)) = Len(rest) - 1
  OBVIOUS
<1>4. Len(all) - Len(Tail(rest)) = done + 1
  BY <1>1, <1>3
<1>5. /\ Head(SubSeq(all, done + 1, Len(all))) = all[done + 1]
      /\ Tail(SubSeq(all, done + 1, Len(all))) = SubSeq(all, (done + 1) + 1, Len(all))
  BY <1>2, HeadTailOfSubSeq
<1> QED
  BY <1>2, <1>3, <1>4, <1>5, Zenon

LEMMA AtMostTwo ==
    ASSUME NEW n \in 0..2
    PROVE  n \in Nat /\ n <= 2
OBVIOUS

LEMMA Counts ==
    ASSUME NEW c \in Cluster
    PROVE  /\ c.role \in DOMAIN StageCount
           /\ Stages(c) \in Seq(StageOf) /\ Len(Stages(c)) = StageCount[c.role]
           /\ StageCount[c.role] \in Nat
<1>1. c.role \in {"init", "controlplane", "worker"}
  BY DEF Cluster
<1>2. c.role \in DOMAIN StageCount /\ StageCount[c.role] \in Nat
  BY <1>1 DEF StageCount
<1>3. Stages(c) \in Seq(StageOf)
  BY List
<1>4. /\ c.role = "init" => Len(Stages(c)) = 12
      /\ c.role = "controlplane" => Len(Stages(c)) = 11
      /\ c.role = "worker" => Len(Stages(c)) = 9
  BY List
<1>5. /\ StageCount["init"] = 12 /\ StageCount["controlplane"] = 11
      /\ StageCount["worker"] = 9
  BY DEF StageCount
<1>6. Len(Stages(c)) = StageCount[c.role]
  BY <1>1, <1>4, <1>5
<1> QED
  BY <1>2, <1>3, <1>6

LEMMA NothingIsFine ==
    ASSUME got = Nothing
    PROVE  ParametersReachScripts /\ got.script \in DOMAIN Params \cup {"none"}
BY DEF Nothing, ParametersReachScripts, MeantFor

LEMMA Initially == Init => SInv
<1> SUFFICES ASSUME Init PROVE SInv
  OBVIOUS
<1>1. cluster \in Cluster /\ todo = <<>> /\ cmds = <<>> /\ files = {} /\ got = Nothing
      /\ dead = FALSE
  BY DEF Init
<1>2. TypeOK
  <2>1. /\ <<>> \in Seq(StageOf) /\ <<>> \in Seq(Command)
        /\ Len(todo) = 0 /\ Len(cmds) = 0
    BY <1>1
  <2>2. Len(todo) <= StageCount[cluster.role] /\ Len(cmds) <= 2
    BY <1>1, <2>1, Counts
  <2> QED
    BY <1>1, <2>1, <2>2, NothingIsFine DEF TypeOK
<1>3. ListTrail /\ FilesTrail /\ MarkersHold
  BY <1>1 DEF ListTrail, FilesTrail, MarkersHold, Over
<1> QED
  BY <1>1, <1>2, <1>3, NothingIsFine DEF SInv

LEMMA BootStep ==
    ASSUME SInv, Boot
    PROVE  SInv'
<1>1. PICK c \in Cluster : c.role = cluster.role /\ Provide(c)
  BY DEF Boot
<1>2. /\ cluster' = c /\ dead' \in BOOLEAN /\ cmds' = <<>> /\ got' = Nothing /\ files' = files
      /\ todo' = Stages(c) \/ todo' = <<>>
  BY <1>1 DEF Boot, Provide, Cluster
<1>3. /\ Stages(c) \in Seq(StageOf) /\ Len(Stages(c)) = StageCount[c.role]
      /\ StageCount[c.role] \in Nat
  BY Counts
<1>4. TypeOK'
  <2>1. <<>> \in Seq(Command) /\ Len(cmds') = 0 /\ <<>> \in Seq(StageOf)
    BY <1>2
  <2>2. Len(todo') <= StageCount[c.role] /\ Len(cmds') <= 2
    BY <1>2, <1>3, <2>1
  <2>3. files' \subseteq File
    BY <1>2 DEF SInv, TypeOK
  <2>4. (got.script \in DOMAIN Params \cup {"none"})'
    BY <1>2 DEF Nothing
  <2> QED
    BY <1>2, <1>3, <2>1, <2>2, <2>3, <2>4 DEF TypeOK
<1>5. ListTrail'
  <2> SUFFICES ASSUME ~Over' PROVE ListTrail'
    BY DEF ListTrail
  <2>1. todo' = Stages(c)
    BY <1>2 DEF Over
  <2>2. Begun' = 0
    BY <1>2, <1>3, <2>1 DEF Begun
  <2>3. todo' = SubSeq(Stages(c), 0 + 1, Len(Stages(c)))
    BY <1>3, <2>1, SubSeqFull
  <2> QED
    BY <1>2, <2>2, <2>3 DEF ListTrail
<1>6. FilesTrail'
  <2>1. ~Over' => Begun' = 0
    BY <1>2, <1>3 DEF Begun, Over
  <2> QED
    BY <1>2, <2>1 DEF FilesTrail
<1>7. MarkersHold'
  BY <1>1, <1>2 DEF SInv, MarkersHold
<1>8. ParametersReachScripts'
  BY <1>2 DEF Nothing, ParametersReachScripts, MeantFor
<1> QED
  BY <1>4, <1>5, <1>6, <1>7, <1>8 DEF SInv

\* Where yip is, in numbers.
LEMMA Position ==
    ASSUME SInv, ~Over
    PROVE  /\ cluster \in Cluster /\ Stages(cluster) \in Seq(StageOf)
           /\ Len(Stages(cluster)) \in Nat /\ Begun \in 0..Len(Stages(cluster))
           /\ Begun = Len(Stages(cluster)) - Len(todo)
<1>1. cluster \in Cluster /\ todo \in Seq(StageOf) /\ Begun >= 0
  BY DEF SInv, TypeOK, ListTrail
<1>2. Stages(cluster) \in Seq(StageOf) /\ Len(Stages(cluster)) \in Nat
  BY <1>1, Counts
<1>3. Len(todo) \in Nat
  BY <1>1
<1>4. Begun = Len(Stages(cluster)) - Len(todo)
  BY DEF Begun
<1>5. Begun \in 0..Len(Stages(cluster))
  BY <1>1, <1>2, <1>3, <1>4
<1> QED
  BY <1>1, <1>2, <1>4, <1>5

LEMMA BeginStageStep ==
    ASSUME SInv, BeginStage
    PROVE  SInv'
<1> DEFINE S == Stages(cluster)
           s == Head(todo)
<1>1. /\ cmds = <<>> /\ todo # <<>> /\ todo' = Tail(todo) /\ got' = Nothing
      /\ cluster' = cluster /\ dead' = dead /\ ~Over
      /\ \/ s.unless \in files /\ files' = files /\ cmds' = cmds
         \/ files' = files \cup s.writes /\ cmds' = s.commands
  BY DEF BeginStage, Over
<1>2. /\ cluster \in Cluster /\ S \in Seq(StageOf) /\ Len(S) \in Nat /\ Begun \in Nat
      /\ Begun = Len(S) - Len(todo)
  BY <1>1, Position
<1>3. todo \in Seq(StageOf) /\ files \subseteq File /\ todo = SubSeq(S, Begun + 1, Len(S))
  BY <1>1 DEF SInv, TypeOK, ListTrail
<1>4. /\ Begun + 1 \in 1..Len(S) /\ Len(Tail(todo)) = Len(todo) - 1
      /\ Len(S) - Len(Tail(todo)) = Begun + 1 /\ Tail(todo) \in Seq(StageOf)
      /\ s = S[Begun + 1] /\ Tail(todo) = SubSeq(S, (Begun + 1) + 1, Len(S))
  <2> HIDE DEF S
  <2>1. todo \in Seq(StageOf) /\ todo # <<>>
    BY <1>1, <1>3, Zenon
  <2>2. /\ Begun + 1 \in 1..Len(S) /\ Len(Tail(todo)) = Len(todo) - 1
        /\ Len(S) - Len(Tail(todo)) = Begun + 1 /\ Tail(todo) \in Seq(StageOf)
    BY <1>2, <2>1, OneStep
  <2>3. /\ Head(SubSeq(S, Begun + 1, Len(S))) = S[Begun + 1]
        /\ Tail(SubSeq(S, Begun + 1, Len(S))) = SubSeq(S, (Begun + 1) + 1, Len(S))
    BY <1>2, <2>1, OneStep
  <2> QED
    BY <1>3, <2>2, <2>3, Zenon
<1>5. Begun' = Begun + 1 /\ Current' = s /\ Stages(cluster)' = S
  BY <1>1, <1>4 DEF Begun, Current
<1>6. /\ s \in StageOf /\ Len(s.commands) \in 0..2 /\ s.commands \in Seq(Command)
      /\ s.writes \subseteq File
  BY <1>2, <1>4, FewCommands DEF StageOf
<1>7. TypeOK'
  <2>1. Len(todo') <= StageCount[cluster'.role]
    <3>1. Len(todo) <= StageCount[cluster.role] /\ StageCount[cluster.role] \in Nat
      BY <1>2, Counts DEF SInv, TypeOK
    <3>2. todo \in Seq(StageOf) /\ Len(todo') = Len(todo) - 1
      BY <1>1, <1>3, <1>4, Zenon
    <3>3. Len(todo) \in Nat
      BY <3>2
    <3> QED
      BY <1>1, <3>1, <3>2, <3>3
  <2>2. cmds' \in Seq(Command) /\ Len(cmds') <= 2
    <3>1. CASE cmds' = cmds
      BY <3>1 DEF SInv, TypeOK
    <3>2. CASE cmds' = s.commands
      <4> HIDE DEF s
      <4>1. Len(s.commands) <= 2
        BY <1>6, AtMostTwo, Zenon
      <4> QED
        BY <1>6, <3>2, <4>1, Zenon
    <3> QED
      BY <1>1, <3>1, <3>2
  <2>3. files' \subseteq File
    BY <1>1, <1>3, <1>6
  <2>4. (got.script \in DOMAIN Params \cup {"none"})'
    BY <1>1 DEF Nothing
  <2> QED
    BY <1>1, <1>2, <1>4, <2>1, <2>2, <2>3, <2>4 DEF SInv, TypeOK
<1>8. cmds' # <<>> => files' = files \cup s.writes /\ cmds' = s.commands /\ Done' = 0
  <2>1. Len(s.commands) \in Nat
    BY <1>6
  <2> QED
    BY <1>1, <1>5, <2>1 DEF Done
<1>9. ListTrail'
  <2>1. todo' = SubSeq(S, Begun' + 1, Len(S)) /\ Begun' > 0
    BY <1>1, <1>2, <1>4, <1>5
  <2>2. s.commands = SubSeq(s.commands, 0 + 1, Len(s.commands))
    BY <1>6, SubSeqFull
  <2>3. cmds' # <<>> =>
            Done' >= 0 /\ cmds' = SubSeq(s.commands, Done' + 1, Len(s.commands))
    BY <1>8, <2>2
  <2>4. Begun' >= 0
    BY <1>2, <1>5
  <2> QED
    BY <1>5, <2>1, <2>3, <2>4 DEF ListTrail
<1>10. FilesTrail'
  <2>1. \A k \in 1..Begun : LeftBy(S[k], cluster.role) \subseteq files
    BY <1>1 DEF SInv, FilesTrail
  <2>2. files \subseteq files'
    BY <1>1
  <2>3. cmds' = <<>> => LeftBy(s, cluster.role) \subseteq files'
    <3>1. CASE s.unless \in files
      <4>1. LeftBy(s, cluster.role) \subseteq files
        BY <1>2, <1>3, <1>4, <3>1, SkippedStage DEF SInv, MarkersHold
      <4> QED
        BY <2>2, <4>1
    <3>2. CASE cmds' = s.commands /\ files' = files \cup s.writes
      <4> SUFFICES ASSUME s.commands = <<>> PROVE LeftBy(s, cluster.role) \subseteq files'
        BY <3>2
      <4>1. LeftBy(s, cluster.role) = s.writes
        BY DEF LeftBy
      <4> QED
        BY <3>2, <4>1
    <3> QED
      BY <1>1, <3>1, <3>2
  <2>4. \A k \in 1..Begun' : (k < Begun' \/ cmds' = <<>>) =>
            LeftBy(S[k], cluster.role) \subseteq files'
    <3> SUFFICES ASSUME NEW k \in 1..Begun', k < Begun' \/ cmds' = <<>>
                 PROVE  LeftBy(S[k], cluster.role) \subseteq files'
      OBVIOUS
    <3>1. k \in 1..Begun \/ (k = Begun + 1 /\ cmds' = <<>>)
      BY <1>2, <1>5
    <3> QED
      BY <1>4, <2>1, <2>2, <2>3, <3>1
  <2>5. cmds' # <<>> => s.writes \subseteq files' /\ Done' = 0
    BY <1>8
  <2> QED
    BY <1>1, <1>5, <2>4, <2>5 DEF FilesTrail
<1>11. MarkersHold'
  <2>1. "kubeadm.init" \notin s.writes /\ "kubeadm.join" \notin s.writes
    BY <1>2, <1>4, MarkerComesLast
  <2> QED
    BY <1>1, <2>1 DEF SInv, MarkersHold
<1>12. ParametersReachScripts'
  BY <1>1 DEF Nothing, ParametersReachScripts, MeantFor
<1> QED
  BY <1>7, <1>9, <1>10, <1>11, <1>12 DEF SInv

\* Commands leave nothing but files of the model.
LEMMA WhatIsLeftIsAFile ==
    ASSUME NEW c \in Cluster, NEW k \in 1..Len(Stages(c)),
           NEW j \in 1..Len(Stages(c)[k].commands)
    PROVE  Left(Stages(c)[k].commands[j], c.role) \subseteq File
<1> DEFINE s == Stages(c)[k]
           Fine(command) == command.script = "touch" => command.words[1] \in File
<1>1. \A script, role : Provides(script, role) \subseteq File
  BY DEF Provides, File
<1>2. SUFFICES Fine(s.commands[j])
  BY <1>1 DEF Left
<1>3. CASE s \in Writing \cup {Stage(Empty, {}, <<>>)}
  <2>1. s.commands = <<>>
    BY <1>3, WritingDoes, NothingDoes
  <2> HIDE DEF s
  <2>2. 1..Len(s.commands) = {}
    BY <2>1
  <2> QED
    BY <2>2 DEF s
<1>4. CASE s \in Importing
  <2>1. /\ Len(s.commands) = 2
        /\ s.commands[1].words[1] = "import.sh+x" /\ s.commands[2].script = "import"
    BY <1>4, ImportingDoes
  <2>2. "import.sh+x" \in File
    BY DEF File
  <2> QED
    BY <2>1, <2>2
<1>5. CASE s \in Running(c)
  <2>1. Len(s.commands) = 1 /\ s.commands[1].script # "touch"
    BY <1>5, RunningDoes
  <2> QED
    BY <2>1
<1>6. CASE s = BootstrapStage(c) \/ s = PostStage
  <2>1. /\ Len(s.commands) = 2 /\ s.commands[1].script # "touch"
        /\ s.commands[2] = Touch(s.unless)
        /\ s.unless \in {"kubeadm.init", "kubeadm.join", "post-kubeadm.init"}
    BY <1>6, BootstrapDoes
  <2>2. s.unless \in File
    BY <2>1 DEF File
  <2>3. Touch(s.unless).words[1] = s.unless
    BY CommandFields
  <2> QED
    BY <2>1, <2>2, <2>3
<1> QED
  BY <1>3, <1>4, <1>5, <1>6, Kinds

\* What the script finds, if its words reach it.
LEMMA WhatIsGot ==
    ASSUME NEW c, NEW command \in Command, command.script # "touch", Reaches(c, command),
           NEW p \in DOMAIN Bound(command.script, command.words), Claimed(c, p)
    PROVE  Bound(command.script, command.words)[p] = Meant(c)[p]
<1> DEFINE names == Params[command.script]
<1>1. command.script \in DOMAIN Params
  BY DEF Command
<1>2. PICK i \in 1..Len(names) : p = names[i]
  BY DEF Bound
<1>3. Bound(command.script, command.words)[p] = Parameter(command.words, i)
  BY <1>1, <1>2, NameIsNumber
<1> QED
  BY <1>2, <1>3 DEF Reaches

\* Where yip is within a stage.
LEMMA PositionInStage ==
    ASSUME SInv, cmds # <<>>
    PROVE  /\ ~Over /\ Begun \in 1..Len(Stages(cluster))
           /\ Current = Stages(cluster)[Begun]
           /\ Current.commands \in Seq(Command) /\ cmds \in Seq(Command) /\ Done \in Nat
           /\ Done = Len(Current.commands) - Len(cmds)
           /\ cmds = SubSeq(Current.commands, Done + 1, Len(Current.commands))
           /\ Done + 1 \in 1..Len(Current.commands)
           /\ Head(cmds) = Current.commands[Done + 1]
           /\ Tail(cmds) \in Seq(Command) /\ Len(Tail(cmds)) = Len(cmds) - 1
           /\ Len(Current.commands) - Len(Tail(cmds)) = Done + 1
           /\ Tail(cmds) = SubSeq(Current.commands, (Done + 1) + 1, Len(Current.commands))
<1> DEFINE all == Current.commands
<1>1. ~Over
  BY DEF Over
<1>2. Begun > 0 /\ Done >= 0 /\ cmds = SubSeq(all, Done + 1, Len(all))
  BY <1>1 DEF SInv, ListTrail
<1>3. Begun \in 1..Len(Stages(cluster)) /\ cluster \in Cluster
  BY <1>1, <1>2, Position
<1>4. Current = Stages(cluster)[Begun]
  BY DEF Current
<1>5. all \in Seq(Command) /\ cmds \in Seq(Command)
  BY <1>3, <1>4, FewCommands DEF StageOf, SInv, TypeOK
<1>6. Done = Len(all) - Len(cmds)
  BY DEF Done
<1>7. Done \in Nat
  <2>1. Len(all) \in Nat /\ Len(cmds) \in Nat
    BY <1>5
  <2> QED
    BY <1>2, <1>6, <2>1
<1> HIDE DEF all
<1>8. /\ Done + 1 \in 1..Len(all) /\ Len(Tail(cmds)) = Len(cmds) - 1
      /\ Len(all) - Len(Tail(cmds)) = Done + 1 /\ Tail(cmds) \in Seq(Command)
      /\ Head(SubSeq(all, Done + 1, Len(all))) = all[Done + 1]
      /\ Tail(SubSeq(all, Done + 1, Len(all))) = SubSeq(all, (Done + 1) + 1, Len(all))
  BY <1>5, <1>6, <1>7, OneStep
<1> QED
  BY <1>1, <1>2, <1>3, <1>4, <1>5, <1>6, <1>7, <1>8, Zenon DEF all

LEMMA RunCommandStep ==
    ASSUME SInv, RunCommand
    PROVE  SInv'
<1> DEFINE S == Stages(cluster)
           role == cluster.role
           all == Current.commands
           c == Head(cmds)
<1>1. /\ cmds # <<>> /\ cmds' = Tail(cmds) /\ todo' = todo
      /\ cluster' = cluster /\ dead' = dead
      /\ files' = files \cup Left(c, role)
      /\ c.script = "touch" => got' = Nothing
      /\ c.script # "touch" => got' = [script |-> c.script, params |-> Bound(c.script, c.words)]
  BY DEF RunCommand, Left
<1>2. /\ ~Over /\ Begun \in 1..Len(S) /\ Current = S[Begun]
      /\ all \in Seq(Command) /\ cmds \in Seq(Command) /\ Done \in Nat
      /\ Done + 1 \in 1..Len(all) /\ c = all[Done + 1]
      /\ Tail(cmds) \in Seq(Command) /\ Len(Tail(cmds)) = Len(cmds) - 1
      /\ Len(all) - Len(Tail(cmds)) = Done + 1
      /\ Tail(cmds) = SubSeq(all, (Done + 1) + 1, Len(all))
  BY <1>1, PositionInStage, Zenon
<1>3. cluster \in Cluster /\ S \in Seq(StageOf) /\ Len(S) \in Nat
  BY <1>2, Position
<1>4. c \in Command
  <2>1. all[Done + 1] \in Command
    BY <1>2
  <2> QED
    BY <1>2, <2>1, Zenon
<1>5. Begun' = Begun /\ Current' = Current /\ Stages(cluster)' = S
  BY <1>1 DEF Begun, Current
<1>6. Done' = Done + 1
  BY <1>1, <1>2, <1>5, Zenon DEF Done
<1>7. TypeOK'
  <2>1. Len(cmds') <= 2
    <3>1. Len(cmds) \in Nat /\ Len(cmds) <= 2
      BY <1>2 DEF SInv, TypeOK
    <3>2. Len(cmds') = Len(cmds) - 1
      BY <1>1, <1>2, Zenon
    <3> QED
      BY <3>1, <3>2
  <2>2. files' \subseteq File
    <3>1. Left(c, role) \subseteq File
      BY <1>2, <1>3, WhatIsLeftIsAFile
    <3> QED
      BY <1>1, <3>1 DEF SInv, TypeOK
  <2>3. (got.script \in DOMAIN Params \cup {"none"})'
    <3>1. CASE c.script = "touch"
      BY <1>1, <3>1 DEF Nothing
    <3>2. CASE c.script # "touch"
      BY <1>1, <1>4, <3>2 DEF Command
    <3> QED
      BY <3>1, <3>2
  <2>4. cmds' \in Seq(Command)
    BY <1>1, <1>2, Zenon
  <2> QED
    BY <1>1, <2>1, <2>2, <2>3, <2>4 DEF SInv, TypeOK
<1>8. ListTrail'
  <2>1. todo = SubSeq(S, Begun + 1, Len(S)) /\ Begun >= 0 /\ Begun > 0
    BY <1>1, <1>2 DEF SInv, ListTrail
  <2>2. todo' = SubSeq(S, Begun' + 1, Len(S)) /\ Begun' >= 0 /\ Begun' > 0
    BY <1>1, <1>5, <2>1, Zenon
  <2>3. Done' >= 0
    BY <1>2, <1>6
  <2>4. cmds' = SubSeq(all, Done' + 1, Len(all))
    BY <1>1, <1>2, <1>6, Zenon
  <2> QED
    BY <1>5, <2>2, <2>3, <2>4 DEF ListTrail
<1>9. /\ files \subseteq files' /\ Current.writes \subseteq files'
      /\ \A j \in 1..(Done + 1) : Left(all[j], role) \subseteq files'
  <2>1. files \subseteq files' /\ Left(c, role) \subseteq files'
    BY <1>1
  <2>2. /\ Current.writes \subseteq files
        /\ \A j \in 1..Done : Left(all[j], role) \subseteq files
    BY <1>1 DEF SInv, FilesTrail
  <2>3. \A j \in 1..(Done + 1) : j \in 1..Done \/ j = Done + 1
    BY <1>2
  <2>4. Left(all[Done + 1], role) \subseteq files'
    BY <1>2, <2>1, Zenon
  <2> HIDE DEF all, role, c
  <2> QED
    BY <2>1, <2>2, <2>3, <2>4
<1>10. FilesTrail'
  <2>1. cmds' = <<>> => LeftBy(Current, role) \subseteq files'
    <3> SUFFICES ASSUME cmds' = <<>> PROVE LeftBy(Current, role) \subseteq files'
      OBVIOUS
    <3>1. Len(cmds') = 0
      OBVIOUS
    <3>2. Len(all) - Len(cmds') = Done + 1 /\ all \in Seq(Command)
      BY <1>1, <1>2, Zenon
    <3>3. Len(all) = Done + 1
      <4>1. Len(all) \in Nat
        BY <3>2
      <4> QED
        BY <3>1, <3>2, <4>1
    <3> QED
      BY <1>9, <3>3 DEF LeftBy
  <2>2. \A k \in 1..Begun : k < Begun => LeftBy(S[k], role) \subseteq files
    BY <1>2 DEF SInv, FilesTrail
  <2>3. \A k \in 1..Begun' : k < Begun' \/ cmds' = <<>> => LeftBy(S[k], role) \subseteq files'
    <3> SUFFICES ASSUME NEW k \in 1..Begun', k < Begun' \/ cmds' = <<>>
                 PROVE  LeftBy(S[k], role) \subseteq files'
      OBVIOUS
    <3>1. k \in 1..Begun
      BY <1>5
    <3>2. k < Begun \/ (k = Begun /\ cmds' = <<>>)
      <4>1. k < Begun \/ k = Begun
        BY <1>2, <3>1
      <4> QED
        BY <1>5, <4>1
    <3>3. k = Begun => S[k] = Current
      BY <1>2
    <3> HIDE DEF S, role
    <3> QED
      BY <1>9, <2>1, <2>2, <3>1, <3>2, <3>3
  <2>4. \A j \in 1..Done' : Left(all[j], role) \subseteq files'
    BY <1>6, <1>9
  <2> QED
    BY <1>1, <1>5, <1>9, <2>3, <2>4 DEF FilesTrail
<1>11. ASSUME NEW script \in {"init", "join"}, NEW marker,
              marker = IF script = "init" THEN "kubeadm.init" ELSE "kubeadm.join",
              marker \in Left(c, role)
       PROVE  Provides(script, role) \subseteq files'
  <2>1. marker \in Left(S[Begun].commands[Done + 1], cluster.role)
    BY <1>2, <1>11, Zenon
  <2>2. Done + 1 \in 1..Len(S[Begun].commands)
    BY <1>2, Zenon
  <2>3. Done + 1 = 2 /\ Left(S[Begun].commands[1], cluster.role) = Provides(script, cluster.role)
    BY <1>2, <1>3, <1>11, <2>1, <2>2, MarkerComesLast
  <2>4. 1 \in 1..(Done + 1) /\ Left(all[1], role) = Provides(script, role)
    <3>1. 1 \in 1..(Done + 1)
      BY <2>3
    <3> QED
      BY <1>2, <2>3, <3>1, Zenon
  <2> HIDE DEF all, role
  <2> QED
    BY <1>9, <2>4
<1>12. MarkersHold'
  BY <1>1, <1>11 DEF SInv, MarkersHold
<1>13. ParametersReachScripts'
  <2>1. CASE c.script = "touch"
    BY <1>1, <2>1 DEF Nothing, ParametersReachScripts, MeantFor
  <2>2. CASE c.script # "touch"
    <3>1. c.script = "import" \/ Reaches(cluster, c)
      <4>1. Done + 1 \in 1..Len(S[Begun].commands) /\ c = S[Begun].commands[Done + 1]
        BY <1>2, Zenon
      <4>2. LET command == S[Begun].commands[Done + 1] IN
            command.script \in {"touch", "import"} \/ Reaches(cluster, command)
        BY <1>2, <1>3, <4>1, EveryCommandReaches
      <4> HIDE DEF S, c
      <4> QED
        BY <2>2, <4>1, <4>2
    <3>2. got'.script = c.script /\ got'.params = Bound(c.script, c.words)
      BY <1>1, <2>2
    <3>3. ASSUME c.script # "import", NEW p \in DOMAIN got'.params, Claimed(cluster, p)
          PROVE  got'.params[p] = Meant(cluster)[p]
      <4> HIDE DEF c
      <4> QED
        BY <1>4, <2>2, <3>1, <3>2, <3>3, WhatIsGot
    <3>4. MeantFor(DOMAIN Meant(cluster) \ Last)'
      BY <1>1, <3>2, <3>3 DEF MeantFor, Claimed
    <3>5. (cluster.http = Empty <=> cluster.https = Empty) => MeantFor(Last)'
      BY <1>1, <3>2, <3>3 DEF MeantFor, Claimed
    <3> QED
      BY <1>1, <3>4, <3>5 DEF ParametersReachScripts
  <2> QED
    BY <2>1, <2>2
<1> QED
  BY <1>7, <1>8, <1>10, <1>12, <1>13 DEF SInv

-------------------------------------------------------------------------------
(* The theorems.                                                            *)

\* The invariant holds whatever proxies, addresses and lists users write.
THEOREM StagesInductive == Spec => []SInv
<1>1. Init => SInv
  BY Initially
<1>2. SInv /\ [Next]_vars => SInv'
  <2> SUFFICES ASSUME SInv, [Next]_vars PROVE SInv'
    OBVIOUS
  <2>1. CASE BeginStage
    BY <2>1, BeginStageStep
  <2>2. CASE RunCommand
    BY <2>2, RunCommandStep
  <2>3. CASE Boot
    BY <2>3, BootStep
  <2>4. CASE UNCHANGED vars
    BY <2>4 DEF vars, SInv, TypeOK, ListTrail, FilesTrail, MarkersHold,
                ParametersReachScripts, MeantFor, Over, Begun, Current, Done
  <2> QED
    BY <2>1, <2>2, <2>3, <2>4 DEF Next
<1> QED
  BY <1>1, <1>2, PTL DEF Spec

\* stages/init.go:45-53, stages/join.go:36-50.  A script that is about to run finds
\* the files that earlier stages were to leave for it, wherever boots were cut off.
THEOREM FilesTheorem == Spec => []ScriptsFindTheirFiles
<1>1. SInv => ScriptsFindTheirFiles
  <2> SUFFICES ASSUME SInv, cmds # <<>>
               PROVE  Needs(Head(cmds).script, cluster.role) \subseteq files
    BY DEF ScriptsFindTheirFiles
  <2> DEFINE S == Stages(cluster)
  <2>1. /\ ~Over /\ Begun \in 1..Len(S) /\ Done + 1 \in 1..Len(S[Begun].commands)
        /\ Head(cmds) = S[Begun].commands[Done + 1]
    BY PositionInStage, Zenon
  <2>2. cluster \in Cluster /\ Len(S) \in Nat
    BY <2>1, Position
  <2>3. Needs(S[Begun].commands[Done + 1].script, cluster.role) \subseteq
            UNION {LeftBy(S[i], cluster.role) : i \in 1..(Begun - 1)}
    BY <2>1, <2>2, NeedsComeBefore
  <2>4. \A i \in 1..Begun : i < Begun => LeftBy(S[i], cluster.role) \subseteq files
    BY <2>1 DEF SInv, FilesTrail
  <2>5. \A i \in 1..(Begun - 1) : i \in 1..Begun /\ i < Begun
    BY <2>1, <2>2
  <2>6. UNION {LeftBy(S[i], cluster.role) : i \in 1..(Begun - 1)} \subseteq files
    <3> HIDE DEF S
    <3> QED
      BY <2>4, <2>5
  <2>7. Head(cmds).script = S[Begun].commands[Done + 1].script
    BY <2>1, Zenon
  <2>8. Needs(S[Begun].commands[Done + 1].script, cluster.role) \subseteq files
    <3> HIDE DEF S
    <3> QED
      BY <2>3, <2>6
  <2> QED
    BY <2>7, <2>8, Zenon
<1> QED
  BY <1>1, StagesInductive, PTL

\* stages/init.go:90-163, stages/join.go:167-227.  Every script finds every value in
\* the parameter it was meant for, and one proxy without the other moves no value but
\* those of the proxies.
THEOREM ParametersTheorem == Spec => []ParametersReachScripts
<1>1. SInv => ParametersReachScripts
  BY DEF SInv
<1> QED
  BY <1>1, StagesInductive, PTL
===============================================================================
