------------------------ MODULE ConfigDocumentsProofs ------------------------
(***************************************************************************)
(* Theorems about ConfigDocuments, for every cluster section.               *)
(***************************************************************************)
EXTENDS ConfigDocuments, TLAPS

USE DocumentValues

-------------------------------------------------------------------------------
(* DInv says of every call what it has made of the objects and documents.   *)

LEMMA InitHolds ==
    Init => DInv
BY DEF Init, DInv, ContextInv, ObjectsInv, FilesInv, Label, PrintedProxy, HasDefaults,
       HasArguments, PrintedKubeadm, PrintedCluster, PrintedKubelet, Done

\* The cluster section stays what it is, and so does what is computed from it.
LEMMA ComputedStay ==
    ASSUME opts' = opts
    PROVE  /\ GivenCluster' = GivenCluster /\ FullCluster' = FullCluster
           /\ FullKubelet' = FullKubelet /\ IsWorker' = IsWorker
           /\ GivenInit' = GivenInit /\ FullInit' = FullInit
           /\ DecodedReg(opts.joinReg)' = DecodedReg(opts.joinReg)
           /\ FullControlPlane' = FullControlPlane
           /\ GivenReg' = GivenReg /\ FullContext' = FullContext
           /\ NodeEndpoint' = NodeEndpoint /\ NoProxy(opts)' = NoProxy(opts)
<1>1. /\ GivenCluster' = GivenCluster /\ IsWorker' = IsWorker
      /\ DecodedReg(opts.joinReg)' = DecodedReg(opts.joinReg)
      /\ GivenInit' = GivenInit /\ FullKubelet' = FullKubelet
      /\ NoProxy(opts)' = NoProxy(opts)
  BY DEF GivenCluster, IsWorker, DecodedReg, Decoded, Fits, GivenInit, FullKubelet, NoProxy
<1>2. /\ FullCluster' = FullCluster /\ FullControlPlane' = FullControlPlane
      /\ GivenReg' = GivenReg
  BY <1>1 DEF FullCluster, FullControlPlane, SharesControlPlane, GivenReg
<1>3. FullInit' = FullInit /\ FullContext' = FullContext /\ NodeEndpoint' = NodeEndpoint
  BY <1>1, <1>2 DEF FullInit, SharesControlPlane, FullContext, NodeEndpoint
<1> QED
  BY <1>1, <1>2, <1>3

\* What the defaults make of the objects, what is in the context, and what the
\* shared control plane is completed to.
LEMMA Computed ==
    ASSUME DInv
    PROVE  /\ pc = "defaults" =>
                  /\ [cluster EXCEPT !.sans = AppendIfNotPresent(@, SplitHost(cluster.host))]
                         = FullCluster
                  /\ [dns |-> OrDefault(kubelet.dns, DnsIP(ctx.service))] = FullKubelet
           /\ pc = "arguments" =>
                  [service |-> ctx.service, pod |-> ctx.pod,
                   args |-> KubeletFlags(OwnReg, IsWorker), revision |-> cluster.sans,
                   nodeIp |-> NodeIp] = FullContext
           /\ pc = "cluster" => OwnInit = FullInit
<1> USE DEF DInv, ContextInv, ObjectsInv, Label, PrintedProxy, HasDefaults,
            HasArguments, PrintedKubeadm, PrintedCluster
<1>1. ASSUME pc = "defaults"
      PROVE  /\ [cluster EXCEPT !.sans = AppendIfNotPresent(@, SplitHost(cluster.host))]
                    = FullCluster
             /\ [dns |-> OrDefault(kubelet.dns, DnsIP(ctx.service))] = FullKubelet
  <2>1. cluster = GivenCluster /\ GivenCluster.host = WithPort(opts.host)
    BY <1>1 DEF GivenCluster
  <2>2. kubelet.dns = opts.dns /\ ctx.service = opts.service
    BY <1>1
  <2> QED
    BY <2>1, <2>2 DEF FullCluster, FullKubelet
<1>2. ASSUME pc = "arguments"
      PROVE  [service |-> ctx.service, pod |-> ctx.pod,
              args |-> KubeletFlags(OwnReg, IsWorker), revision |-> cluster.sans,
              nodeIp |-> NodeIp] = FullContext
  <2>1. OwnReg = GivenReg /\ cluster = FullCluster
    BY <1>2 DEF OwnReg, GivenReg
  <2>2. ctx.service = opts.service /\ ctx.pod = opts.pod
    BY <1>2
  <2> QED
    BY <2>1, <2>2 DEF FullContext, NodeIp
<1>3. ASSUME pc = "cluster"
      PROVE  OwnInit = FullInit
  <2>1. /\ opts.role \in {"init", "controlplane", "worker"} /\ opts.role # "worker"
        /\ initCfg = GivenInit /\ controlPlane = FullControlPlane
    BY <1>3 DEF Option, IsWorker
  <2>2. FullControlPlane = None <=> opts.controlPlane = None
    <3>1. ASSUME opts.controlPlane # None
          PROVE  Completed(opts.controlPlane) # None
      <4>1. opts.controlPlane \in Endpoint
        BY <3>1 DEF Option
      <4>2. Completed(opts.controlPlane) \in Endpoint
        BY <4>1 DEF Completed, OrDefault, Endpoint, Optional
      <4> QED
        BY <4>2
    <3> QED
      BY <2>1, <3>1 DEF FullControlPlane, SharesControlPlane
  <2> QED
    BY <2>1, <2>2 DEF OwnInit, FullInit, SharesControlPlane
<1> QED
  BY <1>1, <1>2, <1>3

\* The calls before the first document of kubeadm.
LEMMA EarlyStep ==
    ASSUME DInv, Provide \/ Die \/ PrintProxy \/ SetDefaults \/ SetArguments
    PROVE  DInv'
<1>1. opts' = opts
  BY DEF Provide, Die, PrintProxy, SetDefaults, SetArguments
<1>2. /\ opts \in Option /\ pc \in Label /\ (pc \in {"cluster", "kubelet"} => ~IsWorker)
      /\ ContextInv /\ ObjectsInv /\ FilesInv
  BY DEF DInv
<1> USE <1>1, <1>2, ComputedStay
        DEF DInv, ContextInv, ObjectsInv, FilesInv, Label, PrintedProxy, HasDefaults,
            HasArguments, PrintedKubeadm, PrintedCluster, PrintedKubelet, Done, objects
<1>3. CASE Provide
  <2>1. /\ cluster' = GivenCluster /\ initCfg' = GivenInit
        /\ joinCfg' = DecodedReg(opts.joinReg) /\ controlPlane' = opts.controlPlane
        /\ kubelet' = [dns |-> opts.dns]
        /\ pc' = "proxy" /\ files' = files
    BY <1>3 DEF Provide
  <2>2. /\ ctx'.service = opts.service /\ ctx'.pod = opts.pod
        /\ ctx' = [service |-> ctx'.service, pod |-> ctx'.pod, args |-> ctx'.args,
                   revision |-> ctx'.revision, nodeIp |-> ctx'.nodeIp]
    BY <1>3 DEF Provide, WithSubnets
  <2> QED
    BY <2>1, <2>2
<1>4. CASE Die
  BY <1>4 DEF Die
<1>5. CASE PrintProxy
  <2>1. NoProxy(ctx) = NoProxy(opts)
    BY <1>5 DEF PrintProxy, NoProxy
  <2> QED
    BY <1>5, <2>1 DEF PrintProxy
<1>6. CASE SetDefaults
  BY <1>6, Computed DEF SetDefaults
<1>7. CASE SetArguments
  <2>1. ctx' = FullContext
    BY <1>7, Computed DEF SetArguments
  <2> QED
    BY <1>7, <2>1 DEF SetArguments, FullContext
<1> QED
  BY <1>3, <1>4, <1>5, <1>6, <1>7

\* What the documents of kubeadm show of the node.
LEMMA KubeadmDocument ==
    ASSUME DInv, pc = "kubeadm"
    PROVE  /\ opts.role = "init" =>
                  /\ initCfg.reg = GivenReg /\ Completed(initCfg.endpoint) = NodeEndpoint
                  /\ controlPlane = FullControlPlane
           /\ opts.role # "init" =>
                  /\ joinCfg = GivenReg
                  /\ (IF ~IsWorker /\ controlPlane # None THEN Completed(controlPlane)
                      ELSE controlPlane) = FullControlPlane
                  /\ (IF FullControlPlane # None \/ IsWorker THEN FullControlPlane
                      ELSE Completed(NoEndpoint)) = NodeEndpoint
<1>1. /\ opts \in Option /\ initCfg = GivenInit /\ controlPlane = opts.controlPlane
      /\ joinCfg = DecodedReg(opts.joinReg)
  BY DEF DInv, ObjectsInv, Label, PrintedProxy, HasDefaults, HasArguments,
         PrintedKubeadm, PrintedCluster
<1>2. opts.role \in {"init", "controlplane", "worker"}
  BY <1>1 DEF Option
<1>3. ASSUME opts.controlPlane # None
      PROVE  Completed(opts.controlPlane) # None
  <2>1. opts.controlPlane \in Endpoint
    BY <1>1, <1>3 DEF Option
  <2>2. Completed(opts.controlPlane) \in Endpoint
    BY <2>1 DEF Completed, OrDefault, Endpoint, Optional
  <2> QED
    BY <2>2
<1>4. CASE opts.role = "init"
  BY <1>1, <1>4 DEF GivenReg, GivenInit, NodeEndpoint, FullControlPlane, SharesControlPlane
<1>5. CASE opts.role = "controlplane"
  BY <1>1, <1>3, <1>5 DEF GivenReg, NodeEndpoint, FullControlPlane, SharesControlPlane, IsWorker
<1>6. CASE opts.role = "worker"
  BY <1>1, <1>6 DEF GivenReg, NodeEndpoint, FullControlPlane, SharesControlPlane, IsWorker
<1> QED
  BY <1>2, <1>4, <1>5, <1>6

\* The documents and the parameters of the scripts.
LEMMA LateStep ==
    ASSUME DInv, PrintInit \/ PrintJoin \/ PrintCluster \/ PrintKubelet \/ PrintScript
    PROVE  DInv'
<1>1. opts' = opts
  BY DEF PrintInit, PrintJoin, PrintCluster, PrintKubelet, PrintScript
<1>2. /\ opts \in Option /\ pc \in Label /\ (pc \in {"cluster", "kubelet"} => ~IsWorker)
      /\ ContextInv /\ ObjectsInv /\ FilesInv
  BY DEF DInv
<1> USE <1>1, <1>2, ComputedStay
        DEF DInv, ContextInv, ObjectsInv, FilesInv, Label, PrintedProxy, HasDefaults,
            HasArguments, PrintedKubeadm, PrintedCluster, PrintedKubelet, Done, objects
<1>3. CASE PrintInit
  <2>1. initCfg.reg = GivenReg /\ Completed(initCfg.endpoint) = NodeEndpoint
        /\ controlPlane = FullControlPlane /\ kubelet = FullKubelet /\ ~IsWorker
    BY <1>3, KubeadmDocument DEF PrintInit, IsWorker
  <2> QED
    BY <1>3, <2>1 DEF PrintInit
<1>4. CASE PrintJoin
  <2>1. /\ opts.role # "init" /\ joinCfg = GivenReg /\ controlPlane' = FullControlPlane
        /\ (IF controlPlane' # None \/ IsWorker THEN controlPlane'
            ELSE Completed(NoEndpoint)) = NodeEndpoint
    BY <1>4, KubeadmDocument DEF PrintJoin
  <2>2. files'.kubeadm = [reg |-> GivenReg, endpoint |-> NodeEndpoint, kubelet |-> None]
    BY <1>4, <2>1 DEF PrintJoin
  <2>3. IsWorker => FullInit = GivenInit
    BY DEF IsWorker, FullInit, SharesControlPlane
  <2> QED
    BY <1>4, <2>1, <2>2, <2>3 DEF PrintJoin
<1>5. CASE PrintCluster
  <2>1. initCfg' = FullInit /\ cluster = FullCluster
    BY <1>5, Computed DEF PrintCluster
  <2> QED
    BY <1>5, <2>1 DEF PrintCluster
<1>6. CASE PrintKubelet
  BY <1>6 DEF PrintKubelet
<1>7. CASE PrintScript
  <2>1. NoProxy(ctx) = NoProxy(opts)
    BY <1>7 DEF PrintScript, NoProxy
  <2>2. ctx = FullContext /\ FullContext.revision = FullCluster.sans
    BY <1>7 DEF PrintScript, FullContext
  <2> QED
    BY <1>7, <2>1, <2>2 DEF PrintScript
<1> QED
  BY <1>3, <1>4, <1>5, <1>6, <1>7

\* What every call finds and leaves; the documents are functions of the cluster
\* section, whatever the objects are shared with.
THEOREM DocumentsInductive == Spec => []DInv
<1>1. ASSUME DInv, [Next]_vars
      PROVE  DInv'
  <2>1. CASE UNCHANGED vars
    <3>1. opts' = opts
      BY <2>1 DEF vars
    <3> QED
      BY <1>1, <2>1, <3>1, ComputedStay
      DEF vars, DInv, ContextInv, ObjectsInv, FilesInv, Label, PrintedProxy, HasDefaults,
          HasArguments, PrintedKubeadm, PrintedCluster, PrintedKubelet, Done
  <2> QED
    BY <1>1, <2>1, EarlyStep, LateStep DEF Next
<1> QED
  BY <1>1, InitHolds, PTL DEF Spec

-------------------------------------------------------------------------------
(* What the documents promise.                                              *)

\* What DInv says once the provider has returned.
LEMMA AtTheEnd ==
    ASSUME DInv, Done
    PROVE  /\ opts \in Option /\ cluster = FullCluster
           /\ files.proxy = IF opts.proxy THEN NoProxy(opts) ELSE {}
           /\ files.kubeadm.endpoint = NodeEndpoint
           /\ ~IsWorker => /\ files.cluster = [cluster |-> FullCluster, init |-> FullInit]
                           /\ files.kubelet = [cluster |-> FullCluster, init |-> FullInit,
                                               kubelet |-> FullKubelet]
           /\ files.script = [args |-> FullContext.args, revision |-> FullCluster.sans,
                              nodeIp |-> FullContext.nodeIp,
                              noProxy |-> IF opts.proxy THEN NoProxy(opts) ELSE {}]
BY DEF DInv, ObjectsInv, FilesInv, Label, PrintedProxy, HasDefaults, HasArguments,
       PrintedKubeadm, PrintedCluster, PrintedKubelet, Done

\* An endpoint that is completed means what it meant.
LEMMA CompletedMeansTheSame ==
    ASSUME NEW e \in Endpoint
    PROVE  Effective(Completed(e)) = Effective(e)
<1>1. /\ Completed(e).port = e.port
      /\ Completed(e).address = OrDefault(e.address, DefaultAPIAdvertiseAddress)
  BY DEF Completed, Endpoint
<1> DEFINE Read(x) == IF x \in {None, DefaultAPIAdvertiseAddress} THEN "default route" ELSE x
<1>2. Read(Completed(e).address) = Read(e.address)
  BY <1>1 DEF OrDefault
<1>3. \A f : Effective(f) = [address |-> Read(f.address), port |-> IF f.port = 0 THEN 6443 ELSE f.port]
  BY DEF Effective
<1> QED
  <2> HIDE DEF Read
  <2> QED
    BY <1>1, <1>2, <1>3

\* A node regenerates its manifests from the endpoint it was deployed with.
THEOREM RegenerationTheorem == Spec => []RegeneratesAsJoined
<1>1. ASSUME DInv PROVE RegeneratesAsJoined
  <2> SUFFICES ASSUME OnControlPlane
               PROVE  \/ Effective(files.cluster.init.endpoint)
                             = Effective(files.kubeadm.endpoint)
                      \/ /\ opts.role = "controlplane" /\ opts.controlPlane = None
                         /\ opts.initEndpoint # NoEndpoint
    BY DEF RegeneratesAsJoined
  <2>1. /\ opts \in Option /\ ~IsWorker /\ files.cluster.init = FullInit
        /\ files.kubeadm.endpoint = NodeEndpoint
    BY <1>1, AtTheEnd DEF OnControlPlane
  <2>2. /\ opts.initEndpoint \in Endpoint /\ opts.controlPlane \in Endpoint \cup {None}
        /\ opts.role \in {"init", "controlplane"}
    BY <2>1 DEF Option, IsWorker
  <2>3. CASE opts.role = "init"
    <3>1. FullInit.endpoint = opts.initEndpoint /\ NodeEndpoint = Completed(opts.initEndpoint)
      BY <2>3 DEF FullInit, SharesControlPlane, GivenInit, NodeEndpoint
    <3> QED
      BY <2>1, <2>2, <3>1, CompletedMeansTheSame
  <2>4. CASE opts.role = "controlplane" /\ opts.controlPlane # None
    <3>1. FullInit.endpoint = Completed(opts.controlPlane)
      BY <2>4 DEF FullInit, FullControlPlane, SharesControlPlane, GivenInit
    <3>2. NodeEndpoint = Completed(opts.controlPlane)
      BY <2>4 DEF NodeEndpoint, FullControlPlane, SharesControlPlane
    <3> QED
      BY <2>1, <3>1, <3>2
  <2>5. CASE opts.role = "controlplane" /\ opts.controlPlane = None
    <3>1. FullInit.endpoint = opts.initEndpoint /\ NodeEndpoint = Completed(NoEndpoint)
      BY <2>5 DEF FullInit, SharesControlPlane, GivenInit, NodeEndpoint, IsWorker
    <3>2. NoEndpoint \in Endpoint
      BY DEF NoEndpoint, Endpoint, Optional
    <3> QED
      BY <2>1, <2>5, <3>1, <3>2, CompletedMeansTheSame
  <2> QED
    BY <2>2, <2>3, <2>4, <2>5
<1> QED
  BY <1>1, DocumentsInductive, PTL

\* The two uploaded documents are of one node and one cluster.
THEOREM UploadsTheorem == Spec => []UploadsAgree
<1>1. ASSUME DInv PROVE UploadsAgree
  BY <1>1, AtTheEnd DEF UploadsAgree, OnControlPlane
<1> QED
  BY <1>1, DocumentsInductive, PTL

\* The host others connect to is certified once, and the revision says so.
THEOREM HostTheorem == Spec => []HostIsCertified
<1>1. ASSUME DInv PROVE HostIsCertified
  <2> SUFFICES ASSUME OnControlPlane
               PROVE  LET sans == files.cluster.cluster.sans IN
                      /\ files.script.revision = sans
                      /\ \/ opts.host.brackets = 1 /\ opts.host.port = 0
                         \/ \E i \in DOMAIN sans : sans[i] = opts.host.name
                      /\ \A i, j \in DOMAIN sans :
                             sans[i] = sans[j] /\ i # j
                                 => i <= Len(opts.sans) /\ j <= Len(opts.sans)
    BY DEF HostIsCertified
  <2> DEFINE name == SplitHost(WithPort(opts.host))
             sans == AppendIfNotPresent(opts.sans, name)
  <2>1. /\ opts \in Option /\ files.cluster.cluster = FullCluster
        /\ files.script.revision = FullCluster.sans
    BY <1>1, AtTheEnd DEF OnControlPlane
  <2>2. FullCluster.sans = sans
    BY DEF FullCluster, GivenCluster
  <2>3. opts.sans \in Seq(Value) /\ opts.host \in HostPort
    BY <2>1 DEF Option
  <2>4. (opts.host.brackets = 1 /\ opts.host.port = 0) \/ name = opts.host.name
    BY <2>3 DEF HostPort, WithPort, SplitHost
  <2>5. \E i \in DOMAIN sans : sans[i] = name
    <3>1. CASE \E i \in DOMAIN opts.sans : opts.sans[i] = name
      BY <3>1 DEF AppendIfNotPresent
    <3>2. CASE ~\E i \in DOMAIN opts.sans : opts.sans[i] = name
      <4>1. sans = Append(opts.sans, name)
        BY <3>2 DEF AppendIfNotPresent
      <4>2. /\ Len(opts.sans) + 1 \in DOMAIN Append(opts.sans, name)
            /\ Append(opts.sans, name)[Len(opts.sans) + 1] = name
        BY <2>3
      <4> QED
        BY <4>1, <4>2
    <3> QED
      BY <3>1, <3>2
  <2>6. \A i, j \in DOMAIN sans : sans[i] = sans[j] /\ i # j
            => i <= Len(opts.sans) /\ j <= Len(opts.sans)
    <3>1. CASE \E i \in DOMAIN opts.sans : opts.sans[i] = name
      BY <2>3, <3>1 DEF AppendIfNotPresent
    <3>2. CASE ~\E i \in DOMAIN opts.sans : opts.sans[i] = name
      <4>1. sans = Append(opts.sans, name)
        BY <3>2 DEF AppendIfNotPresent
      <4> HIDE DEF name, sans
      <4>2. /\ DOMAIN sans = 1..(Len(opts.sans) + 1)
            /\ DOMAIN opts.sans = 1..Len(opts.sans) /\ Len(opts.sans) \in Nat
            /\ \A i \in 1..Len(opts.sans) : sans[i] = opts.sans[i]
            /\ sans[Len(opts.sans) + 1] = name
        BY <2>3, <4>1
      <4> QED
        BY <3>2, <4>2
    <3> QED
      BY <3>1, <3>2
  <2> QED
    BY <2>1, <2>2, <2>4, <2>5, <2>6
<1> QED
  BY <1>1, DocumentsInductive, PTL

-------------------------------------------------------------------------------
(* The flags of the kubelet.                                                *)

\* Decoding keeps the names of the arguments, and loses values without quotes; a
\* field of the wrong form is lost as a whole.
LEMMA DecodedArguments ==
    ASSUME opts \in Option
    PROVE  /\ UserReg \in Registration /\ UserReg.args \in Seq(Argument)
           /\ GivenReg.name = UserReg.name
           /\ DOMAIN GivenReg.args =
                  IF Fits(opts.form) THEN DOMAIN UserReg.args ELSE {}
           /\ \A i \in DOMAIN GivenReg.args :
                  /\ GivenReg.args[i].name = UserReg.args[i].name
                  /\ GivenReg.args[i].value =
                         IF UserReg.args[i].value = Bare THEN Empty ELSE UserReg.args[i].value
<1>1. UserReg \in Registration
  BY DEF UserReg, Option
<1>2. GivenReg = DecodedReg(UserReg)
  BY DEF GivenReg, UserReg, GivenInit
<1>3. UserReg.args \in Seq(Argument) /\ DecodedReg(UserReg).name = UserReg.name
  BY <1>1 DEF DecodedReg, Registration
<1>4. DecodedReg(UserReg).args =
          IF Fits(opts.form) THEN [i \in DOMAIN UserReg.args |-> Decoded(UserReg.args[i])]
          ELSE <<>>
  BY <1>1 DEF DecodedReg, Registration
<1>5. \A a \in Argument : /\ Decoded(a).name = a.name
                          /\ Decoded(a).value = IF a.value = Bare THEN Empty ELSE a.value
  BY DEF Decoded, Argument
<1>6. \A i \in DOMAIN UserReg.args : UserReg.args[i] \in Argument
  BY <1>3
<1> QED
  BY <1>1, <1>2, <1>3, <1>4, <1>5, <1>6

\* The last of the arguments of a name is the one the map has.
LEMMA LastWins ==
    ASSUME NEW S, NEW args \in Seq(S), NEW i \in DOMAIN args, IsLast(args, i)
    PROVE  args[i].name \in DOMAIN AsMap(args) /\ AsMap(args)[args[i].name] = args[i].value
<1> DEFINE k == CHOOSE j \in DOMAIN args : args[j].name = args[i].name /\ IsLast(args, j)
<1>1. k \in DOMAIN args /\ args[k].name = args[i].name /\ IsLast(args, k)
  OBVIOUS
<1>2. k = i
  <2> HIDE DEF k
  <2> QED
    BY <1>1 DEF IsLast
<1> QED
  BY <1>2 DEF AsMap, Names

\* A flag is the user's, or computed where the user has none.
LEMMA FlagsAreMerged ==
    /\ DOMAIN FullContext.args =
           DOMAIN AsMap(GivenReg.args) \cup DOMAIN BaseFlags(GivenReg, IsWorker)
    /\ \A n \in DOMAIN AsMap(GivenReg.args) :
           FullContext.args[n] = AsMap(GivenReg.args)[n]
    /\ DOMAIN AsMap(GivenReg.args) = Names(GivenReg.args)
<1>1. FullContext.args = Over(AsMap(GivenReg.args), BaseFlags(GivenReg, IsWorker))
  BY DEF FullContext, KubeletFlags
<1>2. DOMAIN AsMap(GivenReg.args) = Names(GivenReg.args)
  BY DEF AsMap
<1> QED
  BY <1>1, <1>2 DEF Over

\* Every argument in the form of the API reaches the kubelet.
THEOREM ArgumentsTheorem == Spec => []ArgumentsReachKubelet
<1>1. ASSUME DInv PROVE ArgumentsReachKubelet
  <2> SUFFICES ASSUME Done, Fits(opts.form), NEW i \in DOMAIN UserReg.args,
                      IsLast(UserReg.args, i)
               PROVE  /\ UserReg.args[i].name \in DOMAIN files.script.args
                      /\ files.script.args[UserReg.args[i].name] =
                             IF UserReg.args[i].value = Bare THEN Empty
                             ELSE UserReg.args[i].value
    BY DEF ArgumentsReachKubelet
  <2>1. opts \in Option /\ files.script.args = FullContext.args
    BY <1>1, AtTheEnd
  <2>2. i \in DOMAIN GivenReg.args /\ IsLast(GivenReg.args, i)
    BY <2>1, DecodedArguments DEF IsLast
  <2>3. GivenReg.args \in Seq(Argument)
    <3>1. GivenReg = DecodedReg(UserReg) /\ UserReg \in Registration
      BY <2>1, DecodedArguments DEF GivenReg, UserReg, GivenInit
    <3>2. DecodedReg(UserReg).args = [j \in DOMAIN UserReg.args |-> Decoded(UserReg.args[j])]
      BY <3>1 DEF DecodedReg, Registration
    <3>3. \A a \in Argument : Decoded(a) \in Argument
      BY DEF Decoded, Argument
    <3>4. UserReg.args \in Seq(Argument)
      BY <3>1 DEF Registration
    <3> QED
      BY <3>1, <3>2, <3>3, <3>4
  <2>4. /\ GivenReg.args[i].name \in DOMAIN AsMap(GivenReg.args)
        /\ AsMap(GivenReg.args)[GivenReg.args[i].name] = GivenReg.args[i].value
    BY <2>2, <2>3, LastWins
  <2> QED
    BY <2>1, <2>2, <2>4, FlagsAreMerged, DecodedArguments
<1> QED
  BY <1>1, DocumentsInductive, PTL

\* kubelet.conf and the kubelet have the same address, unless it was given twice.
THEOREM NodeIpTheorem == Spec => []NodeIpsAgree
<1>1. ASSUME DInv PROVE NodeIpsAgree
  <2> SUFFICES ASSUME Done,
                      ~\E i, j \in DOMAIN UserReg.args :
                           /\ i # j /\ UserReg.args[i].name = "node-ip"
                           /\ UserReg.args[j].name = "node-ip"
               PROVE  \/ /\ "node-ip" \notin DOMAIN files.script.args
                         /\ files.script.nodeIp = Empty
                      \/ /\ "node-ip" \in DOMAIN files.script.args
                         /\ files.script.nodeIp = files.script.args["node-ip"]
    BY DEF NodeIpsAgree
  <2> DEFINE args == GivenReg.args
  <2>1. /\ opts \in Option /\ files.script.args = FullContext.args
        /\ files.script.nodeIp = ArgValue(args, "node-ip")
    BY <1>1, AtTheEnd DEF FullContext
  <2>2. \A i, j \in DOMAIN args : args[i].name = "node-ip" /\ args[j].name = "node-ip" => i = j
    BY <2>1, DecodedArguments
  <2>3. "node-ip" \notin DOMAIN BaseFlags(GivenReg, IsWorker)
    BY DEF BaseFlags
  <2>4. CASE "node-ip" \notin Names(args)
    BY <2>1, <2>3, <2>4, FlagsAreMerged DEF ArgValue
  <2>5. CASE "node-ip" \in Names(args)
    <3>1. PICK i \in DOMAIN args : args[i].name = "node-ip"
      BY <2>5 DEF Names
    <3>2. IsFirst(args, i) /\ IsLast(args, i)
      <4>1. \A j \in DOMAIN args : j > i \/ j < i => j # i
        BY <2>1, DecodedArguments
      <4> QED
        BY <2>2, <3>1, <4>1 DEF IsFirst, IsLast
    <3>3. (CHOOSE j \in DOMAIN args : args[j].name = "node-ip" /\ IsFirst(args, j)) = i
      BY <2>2, <3>1, <3>2
    <3>4. (CHOOSE j \in DOMAIN args : args[j].name = "node-ip" /\ IsLast(args, j)) = i
      BY <2>2, <3>1, <3>2
    <3>5. ArgValue(args, "node-ip") = args[i].value
      BY <2>5, <3>3 DEF ArgValue
    <3>6. AsMap(args)["node-ip"] = args[i].value /\ "node-ip" \in DOMAIN AsMap(args)
      BY <2>5, <3>4 DEF AsMap
    <3> QED
      BY <2>1, <3>5, <3>6, FlagsAreMerged
  <2> QED
    BY <2>4, <2>5
<1> QED
  BY <1>1, DocumentsInductive, PTL

-------------------------------------------------------------------------------
(* The network.                                                             *)

\* The subnets of the cluster are exempt from the proxy wherever it is set, and the
\* default address of the DNS service is in that of the services.
THEOREM SubnetsTheorem == Spec => []SubnetsAreKnown
<1>1. ASSUME DInv PROVE SubnetsAreKnown
  <2>1. FullCluster.service = opts.service /\ FullCluster.pod = opts.pod
    BY DEF FullCluster, GivenCluster
  <2>2. ASSUME Done, opts.proxy
        PROVE  /\ files.proxy = files.script.noProxy
               /\ Given(cluster.service) \cup Given(cluster.pod) \subseteq files.proxy
    <3>1. /\ cluster = FullCluster /\ files.proxy = NoProxy(opts)
          /\ files.script.noProxy = NoProxy(opts)
      BY <1>1, <2>2, AtTheEnd
    <3>2. Given(opts.service) \cup Given(opts.pod) \subseteq NoProxy(opts)
      BY DEF NoProxy
    <3> QED
      BY <2>1, <3>1, <3>2
  <2>3. ASSUME OnControlPlane, opts.dns = None
        PROVE  files.kubelet.kubelet.dns = DnsIP(files.kubelet.cluster.service)
    BY <1>1, <2>1, <2>3, AtTheEnd DEF OnControlPlane, FullKubelet, OrDefault
  <2> QED
    BY <2>2, <2>3 DEF SubnetsAreKnown
<1> QED
  BY <1>1, DocumentsInductive, PTL
===============================================================================
