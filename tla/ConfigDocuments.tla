---------------------------- MODULE ConfigDocuments ----------------------------
(***************************************************************************)
(* The provider turning the cluster section of a node into the documents    *)
(* of a boot: kubeadm.yaml, cluster-config.yaml, kubelet-config.yaml, the   *)
(* proxy files and the parameters of kube-reconfigure.sh (src/main.go,      *)
(* src/stages, src/utils).                                                  *)
(*                                                                         *)
(* The functions hand the same Go objects on, some by value and some by     *)
(* pointer, and each document shows what its objects hold when it is        *)
(* printed.  So the provider is modelled as the sequence of its calls over  *)
(* those objects; v1beta3 and v1beta4 differ in the form of the arguments   *)
(* and in what a repeated one means.                                        *)
(*                                                                         *)
(* Left out: tokens and keys, fields that are copied and nothing else, and  *)
(* the text of the documents.                                               *)
(***************************************************************************)
EXTENDS Naturals, Sequences

CONSTANTS
    Options,        \* cluster sections
    Value,          \* names, addresses, subnets, argument values
    DefaultAPIAdvertiseAddress,     \* 0.0.0.0
    Hostname,       \* what the operating system calls the node
    Bare,           \* an argument value without quotes: a YAML number or boolean
    Empty,          \* the empty string
    None            \* not given

\* The arguments the code knows; one more stands for all others.
ArgName == {"node-ip", "hostname-override", "container-runtime-endpoint",
            "register-with-taints", "other"}

Optional == Value \cup {None}
Argument == [name : ArgName, value : Value \cup {Bare, Empty}]
Endpoint == [address : Optional, port : Nat]                    \* port 0: not given
Registration == [name : Optional, cri : Optional, taints : Optional, args : Seq(Argument)]

\* A field of arguments is written {name: value, ...} or [{name, value}, ...].
Form == {"map", "list"}

\* control_plane_host; only the colons of an IPv6 address call for brackets.
HostPort == [name : Value, v6 : BOOLEAN, brackets : {0, 1}, port : Nat]

Option ==
    [role : {"init", "controlplane", "worker"},
     version : {"none", "before131", "from131"},
     host : HostPort,
     form : Form,                                               \* of kubeletExtraArgs
     sans : Seq(Value), service : Optional, pod : Optional,
     initReg : Registration, initEndpoint : Endpoint,
     joinReg : Registration, controlPlane : Endpoint \cup {None},
     dns : Optional, proxy : BOOLEAN, noProxy : Optional]

ASSUME DocumentValues ==
    /\ Options \subseteq Option
    /\ Hostname \in Value /\ DefaultAPIAdvertiseAddress \in Value
    /\ None \notin Endpoint
    /\ None \notin Value /\ Bare \notin Value /\ Empty \notin Value /\ Bare # Empty
    /\ \A o \in Options :
           /\ o.host.brackets = 1 => o.host.v6
           /\ o.host.v6 /\ o.host.port # 0 => o.host.brackets = 1

VARIABLES
    opts,           \* the cluster section of this boot
    pc,             \* the call the provider is about to make
    ctx,            \* ClusterContext: what is passed on beside the configuration
    cluster,        \* ClusterConfiguration
    initCfg,        \* InitConfiguration
    joinCfg,        \* the node registration of JoinConfiguration
    controlPlane,   \* the object JoinConfiguration.ControlPlane points to, or None
    kubelet,        \* KubeletConfiguration
    files           \* what is printed, by document; None before

objects == <<cluster, initCfg, joinCfg, controlPlane, kubelet>>
vars == <<opts, pc, ctx, cluster, initCfg, joinCfg, controlPlane, kubelet, files>>

-------------------------------------------------------------------------------
(* Helpers of src/utils.                                                    *)

Given(v) == IF v = None THEN {} ELSE {v}
OrDefault(given, default) == IF given = None THEN default ELSE given

\* GetDefaultNoProxy, and the user's entries; "svc" for the names of services.
NoProxy(c) == Given(c.pod) \cup Given(c.service) \cup {"svc"} \cup Given(opts.noProxy)

\* The service subnet of a cluster whose configuration has none.
ServiceSubnet(given) == OrDefault(given, "10.96.0.0/12")

\* The tenth address; without a subnet, or with one kubeadm refuses anyway, that of
\* the default one.
DnsIP(subnet) == [tenth |-> ServiceSubnet(subnet)]

\* Seeded fault: the host is added whether it is there or not.
AlwaysAppend(s, e) == Append(s, e)

AppendIfNotPresent(s, e) ==
    IF \E i \in DOMAIN s : s[i] = e THEN s ELSE Append(s, e)

IsFirst(args, i) == \A j \in DOMAIN args : j < i => args[j].name # args[i].name
IsLast(args, i) == \A j \in DOMAIN args : j > i => args[j].name # args[i].name
Names(args) == {args[i].name : i \in DOMAIN args}

\* convertFromArgs: of a repeated argument the last one stays.
AsMap(args) ==
    [n \in Names(args) |->
        args[CHOOSE i \in DOMAIN args : args[i].name = n /\ IsLast(args, i)].value]

\* getArgValue takes the first; in a map there is only one.
ArgValue(args, n) ==
    IF n \in Names(args)
        THEN args[CHOOSE i \in DOMAIN args : args[i].name = n /\ IsFirst(args, i)].value
        ELSE Empty

\* The name a node registers under.
NodeName(reg) ==
    IF "hostname-override" \in Names(reg.args)
        THEN AsMap(reg.args)["hostname-override"]
        ELSE OrDefault(reg.name, Hostname)

\* The flags of the kubelet that follow from a registration without its arguments.
BaseFlags(reg, isWorker) ==
    [n \in {"container-runtime-endpoint"}
               \cup (IF isWorker /\ reg.taints # None THEN {"register-with-taints"} ELSE {})
               \cup (IF NodeName(reg) # Hostname THEN {"hostname-override"} ELSE {}) |->
        CASE n = "container-runtime-endpoint" -> OrDefault(reg.cri, "containerd.sock")
          [] n = "register-with-taints" -> reg.taints
          [] n = "hostname-override" -> NodeName(reg)]

\* maps.Copy: f laid over g.
Over(f, g) == [n \in DOMAIN f \cup DOMAIN g |-> IF n \in DOMAIN f THEN f[n] ELSE g[n]]

\* Seeded fault: the computed flags are laid over those of the user.
UserFlagsBelow(reg, isWorker) == Over(BaseFlags(reg, isWorker), AsMap(reg.args))

\* The arguments of the user are laid over them.
KubeletFlags(reg, isWorker) == Over(AsMap(reg.args), BaseFlags(reg, isWorker))

-------------------------------------------------------------------------------
(* Decoding.                                                                *)

IsWorker == opts.role = "worker"

\* JSON skips a field of the wrong form, and the error is dropped.
Fits(form) == (form = "map") = (opts.version = "before131")

\* JSON leaves a string empty where it finds a number or a boolean.
Decoded(arg) == [arg EXCEPT !.value = IF @ = Bare THEN Empty ELSE @]

DecodedReg(reg) ==
    [reg EXCEPT !.args = IF Fits(opts.form)
                             THEN [i \in DOMAIN @ |-> Decoded(@[i])] ELSE <<>>]

\* CreateClusterContext: what net.SplitHostPort does not take gets a port, and
\* net.JoinHostPort puts brackets around whatever has a colon.
WithPort(h) ==
    IF h.port # 0 THEN h
    ELSE [h EXCEPT !.port = 6443, !.brackets = IF h.v6 THEN @ + 1 ELSE @]

\* Two pairs of brackets are not taken apart any more: the host is all of it.
SplitHost(h) == IF h.brackets = 2 THEN "malformed" ELSE h.name

\* ClusterConfiguration and InitConfiguration as they are decoded.
GivenCluster ==
    [sans |-> opts.sans, host |-> WithPort(opts.host), service |-> opts.service,
     pod |-> opts.pod]

GivenInit == [reg |-> DecodedReg(opts.initReg), endpoint |-> opts.initEndpoint]

NoEndpoint == [address |-> None, port |-> 0]

Init ==
    /\ opts \in Options
    /\ pc = "provide"
    /\ ctx = [service |-> None, pod |-> None, args |-> None, revision |-> None,
              nodeIp |-> Empty]
    /\ cluster = None /\ initCfg = None /\ joinCfg = None
    /\ controlPlane = None /\ kubelet = None
    /\ files = [proxy |-> None, kubeadm |-> None, cluster |-> None,
                kubelet |-> None, script |-> None]

-------------------------------------------------------------------------------
(* The calls, in their order.                                               *)

\* Seeded fault: the subnets stay out of the context.
WithoutSubnets(c) == c

\* setClusterSubnetCtx.
WithSubnets(c) == [c EXCEPT !.service = opts.service, !.pod = opts.pod]

\* The options are decoded for the API the version calls for, and the subnets are
\* set in the context before any stage is built.
Provide ==
    /\ pc = "provide" /\ opts.version # "none"
    /\ cluster' = GivenCluster
    /\ initCfg' = GivenInit
    /\ joinCfg' = DecodedReg(opts.joinReg)
    /\ controlPlane' = opts.controlPlane
    /\ kubelet' = [dns |-> opts.dns]
    /\ ctx' = WithSubnets(ctx)
    /\ pc' = "proxy"
    /\ UNCHANGED <<opts, files>>

\* Options without a version, or that are not YAML, end the provider.
Die ==
    /\ pc = "provide" /\ opts.version = "none"
    /\ pc' = "dead"
    /\ UNCHANGED <<opts, ctx, objects, files>>

\* GetPreKubeadmProxyStage: the files of the kubelet and of containerd, empty
\* unless a proxy is configured.
PrintProxy ==
    /\ pc = "proxy"
    /\ files' = [files EXCEPT !.proxy = IF opts.proxy THEN NoProxy(ctx) ELSE {}]
    /\ pc' = "defaults"
    /\ UNCHANGED <<opts, ctx, objects>>

\* MutateClusterConfigDefaults and MutateKubeletDefaults, through their pointers.
SetDefaults ==
    /\ pc = "defaults"
    /\ cluster' = [cluster EXCEPT !.sans = AppendIfNotPresent(@, SplitHost(cluster.host))]
    /\ kubelet' = [dns |-> OrDefault(kubelet.dns, DnsIP(ctx.service))]
    /\ pc' = "arguments"
    /\ UNCHANGED <<opts, ctx, initCfg, joinCfg, controlPlane, files>>

\* The registration of the role.
OwnReg == IF opts.role = "init" THEN initCfg.reg ELSE joinCfg

\* Seeded fault: the address is that of a joining node on every node.
NodeIpOfJoin == ArgValue(joinCfg.args, "node-ip")

\* CustomNodeIp.
NodeIp == ArgValue(OwnReg.args, "node-ip")

\* What the scripts are going to be told.  The hash of the SANs is injective, and
\* the SANs stand for it.
SetArguments ==
    /\ pc = "arguments"
    /\ ctx' = [service |-> ctx.service, pod |-> ctx.pod,
               args |-> KubeletFlags(OwnReg, IsWorker), revision |-> cluster.sans,
               nodeIp |-> NodeIp]
    /\ pc' = "kubeadm"
    /\ UNCHANGED <<opts, objects, files>>

\* An endpoint without an address gets the one that stands for all of them.
Completed(e) == [e EXCEPT !.address = OrDefault(@, DefaultAPIAdvertiseAddress)]

\* The copy of InitConfiguration is completed; the object is left as it is.
PrintInit ==
    /\ pc = "kubeadm" /\ opts.role = "init"
    /\ files' = [files EXCEPT !.kubeadm =
           [reg |-> initCfg.reg, endpoint |-> Completed(initCfg.endpoint), kubelet |-> kubelet]]
    /\ pc' = "cluster"
    /\ UNCHANGED <<opts, ctx, objects>>

\* The copy of JoinConfiguration shares the control plane the user gave; one that
\* is made here belongs to the copy.
PrintJoin ==
    /\ pc = "kubeadm" /\ opts.role # "init"
    /\ controlPlane' = IF ~IsWorker /\ controlPlane # None THEN Completed(controlPlane)
                       ELSE controlPlane
    /\ files' = [files EXCEPT !.kubeadm =
           [reg |-> joinCfg, kubelet |-> None,
            endpoint |-> IF controlPlane' # None \/ IsWorker THEN controlPlane'
                         ELSE Completed(NoEndpoint)]]
    /\ pc' = IF IsWorker THEN "script" ELSE "cluster"
    /\ UNCHANGED <<opts, ctx, cluster, initCfg, joinCfg, kubelet>>

\* Seeded fault: the endpoint of the join is not copied.
UserInit == initCfg

\* The InitConfiguration that stands for this node in cluster-config.yaml.
OwnInit ==
    IF opts.role = "init" \/ controlPlane = None THEN initCfg
    ELSE [initCfg EXCEPT !.endpoint = controlPlane]

\* Seeded fault: the endpoint is copied into an object of its own.
PrintClusterByValue ==
    /\ pc = "cluster"
    /\ files' = [files EXCEPT !.cluster = [cluster |-> cluster, init |-> OwnInit]]
    /\ pc' = "kubelet"
    /\ UNCHANGED <<opts, ctx, objects>>

\* getUpdatedJoinClusterConfig writes into the shared InitConfiguration; what it prints
\* of the join besides is read by no phase that is given the document.
PrintCluster ==
    /\ pc = "cluster"
    /\ initCfg' = OwnInit
    /\ files' = [files EXCEPT !.cluster = [cluster |-> cluster, init |-> initCfg']]
    /\ pc' = "kubelet"
    /\ UNCHANGED <<opts, ctx, cluster, joinCfg, controlPlane, kubelet>>

PrintKubelet ==
    /\ pc = "kubelet"
    /\ files' = [files EXCEPT !.kubelet =
           [cluster |-> cluster, init |-> initCfg, kubelet |-> kubelet]]
    /\ pc' = "script"
    /\ UNCHANGED <<opts, ctx, objects>>

\* The command line of kube-reconfigure.sh.
PrintScript ==
    /\ pc = "script"
    /\ files' = [files EXCEPT !.script =
           [args |-> ctx.args, revision |-> ctx.revision, nodeIp |-> ctx.nodeIp,
            noProxy |-> IF opts.proxy THEN NoProxy(ctx) ELSE {}]]
    /\ pc' = "done"
    /\ UNCHANGED <<opts, ctx, objects>>

Next ==
    \/ Provide \/ Die \/ PrintProxy \/ SetDefaults \/ SetArguments
    \/ PrintInit \/ PrintJoin \/ PrintCluster \/ PrintKubelet \/ PrintScript

Spec == Init /\ [][Next]_vars
-------------------------------------------------------------------------------
(* Safety.                                                                  *)

Done == pc = "done"
OnControlPlane == Done /\ ~IsWorker

\* How kubeadm reads an endpoint: no address and the one for all mean the default
\* route, no port means 6443.
Effective(e) ==
    [address |-> IF e.address \in {None, DefaultAPIAdvertiseAddress} THEN "default route" ELSE e.address,
     port |-> IF e.port = 0 THEN 6443 ELSE e.port]

\* join.go:230-248 with 86-102.  The endpoint from which kube-reconfigure.sh
\* regenerates the manifests and certificates of a node is the one the node was
\* deployed with, unless its options describe the endpoint of an init node and
\* leave out their own.
RegeneratesAsJoined ==
    OnControlPlane =>
        \/ Effective(files.cluster.init.endpoint) = Effective(files.kubeadm.endpoint)
        \/ /\ opts.role = "controlplane" /\ opts.controlPlane = None
           /\ opts.initEndpoint # NoEndpoint

\* join.go:34-38.  The two documents kube-reconfigure.sh uploads agree on the
\* cluster and on the node, although they are printed from objects that change.
UploadsAgree ==
    OnControlPlane =>
        /\ files.kubelet.init = files.cluster.init
        /\ files.kubelet.cluster = files.cluster.cluster

\* defaults.go:22-50, certs.go:23-28.  The host that joining nodes connect to is
\* certified, once, unless it came with brackets and no port; and the revision the
\* script compares is that of the SANs it would certify.
HostIsCertified ==
    OnControlPlane =>
        LET sans == files.cluster.cluster.sans IN
        /\ files.script.revision = sans
        /\ \/ opts.host.brackets = 1 /\ opts.host.port = 0
           \/ \E i \in DOMAIN sans : sans[i] = opts.host.name
        /\ \A i, j \in DOMAIN sans :
               sans[i] = sans[j] /\ i # j => i <= Len(opts.sans) /\ j <= Len(opts.sans)

\* The registration the user wrote for the role.
UserReg == IF opts.role = "init" THEN opts.initReg ELSE opts.joinReg

\* kubelet.go:29-148.  Every argument the user wrote in the form of the API is a
\* flag of the kubelet; of a repeated one it is the last, and only numbers and
\* booleans without quotes are lost.
ArgumentsReachKubelet ==
    Done /\ Fits(opts.form) =>
        \A i \in DOMAIN UserReg.args :
            LET arg == UserReg.args[i] IN
            IsLast(UserReg.args, i) =>
                /\ arg.name \in DOMAIN files.script.args
                /\ files.script.args[arg.name] = IF arg.value = Bare THEN Empty ELSE arg.value

\* init.go:43 and 65, kubelet.go:113-122.  The address in kubelet.conf is the one the
\* kubelet runs with, unless the argument is repeated.
NodeIpsAgree ==
    Done =>
        \/ "node-ip" \notin DOMAIN files.script.args /\ files.script.nodeIp = Empty
        \/ /\ "node-ip" \in DOMAIN files.script.args
           /\ files.script.nodeIp = files.script.args["node-ip"]
        \/ \E i, j \in DOMAIN UserReg.args :
               i # j /\ UserReg.args[i].name = "node-ip" /\ UserReg.args[j].name = "node-ip"

\* main.go:141-149, proxy.go:35-89 and defaults.go:64-74.  With a proxy, the files of
\* the kubelet and of containerd and the parameters of the scripts exempt the same
\* names, the subnets of the cluster among them; and unless the user chose it, the
\* address of the DNS service lies in the service subnet it is uploaded with.
SubnetsAreKnown ==
    /\ Done /\ opts.proxy =>
           /\ files.proxy = files.script.noProxy
           /\ Given(cluster.service) \cup Given(cluster.pod) \subseteq files.proxy
    /\ OnControlPlane /\ opts.dns = None =>
           files.kubelet.kubelet.dns = DnsIP(files.kubelet.cluster.service)

-------------------------------------------------------------------------------
(* What each object and each document is, call by call.                     *)

FullCluster ==
    [GivenCluster EXCEPT !.sans = AppendIfNotPresent(@, SplitHost(WithPort(opts.host)))]
FullKubelet == [dns |-> OrDefault(opts.dns, DnsIP(opts.service))]

SharesControlPlane == opts.role = "controlplane" /\ opts.controlPlane # None
FullControlPlane ==
    IF SharesControlPlane THEN Completed(opts.controlPlane) ELSE opts.controlPlane
FullInit ==
    IF SharesControlPlane THEN [GivenInit EXCEPT !.endpoint = FullControlPlane] ELSE GivenInit

GivenReg == IF opts.role = "init" THEN GivenInit.reg ELSE DecodedReg(opts.joinReg)
FullContext ==
    [service |-> opts.service, pod |-> opts.pod, args |-> KubeletFlags(GivenReg, IsWorker),
     revision |-> FullCluster.sans, nodeIp |-> ArgValue(GivenReg.args, "node-ip")]
NodeEndpoint ==
    CASE opts.role = "init" -> Completed(opts.initEndpoint)
      [] opts.role # "init" /\ (opts.controlPlane # None \/ IsWorker) -> FullControlPlane
      [] OTHER -> Completed(NoEndpoint)

PrintedProxy == {"defaults", "arguments", "kubeadm", "cluster", "kubelet", "script", "done"}
HasDefaults == PrintedProxy \ {"defaults"}
HasArguments == HasDefaults \ {"arguments"}
PrintedKubeadm == HasArguments \ {"kubeadm"}
PrintedCluster == PrintedKubeadm \ {"cluster"}
PrintedKubelet == PrintedCluster \ {"kubelet"}
Label == {"provide", "dead", "proxy"} \cup PrintedProxy

ContextInv ==
    /\ pc \in {"proxy"} \cup PrintedProxy =>
           ctx.service = opts.service /\ ctx.pod = opts.pod
    /\ pc \in HasArguments => ctx = FullContext
    /\ ctx = [service |-> ctx.service, pod |-> ctx.pod, args |-> ctx.args,
              revision |-> ctx.revision, nodeIp |-> ctx.nodeIp]

ObjectsInv ==
    pc \in {"proxy"} \cup PrintedProxy =>
        /\ cluster = IF pc \in HasDefaults THEN FullCluster ELSE GivenCluster
        /\ kubelet = IF pc \in HasDefaults THEN FullKubelet ELSE [dns |-> opts.dns]
        /\ joinCfg = DecodedReg(opts.joinReg)
        /\ controlPlane = IF pc \in PrintedKubeadm THEN FullControlPlane ELSE opts.controlPlane
        /\ initCfg = IF pc \in PrintedCluster THEN FullInit ELSE GivenInit

FilesInv ==
    /\ files = [proxy |-> files.proxy, kubeadm |-> files.kubeadm, cluster |-> files.cluster,
                kubelet |-> files.kubelet, script |-> files.script]
    /\ pc \in PrintedProxy => files.proxy = IF opts.proxy THEN NoProxy(opts) ELSE {}
    /\ pc \in PrintedKubeadm =>
           files.kubeadm = [reg |-> GivenReg, endpoint |-> NodeEndpoint,
                            kubelet |-> IF opts.role = "init" THEN FullKubelet ELSE None]
    /\ pc \in PrintedCluster /\ ~IsWorker =>
           files.cluster = [cluster |-> FullCluster, init |-> FullInit]
    /\ pc \in PrintedKubelet /\ ~IsWorker =>
           files.kubelet = [cluster |-> FullCluster, init |-> FullInit, kubelet |-> FullKubelet]
    /\ Done =>
           files.script = [args |-> FullContext.args, revision |-> FullCluster.sans,
                           nodeIp |-> FullContext.nodeIp,
                           noProxy |-> IF opts.proxy THEN NoProxy(opts) ELSE {}]

DInv ==
    /\ opts \in Option /\ pc \in Label /\ (pc \in {"cluster", "kubelet"} => ~IsWorker)
    /\ ContextInv /\ ObjectsInv /\ FilesInv
===============================================================================
