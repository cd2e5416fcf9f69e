---------------------------- MODULE KubeReconfigure ----------------------------
(***************************************************************************)
(* scripts/kube-reconfigure.sh on one node, boot after boot: the script     *)
(* brings what an already deployed node has on its disk in line with the    *)
(* configuration of this boot.  Its author can change the SANs of the API   *)
(* server and the kubelet flags between two boots.                          *)
(*                                                                         *)
(* The script looks at no exit status, so a failing command is passed over, *)
(* and a node may lose power between any two commands.  The node's own API  *)
(* server is a pod of its own kubelet: it runs when the kubelet does and    *)
(* the certificate is there, and is down after every boot until then.       *)
(*                                                                         *)
(* Left out: the contents of the manifests and of the kubelet configuration *)
(* (rewritten at each boot, read back nowhere), the file permissions and    *)
(* the proxy.  The ConfigMap the script uploads is modelled in KubeUpgrade. *)
(***************************************************************************)
EXTENDS Naturals

CONSTANTS
    Sans,           \* sets of certSANs, by their revision
    FirstSans,      \* the one the node was deployed with
    Flags,          \* values of KUBELET_KUBEADM_ARGS
    None,           \* no file, no certificate, no process
    MaxReboots, MaxChanges, MaxCrashes, MaxFailures     \* the budgets

ASSUME ReconfigureValues ==
    /\ FirstSans \in Sans /\ None \notin Sans
    /\ Flags # {} /\ None \notin Flags

ASSUME ReconfigureBudget ==
    /\ MaxReboots \in Nat /\ MaxChanges \in Nat
    /\ MaxCrashes \in Nat /\ MaxFailures \in Nat

VARIABLES
    role,       \* node_role: "worker" or "controlplane" (init counts as one)
    otherServer,\* does another node serve the endpoint of admin.conf?
    pc,         \* the command the script is about to run
    sans,       \* certSANs in the cluster-config.yaml of this boot
    flags,      \* kubelet_envs of this boot
    revision,   \* opt/kubeadm/.kubeadm_certs_sans_revision, or None
    cert,       \* SANs of /etc/kubernetes/pki/apiserver.crt, or None
    env,        \* /var/lib/kubelet/kubeadm-flags.env
    conf,       \* is /etc/kubernetes/kubelet.conf there?
    kubelet,    \* flags the kubelet runs with, or None when it is down
    api,        \* SANs of the certificate the node's API server runs with
    spent       \* how much of each budget is used

disk == <<revision, cert, env, conf>>
boot == <<role, otherServer, sans, flags>>
vars == <<role, otherServer, pc, sans, flags, revision, cert, env, conf, kubelet, api, spent>>

-------------------------------------------------------------------------------
Label == {"start", "revision", "remove", "generate", "pod", "recert", "etcd",
          "envs", "move", "conf", "restart", "final", "up"}

Budget == [reboots |-> MaxReboots, changes |-> MaxChanges,
           crashes |-> MaxCrashes, failures |-> MaxFailures]

Spend(kind) ==
    /\ spent[kind] < Budget[kind]
    /\ spent' = [spent EXCEPT ![kind] = @ + 1]

Fine == UNCHANGED spent
Fail == Spend("failures")
IsWorker == role = "worker"

\* The init or join stage has just deployed the node, with the configuration of
\* this boot, and the script runs for the first time.
Init ==
    /\ role \in {"worker", "controlplane"}
    /\ otherServer \in BOOLEAN
    /\ pc = "start"
    /\ sans = FirstSans
    /\ flags \in Flags
    /\ revision = None
    /\ cert = IF IsWorker THEN None ELSE FirstSans
    /\ env = flags
    /\ conf = TRUE
    /\ kubelet = flags
    /\ api = cert
    /\ spent = [reboots |-> 0, changes |-> 0, crashes |-> 0, failures |-> 0]

-------------------------------------------------------------------------------
(* The script.                                                              *)

\* A kubelet without kubelet.conf does not come up.
Started == IF conf THEN env ELSE None

\* restart_kubelet, called at four places; the pods of the node live on.
RestartKubelet ==
    /\ \/ pc = "start" /\ pc' = IF IsWorker THEN "envs" ELSE "revision"
       \/ pc = "recert" /\ pc' = "etcd"
       \/ pc = "restart" /\ pc' = "final"
       \/ pc = "final" /\ pc' = "up"
    /\ kubelet' = Started
    /\ UNCHANGED <<boot, disk, api, spent>>

\* Seeded fault: a revision that was once written is never compared again.
NotRecorded == revision = None

\* The stored revision differs from the one of this boot.
SansChanged == revision # None /\ revision # sans

\* regenerate_apiserver_certs_sans: the first run only records the revision.
CheckRevision ==
    /\ pc = "revision"
    /\ revision' = IF revision = None THEN sans ELSE revision
    /\ pc' = IF SansChanged THEN "remove" ELSE "etcd"
    /\ UNCHANGED <<boot, cert, env, conf, kubelet, api, spent>>

RemoveCert ==
    /\ pc = "remove"
    /\ cert' = None
    /\ pc' = "generate"
    /\ UNCHANGED <<boot, revision, env, conf, kubelet, api, spent>>

GenerateCert ==
    /\ pc = "generate"
    /\ \/ cert' = sans /\ Fine
       \/ UNCHANGED cert /\ Fail
    /\ pc' = "pod"
    /\ UNCHANGED <<boot, revision, env, conf, kubelet, api>>

\* Seeded fault: the old pod is left running.
PodKept == api

\* What runs of the API server once its pod is stopped and removed.
PodAfterDelete == None

\* crictl stopp and rmp: the API server is gone until the kubelet starts it anew.
DeletePod ==
    /\ pc = "pod"
    /\ \/ api' = PodAfterDelete /\ Fine
       \/ UNCHANGED api /\ Fail
    /\ pc' = "recert"
    /\ UNCHANGED <<boot, disk, kubelet>>

\* Seeded fault: the wait is for the API server of the node itself.
OwnApiAnswers == api # None

\* The endpoint of admin.conf answers.
ApiAnswers == api # None \/ otherServer

\* regenerate_etcd_manifests waits for ever for an API server; the kubelet
\* configuration is uploaded and fetched right after.
WaitForApi ==
    /\ pc = "etcd"
    /\ ApiAnswers
    /\ pc' = "envs"
    /\ UNCHANGED <<boot, disk, kubelet, api, spent>>

\* regenerate_kubelet_envs, first command.
WriteEnvs ==
    /\ pc = "envs"
    /\ env' = flags
    /\ pc' = IF IsWorker THEN "restart" ELSE "move"
    /\ UNCHANGED <<boot, revision, cert, conf, kubelet, api, spent>>

\* regenerate_kubelet_envs: kubelet.conf is moved out of the way ...
MoveConf ==
    /\ pc = "move"
    /\ conf' = FALSE
    /\ pc' = "conf"
    /\ UNCHANGED <<boot, revision, cert, env, kubelet, api, spent>>

\* Seeded fault: `kubeadm init phase kubeconfig kubelet` left out.
ConfLost == FALSE

\* What the phase leaves when it succeeds.
ConfMade == TRUE

\* ... and made anew by kubeadm.
MakeConf ==
    /\ pc = "conf"
    /\ \/ conf' = ConfMade /\ Fine
       \/ UNCHANGED conf /\ Fail
    /\ pc' = "restart"
    /\ UNCHANGED <<boot, revision, cert, env, kubelet, api>>

Script ==
    \/ RestartKubelet \/ CheckRevision \/ RemoveCert \/ GenerateCert
    \/ DeletePod \/ WaitForApi \/ WriteEnvs \/ MoveConf \/ MakeConf

-------------------------------------------------------------------------------
(* The environment.                                                         *)

\* The kubelet starts the API server as soon as it finds its certificate.
StartApi ==
    /\ kubelet # None /\ cert # None /\ api = None
    /\ api' = cert
    /\ UNCHANGED <<pc, boot, disk, kubelet, spent>>

\* The node boots, with the SANs it had or with changed ones, and any flags.
Boot(kind, newSans) ==
    /\ spent[kind] < Budget[kind]
    /\ newSans # sans => spent.changes < Budget.changes
    /\ spent' = [spent EXCEPT ![kind] = @ + 1,
                              !.changes = IF newSans = sans THEN @ ELSE @ + 1]
    /\ sans' = newSans
    /\ flags' \in Flags
    /\ pc' = "start"
    /\ kubelet' = Started
    /\ api' = None
    /\ UNCHANGED <<role, otherServer, disk>>

Reboot == pc = "up" /\ \E s \in Sans : Boot("reboots", s)
Crash == pc # "up" /\ \E s \in Sans : Boot("crashes", s)

Next == Script \/ StartApi \/ Reboot \/ Crash

Spec == Init /\ [][Next]_vars

\* The script and the kubelet keep working; nobody has to reboot the node.
FairSpec == Spec /\ WF_vars(Script) /\ WF_vars(StartApi)

-------------------------------------------------------------------------------
(* Safety.                                                                  *)

TypeOK ==
    /\ role \in {"worker", "controlplane"} /\ otherServer \in BOOLEAN
    /\ pc \in Label
    /\ sans \in Sans
    /\ flags \in Flags
    /\ revision \in Sans \cup {None}
    /\ cert \in Sans \cup {None}
    /\ env \in Flags
    /\ conf \in BOOLEAN
    /\ kubelet \in Flags \cup {None}
    /\ api \in Sans \cup {None}
    /\ spent \in [reboots : Nat, changes : Nat, crashes : Nat, failures : Nat]

AtRest == pc = "up" /\ role = "controlplane"

\* kube-reconfigure.sh:54-79.  The first change of the SANs is carried out, and
\* stays carried out over later boots, as long as no node goes down in the middle
\* of the script and no command fails.
FirstChangeCarriedOut ==
    spent.changes <= 1 /\ spent.crashes = 0 /\ spent.failures = 0
        => (AtRest => cert = sans)

\* The same lines.  A certificate that does not fit the configuration is left
\* alone only where the configuration has come back to the recorded revision.
CertFollowsConfig ==
    spent.failures = 0 /\ AtRest => cert = sans \/ revision = sans

\* kube-reconfigure.sh:73-78.  Unless a command failed, the API server of a node
\* at rest runs with the certificate on disk, never with one that was replaced.
ApiServesDisk ==
    spent.failures = 0 /\ AtRest => api \in {None, cert}

\* kube-reconfigure.sh:81-95 and 151.  A boot that ends leaves a kubelet that can
\* start and runs with the flags of this boot, wherever earlier boots were cut
\* off; only a failing kubeadm keeps it from that.
KubeletRunsFlags ==
    spent.failures = 0 /\ pc = "up" => conf /\ kubelet = flags

\* kube-reconfigure.sh:62-65, "no change in certs sans revision": a node at rest
\* has the SANs it is configured with.
CertMatchesConfig == AtRest => cert = sans

\* Where a boot can hang: the API server waited for cannot start, for want of
\* kubelet.conf or of its certificate, which only later commands could restore.
Wedged == pc = "etcd" /\ (~conf \/ cert = None)

\* kube-reconfigure.sh:110-124.  Everywhere else the wait is for something that comes:
\* whatever crashed or failed, the kubelet was restarted before it and finds a
\* certificate to start the API server with.
WaitIsServed ==
    pc = "etcd" /\ ~ApiAnswers => Wedged \/ (kubelet # None /\ cert # None)

\* kube-reconfigure.sh:67-71 and 86-91.  It takes a crash or a failed command to hang
\* there.
WedgeNeedsFaults == spent.crashes = 0 /\ spent.failures = 0 => ~Wedged

-------------------------------------------------------------------------------
(* What makes the safety properties inductive.                              *)

\* Past the check of the revision the certificate is that of the configuration,
\* or the recorded revision is, and in between the old one is being replaced.
CertTrail ==
    spent.failures = 0 /\ role = "controlplane" =>
        /\ pc \in {"pod", "recert"} => cert = sans
        /\ pc \notin {"start", "revision", "remove", "generate"} =>
               cert = sans \/ revision = sans

\* The API server is behind the disk only while the certificate is replaced.
ApiTrail ==
    spent.failures = 0 /\ role = "controlplane" =>
        (pc \notin {"generate", "pod"} => api \in {None, cert})

\* The kubelet takes over what the last commands of the script prepare for it.
KubeletTrail ==
    /\ role = "worker" => conf /\ pc \notin {"move", "conf"}
    /\ spent.failures = 0 =>
        /\ pc \in {"move", "conf", "restart", "final", "up"} => env = flags
        /\ pc \in {"restart", "final", "up"} => conf
        /\ pc \in {"final", "up"} => kubelet = flags

\* Until the SANs change a second time, the recorded revision is the first one.
FirstChangeTrail ==
    /\ spent.changes <= 1 /\ spent.crashes = 0 /\ spent.failures = 0
    /\ role = "controlplane"
    => /\ revision # FirstSans => revision = None /\ spent.changes = 0
       /\ pc \notin {"start", "revision"} => revision = FirstSans
       /\ spent.changes = 0 =>
              /\ sans = FirstSans /\ cert = FirstSans
              /\ pc \notin {"remove", "generate"}
       /\ spent.changes = 1 => sans # FirstSans
       /\ pc \notin {"start", "revision", "remove", "generate"} => cert = sans

\* Up to the wait the kubelet is as the first restart left it; and without faults
\* kubelet.conf and certificate are missing only where they are being replaced.
WaitTrail ==
    /\ pc \in {"revision", "remove", "generate", "pod", "recert", "etcd"} =>
           kubelet = Started /\ role = "controlplane"
    /\ spent.crashes = 0 /\ spent.failures = 0 =>
           /\ conf \/ pc = "conf"
           /\ role = "controlplane" => cert # None \/ pc = "generate"

RInv ==
    /\ TypeOK /\ CertTrail /\ ApiTrail /\ KubeletTrail /\ FirstChangeTrail /\ WaitTrail
    /\ WaitIsServed /\ WedgeNeedsFaults

-------------------------------------------------------------------------------
(* Liveness.                                                                *)

\* kube-reconfigure.sh:113-124.  With finitely many crashes and failures the last
\* boot ends, or hangs in that one place; and it always ends with another API server
\* behind the endpoint, because then the wait is for something that comes whatever
\* state this node is in.
EndsOrWedged == <>[](pc = "up") \/ <>[](Wedged /\ ~otherServer)
===============================================================================
