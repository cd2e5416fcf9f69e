------------------------------ MODULE KubeUpgrade ------------------------------
(***************************************************************************)
(* The rolling upgrade of a kubeadm cluster: scripts/kube-upgrade.sh, run   *)
(* by every node at every boot, and the part of scripts/kube-reconfigure.sh *)
(* (run after it) that writes the same kubeadm-config ConfigMap.            *)
(*                                                                         *)
(* A node walks through the script one command at a time (pc).  What nodes  *)
(* share lives in the Kubernetes API: the upgrade-lock ConfigMap and the    *)
(* kubernetesVersion of the kubeadm-config ConfigMap.  What survives a      *)
(* reboot is on the node's disk: the sentinel file, the kubelet binary and  *)
(* existing-cluster-config.yaml.  A node may lose power at any command, a   *)
(* request to the API server or a kubeadm command may fail, and the answer  *)
(* to a request may be lost; each of these draws on a budget (spent).       *)
(*                                                                         *)
(* Left out: the proxy variables, the logs, the sleeps, and the wait of     *)
(* start_kubelet (the API server is assumed to come back).  The             *)
(* kubernetesVersion of cluster-config.yaml is the version of the image, as *)
(* README.md:204-211 demands.                                               *)
(***************************************************************************)
EXTENDS Naturals

CONSTANTS
    ControlPlane,   \* nodes whose NODE_ROLE is not "worker"
    Worker,
    Version,        \* Kubernetes versions, ordered as release numbers
    FirstVersion,   \* the version the cluster was created with
    NoNode,         \* value of the lock when the ConfigMap does not exist
    NoConfig,       \* an empty existing-cluster-config.yaml
    NoVersion,      \* an empty sentinel file
    Rollback,       \* may a node boot an image older than its last one?
    MaxReboots, MaxCrashes, MaxFailures     \* the budgets

Node == ControlPlane \cup Worker

ASSUME NodeAssumption ==
    /\ ControlPlane \cap Worker = {}
    /\ ControlPlane # {}
    /\ NoNode \notin Node

ASSUME VersionAssumption ==
    /\ Version \subseteq Nat
    /\ FirstVersion \in Version
    /\ NoConfig \notin Version /\ NoVersion \notin Version
    /\ Rollback \in BOOLEAN

ASSUME BudgetAssumption ==
    MaxReboots \in Nat /\ MaxCrashes \in Nat /\ MaxFailures \in Nat

VARIABLES
    pc,         \* the command each node is about to run
    image,      \* version of the kubeadm binary of the booted image
    sentinel,   \* opt/sentinel_kubeadmversion: last version deployed, or NoVersion
    kubelet,    \* version of the installed kubelet binary
    saved,      \* version in existing-cluster-config.yaml, or NoConfig
    lock,       \* data.node of the upgrade-lock ConfigMap, or NoNode
    cm,         \* kubernetesVersion in the kubeadm-config ConfigMap
    applied,    \* versions whose `kubeadm upgrade apply` succeeded (history)
    spent       \* how much of each budget is used

disk == <<sentinel, kubelet, saved>>
vars == <<pc, image, sentinel, kubelet, saved, lock, cm, applied, spent>>

-------------------------------------------------------------------------------
\* The points of a boot.  "start" to "binary" are kube-upgrade.sh, "reconfigure"
\* and "reupload" kube-reconfigure.sh, and a node that is "up" has finished.
Label ==
    {"start", "lock", "holder", "loop", "save", "upload", "apply", "node",
     "revert", "mark", "record", "unlock", "binary", "reconfigure", "reupload", "up"}

\* The commands a control plane node runs between taking and deleting the lock.
Section ==
    {"loop", "save", "upload", "apply", "node", "revert", "mark", "record", "unlock"}

Goto(n, l) == pc' = [pc EXCEPT ![n] = l]

Budget ==
    [reboots |-> MaxReboots, crashes |-> MaxCrashes, failures |-> MaxFailures]

Spend(kind) ==
    /\ spent[kind] < Budget[kind]
    /\ spent' = [spent EXCEPT ![kind] = @ + 1]

Fail == Spend("failures")
Fine == UNCHANGED spent

Init ==
    /\ pc = [n \in Node |-> "up"]
    /\ image = [n \in Node |-> FirstVersion]
    /\ sentinel = [n \in Node |-> FirstVersion]
    /\ kubelet = [n \in Node |-> FirstVersion]
    /\ saved = [n \in Node |-> NoConfig]
    /\ lock = NoNode
    /\ cm = FirstVersion
    /\ applied = {FirstVersion}
    /\ spent = [reboots |-> 0, crashes |-> 0, failures |-> 0]

-------------------------------------------------------------------------------
(* The tests of the scripts.  Each is followed where it is used; the seeded  *)
(* faults in front of them are wrong versions that the runs must tell apart. *)

\* kube-upgrade.sh:118, "$current_version" = "$old_version".
UpToDate(n) == sentinel[n] = image[n]

\* kube-upgrade.sh:129, "$NODE_ROLE" != "worker".
TakesLock(n) == n \in ControlPlane

\* Seeded faults: any holder is taken for the node itself; nobody ever is.
AnyHolder(n) == lock # NoNode
NeverHolder(n) == FALSE

\* kube-upgrade.sh:134, "$upgrade_node" = "$CURRENT_NODE_NAME".
IsHolder(n) == lock = n

\* Seeded fault: the role test of delete_lock_config_map dropped, or inverted.
EveryoneDeletes(n) == TRUE
WorkerDeletes(n) == n \in Worker

\* kube-upgrade.sh:45, "$NODE_ROLE" != "worker".
DeletesLock(n) == n \in ControlPlane

\* kubeadm accepts existing-cluster-config.yaml only if it holds a configuration.
SavedReadable(n) == saved[n] # NoConfig

\* Seeded fault: the upload is taken for the business of a node that is behind.
UploadsWhenBehind(n) == n \in ControlPlane /\ cm < image[n]

\* kube-reconfigure.sh:140-142, "$node_role" != "worker".
UploadsConfig(n) == n \in ControlPlane

\* Seeded fault: only control plane nodes replace their kubelet.
ControlPlaneKubelet(n) == n \in ControlPlane

\* kube-upgrade.sh:203: every role runs upgrade_kubelet once the loop is left.
ReplacesKubelet(n) == n \in Node

-------------------------------------------------------------------------------
(* kube-upgrade.sh, command by command.                                     *)

\* The record equals the image: exit 0, nothing else of the script is run.
AlreadyLatest(n) ==
    /\ pc[n] = "start"
    /\ UpToDate(n)
    /\ Goto(n, "reconfigure")
    /\ UNCHANGED <<image, disk, lock, cm, applied, spent>>

\* start_kubelet has seen the API server; control plane nodes go for the lock.
BeginUpgrade(n) ==
    /\ pc[n] = "start"
    /\ ~UpToDate(n)
    /\ Goto(n, IF TakesLock(n) THEN "lock" ELSE "loop")
    /\ UNCHANGED <<image, disk, lock, cm, applied, spent>>

\* `kubectl create configmap upgrade-lock`.  It fails when the ConfigMap exists,
\* when the API server cannot be reached, and (for the caller) when the object
\* was made and the answer lost.
CreateLock(n) ==
    /\ pc[n] = "lock"
    /\ \/ lock = NoNode /\ lock' = n /\ Goto(n, "loop") /\ Fine
       \/ lock = NoNode /\ lock' = n /\ Goto(n, "holder") /\ Fail
       \/ lock # NoNode /\ Goto(n, "holder") /\ Fine /\ UNCHANGED lock
       \/ Goto(n, "holder") /\ Fail /\ UNCHANGED lock
    /\ UNCHANGED <<image, disk, cm, applied>>

\* get_current_upgrading_node_name: resume as the holder, or sleep and try again.
CheckHolder(n) ==
    /\ pc[n] = "holder"
    /\ \/ IsHolder(n) /\ Goto(n, "loop") /\ Fine
       \/ ~IsHolder(n) /\ Goto(n, "lock") /\ Fine
       \/ Goto(n, "lock") /\ Fail
    /\ UNCHANGED <<image, disk, lock, cm, applied>>

\* A worker always runs `upgrade node`; a control plane node reads kubeadm-config
\* first, and starts the loop again when it could not.
ChooseCommand(n) ==
    /\ pc[n] = "loop"
    /\ \/ n \in Worker /\ Goto(n, "node") /\ Fine
       \/ n \in ControlPlane /\ cm = image[n] /\ Goto(n, "node") /\ Fine
       \/ n \in ControlPlane /\ cm # image[n] /\ Goto(n, "save") /\ Fine
       \/ n \in ControlPlane /\ Fail /\ UNCHANGED pc
    /\ UNCHANGED <<image, disk, lock, cm, applied>>

\* apply_new_kubeadm_config, first command: the redirection truncates the file
\* before kubectl has an answer, and no exit status is looked at.
SaveConfig(n) ==
    /\ pc[n] = "save"
    /\ \/ saved' = [saved EXCEPT ![n] = cm] /\ Fine
       \/ saved' = [saved EXCEPT ![n] = NoConfig] /\ Fail
    /\ Goto(n, "upload")
    /\ UNCHANGED <<image, sentinel, kubelet, lock, cm, applied>>

\* apply_new_kubeadm_config, second command: the new configuration, and with it
\* the new kubernetesVersion, is in the ConfigMap before anything is upgraded.
UploadConfig(n) ==
    /\ pc[n] = "upload"
    /\ \/ cm' = image[n] /\ Fine
       \/ UNCHANGED cm /\ Fail
    /\ Goto(n, "apply")
    /\ UNCHANGED <<image, disk, lock, applied>>

\* `kubeadm upgrade apply`, which ends by writing the version it applied to the
\* ConfigMap; when it fails it may have done so or not.
Apply(n) ==
    /\ pc[n] = "apply"
    /\ \/ /\ cm' = image[n]
          /\ applied' = applied \cup {image[n]}
          /\ Goto(n, "mark")
          /\ Fine
       \/ /\ cm' \in {cm, image[n]}
          /\ Goto(n, "revert")
          /\ Fail
          /\ UNCHANGED applied
    /\ UNCHANGED <<image, disk, lock>>

\* revert_kubeadm_config uploads the saved configuration, if there is one, and
\* the loop starts again whether that worked or not.
Revert(n) ==
    /\ pc[n] = "revert"
    /\ \/ SavedReadable(n) /\ cm' = saved[n] /\ Fine
       \/ ~SavedReadable(n) /\ UNCHANGED cm /\ Fine
       \/ UNCHANGED cm /\ Fail
    /\ Goto(n, "loop")
    /\ UNCHANGED <<image, disk, lock, applied>>

\* `kubeadm upgrade node`; a failure changes nothing and is tried again.
UpgradeNode(n) ==
    /\ pc[n] = "node"
    /\ \/ Goto(n, "mark") /\ Fine
       \/ Goto(n, "loop") /\ Fail
    /\ UNCHANGED <<image, disk, lock, cm, applied>>

\* The version is recorded as deployed: the redirection empties the file, ...
BeginMark(n) ==
    /\ pc[n] = "mark"
    /\ sentinel' = [sentinel EXCEPT ![n] = NoVersion]
    /\ Goto(n, "record")
    /\ UNCHANGED <<image, kubelet, saved, lock, cm, applied, spent>>

\* ... the version is written, and the loop is over.
EndMark(n) ==
    /\ pc[n] = "record"
    /\ sentinel' = [sentinel EXCEPT ![n] = image[n]]
    /\ Goto(n, "unlock")
    /\ UNCHANGED <<image, kubelet, saved, lock, cm, applied, spent>>

\* delete_lock_config_map deletes the ConfigMap, whoever it names; a failed
\* delete goes unnoticed.
DeleteLock(n) ==
    /\ pc[n] = "unlock"
    /\ \/ DeletesLock(n) /\ lock' = NoNode /\ Fine
       \/ ~DeletesLock(n) /\ UNCHANGED lock /\ Fine
       \/ DeletesLock(n) /\ UNCHANGED lock /\ Fail
    /\ Goto(n, "binary")
    /\ UNCHANGED <<image, disk, cm, applied>>

\* upgrade_kubelet installs the kubelet of the image.
UpgradeKubelet(n) ==
    /\ pc[n] = "binary"
    /\ IF ReplacesKubelet(n)
         THEN kubelet' = [kubelet EXCEPT ![n] = image[n]]
         ELSE UNCHANGED kubelet
    /\ Goto(n, "reconfigure")
    /\ UNCHANGED <<image, sentinel, saved, lock, cm, applied, spent>>

\* kube-reconfigure.sh: a control plane node uploads its own cluster-config.yaml,
\* with its own version, without the lock; and again if its SANs have changed.
Reconfigure(n) ==
    /\ pc[n] \in {"reconfigure", "reupload"}
    /\ \/ UploadsConfig(n) /\ cm' = image[n] /\ Fine
       \/ UploadsConfig(n) /\ UNCHANGED cm /\ Fail
       \/ ~UploadsConfig(n) /\ UNCHANGED cm /\ Fine
    /\ \/ Goto(n, "up")
       \/ pc[n] = "reconfigure" /\ UploadsConfig(n) /\ Goto(n, "reupload")
    /\ UNCHANGED <<image, disk, lock, applied>>

Script(n) ==
    \/ AlreadyLatest(n) \/ BeginUpgrade(n) \/ CreateLock(n) \/ CheckHolder(n)
    \/ ChooseCommand(n) \/ SaveConfig(n) \/ UploadConfig(n) \/ Apply(n)
    \/ Revert(n) \/ UpgradeNode(n) \/ BeginMark(n) \/ EndMark(n)
    \/ DeleteLock(n) \/ UpgradeKubelet(n) \/ Reconfigure(n)

-------------------------------------------------------------------------------
(* The environment: nodes are booted, possibly with another image.          *)

Boot(n, v) ==
    /\ v >= image[n] \/ Rollback
    /\ image' = [image EXCEPT ![n] = v]
    /\ Goto(n, "start")
    /\ UNCHANGED <<disk, lock, cm, applied>>

\* The operator reboots a node that has finished its boot, to upgrade it or not.
Reboot(n) ==
    /\ pc[n] = "up"
    /\ Spend("reboots")
    /\ \E v \in Version : Boot(n, v)

\* The node goes down in the middle of a script and is booted again.
Crash(n) ==
    /\ pc[n] # "up"
    /\ Spend("crashes")
    /\ \E v \in Version : Boot(n, v)

Next == \E n \in Node : Script(n) \/ Reboot(n) \/ Crash(n)

Spec == Init /\ [][Next]_vars

\* A script that runs keeps running: every command returns, and the loops of the
\* script sleep and try again for ever.  Nothing obliges a node to be rebooted.
Fairness == \A n \in Node : WF_vars(Script(n))

FairSpec == Spec /\ Fairness

-------------------------------------------------------------------------------
(* Safety.                                                                  *)

NoFaults == spent.crashes = 0 /\ spent.failures = 0

\* Every variable has the type its source of values gives it; in particular the
\* ConfigMap never holds the empty configuration a failed `kubectl get` saved.
TypeOK ==
    /\ pc \in [Node -> Label]
    /\ image \in [Node -> Version]
    /\ sentinel \in [Node -> Version \cup {NoVersion}]
    /\ kubelet \in [Node -> Version]
    /\ saved \in [Node -> Version \cup {NoConfig}]
    /\ lock \in Node \cup {NoNode}
    /\ cm \in Version
    /\ applied \subseteq Version
    /\ spent \in [reboots : Nat, crashes : Nat, failures : Nat]

\* kube-upgrade.sh:127-141.  Whatever is crashed, rebooted or lost, a control
\* plane node between taking and deleting the lock is the one the lock names, so
\* no two of them are ever there together.
SectionIsHeld ==
    \A n \in ControlPlane : pc[n] \in Section => lock = n

\* kube-upgrade.sh:184-191 and 203.  A node leaves the upgrade script only with
\* its record at the version of its image, whichever way (and after whichever
\* rollback) it went through the script.
FinishedOnImage ==
    \A n \in Node :
        pc[n] \in {"unlock", "binary", "reconfigure", "reupload", "up"}
            => sentinel[n] = image[n]

\* kube-upgrade.sh:165-168.  When nothing fails and no node goes down in the
\* middle of a script, a control plane node runs `upgrade node` towards a version
\* only after `upgrade apply` of that version has succeeded on some node, although
\* the version is in the ConfigMap before it has.
ApplyPrecedesNode ==
    \A n \in ControlPlane : pc[n] = "node" => image[n] \in applied

ApplyPrecedesNodeNoFaults == NoFaults => ApplyPrecedesNode

\* kube-upgrade.sh:120 and 203.  A node that has finished a boot runs the kubelet of its
\* image, upgraded or "on latest version" by its record: each boot ends on it as long as
\* no node goes down inside a script.
KubeletFollowsImage ==
    \A n \in Node : pc[n] = "up" => kubelet[n] = image[n]

KubeletFollowsImageNoCrash == spent.crashes = 0 => KubeletFollowsImage

\* kube-reconfigure.sh:44-52.  Writers of kubeadm-config take no lock between
\* them, and a node on an old image writes its old version back.  Still, once
\* every control plane node is up on one version, that version is the one in the
\* ConfigMap, whatever crashes and rollbacks came before.
ConfigMapConverges ==
    \A v \in Version :
        /\ spent.failures = 0
        /\ \A n \in ControlPlane : pc[n] = "up" /\ image[n] = v
        => cm = v

\* The lock names a node that is past the only command that could delete it.
LockLeaked ==
    /\ lock # NoNode
    /\ pc[lock] \in {"binary", "reconfigure", "reupload", "up"}

\* kube-upgrade.sh:43-49.  It takes a crash or a failed request for the lock to
\* outlive the upgrade it was taken for.
OnlyFaultsLeakTheLock == NoFaults => ~LockLeaked

\* kube-upgrade.sh:45-47 and 134-139.  No node that waits gets rid of a leaked lock: it
\* stays until the node it names is booted again.
LeakStays == [][LockLeaked => LockLeaked' \/ pc'[lock] = "start"]_vars

-------------------------------------------------------------------------------
(* What makes the safety properties inductive.                              *)

\* Workers never come near the lock or the ConfigMap.
Roles ==
    /\ lock \in ControlPlane \cup {NoNode}
    /\ \A n \in Worker :
           pc[n] \notin {"lock", "holder", "save", "upload", "apply", "revert"}

\* Until something fails, the version in the ConfigMap has been applied or is the
\* one its holder is about to apply; whatever a control plane node has deployed,
\* or is past deploying, has been applied.
AppliedTrail ==
    NoFaults =>
        /\ \/ cm \in applied
           \/ \E n \in ControlPlane : pc[n] = "apply" /\ image[n] = cm
        /\ \A n \in ControlPlane :
               /\ pc[n] # "record" => sentinel[n] \in applied
               /\ pc[n] \in {"node", "mark", "record"} => image[n] \in applied
               /\ pc[n] # "revert"

\* Until something fails, the lock is held by a node inside the section.
HolderInside == NoFaults /\ lock # NoNode => pc[lock] \in Section

\* Until a node goes down, its kubelet is the recorded one, but from the moment its
\* record is emptied until the kubelet of the new version is installed.
KubeletTrail ==
    spent.crashes = 0 =>
        \A n \in Node :
            pc[n] \notin {"record", "unlock", "binary"} => kubelet[n] = sentinel[n]

\* A record that is being written is empty.
RecordTrail == \A n \in Node : pc[n] = "record" => sentinel[n] = NoVersion

IInv ==
    /\ TypeOK
    /\ Roles
    /\ SectionIsHeld
    /\ FinishedOnImage
    /\ AppliedTrail
    /\ HolderInside
    /\ KubeletTrail
    /\ RecordTrail
    /\ ConfigMapConverges

-------------------------------------------------------------------------------
(* The abstract protocol: the lock is the right to change the record.       *)

RU == INSTANCE RollingUpgrade
          WITH Unreadable <- NoVersion,
               holder <- lock, target <- image, version <- sentinel

\* kube-upgrade.sh implements the rolling upgrade: records of control plane nodes
\* change under the lock only, and the lock is given up by its holder alone, and
\* only when that node's record is at its image.
ImplementsRollingUpgrade == RU!Spec

\* What NodeLife knows of one of these nodes: a settled member, and no reset.
CN(n) == INSTANCE ClusterNode
             WITH None <- NoNode, Unreadable <- NoVersion, image <- image[n],
                  member <- TRUE, settled <- TRUE, record <- sentinel[n],
                  resting <- (pc[n] = "up"), touched <- FALSE

\* kube-upgrade.sh:107-206.  All that lock, ConfigMap, retries and the other nodes do to
\* a node is what the upgrade of NodeLife does to it.
NodesAreClusterNodes == [][\A n \in Node : [CN(n)!Next]_(CN(n)!vars)]_vars

-------------------------------------------------------------------------------
(* Liveness, under the fairness of the script loops and bounded faults.     *)

Settled == \A n \in Node : pc[n] = "up"

\* kube-upgrade.sh:130-141 and 145-202.  Faults being finite, every node gets
\* through its boot, control plane nodes unless a leaked lock stays: a node that
\* went down inside the section comes back, finds its own name in the lock and
\* resumes, no two nodes wait for each other, and a worker waits for none.
SettlesUnlessLeaked ==
    \A n \in Node : <>[](pc[n] = "up") \/ (n \in ControlPlane /\ <>[]LockLeaked)

-------------------------------------------------------------------------------
(* What the comments of the scripts say, and the scripts do not do.         *)

\* kube-upgrade.sh:44, "Delete the configmap lock once the upgrade completes": no
\* lock is left when every node is up.
NoLockAtRest == Settled => lock = NoNode
===============================================================================
