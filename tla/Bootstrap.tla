------------------------------- MODULE Bootstrap -------------------------------
(***************************************************************************)
(* How a node becomes a member of the cluster: the init and join stages the *)
(* provider emits, the scripts kube-init.sh, kube-join.sh and               *)
(* kube-post-init.sh they run, and the marker files that keep them from     *)
(* running twice.                                                           *)
(*                                                                         *)
(* kubeadm is tried until it succeeds; after every failure the kube-vip     *)
(* manifest is put aside, the node is wiped by `kubeadm reset` and the      *)
(* manifest put back.  The scripts run under `set -e`, so a failing command *)
(* between two attempts ends the script, and yip, which executes the        *)
(* stages, goes on with the next command: it touches the marker.  A node    *)
(* may lose power at any point, in the middle of a copy as well: `cp` opens *)
(* its target first, and the scripts only ask whether a file is there.  The *)
(* clusters the init node creates are numbered, so that one that was wiped  *)
(* and one that replaced it differ.                                         *)
(*                                                                         *)
(* Left out: the proxy variables, the network rules, the container images,  *)
(* and the sleeps.  The endpoint of the cluster is the init node            *)
(* (README.md:217), so it answers as long as the init node is a member.     *)
(***************************************************************************)
EXTENDS Naturals

CONSTANTS
    InitNode,       \* the node with role "init"
    ControlPlane,   \* the nodes with role "controlplane"
    Worker,         \* the nodes with role "worker"
    Vip,            \* the nodes whose image brings a kube-vip manifest
    MaxReboots, MaxCrashes, MaxFailures, MaxAborts,     \* the budgets
    MaxExpiries, MaxRefusals

Joiner == ControlPlane \cup Worker
Node == {InitNode} \cup Joiner

ASSUME BootstrapRoles ==
    /\ InitNode \notin Joiner
    /\ ControlPlane \cap Worker = {}
    /\ Vip \subseteq {InitNode} \cup ControlPlane

ASSUME BootstrapBudget ==
    /\ MaxReboots \in Nat /\ MaxCrashes \in Nat /\ MaxFailures \in Nat
    /\ MaxAborts \in Nat /\ MaxExpiries \in Nat /\ MaxRefusals \in Nat

VARIABLES
    pc,         \* where each node is in its boot
    marker,     \* nodes with opt/kubeadm.init or opt/kubeadm.join
    postMarker, \* does the init node have opt/post-kubeadm.init?
    dirty,      \* nodes with files of a kubeadm run, which fail its preflight
    member,     \* number of the cluster each node belongs to, 0 for none
    created,    \* number of clusters the init node has created
    certs,      \* kubeadm-certs: "none", "timed" (its owner will expire), "orphaned"
                \* (the owner is gone, the secret still there) or "kept"
    manifest,   \* /etc/kubernetes/manifests/kube-vip.yaml: "none", "half" or "whole"
    backup,     \* opt/kubeadm/kube-vip.yaml, the same
    torn,       \* history: nodes on which a restore was cut off in its middle
    spent       \* how much of each budget is used

vip == <<manifest, backup, torn>>
cluster == <<dirty, member, created, certs>>
vars == <<pc, marker, postMarker, cluster, vip, spent>>

\* The cluster that answers at the endpoint, 0 when none does.
Serving == member[InitNode]

-------------------------------------------------------------------------------
\* "boot" is the start of the stages; "kubeadm" to "restore" is one turn of the
\* retry loop; a node that is "done" goes on to kube-upgrade.sh.
Label == {"boot", "kubeadm", "backup", "copying", "reset", "restore", "restoring",
          "touch", "post", "update", "posttouch", "done"}

\* Where a script is between two attempts.
Retrying == {"backup", "copying", "reset", "restore", "restoring"}

Goto(n, l) == pc' = [pc EXCEPT ![n] = l]

Budget == [reboots |-> MaxReboots, crashes |-> MaxCrashes,
           failures |-> MaxFailures, aborts |-> MaxAborts,
           expiries |-> MaxExpiries, refusals |-> MaxRefusals]

Spend(kind) ==
    /\ spent[kind] < Budget[kind]
    /\ spent' = [spent EXCEPT ![kind] = @ + 1]

Fine == UNCHANGED spent

Init ==
    /\ pc = [n \in Node |-> "boot"]
    /\ marker = {}
    /\ postMarker = FALSE
    /\ dirty = {}
    /\ member = [n \in Node |-> 0]
    /\ created = 0
    /\ certs = "none"
    /\ manifest = [n \in Node |-> IF n \in Vip THEN "whole" ELSE "none"]
    /\ backup = [n \in Node |-> "none"]
    /\ torn = {}
    /\ spent = [reboots |-> 0, crashes |-> 0, failures |-> 0, aborts |-> 0,
                expiries |-> 0, refusals |-> 0]

-------------------------------------------------------------------------------
(* The stages.                                                              *)

\* Where the stages lead a node with the markers of the current state.
AfterMarker(n) == IF n = InitNode /\ ~postMarker THEN "post" ELSE "done"

\* Seeded fault: the `If` of the stage is left out.
RunsAlways(n) == TRUE

\* The `If` of the init or join stage.
RunsScript(n) == n \notin marker

\* The marker decides whether the script runs.
StartStages(n) ==
    /\ pc[n] = "boot"
    /\ Goto(n, IF RunsScript(n) THEN "kubeadm" ELSE AfterMarker(n))
    /\ UNCHANGED <<marker, postMarker, cluster, vip, spent>>

\* The second command of the stage, run whatever became of the script.
Touch(n) ==
    /\ pc[n] = "touch"
    /\ marker' = marker \cup {n}
    /\ Goto(n, AfterMarker(n))
    /\ UNCHANGED <<postMarker, cluster, vip, spent>>

\* The same for the post-init stage.
TouchPost ==
    /\ pc[InitNode] = "posttouch"
    /\ postMarker' = TRUE
    /\ Goto(InitNode, "done")
    /\ UNCHANGED <<marker, cluster, vip, spent>>

-------------------------------------------------------------------------------
(* kube-init.sh and kube-join.sh.                                           *)

\* Seeded fault: the exit status of kubeadm is lost, in a pipe to tee, say.
StatusLost == "touch"

\* `until kubeadm ...`: a failure leads into the body of the loop.
AfterFailure == "backup"

\* A new cluster comes up on the init node, its certificates uploaded.
NewCluster ==
    /\ created' = created + 1
    /\ member' = [member EXCEPT ![InitNode] = created + 1]
    /\ certs' = "timed"

\* `kubeadm init` is refused on a node that was used, and can otherwise fail
\* before or after the new cluster has come up.
KubeadmInit ==
    /\ pc[InitNode] = "kubeadm"
    /\ \/ /\ InitNode \in dirty
          /\ Goto(InitNode, AfterFailure) /\ Fine /\ UNCHANGED cluster
       \/ /\ InitNode \notin dirty
          /\ dirty' = dirty \cup {InitNode}
          /\ \/ NewCluster /\ Goto(InitNode, "touch") /\ Fine
             \/ NewCluster /\ Goto(InitNode, AfterFailure) /\ Spend("failures")
             \/ /\ Goto(InitNode, AfterFailure) /\ Spend("failures")
                /\ UNCHANGED <<member, created, certs>>
    /\ UNCHANGED <<marker, postMarker, vip>>

\* What `kubeadm join` needs of the cluster: an endpoint that answers and, for a
\* control plane node, the certificates.  The token has no expiry (TTL 0).
CanJoin(n) ==
    /\ n \notin dirty
    /\ Serving # 0
    /\ n \in ControlPlane => certs # "none"

\* `kubeadm join` fails when it cannot join, and can fail when it can, before or
\* after the node is known to the cluster.
KubeadmJoin(n) ==
    /\ pc[n] = "kubeadm"
    /\ \/ ~CanJoin(n) /\ Goto(n, AfterFailure) /\ Fine /\ UNCHANGED cluster
       \/ /\ CanJoin(n)
          /\ dirty' = dirty \cup {n}
          /\ \/ /\ member' = [member EXCEPT ![n] = Serving]
                /\ \/ Goto(n, "touch") /\ Fine
                   \/ Goto(n, AfterFailure) /\ Spend("failures")
             \/ Goto(n, AfterFailure) /\ Spend("failures") /\ UNCHANGED member
          /\ UNCHANGED <<created, certs>>
    /\ UNCHANGED <<marker, postMarker, vip>>

\* Seeded fault: the role is compared with "controlplane", and init forgotten.
JoinersBackUp(n) == manifest[n] # "none" /\ n \in ControlPlane

\* Whether the manifest is copied aside: only that it exists is asked.
BacksUp(n) == manifest[n] # "none" /\ n \notin Worker

BeginBackup(n) ==
    /\ pc[n] = "backup"
    /\ IF BacksUp(n) THEN backup' = [backup EXCEPT ![n] = "half"] /\ Goto(n, "copying")
                     ELSE UNCHANGED backup /\ Goto(n, "reset")
    /\ UNCHANGED <<marker, postMarker, cluster, manifest, torn, spent>>

\* The copy of a half manifest is as good as the manifest.
EndBackup(n) ==
    /\ pc[n] = "copying"
    /\ backup' = [backup EXCEPT ![n] = manifest[n]]
    /\ Goto(n, "reset")
    /\ UNCHANGED <<marker, postMarker, cluster, manifest, torn, spent>>

\* Seeded fault: files that fail the preflight checks survive the reset.
KeepDirty(n) == dirty

\* What is left of the used nodes when n has been reset.
Cleaned(n) == dirty \ {n}

\* do_kubeadm_reset wipes the node, the manifests with it; on the init node the
\* cluster and its secrets go too.
ResetNode(n) ==
    /\ pc[n] = "reset"
    /\ dirty' = Cleaned(n)
    /\ member' = [member EXCEPT ![n] = 0]
    /\ manifest' = [manifest EXCEPT ![n] = "none"]
    /\ certs' = IF n = InitNode THEN "none" ELSE certs
    /\ Goto(n, "restore")
    /\ UNCHANGED <<marker, postMarker, created, backup, torn, spent>>

\* The manifest is copied back if there is a backup, whole or half.
BeginRestore(n) ==
    /\ pc[n] = "restore"
    /\ IF backup[n] # "none" /\ n \notin Worker
          THEN manifest' = [manifest EXCEPT ![n] = "half"] /\ Goto(n, "restoring")
          ELSE UNCHANGED manifest /\ Goto(n, "kubeadm")
    /\ UNCHANGED <<marker, postMarker, cluster, backup, torn, spent>>

\* kubeadm is tried again after that.
EndRestore(n) ==
    /\ pc[n] = "restoring"
    /\ manifest' = [manifest EXCEPT ![n] = backup[n]]
    /\ Goto(n, "kubeadm")
    /\ UNCHANGED <<marker, postMarker, cluster, backup, torn, spent>>

\* A restore that is under way stops here.
CutOff(n) == torn' = IF pc[n] = "restoring" THEN torn \cup {n} ELSE torn

\* A command of the retry fails, `cp` in the middle of a file as well; `set -e` ends
\* the script, yip goes on.
Abort(n) ==
    /\ pc[n] \in Retrying
    /\ Spend("aborts")
    /\ CutOff(n)
    /\ Goto(n, "touch")
    /\ UNCHANGED <<marker, postMarker, cluster, manifest, backup>>

-------------------------------------------------------------------------------
(* kube-post-init.sh.                                                       *)

\* Seeded fault: the expression of sed matches no line.
StillTimed == "timed"

\* The owner without its `expiration` lives for ever, and the secret with it.
Unexpiring == "kept"

\* The script waits until it sees kubeadm-certs and reads the name of its owner, which
\* the secret has as long as it is there.
SeeOwner ==
    /\ pc[InitNode] = "post"
    /\ Serving # 0 /\ certs # "none"
    /\ Goto(InitNode, "update")
    /\ UNCHANGED <<marker, postMarker, cluster, vip, spent>>

\* It takes the expiration off that owner, if it is still there and the update is not
\* refused, and leaves the loop whether or not that worked.
UpdateOwner ==
    /\ pc[InitNode] = "update"
    /\ \/ certs' = (IF certs \in {"timed", "kept"} THEN Unexpiring ELSE certs) /\ Fine
       \/ UNCHANGED certs /\ Spend("refusals")
    /\ Goto(InitNode, "posttouch")
    /\ UNCHANGED <<marker, postMarker, dirty, member, created, vip>>

Script(n) ==
    \/ StartStages(n) \/ Touch(n)
    \/ BeginBackup(n) \/ EndBackup(n) \/ ResetNode(n) \/ BeginRestore(n) \/ EndRestore(n)
    \/ n = InitNode /\ (KubeadmInit \/ SeeOwner \/ UpdateOwner \/ TouchPost)
    \/ n \in Joiner /\ KubeadmJoin(n)

-------------------------------------------------------------------------------
(* The environment.                                                         *)

\* A node that was done is booted again.
Reboot(n) ==
    /\ pc[n] = "done"
    /\ Spend("reboots")
    /\ Goto(n, "boot")
    /\ UNCHANGED <<marker, postMarker, cluster, vip>>

\* The node goes down in the middle of its boot, and is booted again.
Crash(n) ==
    /\ pc[n] # "done"
    /\ Spend("crashes")
    /\ CutOff(n)
    /\ Goto(n, "boot")
    /\ UNCHANGED <<marker, postMarker, cluster, manifest, backup>>

\* The token that owns kubeadm-certs expires and is deleted.
Expire ==
    /\ certs = "timed"
    /\ Spend("expiries")
    /\ certs' = "orphaned"
    /\ UNCHANGED <<pc, marker, postMarker, dirty, member, created, vip>>

\* At any time after that the secret without an owner is collected.
Collect ==
    /\ certs = "orphaned"
    /\ certs' = "none"
    /\ UNCHANGED <<pc, marker, postMarker, dirty, member, created, vip, spent>>

Next ==
    \/ Expire \/ Collect
    \/ \E n \in Node : Script(n) \/ Abort(n) \/ Reboot(n) \/ Crash(n)

Spec == Init /\ [][Next]_vars

\* The scripts keep running; kubeadm's attempts follow one another for ever.
FairSpec == Spec /\ \A n \in Node : WF_vars(Script(n))

-------------------------------------------------------------------------------
(* Safety.                                                                  *)

TypeOK ==
    /\ pc \in [Node -> Label]
    /\ marker \subseteq Node
    /\ postMarker \in BOOLEAN
    /\ dirty \subseteq Node
    /\ member \in [Node -> 0..created]
    /\ created \in Nat
    /\ certs \in {"none", "timed", "orphaned", "kept"}
    /\ manifest \in [Node -> {"none", "half", "whole"}]
    /\ backup \in [Node -> {"none", "half", "whole"}]
    /\ torn \subseteq Node
    /\ spent \in [reboots : Nat, crashes : Nat, failures : Nat, aborts : Nat,
                  expiries : Nat, refusals : Nat]

\* Is the kube-vip manifest of n still to be had?
HasVip(n) == "whole" \in {manifest[n], backup[n]}

\* kube-init.sh:48-59 and kube-join.sh:50-61.  However often a node is reset, aborted or
\* switched off, in the middle of a backup as well, there is a whole kube-vip manifest
\* on it, unless a restore on this very node was cut off in its middle.
VipNeverLost == \A n \in Vip \ torn : HasVip(n)

\* A step keeps a whole manifest of n, or opens the backup for a half one.
KeptOrOverwritten(n) ==
    HasVip(n) => HasVip(n)' \/ (n \in torn /\ pc[n] = "backup" /\ manifest[n] = "half")

\* kube-init.sh:49-50 and kube-join.sh:51-52.  Even that loses nothing by itself: the last
\* whole copy goes when a later attempt fails and the half manifest is backed up over it,
\* and in no other step of any node.
VipLostByBackup == [][\A n \in Vip : KeptOrOverwritten(n)]_vars

\* The same lines: as long as no node goes down, kubeadm is never tried on a
\* node whose manifest is missing or half.
VipBeforeRetry ==
    spent.crashes = 0 =>
        \A n \in Vip : pc[n] = "kubeadm" => manifest[n] = "whole"

\* stages/init.go:86-102 and stages/join.go:160-180.  The marker freezes a node's
\* membership: whatever happens later, no script makes it leave its cluster or
\* move to another one.
MarkedStay == [][\A n \in marker : n \in marker' /\ member'[n] = member[n]]_vars

\* What a marker is to mean: later boots take its node for a member.
MarkedAreMembers == \A n \in marker : member[n] # 0

\* stages/init.go:99, stages/join.go:176.  Attempts that fail and crashes at any
\* point do not mark a node that is no member; only a failing command between two
\* attempts does.
MarkerMeansMember == spent.aborts = 0 => MarkedAreMembers

\* A node that was told it is in the cluster is in the one that answers.
NoOrphans ==
    \A n \in marker : member[n] # 0 => member[n] = Serving

\* kube-init.sh:60-80.  The init node rebuilds the cluster under the nodes that
\* have joined it only after a crash or a failed kubeadm.
OrphansNeedFaults == spent.crashes = 0 /\ spent.failures = 0 => NoOrphans

\* What the marker of the post-init stage is to mean, since the stage is not run again:
\* the certificates stay, so that control plane nodes can join for ever.
PostInitKeepsCerts == pc[InitNode] = "posttouch" \/ postMarker => certs = "kept"

\* kube-post-init.sh:18-24.  That is so through all crashes, reboots, failed attempts and
\* aborted scripts, but not if the update was refused or an owner expired before it.
CertsKeptUnlessMissed ==
    spent.refusals = 0 /\ spent.expiries = 0 => PostInitKeepsCerts

\* What makes the properties above inductive: where the stages take a node next
\* to its markers, and how far a node at each point has come.
Progress ==
    /\ \A n \in marker : pc[n] \in {"boot", "post", "update", "posttouch", "done"}
    /\ \A n \in Node : pc[n] \in {"post", "update", "posttouch", "done"} => n \in marker
    /\ \A n \in Joiner : pc[n] \notin {"post", "update", "posttouch"}
    /\ postMarker => InitNode \in marker /\ pc[InitNode] \in {"boot", "done"}

\* A node leaves its cluster only when it is wiped.
MembersAreUsed == \A n \in Node : member[n] # 0 => n \in dirty

MembersAtTouch ==
    spent.aborts = 0 => \A n \in Node : pc[n] = "touch" => member[n] # 0

\* The two copies during a turn of the loop, on any node.
VipTurn ==
    \A n \in Vip :
        /\ pc[n] = "copying" => manifest[n] # "none" /\ backup[n] = "half"
        /\ pc[n] = "reset" => manifest[n] \in {"none", backup[n]}
        /\ pc[n] = "restore" => manifest[n] = "none"
        /\ pc[n] = "restoring" => manifest[n] = "half"
        /\ manifest[n] = "half" => pc[n] = "restoring" \/ n \in torn

\* Without crashes a restore is cut off only when the script ends, and a manifest is
\* missing only between reset and restore.
VipInPlace ==
    spent.crashes = 0 => \A n \in Vip :
        /\ n \in torn => n \in marker \/ pc[n] = "touch"
        /\ pc[n] \in {"boot", "kubeadm", "backup", "copying", "reset"} =>
               n \in marker \/ manifest[n] = "whole"
        /\ pc[n] \in {"restore", "restoring"} => backup[n] = "whole"

\* An owner that has not expired is there to be updated.
CertsTrail ==
    spent.refusals = 0 /\ spent.expiries = 0 =>
        /\ certs # "orphaned"
        /\ pc[InitNode] = "update" => certs # "none"
        /\ PostInitKeepsCerts

\* Without faults the init node never wipes a cluster, so all members agree.
OneCluster ==
    spent.crashes = 0 /\ spent.failures = 0 =>
        /\ pc[InitNode] \notin Retrying
        /\ pc[InitNode] \in {"boot", "kubeadm"} /\ InitNode \notin marker =>
               /\ InitNode \notin dirty
               /\ \A n \in Node : member[n] = 0
        /\ \A n \in Node : member[n] # 0 => member[n] = Serving

BInv ==
    /\ TypeOK /\ Progress
    /\ VipNeverLost /\ VipTurn /\ VipInPlace
    /\ MarkerMeansMember /\ MembersAtTouch /\ MembersAreUsed
    /\ CertsTrail /\ OneCluster

-------------------------------------------------------------------------------
(* Refinement.                                                              *)

MB == INSTANCE Membership WITH
          Founder <- InitNode, founded <- created, home <- member, settled <- marker

\* stages/init.go:82-103, stages/join.go:159-180 and the loops of the scripts.
\* However attempts, resets, crashes, reboots and aborted scripts of all nodes
\* interleave, the nodes behave as Membership says.
ImplementsMembership == MB!Spec

\* What NodeLife knows of one of these nodes: its boot goes on after these stages, with
\* one image and no reset.
CN(n) == INSTANCE ClusterNode
             WITH Version <- {"image"}, None <- "none", Unreadable <- "half", image <- "image",
                  member <- (member[n] # 0), settled <- (n \in marker),
                  record <- "image", resting <- FALSE, touched <- FALSE

\* kube-init.sh:30-81, kube-join.sh:33-83 and the stages.  Seen from one node, what all
\* of them do to it is to join and to leave until it is settled, as in NodeLife.
NodesAreClusterNodes == [][\A n \in Node : [CN(n)!Next]_(CN(n)!vars)]_vars

-------------------------------------------------------------------------------
(* Liveness.                                                                *)

\* A script was ended between two attempts, and its node marked for good.
Aborted == <>(spent.aborts > 0)

\* kube-init.sh:60-80, kube-join.sh:60-82, kube-post-init.sh:17-28.  With finitely
\* many crashes and failed attempts every node gets through its boot; what keeps it
\* from doing so is a script that was ended, or the certificates being gone for good
\* from the cluster that answers: an expiry that is in time does no harm.
BootstrapEnds ==
    \/ <>[](\A n \in Node : pc[n] = "done")
    \/ <>[](Serving # 0 /\ certs = "none")
    \/ Aborted

\* A worker does not depend on the certificates: unless a script is ended, it gets
\* in, whatever expires.
WorkersJoin ==
    Aborted \/ \A n \in Worker : <>[](pc[n] = "done" /\ member[n] # 0)
===============================================================================
