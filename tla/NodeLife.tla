-------------------------------- MODULE NodeLife --------------------------------
(***************************************************************************)
(* One node over its boots, image switches and cluster resets: what         *)
(* kube-pre-init.sh installs, the stages after it rely on and record, and   *)
(* kube-reset.sh, run by handleClusterReset, takes away again.              *)
(*                                                                         *)
(* The event can come while the stages of a boot are still running, so the  *)
(* two are processes of their own; the node can go down between any two     *)
(* commands, and in the middle of copying the kubelet or of writing the     *)
(* record.  No script but the join looks at an exit status.  kube-reset.sh  *)
(* deletes itself with opt/kubeadm, which belongs to the image and is back  *)
(* with the next boot.                                                      *)
(*                                                                         *)
(* Left out, because other modules have it: the retries of kubeadm          *)
(* (Bootstrap), the lock and the commands of an upgrade (KubeUpgrade),      *)
(* certificates and kubelet.conf (KubeReconfigure).  The rest of the        *)
(* cluster is taken to be there: its API server answers a member.           *)
(***************************************************************************)
EXTENDS Naturals

CONSTANTS
    Version,        \* images
    None,           \* no such file; no answer yet
    MaxReboots, MaxCrashes, MaxTorn, MaxCutoffs, MaxResets, MaxOverlaps, MaxFailures

ASSUME LifeValues ==
    /\ Version # {} /\ None \notin Version /\ "partial" \notin Version /\ "empty" \notin Version
    /\ None \notin {"partial", "empty", "ok", "error", "bad", "nocluster", "good"}

ASSUME LifeBudget ==
    /\ MaxReboots \in Nat /\ MaxCrashes \in Nat /\ MaxTorn \in Nat /\ MaxCutoffs \in Nat
    /\ MaxResets \in Nat /\ MaxOverlaps \in Nat /\ MaxFailures \in Nat

VARIABLES
    role,       \* "worker" or "controlplane" (init counts as one)
    sameRoot,   \* does STYLUS_ROOT name the root path of the cluster?
    image,      \* what the node has booted
    scripts,    \* is opt/kubeadm there: the scripts, the kubelet, kubeadm.yaml?
    delivered,  \* the kubelet in opt/spectrocloud/kubeadm/bin, or None
    kubelet,    \* usr/local/bin/kubelet, "partial" for a copy that was cut off
    sentinel,   \* opt/sentinel_kubeadmversion, "empty" without a version in it
    marker,     \* is opt/kubeadm.init or opt/kubeadm.join there?
    joined,     \* has the node the credentials of a member in /etc/kubernetes?
    pc,         \* where the boot is
    rpc,        \* the next command of kube-reset.sh, "idle" when it does not run
    asked,      \* the last reset event of this boot, or None
    reply,      \* what it was answered
    spent       \* how much of each budget is used

node == <<role, sameRoot, image>>
files == <<scripts, delivered, kubelet, sentinel, marker, joined>>
reset == <<rpc, asked, reply>>
vars == <<node, files, pc, reset, spent>>

-------------------------------------------------------------------------------
Budget == [reboots |-> MaxReboots, crashes |-> MaxCrashes, torn |-> MaxTorn,
           cutoffs |-> MaxCutoffs, resets |-> MaxResets, overlaps |-> MaxOverlaps,
           failures |-> MaxFailures]

Spend(kind) ==
    /\ spent[kind] < Budget[kind]
    /\ spent' = [spent EXCEPT ![kind] = @ + 1]

Fine == UNCHANGED spent

\* A new machine boots its first image.
Init ==
    /\ role \in {"worker", "controlplane"} /\ sameRoot \in BOOLEAN /\ image \in Version
    /\ scripts = TRUE /\ delivered \in {None, image}
    /\ kubelet = None /\ sentinel = None /\ marker = FALSE /\ joined = FALSE
    /\ pc = "pre"
    /\ rpc = "idle" /\ asked = None /\ reply = None
    /\ spent = [reboots |-> 0, crashes |-> 0, torn |-> 0, cutoffs |-> 0, resets |-> 0,
                overlaps |-> 0, failures |-> 0]

-------------------------------------------------------------------------------
(* kube-pre-init.sh.                                                        *)

\* The script is not there any more: bash fails, yip goes on with the next stage.
SkipPreInit ==
    /\ pc = "pre" /\ ~scripts
    /\ pc' = "join"
    /\ UNCHANGED <<node, files, reset, spent>>

\* Another agent has left a kubelet: it replaces whatever is there.
BeginDelivery ==
    /\ pc = "pre" /\ scripts
    /\ IF delivered = None THEN pc' = "binary" /\ UNCHANGED kubelet
                           ELSE pc' = "deliver" /\ kubelet' = "partial"
    /\ UNCHANGED <<node, scripts, delivered, sentinel, marker, joined, reset, spent>>

\* The copy is complete, unless the file was removed under it.
Copied(v) == IF kubelet = "partial" THEN v ELSE kubelet

\* `cp` ends, or fails unnoticed and leaves what it has copied.
EndsCopyOf(v) ==
    \/ kubelet' = Copied(v) /\ Fine
    \/ UNCHANGED kubelet /\ Spend("failures")

\* What was delivered is removed in either case.
EndDelivery ==
    /\ pc = "deliver"
    /\ EndsCopyOf(delivered) /\ delivered' = None
    /\ pc' = "binary"
    /\ UNCHANGED <<node, scripts, sentinel, marker, joined, reset>>

\* `cp` opens the target first; without opt/kubeadm it fails.
BeginCopy ==
    /\ pc = "binary"
    /\ IF kubelet = None /\ scripts THEN pc' = "copy" /\ kubelet' = "partial"
                                    ELSE pc' = "version" /\ UNCHANGED kubelet
    /\ UNCHANGED <<node, scripts, delivered, sentinel, marker, joined, reset, spent>>

EndCopy ==
    /\ pc = "copy"
    /\ EndsCopyOf(image)
    /\ pc' = "version"
    /\ UNCHANGED <<node, scripts, delivered, sentinel, marker, joined, reset>>

\* The redirection makes the file before kubeadm runs.
BeginRecord ==
    /\ pc = "version"
    /\ IF sentinel = None THEN pc' = "print" /\ sentinel' = "empty"
                          ELSE pc' = "join" /\ UNCHANGED sentinel
    /\ UNCHANGED <<node, scripts, delivered, kubelet, marker, joined, reset, spent>>

\* The version goes into the file that was opened, which a reset may have removed.
Written == IF sentinel = None THEN None ELSE image

EndRecord ==
    /\ pc = "print"
    /\ \/ sentinel' = Written /\ Fine
       \/ UNCHANGED sentinel /\ Spend("failures")
    /\ pc' = "join"
    /\ UNCHANGED <<node, scripts, delivered, kubelet, marker, joined, reset>>

PreInit ==
    \/ SkipPreInit \/ BeginDelivery \/ EndDelivery \/ BeginCopy \/ EndCopy
    \/ BeginRecord \/ EndRecord

-------------------------------------------------------------------------------
(* The init or join stage, the upgrade stage and the reconfigure stage.     *)

\* A file that was copied by half is no program.
KubeletRuns == kubelet \in Version

\* The marker decides; a script that is not there fails, and the marker is set.
BeginJoin ==
    /\ pc = "join"
    /\ pc' = IF marker THEN "upgrade" ELSE IF scripts THEN "joining" ELSE "touch"
    /\ UNCHANGED <<node, files, reset, spent>>

\* Seeded fault: without `set -e` the loop goes on.
KeepsTrying == "joining"

\* import.sh, the last command of do_kubeadm_reset, is gone: `set -e` ends the script.
AfterLostImport == "touch"

\* A node without a kubelet, or with files of an earlier attempt, is refused; after
\* every failure it is wiped, and tried again if no command of the loop fails.
TryJoin ==
    /\ pc = "joining"
    /\ \/ /\ scripts /\ KubeletRuns /\ ~joined
          /\ joined' = TRUE /\ pc' = "touch" /\ Fine
       \/ /\ scripts /\ (~KubeletRuns \/ joined)
          /\ joined' = FALSE /\ UNCHANGED pc /\ Fine
       \/ /\ scripts
          /\ joined' = FALSE /\ pc' \in {"joining", "touch"} /\ Spend("failures")
       \/ /\ ~scripts
          /\ joined' = FALSE /\ pc' = AfterLostImport /\ Fine
    /\ UNCHANGED <<node, scripts, delivered, kubelet, sentinel, marker, reset>>

Touch ==
    /\ pc = "touch"
    /\ marker' = TRUE
    /\ pc' = "upgrade"
    /\ UNCHANGED <<node, scripts, delivered, kubelet, sentinel, joined, reset, spent>>

\* Seeded fault: a record without a version in it is not compared.
ComparedIfGiven == sentinel \in Version /\ sentinel # image

\* What run_upgrade reads differs from the version of the image.
Outdated == sentinel # image

BeginUpgrade ==
    /\ pc = "upgrade"
    /\ pc' = IF scripts /\ Outdated THEN "waiting" ELSE "reconfigure"
    /\ UNCHANGED <<node, files, reset, spent>>

\* start_kubelet has waited for the kubelet and the API server, and the loop for a
\* successful upgrade; the redirection empties the record, ...
BeginMark ==
    /\ pc = "waiting"
    /\ KubeletRuns /\ joined
    /\ sentinel' = "empty"
    /\ pc' = "marking"
    /\ UNCHANGED <<node, scripts, delivered, kubelet, marker, joined, reset, spent>>

\* ... and the version is written.
EndMark ==
    /\ pc = "marking"
    /\ sentinel' = Written
    /\ pc' = "swap"
    /\ UNCHANGED <<node, scripts, delivered, kubelet, marker, joined, reset, spent>>

BeginSwap ==
    /\ pc = "swap"
    /\ IF scripts THEN pc' = "swapping" /\ kubelet' = "partial"
                  ELSE pc' = "reconfigure" /\ UNCHANGED kubelet
    /\ UNCHANGED <<node, scripts, delivered, sentinel, marker, joined, reset, spent>>

EndSwap ==
    /\ pc = "swapping"
    /\ EndsCopyOf(image)
    /\ pc' = "reconfigure"
    /\ UNCHANGED <<node, scripts, delivered, sentinel, marker, joined, reset>>

BeginReconfigure ==
    /\ pc = "reconfigure"
    /\ pc' = IF scripts /\ role = "controlplane" THEN "api" ELSE "up"
    /\ UNCHANGED <<node, files, reset, spent>>

\* regenerate_etcd_manifests waits for the API server, with admin.conf.
EndReconfigure ==
    /\ pc = "api"
    /\ joined
    /\ pc' = "up"
    /\ UNCHANGED <<node, files, reset, spent>>

BootStep ==
    \/ PreInit \/ BeginJoin \/ TryJoin \/ Touch
    \/ BeginUpgrade \/ BeginMark \/ EndMark \/ BeginSwap \/ EndSwap
    \/ BeginReconfigure \/ EndReconfigure

-------------------------------------------------------------------------------
(* handleClusterReset and kube-reset.sh.                                    *)

\* An event whose payload or configuration cannot be parsed is an error; one without
\* a cluster is a success; a script that is not there is an error.
Ask(event) ==
    /\ rpc = "idle"
    /\ Spend(IF pc = "up" THEN "resets" ELSE "overlaps")
    /\ asked' = event
    /\ rpc' = IF event = "good" /\ scripts THEN "kubeadm" ELSE "idle"
    /\ reply' = CASE event = "bad" -> "error"
                  [] event = "nocluster" -> "ok"
                  [] event = "good" -> IF scripts THEN None ELSE "error"
    /\ UNCHANGED <<node, files, pc>>

\* A command of the script did its work, or failed without being noticed.
Command(at, next, works, leaves) ==
    /\ rpc = at /\ rpc' = next
    /\ \/ works /\ Fine
       \/ leaves /\ Spend("failures")

\* `kubeadm reset`: the credentials go, if it works.
ResetKubeadm ==
    /\ Command("kubeadm", "kubelet", joined' = FALSE, UNCHANGED joined)
    /\ UNCHANGED <<node, scripts, delivered, kubelet, sentinel, marker, pc, asked, reply>>

\* Seeded fault: the binary stays.
KubeletKept == kubelet

\* What lies under the root path is removed where the script looks for it.
KubeletAfterReset == IF sameRoot THEN None ELSE kubelet

RemoveKubelet ==
    /\ Command("kubelet", "etc", kubelet' = KubeletAfterReset, UNCHANGED kubelet)
    /\ UNCHANGED <<node, scripts, delivered, sentinel, marker, joined, pc, asked, reply>>

\* /etc/kubernetes is removed under both roots.
RemoveCredentials ==
    /\ Command("etc", "opt", joined' = FALSE, UNCHANGED joined)
    /\ UNCHANGED <<node, scripts, delivered, kubelet, sentinel, marker, pc, asked, reply>>

RemoveScripts ==
    /\ Command("opt", "markers", scripts' = (scripts /\ ~sameRoot), UNCHANGED scripts)
    /\ UNCHANGED <<node, delivered, kubelet, sentinel, marker, joined, pc, asked, reply>>

\* Seeded fault: the pattern matches no marker.
MarkerKept == marker

\* `opt/*init` and `opt/*join`.
MarkerAfterReset == marker /\ ~sameRoot

RemoveMarkers ==
    /\ Command("markers", "record", marker' = MarkerAfterReset, UNCHANGED marker)
    /\ UNCHANGED <<node, scripts, delivered, kubelet, sentinel, joined, pc, asked, reply>>

\* Only logs are removed after the record; the exit status is that of the last `rm`.
RemoveRecord ==
    /\ Command("record", "idle", sentinel' = (IF sameRoot THEN None ELSE sentinel),
               UNCHANGED sentinel)
    /\ reply' = "ok"
    /\ UNCHANGED <<node, scripts, delivered, kubelet, marker, joined, pc, asked>>

ResetStep ==
    \/ ResetKubeadm \/ RemoveKubelet \/ RemoveCredentials \/ RemoveScripts
    \/ RemoveMarkers \/ RemoveRecord

-------------------------------------------------------------------------------
(* The environment.                                                         *)

\* What a node that goes down now is cut off in.
Interrupted ==
    CASE rpc # "idle" -> "cutoffs"
      [] rpc = "idle" /\ pc = "up" -> "reboots"
      [] rpc = "idle" /\ pc \in {"deliver", "copy", "swapping"} -> "torn"
      [] OTHER -> "crashes"

\* The node boots, any image, and perhaps with a kubelet delivered for it.
Boot ==
    /\ Spend(Interrupted)
    /\ image' \in Version
    /\ scripts' = TRUE /\ delivered' \in {delivered, image'}
    /\ pc' = "pre"
    /\ rpc' = "idle" /\ asked' = None /\ reply' = None
    /\ UNCHANGED <<role, sameRoot, kubelet, sentinel, marker, joined>>

Next ==
    \/ BootStep \/ ResetStep \/ Boot
    \/ \E event \in {"bad", "nocluster", "good"} : Ask(event)

Spec == Init /\ [][Next]_vars

\* yip and the reset script keep running; no event and no boot has to come.
FairSpec == Spec /\ WF_vars(BootStep) /\ WF_vars(ResetStep)

-------------------------------------------------------------------------------
(* Safety.                                                                  *)

Label ==
    {"pre", "deliver", "binary", "copy", "version", "print", "join", "joining", "touch",
     "upgrade", "waiting", "marking", "swap", "swapping", "reconfigure", "api", "up"}

TypeOK ==
    /\ role \in {"worker", "controlplane"} /\ sameRoot \in BOOLEAN /\ image \in Version
    /\ scripts \in BOOLEAN /\ delivered \in Version \cup {None}
    /\ kubelet \in Version \cup {None, "partial"}
    /\ sentinel \in Version \cup {None, "empty"}
    /\ marker \in BOOLEAN /\ joined \in BOOLEAN
    /\ pc \in Label
    /\ rpc \in {"idle", "kubeadm", "kubelet", "etc", "opt", "markers", "record"}
    /\ asked \in {None, "bad", "nocluster", "good"} /\ reply \in {None, "ok", "error"}
    /\ spent \in [reboots : Nat, crashes : Nat, torn : Nat, cutoffs : Nat, resets : Nat,
                  overlaps : Nat, failures : Nat]

\* No reset event has come in this boot.
Untouched == rpc = "idle" /\ reply = None

\* Nothing failed unnoticed, no reset met a boot, and the two roots are one.
Orderly == spent.overlaps = 0 /\ spent.failures = 0 /\ sameRoot

\* Nothing was cut off either, on one root path or two.
Uninterrupted ==
    /\ spent.crashes = 0 /\ spent.torn = 0 /\ spent.cutoffs = 0
    /\ spent.overlaps = 0 /\ spent.failures = 0

Clean == ~marker /\ ~joined /\ sentinel = None /\ kubelet = None

\* main.go:64-76 and kube-reset.sh.  A reset that was asked for a cluster and
\* answered, in whatever way, leaves nothing of it, even if earlier ones were cut
\* off halfway or the same is asked twice.
ResetCleans == Orderly /\ asked = "good" /\ reply # None => Clean

\* kube-reset.sh:43-50, init.go:99, join.go:171.  A marker stands for a membership,
\* over resets, crashes and boots, unless a reset was cut off between the two.
MarkedIsMember ==
    Orderly /\ spent.cutoffs = 0 /\ rpc = "idle" => (marker => joined)

\* kube-pre-init.sh:28-51, kube-upgrade.sh:61-68, 110-122 and 188.  A boot that ends has
\* the version of its image on record, whatever was cut off or failed before (an empty
\* record is one to upgrade from), and if nothing was cut off it runs the kubelet of
\* that image, whichever of the three copies installed it.
ImageAtRest ==
    pc = "up" /\ Untouched =>
        /\ sentinel = image
        /\ Uninterrupted => kubelet = image

\* Where a boot hangs: it wants a membership that a marker says the node has, or a
\* kubelet that was copied by half.
Stuck ==
    \/ pc \in {"waiting", "api"} /\ ~joined
    \/ pc \in {"joining", "waiting"} /\ ~KubeletRuns

\* The copy of the kubelet and the reset are never cut off.
Undisturbed == Orderly /\ spent.torn = 0 /\ spent.cutoffs = 0

\* kube-join.sh:63-83, kube-upgrade.sh:88-103.  Without such a disturbance no boot comes
\* to one of those places in a state it cannot leave, wherever crashes cut off earlier
\* boots and however often the node was reset: what makes Rejoins true.
NeverStuck == Undisturbed => ~Stuck

-------------------------------------------------------------------------------
(* What makes them inductive.                                               *)

PastUpgrade == {"swap", "swapping", "reconfigure", "api", "up"}

\* A boot is over when a reset works, and opt/kubeadm is only missed after one.
ResetTrail ==
    /\ scripts \/ ~Untouched
    /\ spent.overlaps = 0 => (Untouched \/ pc = "up")

\* How far the script has come in emptying the node.
CleanTrail ==
    Orderly =>
        /\ rpc \in {"etc", "opt", "markers", "record"} => kubelet = None
        /\ rpc \in {"opt", "markers", "record"} => ~joined
        /\ rpc = "record" => ~marker
        /\ rpc = "idle" /\ ~scripts => Clean

MemberTrail ==
    Orderly /\ spent.cutoffs = 0 =>
        /\ pc = "touch" => joined
        /\ rpc \in {"idle", "kubeadm"} => (marker => joined)

\* The marker decides which way a boot goes; a record is begun before it is written.
JoinTrail ==
    /\ pc \in {"joining", "touch"} => ~marker
    /\ pc \in {"upgrade", "waiting", "marking"} \cup PastUpgrade /\ Untouched => marker
    /\ pc \in {"print", "marking"} => sentinel \in {None, "empty"}
    /\ pc = "marking" /\ Untouched => sentinel = "empty"

\* If no copy is cut off or fails, the kubelet is half only while it is copied and missing
\* only before.
BinaryTrail ==
    spent.torn = 0 /\ spent.overlaps = 0 /\ spent.failures = 0 =>
        /\ pc = "deliver" => delivered # None
        /\ kubelet = "partial" => pc \in {"deliver", "copy", "swapping"}
        /\ kubelet = None => pc \in {"pre", "binary", "up"}

RecordTrail == pc \in PastUpgrade /\ Untouched => sentinel = image

\* Kubelet and record belong together, but for the steps that change one after the
\* other.
KubeletTrail ==
    Uninterrupted =>
    /\ pc \notin {"pre", "deliver"} => delivered = None
    /\ delivered \in {None, image}
    /\ pc = "pre" => kubelet = sentinel
    /\ pc = "deliver" => delivered = image /\ kubelet = "partial"
    /\ pc = "binary" => kubelet = sentinel \/ kubelet = image
    /\ pc = "copy" => sentinel = None /\ kubelet = "partial"
    /\ pc \in {"version", "join", "joining", "touch", "upgrade", "waiting"} =>
           kubelet = image \/ (kubelet = sentinel /\ sentinel # None)
    /\ pc = "print" => kubelet = image /\ sentinel = "empty"
    /\ pc = "swapping" => kubelet = "partial"
    /\ pc \in {"reconfigure", "api"} => kubelet = image /\ sentinel = image
    /\ pc = "up" =>
           /\ Untouched => kubelet = image
           /\ rpc \in {"idle", "kubeadm", "kubelet"} => kubelet = sentinel
           /\ rpc \in {"etc", "opt", "markers", "record"} =>
                  kubelet = IF sameRoot THEN None ELSE sentinel

NInv ==
    /\ TypeOK /\ ResetTrail /\ CleanTrail /\ ResetCleans
    /\ MemberTrail /\ JoinTrail /\ BinaryTrail /\ RecordTrail /\ KubeletTrail
    /\ NeverStuck

-------------------------------------------------------------------------------
(* Liveness.                                                                *)

\* kube-join.sh:74-82, kube-upgrade.sh:88-103, kube-reconfigure.sh:114-120.  Every
\* boot ends or hangs in one of those places, whatever is reset under it.
BootEnds == <>[](pc = "up") \/ <>[]Stuck

\* kube-reset.sh:45-50.  A node that boots again after a reset, like a new one, ends
\* its boot as a member.
Rejoins ==
    pc = "pre" /\ Undisturbed ~> (pc = "up" /\ joined) \/ ~Undisturbed

-------------------------------------------------------------------------------
(* The abstract node.                                                       *)

CN == INSTANCE ClusterNode WITH
          member <- joined, settled <- marker, record <- sentinel,
          resting <- (pc = "up"), touched <- ~Untouched, Unreadable <- "empty"

\* kube-pre-init.sh, kube-join.sh, kube-upgrade.sh and kube-reset.sh together: from the
\* outside, boots, retries, crashes and resets are the steps of ClusterNode.
ImplementsClusterNode == CN!Spec
===============================================================================
