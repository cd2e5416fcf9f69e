# Verification of provider-kubeadm

TLA+ modules, TLC configurations and TLAPS proofs for the Kairos kubeadm
provider: the Go plugin that turns the `cluster` section of a cloud-config into
boot stages, and the shell scripts those stages run on every node at every boot.
Paths below are relative to the repository (`src/`).

## 1. The system

### Components, their state and their operations

| Component | Source | State it keeps | Operations |
|---|---|---|---|
| Stage generation | `main.go`, `stages/*.go`, `utils/{stages,proxy,misc,defaults}.go` | none between boots; `ClusterContext` while it runs | `clusterProvider`, `CreateClusterContext`, `Get{Init,Join}YipStagesV1Beta{3,4}`, the pre stages |
| Node preparation | `scripts/kube-pre-init.sh` | `opt/sentinel_kubeadmversion`, the kubelet binary | installs a delivered kubelet, creates both where they are missing |
| Bootstrap | `scripts/kube-{init,join,post-init}.sh` | markers `opt/kubeadm.init`, `opt/kubeadm.join`, `opt/post-kubeadm.init`; the kube-vip manifest and its backup; what kubeadm leaves on disk; cluster membership; `kubeadm-certs` | try, back up, reset, restore, try again; take the expiration off the certificates |
| Rolling upgrade | `scripts/kube-upgrade.sh` | the `upgrade-lock` and `kubeadm-config` ConfigMaps (shared), the sentinel, the kubelet, `existing-cluster-config.yaml` | lock, save and upload the configuration, `upgrade apply` or `upgrade node`, revert, record, unlock, replace the kubelet |
| Reconfiguration | `scripts/kube-reconfigure.sh` | the recorded revision of the SANs, the API server's certificate and pod, `kubeadm-flags.env`, `kubelet.conf` | rewrite manifests, certificates, flags and kubelet.conf at each boot |
| Configuration documents | `main.go:105-178`, `stages/{init,join,proxy}.go`, `utils/{defaults,kubelet,proxy}.go`, `domain/` | the Go objects of one call, shared by pointer between the documents | decoding for one of two APIs, defaults, endpoints, kubelet arguments, printing |
| Tokens and keys | `utils/certs.go` | none | SHA-256 of token and SANs |
| Cluster reset | `main.go:43-77`, `scripts/kube-reset.sh` | removes the files of all of the above | one event handler, one script |
| Image import | `scripts/import.sh`, `scripts/kube-images-load.sh` | containerd's image store | ten attempts per archive |
| Logging | `log/log.go` | log files | none |

### How they interact

* The provider runs at each boot and hands a list of stages to yip (external).
  yip tests the `If` of a stage once, writes its files and runs its commands,
  **going on after a command that failed**; the marker files are touched by the
  command after the script.
* Scripts communicate through files (`kubeadm.yaml`, `cluster-config.yaml`,
  `kubelet-config.yaml`, sentinel, markers) and positional parameters.
* Nodes communicate through the Kubernetes API only: cluster membership, the
  `kubeadm-certs` secret, the `upgrade-lock` and `kubeadm-config` ConfigMaps.
* `kube-upgrade.sh` and `kube-reconfigure.sh` write the same `kubeadm-config`,
  the first under the lock, the second without it.
* A reset is an event of its own: it can come at any time, also while the stages
  of a boot are running, and what it leaves is what the next boot starts from.

### What is hard

* **Crashes.** Every script is a sequence of commands on persistent state, and a
  node can go down between any two of them.
* **Partial failure.** `kube-init.sh` and `kube-join.sh` run under `set -e`, the
  others look at almost no exit status.
* **Interleaving.** Nodes upgrade at the same time, with several writers of one
  ConfigMap and a hand-made lock.
* **Lost answers.** The lock can be made and the answer lost.
* **Waiting.** The loops wait without limit for an API server, a lock or a secret.
* **Parameters.** Command lines are put together unquoted.
* **Shared objects.** Documents are printed one after the other from objects that
  change in between, some of them copies and some pointers.
* **Half files.** `cp` and `>` create a file before there is anything in it, and
  later boots only ask whether it is there.

### What makes each component correct

* Upgrade: one control plane node at a time, recorded only when done, `apply`
  before `node`, the ConfigMap follows the cluster, everyone gets through.
* Bootstrap: a marked node is a member, stays one, of the cluster that answers;
  resets and crashes do not lose the kube-vip manifest; certificates stay; every boot
  ends.
* Reconfiguration: a node at rest has the certificate and the flags it is
  configured with; every boot ends.
* Stages: a script finds its files and its parameters.
* Documents: they agree with each other, with the parameters of the scripts, and
  with what the user wrote.
* Reset: an answered reset leaves nothing of the cluster, and the node joins again
  like a new one; markers, record and kubelet tell the truth after every boot.

## 2. Modules

| Module | Models |
|---|---|
| `RollingUpgrade` | abstract: one holder at a time may change the recorded version of a control plane node |
| `KubeUpgrade` | all nodes through `kube-upgrade.sh`, and the uploads of `kube-reconfigure.sh` |
| `MCKubeUpgrade` | two versions and the symmetry of control plane nodes, for TLC |
| `KubeUpgradeProofs` | theorems about `KubeUpgrade` |
| `Membership` | abstract: nodes join the cluster their founder is in, leave it, and settle |
| `Bootstrap`, `BootstrapProofs` | the stages and scripts that make a node a member |
| `KubeReconfigure`, `KubeReconfigureProofs` | `kube-reconfigure.sh` on one node, boot after boot |
| `BootStages`, `BootStagesProofs` | the stages of each role, as yip and the shell execute them |
| `MCBootStages` | the values TLC gives to proxies and addresses |
| `ConfigDocuments`, `ConfigDocumentsProofs` | the provider computing the documents and parameters of a boot |
| `MCConfigDocuments` | the cluster sections TLC tries |
| `ClusterNode` | abstract: a node joins, settles, upgrades, comes to rest, is reset and boots |
| `NodeLife`, `NodeLifeProofs` | one node over boots, image switches and resets: what every component leaves on the disk for the others |

Where a test of the code is an operator of its own, a *seeded fault* stands in
front of it: a wrong version with the same parameters. Nothing uses these
operators; they are put in place of the right one to see that a property
notices (`mutants` in `PROJECT.json`).

### KubeUpgrade

`pc[n]` is the command node `n` is about to run; one action is one command whose
effect another node, or a crash, can tell apart from the next one's. `lock` is
`data.node` of `upgrade-lock`, `cm` the `kubernetesVersion` in `kubeadm-config`;
`sentinel`, `kubelet` and `saved` are on the node's disk and survive `Crash` and
`Reboot`, which also choose the image to boot. `applied` is a history variable:
the versions some `kubeadm upgrade apply` has succeeded for.

| Action | `kube-upgrade.sh` |
|---|---|
| `AlreadyLatest`, `BeginUpgrade` | 107-130 |
| `CreateLock`, `CheckHolder` | 127-141, 39-41 |
| `ChooseCommand` | 144-183 |
| `SaveConfig`, `UploadConfig` | 70-73 |
| `Apply`, `UpgradeNode` | 185 |
| `Revert` | 193-201, 75-77 |
| `BeginMark`, `EndMark`, `DeleteLock`, `UpgradeKubelet` | 187-191, 43-49, 203 |
| `Reconfigure` | `kube-reconfigure.sh:49` and 76 (the second upload only if SANs changed) |

Failures: creating the lock may fail with the object made or not; reading the
lock or the ConfigMap may fail; a failed `kubectl get` empties the saved file,
because the redirection comes first; a failed `apply` may have written the
version or not; deleting the lock may fail unnoticed. The record is written in two
steps, since `>` empties the file first (`NoVersion` in between).

### Bootstrap

One init node, control plane nodes and workers. `member[n]` is the number of the
cluster a node is in, so that a cluster that replaced another one is told from
it.

| Action | Code |
|---|---|
| `StartStages`, `Touch`, `TouchPost` | the stages, `stages/init.go:82-129`, `stages/join.go:159-180` |
| `KubeadmInit`, `KubeadmJoin` | `kube-init.sh:61-81`, `kube-join.sh:63-83` |
| `BeginBackup`, `EndBackup` | `kube-init.sh:48-51`, `kube-join.sh:50-53` |
| `ResetNode` | `kube-init.sh:30-46`, `kube-join.sh:33-48` |
| `BeginRestore`, `EndRestore` | `kube-init.sh:55-59`, `kube-join.sh:57-61` |
| `SeeOwner`, `UpdateOwner` | `kube-post-init.sh:17-20` and `21-29` |
| `Abort` | `set -e`: the script ends, yip touches the marker |
| `Expire`, `Collect` | external: the owner of `kubeadm-certs` expires; its secret is collected later |

Both copies of the kube-vip manifest are two steps, `"half"` in between: a node can go
down, or `cp` fail, in the middle, and the scripts only ask whether a file is there.
`torn` is a history variable, the nodes on which a restore was cut off like that. The
owner can expire, and the secret be collected, between the check and the update of
`kube-post-init.sh`; a refused update (`MaxRefusals`) leaves the loop as well.
The endpoint is the init node (README.md:217). The bootstrap token does not
expire (TTL 0, `stages/init.go:175-177`; README.md:199 and 273 speak of 24 hours).
Assumed of kubeadm: it refuses a node that was used, and `reset` undoes that.
`Membership` is what is left of it all: clusters are numbered, a node joins from
outside of all clusters and only the founder's, and a settled node stays.

### KubeReconfigure

One node; between boots the SANs and the kubelet flags may change. `revision`,
`cert`, `env` and `conf` are on its disk, `kubelet` and `api` are what runs. The
node's API server is a static pod: `StartApi` needs a running kubelet and a
certificate. Assumed of the kubelet: without `kubelet.conf` it does not start.

### BootStages

A stage is `[unless, writes, commands]`; `BeginStage` and `RunCommand` are yip,
`Parameter` and `Bound` the shell. A script is what it needs, what it leaves and the
values in its parameters. Nothing is counted, so the states are finitely many and
the run covers any number of boots.

### ConfigDocuments

`opts` is the cluster section; `cluster`, `initCfg`, `joinCfg`, `controlPlane` and
`kubelet` are the Go objects, `ctx` is `ClusterContext`, and `files` holds what was
printed. One action is one call of the provider, in their fixed order:

| Action | Code |
|---|---|
| `Provide`, `Die` | `main.go:79-178, 197-209`; decoding drops errors, so arguments in the form of the other API vanish (`Fits`) and a bare number is empty (`Decoded`) |
| `PrintProxy` | `stages/proxy.go`, `utils/proxy.go` |
| `SetDefaults` | `utils/defaults.go:22-129` |
| `SetArguments` | `stages/init.go:41-43, 63-65`, `stages/join.go:26-28, 50-52`, `utils/kubelet.go` |
| `PrintInit`, `PrintJoin` | `stages/init.go:165-231`, `stages/join.go:70-144`: a copy of the configuration, whose `ControlPlane` is still the shared pointer |
| `PrintCluster` | `stages/join.go:229-248`, which writes into the shared `InitConfiguration` |
| `PrintKubelet`, `PrintScript` | `stages/init.go:138-163, 233-250`, `stages/join.go:204-227` |

Both APIs go through the same actions. They differ in `Fits` and in that a list
may repeat an argument: `AsMap` takes the last, `ArgValue` the first.

### NodeLife

The boot (`pc`) and `kube-reset.sh` (`rpc`) are two processes over the files of one
node. `cp` and `>` are two steps each (`"partial"`, `"empty"`), so that the node can
go down in between, and a `cp` of the kubelet can fail unnoticed half-way. The join
(`TryJoin`), the upgrade (between `BeginUpgrade` and `BeginMark`) and the
reconfiguration are reduced to what they need and leave: the other modules have their
insides. `Ask` is `handleClusterReset`; `asked` and `reply` are its event and its
answer. `sameRoot` says whether `STYLUS_ROOT` (which the script uses) is the root path of the cluster
(which the handler and all other scripts use). Assumed: `opt/kubeadm` comes with
the image and is back with the next boot; a half kubelet does not run; the rest of
the cluster answers a member.
`ClusterNode` is what other parts of the system see of such a node; `KubeUpgrade` and
`Bootstrap`, each of whose nodes moves as a `ClusterNode` too, have the insides of
the upgrade and of `TryJoin`.

## 3. What the runs show

Passing runs (all bounds are constants of the cfg; deadlock is not checked,
because nodes that are up need never be rebooted):

| Run | Bounds | Shows |
|---|---|---|
| `UpgradeSafety` | 2 control plane nodes, 1 worker, versions 1..2, rollbacks, 3 boots, 2 crashes, 2 failures; symmetry of the control plane nodes | `IInv`, type correctness, mutual exclusion by the lock (`SectionIsHeld`), records (`FinishedOnImage`), `apply` before `node` without faults, kubelet without crashes, convergence of the ConfigMap, only faults leak the lock; `RollingUpgrade` implemented |
| `UpgradeLiveness` | the same with 1 crash, 1 failure, no rollback, no symmetry | every node gets up unless a leaked lock stays; a worker always does |
| `Bootstrap` | 3 nodes, the init node with kube-vip; 1 reboot, 2 crashes, 1 failure, 1 abort, 1 expiry, 1 refused update | `BInv`, the kube-vip manifest survives unless a restore was cut off (`VipNeverLost`) and is then lost in one way only (`VipLostByBackup`), `MarkerMeansMember`, `OrphansNeedFaults`, `CertsKeptUnlessMissed`; `Membership` implemented; boots end unless the certificates are gone from the cluster that answers or a script was aborted (`BootstrapEnds`); workers join unless one was (`WorkersJoin`) |
| `Reconfigure` | 3 sets of SANs, 2 of flags, 4 reboots, 4 changes, 2 crashes, 1 failure; with and without another API server | `RInv` (with `WaitIsServed` and `WedgeNeedsFaults`), `FirstChangeCarriedOut`, `CertFollowsConfig`, `ApiServesDisk`, `KubeletRunsFlags`; the last boot ends, or hangs in one place on a node whose own API server is the only one |
| `StagesSafety` | all 972 configurations over two values, any number of boots cut off anywhere | `SInv`, scripts find their files (`ScriptsFindTheirFiles`) and their parameters (`ParametersReachScripts`) |
| `Documents` | 1,484 cluster sections, see below | the documents agree (`UploadsAgree`, `RegeneratesAsJoined`, `NodeIpsAgree`, `SubnetsAreKnown`), certify the host (`HostIsCertified`), carry the arguments (`ArgumentsReachKubelet`); `DInv` |
| `NodeLife` | 2 images, 2 reboots, 1 crash, 1 half copy, 2 resets, 1 of them cut off, 1 event during a boot, 1 unnoticed failure | `NInv` (with `NeverStuck`), resets clean (`ResetCleans`), markers, record and kubelet tell the truth (`MarkedIsMember`, `ImageAtRest`), every boot ends or hangs in named places (`BootEnds`), a node joins again after a reset (`Rejoins`); `ClusterNode` implemented |

Why these bounds: two control plane nodes are enough for every conflict over the
lock and the ConfigMap (all are between two nodes); three boots let both upgrade
while one is rebooted on another image; two crashes cut the boot that resumes
after the first one; two failures empty the saved file and then need it. In
`Bootstrap` one crash cuts a restore off, and a failed attempt before or after it makes
the node back the half up; the two crashes can meet two nodes, or one node twice. In
`NodeLife` every kind of disturbance can happen once, and two resets and reboots let
a second one meet what the first one left. `MCConfigDocuments` does not take the
product of all fields: it varies together the fields that some function reads together
(endpoints; host, SANs and version; registration, form and version; subnets, DNS and
proxy) and holds the others. Deadlock is checked in `StagesSafety` only, where a node
can always be booted. All safety properties are proved without any bound on the
constants; the runs also show that the inductive invariants hold, and that the
properties notice the seeded faults.

Violations: statements of the documentation, the comments or the tests that the
code does not keep (`findings` in `PROJECT.json` quotes each line).

| Run | Statement | What happens |
|---|---|---|
| `LockAtRest` | the lock is deleted once the upgrade completes | a crash after recording the version keeps it for ever |
| `NodeBeforeApply` | the ConfigMap shows a version: someone has applied it | it is uploaded before `apply`; a crash there, and `apply` is never run |
| `OrphanedWorker` | a node that joined stays in the cluster | the init node rebuilds the cluster under it |
| `CertsNotReverted` | "no change in certs sans revision" | the recorded revision is the one of the first boot |
| `OneProxy` | an HTTP-only proxy is a configuration like the others | the values move up one parameter |

The models show more of this kind, for which the conditions of the passing
properties are the evidence:

* `KubeletFollowsImageNoCrash` needs its condition: a crash between recording the
  version (188) and `upgrade_kubelet` (203) leaves the old kubelet on a node that
  takes the exit at 121 ever after.
* `MarkerMeansMember` needs its condition: `set -e` ends `kube-init.sh` or
  `kube-join.sh` when a command of `do_kubeadm_reset` fails, and yip then touches the
  marker of a node that is no member and is never tried again.
* The ConfigMap converges only when the cluster is on one image. Before, a node
  that is rebooted on the old image writes the old version back without the lock
  (`kube-reconfigure.sh:49`), and a second node runs `apply` for the same version.
* `VipNeverLost` needs its condition: a node that goes down in the middle of the
  restore (`kube-init.sh:57`) is left with half a manifest. If its next attempt
  succeeds, the half stays in place; if it fails, lines 49-50 copy the half over the
  whole backup, which is the one step that loses the last whole copy.
* `CertsKeptUnlessMissed` needs its conditions: when the owner expires between the
  check (`kube-post-init.sh:18`) and the update (22), or the update is refused, the
  script leaves its loop, says that the expiration was updated, and is not run again.
* `EndsOrWedged` has its second half: a node that goes down between moving
  `kubelet.conf` away (86) and making it anew waits at 115 for its own API server,
  which needs the kubelet, which needs the file that a later line makes.
* A configuration without `kubernetesVersion`, such as the worker of
  README.md:59-87, ends the provider in `logrus.Fatalf` (`main.go:86`).
* `RegeneratesAsJoined` excepts a joining node whose options describe the endpoint
  of an init node and leave out `controlPlane`: its manifests are regenerated from
  the endpoint of the other node (`stages/join.go:234`).
* `HostIsCertified` excepts a host in brackets without a port, which gets a second
  pair (`main.go:109`) and is then certified as it is written.
* `NodeIpsAgree` excepts a repeated `node-ip`: the kubelet takes the last and
  `kubelet.conf` the first.
* `ArgumentsReachKubelet` is about arguments in the form of the API; those in the
  other form are dropped without a word (`main.go:138`), as when a cluster crosses
  v1.31.0 with its options unchanged.
* `ResetCleans` and `MarkedIsMember` need their conditions: where the two root paths
  differ, or a command fails unnoticed, markers and record survive a reset that is
  reported as a success; and a reset that is cut off between the credentials
  (`kube-reset.sh:43`) and the markers (48) leaves a node that skips its join.
* `BootEnds` of `NodeLife` names where a boot hangs: at an API server, with a marker
  and no credentials (after such a reset, or after one that took `import.sh` away
  from a join loop); and with a kubelet that was copied by half, which
  `kube-pre-init.sh:35` takes for installed.

### Fairness

`WF_vars(Script(n))` for each node: a script that runs keeps running, commands
return, and the loops sleep and try again without limit (`kube-upgrade.sh:131`,
`144`; `kube-init.sh:72`; `kube-join.sh:74`; `kube-post-init.sh:16`;
`kube-reconfigure.sh:115`). In `KubeReconfigure` also `StartApi`: the kubelet
retries static pods. In `NodeLife` the boot and the reset script are fair
separately, being separate processes; no event and no boot has to come. Nothing is
assumed of reboots, crashes, failures or the expiry of certificates, whose number is
bounded: a cluster in which faults go on for ever need not settle. Nor is the garbage
collector fair (`Collect`): an orphaned secret may stay for as long as one likes.

## 4. What is proved

For every set of nodes, versions, SANs, flags and parameter values and every budget
of faults, from the named assumptions on constants (roles are disjoint, the empty
values are none of the others, budgets are natural numbers):

* `KubeUpgradeProofs`: type correctness, `SectionIsHeld` and from it mutual
  exclusion, `FinishedOnImage`, `ApplyPrecedesNodeNoFaults`,
  `OnlyFaultsLeakTheLock`, `KubeletFollowsImageNoCrash`, `ConfigMapConverges`,
  that `KubeUpgrade` implements `RollingUpgrade`, and two action properties: a leaked
  lock stays until the node it names boots again (`LeakStays`), and each node moves as
  a `ClusterNode` (`NodesAreClusterNodes`).
* `BootstrapProofs`: every safety property of `Bootstrap`, that `Bootstrap`
  implements `Membership`, that without crashes kubeadm is not retried without a whole
  kube-vip manifest (`VipBeforeRetry`), and the action properties `VipLostByBackup`,
  `MarkedStay` and `NodesAreClusterNodes`.
* `KubeReconfigureProofs`: every safety property of `Reconfigure`, and how far the
  safety half of `EndsOrWedged` goes: the wait for the API server is for something
  that comes but in the one state `Wedged` (`WaitIsServed`, under all faults), and it
  takes a fault to get there (`WedgeNeedsFaults`).
* `BootStagesProofs`: every property of `StagesSafety`, for every set of values the
  user may write and any number of boots.
* `ConfigDocumentsProofs`: every property of `Documents`, for every set of cluster
  sections of type `Option`: any arguments in any number, any SANs, any subnets.
* `NodeLifeProofs`: every safety property of `NodeLife`, that `NodeLife` implements
  `ClusterNode`, what follows from that for a settled node (`SettledStay`), and that
  no boot comes to a place it cannot leave unless a copy or a reset was disturbed
  (`NeverStuck`, the safety half of `Rejoins`).

The argument is the same everywhere: an inductive invariant, each of its parts
kept by each action, and the properties as its consequences.

* `IInv` adds to the properties that workers stay away from the lock (`Roles`),
  that without faults the version in the ConfigMap was applied or is about to be
  by the node at `apply` (`AppliedTrail`: the ConfigMap is ahead of the cluster
  in that one place), that without faults the holder is inside the section
  (`HolderInside`), that the record is empty between the two steps that write it
  (`RecordTrail`), and that without crashes the kubelet is the recorded one
  outside the commands between record and installation (`KubeletTrail`).
  `SectionIsHeld` is inductive without the budgets because a node that comes back
  starts outside the section and re-enters it only by its own name in the lock.
* `BInv` adds where the markers allow a node to be (`Progress`); how manifest and
  backup stand to each other at each command of the retry (`VipTurn`), which is why a
  reset finds as good a backup as the manifest it wipes; that without crashes the
  manifest is whole whenever kubeadm is tried (`VipInPlace`); that an owner that has not
  expired is there to be updated (`CertsTrail`); that a member was used
  (`MembersAreUsed`); and that without crashes and failures the init node never
  enters its reset (`OneCluster`).
* `RInv` adds how far the certificate, the API server and the kubelet are behind
  the configuration at each command (`CertTrail`, `ApiTrail`, `KubeletTrail`) and
  that the recorded revision is the first one (`FirstChangeTrail`); and that the wait
  is reached with a kubelet that was just restarted (`WaitTrail`).
* `SInv` says where in its list yip is (`ListTrail`), which files the stages so far
  have left (`FilesTrail`) and that a marker stands for what the script it skips
  leaves (`MarkersHold`). That a script finds its files is then
  a fact about the lists alone, that whatever a stage needs comes before it
  (`NeedsComeBefore`), and that parameters arrive one about the words the shell makes
  of a command line (`WordIsParameter`, `ProxiedCall`, `PlainCall`).

* `DInv` says of each object what it is before and after the call that changes it,
  and of each document what it was printed from; the properties compare those
  values, with lemmas about the operators (`LastWins`, `FlagsAreMerged` and the
  others of `ConfigDocumentsProofs`).
* `NInv` adds how far an uninterrupted reset has emptied the node at each of its
  commands (`CleanTrail`), that markers stand for members (`MemberTrail`) and decide
  which way a boot goes (`JoinTrail`), that a kubelet is half or missing only around
  its copy (`BinaryTrail`), and that kubelet and record agree but for the steps that
  change one after the other (`KubeletTrail`).

`KubeUpgrade` implements `RollingUpgrade` with `lock`, `image` and `sentinel` for
`holder`, `target` and `version`; each step of a script is a step of it or a
stutter, using `SectionIsHeld` for `BeginMark`, `EndMark` (`Open` and `Move`) and
`DeleteLock`. `Bootstrap` implements
`Membership` with `created`, `member` and `marker` for `founded`, `home` and
`settled`, using `Progress` (who can still be wiped) and `MembersAreUsed` (who can
still join). `NodeLife` implements `ClusterNode` with `joined`, `marker` and `sentinel`
for `member`, `settled` and `record`, using `JoinTrail` and `RecordTrail`. The nodes of
`KubeUpgrade` and `Bootstrap` are seen through the same module, with what those leave
out held constant: an upgrade, with its lock and the other nodes, is a record opened
and written by a member, and the retries and clusters of a bootstrap are `Join` and
`Leave`, so that `NodeLife` may reduce them to that. These two (`NodesAreClusterNodes`),
`LeakStays`, `MarkedStay` and `SettledStay` are action properties that only the proofs
have.

Only model-checked: the liveness properties (`SettlesUnlessLeaked`,
`BootstrapEnds`, `WorkersJoin`, `EndsOrWedged`, `BootEnds`, `Rejoins`), since fairness
and ENABLED are out of the prover's reach.

## 5. Not modelled

* Manifests, kubelet configuration and permissions in `kube-reconfigure.sh`:
  rewritten at every boot and read back by nothing in this repository.
* Kernel modules, sysctl, swap and the containerd units of `kube-pre-init.sh`, and
  the services, mounts, iptables and logs of `kube-reset.sh`, for the same reason.
* Fields of the kubeadm documents that are copied, or defaulted and related to no
  other or to one other by arithmetic alone (the two grace periods of the kubelet,
  which are compared by no code here); the text of documents and proxy files; hashes, which are taken to be
  injective; logs.
* The import of images: ten attempts per archive, after which it is given up
  without a word (`import.sh:24`); no later step of a boot depends on it in the
  code. `kube-images-load.sh` runs when an image is built.
* Nodes that join while an upgrade is running: `KubeUpgrade` has a fixed set of
  members, and `Bootstrap` no upgrade.
* An `echo` into a file that fails for a full disk; and the difference between a
  service subnet that is left out and one that cannot be parsed, which gives the same
  DNS address and which kubeadm refuses.
* In `KubeUpgrade` the wait of `start_kubelet` is taken to end; where it does not is
  part of `NodeLife`.
* `tests/data/test-scenarios.yaml:93-96` expects 10, 9 and 7 stages; the code
  emits 12, 11 and 9 (`StageCount` in `BootStages`).

## 6. What could come next

1. `Bootstrap` and `KubeUpgrade` composed: a control plane node that joins, with an
   empty record, while others upgrade, and the version `kubeadm join` downloads from
   a `kubeadm-config` that is ahead of the cluster.
2. `UpgradeSafety` with three control plane nodes and three versions, without
   rollback.
3. The safety halves of `SettlesUnlessLeaked` and `BootstrapEnds`, as `NeverStuck` and
   `WaitIsServed` are those of `Rejoins` and `EndsOrWedged`.
