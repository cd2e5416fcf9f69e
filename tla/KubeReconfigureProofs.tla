------------------------- MODULE KubeReconfigureProofs -------------------------
(***************************************************************************)
(* Theorems about KubeReconfigure, for every set of SANs and flags, with    *)
(* and without another API server, and for every budget.                    *)
(***************************************************************************)
EXTENDS KubeReconfigure, TLAPS

USE ReconfigureValues, ReconfigureBudget

-------------------------------------------------------------------------------
(* The parts of the inductive invariant, each kept by every step.           *)

\* What a boot does to the budgets and to what the script finds.
LEMMA BootFacts ==
    ASSUME TypeOK, Reboot \/ Crash
    PROVE  /\ pc' = "start" /\ sans' \in Sans /\ flags' \in Flags
           /\ kubelet' = Started /\ api' = None
           /\ UNCHANGED <<role, otherServer, revision, cert, env, conf>>
           /\ spent' \in [reboots : Nat, changes : Nat, crashes : Nat, failures : Nat]
           /\ spent'.failures = spent.failures
           /\ spent'.changes =
                  IF sans' = sans THEN spent.changes ELSE spent.changes + 1
           /\ \/ pc = "up" /\ spent'.crashes = spent.crashes
              \/ spent'.crashes = spent.crashes + 1
<1>1. CASE Reboot
  <2>1. PICK s \in Sans : Boot("reboots", s)
    BY <1>1 DEF Reboot
  <2> DEFINE changes == IF s = sans THEN spent.changes ELSE spent.changes + 1
  <2>2. spent' = [reboots |-> spent.reboots + 1, changes |-> changes,
                  crashes |-> spent.crashes, failures |-> spent.failures]
    BY <2>1 DEF Boot, TypeOK
  <2>3. /\ spent' \in [reboots : Nat, changes : Nat, crashes : Nat, failures : Nat]
        /\ spent'.failures = spent.failures
        /\ spent'.changes = IF s = sans THEN spent.changes ELSE spent.changes + 1
        /\ spent'.crashes = spent.crashes
    BY <2>2 DEF TypeOK
  <2>4. /\ pc' = "start" /\ sans' = s /\ flags' \in Flags
        /\ kubelet' = Started /\ api' = None
        /\ UNCHANGED <<role, otherServer, revision, cert, env, conf>>
    BY <2>1 DEF Boot, disk
  <2>5. pc = "up"
    BY <1>1 DEF Reboot
  <2> QED
    BY <2>3, <2>4, <2>5
<1>2. CASE Crash
  <2>1. PICK s \in Sans : Boot("crashes", s)
    BY <1>2 DEF Crash
  <2> DEFINE changes == IF s = sans THEN spent.changes ELSE spent.changes + 1
  <2>2. spent' = [reboots |-> spent.reboots, changes |-> changes,
                  crashes |-> spent.crashes + 1, failures |-> spent.failures]
    BY <2>1 DEF Boot, TypeOK
  <2>3. /\ spent' \in [reboots : Nat, changes : Nat, crashes : Nat, failures : Nat]
        /\ spent'.failures = spent.failures
        /\ spent'.changes = IF s = sans THEN spent.changes ELSE spent.changes + 1
        /\ spent'.crashes = spent.crashes + 1
    BY <2>2 DEF TypeOK
  <2>4. /\ pc' = "start" /\ sans' = s /\ flags' \in Flags
        /\ kubelet' = Started /\ api' = None
        /\ UNCHANGED <<role, otherServer, revision, cert, env, conf>>
    BY <2>1 DEF Boot, disk
  <2> QED
    BY <2>3, <2>4
<1> QED
  BY <1>1, <1>2

\* Every step keeps every variable in its type.
LEMMA TypeStep ==
    ASSUME TypeOK, [Next]_vars
    PROVE  TypeOK'
<1> USE DEF TypeOK, Label, IsWorker, Fine, Fail, Spend, boot, disk
<1>1. CASE UNCHANGED vars
  BY <1>1 DEF vars
<1>2. CASE RestartKubelet
  BY <1>2 DEF RestartKubelet, Started
<1>3. CASE CheckRevision
  BY <1>3 DEF CheckRevision, SansChanged
<1>4. CASE RemoveCert
  BY <1>4 DEF RemoveCert
<1>5. CASE GenerateCert
  BY <1>5 DEF GenerateCert
<1>6. CASE DeletePod
  BY <1>6 DEF DeletePod, PodAfterDelete
<1>7. CASE WaitForApi
  BY <1>7 DEF WaitForApi, ApiAnswers
<1>8. CASE WriteEnvs
  BY <1>8 DEF WriteEnvs
<1>9. CASE MoveConf
  BY <1>9 DEF MoveConf
<1>10. CASE MakeConf
  <2>1. conf' \in BOOLEAN
    BY <1>10, Zenon DEF MakeConf, ConfMade
  <2> QED
    BY <1>10, <2>1 DEF MakeConf
<1>11. CASE StartApi
  BY <1>11 DEF StartApi
<1>12. CASE Reboot
  BY <1>12, BootFacts DEF Started
<1>13. CASE Crash
  BY <1>13, BootFacts DEF Started
<1> QED
  BY <1>1, <1>2, <1>3, <1>4, <1>5, <1>6, <1>7, <1>8, <1>9, <1>10,
     <1>11, <1>12, <1>13 DEF Next, Script

\* The certificate is replaced whenever the recorded revision is not the one of
\* this boot.
LEMMA CertStep ==
    ASSUME TypeOK, CertTrail, [Next]_vars
    PROVE  CertTrail'
<1> USE DEF TypeOK, Label, IsWorker, Fine, Fail, Spend, boot, disk, CertTrail
<1>1. CASE UNCHANGED vars
  BY <1>1 DEF vars
<1>2. CASE RestartKubelet
  BY <1>2 DEF RestartKubelet, Started
<1>3. CASE CheckRevision
  BY <1>3 DEF CheckRevision, SansChanged
<1>4. CASE RemoveCert
  BY <1>4 DEF RemoveCert
<1>5. CASE GenerateCert
  BY <1>5 DEF GenerateCert
<1>6. CASE DeletePod
  BY <1>6 DEF DeletePod, PodAfterDelete
<1>7. CASE WaitForApi
  BY <1>7 DEF WaitForApi, ApiAnswers
<1>8. CASE WriteEnvs
  BY <1>8 DEF WriteEnvs
<1>9. CASE MoveConf
  BY <1>9 DEF MoveConf
<1>10. CASE MakeConf
  BY <1>10 DEF MakeConf, ConfMade
<1>11. CASE StartApi
  BY <1>11 DEF StartApi
<1>12. CASE Reboot
  BY <1>12, BootFacts DEF Started
<1>13. CASE Crash
  BY <1>13, BootFacts DEF Started
<1> QED
  BY <1>1, <1>2, <1>3, <1>4, <1>5, <1>6, <1>7, <1>8, <1>9, <1>10,
     <1>11, <1>12, <1>13 DEF Next, Script

\* The pod of the API server is deleted before it could outlive its certificate.
LEMMA ApiStep ==
    ASSUME TypeOK, ApiTrail, [Next]_vars
    PROVE  ApiTrail'
<1> USE DEF TypeOK, Label, IsWorker, Fine, Fail, Spend, boot, disk, ApiTrail
<1>1. CASE UNCHANGED vars
  BY <1>1 DEF vars
<1>2. CASE RestartKubelet
  BY <1>2 DEF RestartKubelet, Started
<1>3. CASE CheckRevision
  BY <1>3 DEF CheckRevision, SansChanged
<1>4. CASE RemoveCert
  BY <1>4 DEF RemoveCert
<1>5. CASE GenerateCert
  BY <1>5 DEF GenerateCert
<1>6. CASE DeletePod
  BY <1>6 DEF DeletePod, PodAfterDelete
<1>7. CASE WaitForApi
  BY <1>7 DEF WaitForApi, ApiAnswers
<1>8. CASE WriteEnvs
  BY <1>8 DEF WriteEnvs
<1>9. CASE MoveConf
  BY <1>9 DEF MoveConf
<1>10. CASE MakeConf
  BY <1>10 DEF MakeConf, ConfMade
<1>11. CASE StartApi
  BY <1>11 DEF StartApi
<1>12. CASE Reboot
  BY <1>12, BootFacts DEF Started
<1>13. CASE Crash
  BY <1>13, BootFacts DEF Started
<1> QED
  BY <1>1, <1>2, <1>3, <1>4, <1>5, <1>6, <1>7, <1>8, <1>9, <1>10,
     <1>11, <1>12, <1>13 DEF Next, Script

\* The last commands of the script leave the kubelet as this boot wants it.
LEMMA KubeletStep ==
    ASSUME TypeOK, KubeletTrail, [Next]_vars
    PROVE  KubeletTrail'
<1> USE DEF TypeOK, Label, IsWorker, Fine, Fail, Spend, boot, disk, KubeletTrail
<1>1. CASE UNCHANGED vars
  BY <1>1 DEF vars
<1>2. CASE RestartKubelet
  BY <1>2 DEF RestartKubelet, Started
<1>3. CASE CheckRevision
  BY <1>3 DEF CheckRevision, SansChanged
<1>4. CASE RemoveCert
  BY <1>4 DEF RemoveCert
<1>5. CASE GenerateCert
  BY <1>5 DEF GenerateCert
<1>6. CASE DeletePod
  BY <1>6 DEF DeletePod, PodAfterDelete
<1>7. CASE WaitForApi
  BY <1>7 DEF WaitForApi, ApiAnswers
<1>8. CASE WriteEnvs
  BY <1>8 DEF WriteEnvs
<1>9. CASE MoveConf
  BY <1>9 DEF MoveConf
<1>10. CASE MakeConf
  BY <1>10 DEF MakeConf, ConfMade
<1>11. CASE StartApi
  BY <1>11 DEF StartApi
<1>12. CASE Reboot
  BY <1>12, BootFacts DEF Started
<1>13. CASE Crash
  BY <1>13, BootFacts DEF Started
<1> QED
  BY <1>1, <1>2, <1>3, <1>4, <1>5, <1>6, <1>7, <1>8, <1>9, <1>10,
     <1>11, <1>12, <1>13 DEF Next, Script

\* The first revision stays recorded, and is not the one of a changed boot.
LEMMA FirstChangeStep ==
    ASSUME TypeOK, FirstChangeTrail, [Next]_vars
    PROVE  FirstChangeTrail'
<1> USE DEF TypeOK, Label, IsWorker, Fine, Fail, Spend, boot, disk, FirstChangeTrail
<1>1. CASE UNCHANGED vars
  BY <1>1 DEF vars
<1>2. CASE RestartKubelet
  BY <1>2 DEF RestartKubelet, Started
<1>3. CASE CheckRevision
  BY <1>3 DEF CheckRevision, SansChanged
<1>4. CASE RemoveCert
  BY <1>4 DEF RemoveCert
<1>5. CASE GenerateCert
  BY <1>5 DEF GenerateCert
<1>6. CASE DeletePod
  BY <1>6 DEF DeletePod, PodAfterDelete
<1>7. CASE WaitForApi
  BY <1>7 DEF WaitForApi, ApiAnswers
<1>8. CASE WriteEnvs
  BY <1>8 DEF WriteEnvs
<1>9. CASE MoveConf
  BY <1>9 DEF MoveConf
<1>10. CASE MakeConf
  BY <1>10 DEF MakeConf, ConfMade
<1>11. CASE StartApi
  BY <1>11 DEF StartApi
<1>12. CASE Reboot
  BY <1>12, BootFacts DEF Started
<1>13. CASE Crash
  BY <1>13, BootFacts DEF Started
<1> QED
  BY <1>1, <1>2, <1>3, <1>4, <1>5, <1>6, <1>7, <1>8, <1>9, <1>10,
     <1>11, <1>12, <1>13 DEF Next, Script

\* The script comes to its wait with a kubelet that was just restarted, and with files
\* that only a fault could have taken.
LEMMA WaitStep ==
    ASSUME TypeOK, WaitTrail, [Next]_vars
    PROVE  WaitTrail'
<1> USE DEF TypeOK, Label, IsWorker, Fine, Fail, Spend, boot, disk, Started, WaitTrail
<1>1. CASE UNCHANGED vars
  BY <1>1 DEF vars
<1>2. CASE RestartKubelet
  BY <1>2 DEF RestartKubelet, Started
<1>3. CASE CheckRevision
  BY <1>3 DEF CheckRevision, SansChanged
<1>4. CASE RemoveCert
  BY <1>4 DEF RemoveCert
<1>5. CASE GenerateCert
  BY <1>5 DEF GenerateCert
<1>6. CASE DeletePod
  BY <1>6 DEF DeletePod, PodAfterDelete
<1>7. CASE WaitForApi
  BY <1>7 DEF WaitForApi, ApiAnswers
<1>8. CASE WriteEnvs
  BY <1>8 DEF WriteEnvs
<1>9. CASE MoveConf
  BY <1>9 DEF MoveConf
<1>10. CASE MakeConf
  BY <1>10 DEF MakeConf, ConfMade
<1>11. CASE StartApi
  BY <1>11 DEF StartApi
<1>12. CASE Reboot
  BY <1>12, BootFacts DEF Started
<1>13. CASE Crash
  BY <1>13, BootFacts DEF Started
<1> QED
  BY <1>1, <1>2, <1>3, <1>4, <1>5, <1>6, <1>7, <1>8, <1>9, <1>10,
     <1>11, <1>12, <1>13 DEF Next, Script

-------------------------------------------------------------------------------
(* The theorems.                                                            *)

\* RInv holds initially, is kept by every step, and so holds always.
THEOREM ReconfigureInductive == Spec => []RInv
<1>1. Init => RInv
  BY DEF Init, RInv, TypeOK, Label, IsWorker, CertTrail, ApiTrail, KubeletTrail,
         FirstChangeTrail, WaitTrail, WaitIsServed, WedgeNeedsFaults, Wedged
<1>2. RInv /\ [Next]_vars => RInv'
  <2> SUFFICES ASSUME RInv, [Next]_vars PROVE RInv'
    OBVIOUS
  <2>1. /\ TypeOK' /\ CertTrail' /\ ApiTrail' /\ KubeletTrail' /\ FirstChangeTrail'
        /\ WaitTrail'
    BY TypeStep, CertStep, ApiStep, KubeletStep, FirstChangeStep, WaitStep DEF RInv
  <2>2. (WaitIsServed /\ WedgeNeedsFaults)'
    BY <2>1 DEF WaitTrail, TypeOK, WaitIsServed, WedgeNeedsFaults, Wedged, Started
  <2> QED
    BY <2>1, <2>2 DEF RInv
<1> QED
  BY <1>1, <1>2, PTL DEF Spec

\* The first change of the SANs reaches the certificate, if nothing goes wrong.
THEOREM FirstChangeTheorem == Spec => []FirstChangeCarriedOut
<1>1. RInv => FirstChangeCarriedOut
  BY DEF RInv, FirstChangeTrail, FirstChangeCarriedOut, AtRest
<1> QED
  BY <1>1, ReconfigureInductive, PTL

\* A certificate is wrong only for a configuration that is the recorded one.
THEOREM CertTheorem == Spec => []CertFollowsConfig
<1>1. RInv => CertFollowsConfig
  BY DEF RInv, CertTrail, CertFollowsConfig, AtRest
<1> QED
  BY <1>1, ReconfigureInductive, PTL

\* Without failures the API server runs with the certificate on disk.
THEOREM ApiTheorem == Spec => []ApiServesDisk
<1>1. RInv => ApiServesDisk
  BY DEF RInv, ApiTrail, ApiServesDisk, AtRest
<1> QED
  BY <1>1, ReconfigureInductive, PTL

\* Without failures every boot that ends leaves the kubelet with its flags.
THEOREM KubeletTheorem == Spec => []KubeletRunsFlags
<1>1. RInv => KubeletRunsFlags
  BY DEF RInv, KubeletTrail, KubeletRunsFlags
<1> QED
  BY <1>1, ReconfigureInductive, PTL

\* Wherever the script waits it waits for something that comes, but in one place.
THEOREM WaitTheorem == Spec => []WaitIsServed
<1>1. RInv => WaitIsServed
  BY DEF RInv
<1> QED
  BY <1>1, ReconfigureInductive, PTL

\* And without crashes and failures no boot hangs in that place.
THEOREM WedgeTheorem == Spec => []WedgeNeedsFaults
<1>1. RInv => WedgeNeedsFaults
  BY DEF RInv
<1> QED
  BY <1>1, ReconfigureInductive, PTL
===============================================================================
