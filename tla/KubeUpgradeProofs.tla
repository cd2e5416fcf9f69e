--------------------------- MODULE KubeUpgradeProofs ---------------------------
(***************************************************************************)
(* Theorems about KubeUpgrade, for every set of nodes, every set of         *)
(* versions and every budget of reboots, crashes and failures.              *)
(***************************************************************************)
EXTENDS KubeUpgrade, TLAPS

USE NodeAssumption, VersionAssumption, BudgetAssumption

\* What one step of one node is: some command of its script, or a boot.
LEMMA NextCases ==
    ASSUME Next
    PROVE  \E n \in Node :
              \/ AlreadyLatest(n) \/ BeginUpgrade(n) \/ CreateLock(n)
              \/ CheckHolder(n) \/ ChooseCommand(n) \/ SaveConfig(n)
              \/ UploadConfig(n) \/ Apply(n) \/ Revert(n) \/ UpgradeNode(n)
              \/ BeginMark(n) \/ EndMark(n) \/ DeleteLock(n)
              \/ UpgradeKubelet(n) \/ Reconfigure(n) \/ Reboot(n) \/ Crash(n)
  BY DEF Next, Script

-------------------------------------------------------------------------------
(* Type correctness.                                                        *)

\* Spending a budget keeps the record of what is spent well typed.
LEMMA SpendType ==
    ASSUME spent \in [reboots : Nat, crashes : Nat, failures : Nat],
           \/ Fine \/ Fail \/ Spend("reboots") \/ Spend("crashes")
    PROVE  spent' \in [reboots : Nat, crashes : Nat, failures : Nat]
  BY DEF Fine, Fail, Spend

\* Moving one node to a label keeps every node at a label.
LEMMA GotoType ==
    ASSUME pc \in [Node -> Label], NEW n \in Node, NEW l \in Label, Goto(n, l)
    PROVE  pc' \in [Node -> Label]
  BY DEF Goto

\* Every step keeps every variable in its type.
LEMMA TypeStep == TypeOK /\ [Next]_vars => TypeOK'
<1> SUFFICES ASSUME TypeOK, [Next]_vars
             PROVE  TypeOK'
  OBVIOUS
<1> USE SpendType, GotoType DEF TypeOK, Label
<1>1. CASE UNCHANGED vars
  BY <1>1 DEF vars, disk
<1>2. ASSUME NEW n \in Node, AlreadyLatest(n) PROVE TypeOK'
  BY <1>2 DEF AlreadyLatest, disk
<1>3. ASSUME NEW n \in Node, BeginUpgrade(n) PROVE TypeOK'
  BY <1>3 DEF BeginUpgrade, disk
<1>4. ASSUME NEW n \in Node, CreateLock(n) PROVE TypeOK'
  BY <1>4 DEF CreateLock, disk
<1>5. ASSUME NEW n \in Node, CheckHolder(n) PROVE TypeOK'
  BY <1>5 DEF CheckHolder, disk
<1>6. ASSUME NEW n \in Node, ChooseCommand(n) PROVE TypeOK'
  BY <1>6 DEF ChooseCommand, disk
<1>7. ASSUME NEW n \in Node, SaveConfig(n) PROVE TypeOK'
  BY <1>7 DEF SaveConfig
<1>8. ASSUME NEW n \in Node, UploadConfig(n) PROVE TypeOK'
  BY <1>8 DEF UploadConfig, disk
<1>9. ASSUME NEW n \in Node, Apply(n) PROVE TypeOK'
  <2>1. image[n] \in Version
    OBVIOUS
  <2>2. cm' \in Version /\ applied' \subseteq Version
    BY <1>9, <2>1 DEF Apply
  <2>3. pc' \in [Node -> Label] /\ spent' \in [reboots : Nat, crashes : Nat, failures : Nat]
    BY <1>9 DEF Apply
  <2> QED
    BY <1>9, <2>2, <2>3 DEF Apply, disk
<1>10. ASSUME NEW n \in Node, Revert(n) PROVE TypeOK'
  BY <1>10 DEF Revert, SavedReadable, disk
<1>11. ASSUME NEW n \in Node, UpgradeNode(n) PROVE TypeOK'
  BY <1>11 DEF UpgradeNode, disk
<1>12. ASSUME NEW n \in Node, BeginMark(n) PROVE TypeOK'
  BY <1>12 DEF BeginMark
<1>13. ASSUME NEW n \in Node, EndMark(n) PROVE TypeOK'
  BY <1>13 DEF EndMark
<1>14. ASSUME NEW n \in Node, DeleteLock(n) PROVE TypeOK'
  BY <1>14 DEF DeleteLock, disk
<1>15. ASSUME NEW n \in Node, UpgradeKubelet(n) PROVE TypeOK'
  BY <1>15 DEF UpgradeKubelet
<1>16. ASSUME NEW n \in Node, Reconfigure(n) PROVE TypeOK'
  BY <1>16 DEF Reconfigure, disk
<1>17. ASSUME NEW n \in Node, Reboot(n) PROVE TypeOK'
  BY <1>17 DEF Reboot, Boot, disk
<1>18. ASSUME NEW n \in Node, Crash(n) PROVE TypeOK'
  BY <1>18 DEF Crash, Boot, disk
<1> QED
  BY <1>1, <1>2, <1>3, <1>4, <1>5, <1>6, <1>7, <1>8, <1>9, <1>10, <1>11, <1>12,
     <1>13, <1>14, <1>15, <1>16, <1>17, <1>18, NextCases

\* The type invariant of KubeUpgrade holds of every reachable state.
THEOREM TypeCorrect == Spec => []TypeOK
<1>1. Init => TypeOK
  BY DEF Init, TypeOK, Label, Node
<1> QED
  BY <1>1, TypeStep, PTL DEF Spec
-------------------------------------------------------------------------------
(* The parts of the inductive invariant, each kept by every step.           *)

\* Workers stay out of the commands of control plane nodes.
LEMMA RolesStep ==
    ASSUME TypeOK, Roles, SectionIsHeld, FinishedOnImage, [Next]_vars
    PROVE  Roles'
<1> USE DEF TypeOK, Roles, SectionIsHeld, FinishedOnImage, Node, Section, Goto, disk
<1>1. CASE UNCHANGED vars
  BY <1>1 DEF vars
<1>2. ASSUME NEW n \in Node, AlreadyLatest(n) PROVE Roles'
  BY <1>2 DEF AlreadyLatest, UpToDate
<1>3. ASSUME NEW n \in Node, BeginUpgrade(n) PROVE Roles'
  BY <1>3 DEF BeginUpgrade, UpToDate, TakesLock
<1>4. ASSUME NEW n \in Node, CreateLock(n) PROVE Roles'
  BY <1>4 DEF CreateLock
<1>5. ASSUME NEW n \in Node, CheckHolder(n) PROVE Roles'
  BY <1>5 DEF CheckHolder, IsHolder
<1>6. ASSUME NEW n \in Node, ChooseCommand(n) PROVE Roles'
  BY <1>6 DEF ChooseCommand
<1>7. ASSUME NEW n \in Node, SaveConfig(n) PROVE Roles'
  BY <1>7 DEF SaveConfig
<1>8. ASSUME NEW n \in Node, UploadConfig(n) PROVE Roles'
  BY <1>8 DEF UploadConfig
<1>9. ASSUME NEW n \in Node, Apply(n) PROVE Roles'
  BY <1>9 DEF Apply
<1>10. ASSUME NEW n \in Node, Revert(n) PROVE Roles'
  BY <1>10 DEF Revert, SavedReadable
<1>11. ASSUME NEW n \in Node, UpgradeNode(n) PROVE Roles'
  BY <1>11 DEF UpgradeNode
<1>12. ASSUME NEW n \in Node, BeginMark(n) PROVE Roles'
  BY <1>12 DEF BeginMark
<1>13. ASSUME NEW n \in Node, EndMark(n) PROVE Roles'
  BY <1>13 DEF EndMark
<1>14. ASSUME NEW n \in Node, DeleteLock(n) PROVE Roles'
  BY <1>14 DEF DeleteLock, DeletesLock
<1>15. ASSUME NEW n \in Node, UpgradeKubelet(n) PROVE Roles'
  BY <1>15 DEF UpgradeKubelet, ReplacesKubelet
<1>16. ASSUME NEW n \in Node, Reconfigure(n) PROVE Roles'
  BY <1>16 DEF Reconfigure, UploadsConfig
<1>17. ASSUME NEW n \in Node, Reboot(n) PROVE Roles'
  BY <1>17 DEF Reboot, Boot
<1>18. ASSUME NEW n \in Node, Crash(n) PROVE Roles'
  BY <1>18 DEF Crash, Boot
<1> QED
  BY <1>1, <1>2, <1>3, <1>4, <1>5, <1>6, <1>7, <1>8, <1>9, <1>10,
     <1>11, <1>12, <1>13, <1>14, <1>15, <1>16, <1>17, <1>18, NextCases

\* The node inside the section stays the one the lock names: the lock is made
\* only when it is free, and deleted only by the node inside.
LEMMA SectionStep ==
    ASSUME TypeOK, Roles, SectionIsHeld, FinishedOnImage, [Next]_vars
    PROVE  SectionIsHeld'
<1> USE DEF TypeOK, Roles, SectionIsHeld, FinishedOnImage, Node, Section, Goto, disk
<1>1. CASE UNCHANGED vars
  BY <1>1 DEF vars
<1>2. ASSUME NEW n \in Node, AlreadyLatest(n) PROVE SectionIsHeld'
  BY <1>2 DEF AlreadyLatest, UpToDate
<1>3. ASSUME NEW n \in Node, BeginUpgrade(n) PROVE SectionIsHeld'
  BY <1>3 DEF BeginUpgrade, UpToDate, TakesLock
<1>4. ASSUME NEW n \in Node, CreateLock(n) PROVE SectionIsHeld'
  BY <1>4 DEF CreateLock
<1>5. ASSUME NEW n \in Node, CheckHolder(n) PROVE SectionIsHeld'
  BY <1>5 DEF CheckHolder, IsHolder
<1>6. ASSUME NEW n \in Node, ChooseCommand(n) PROVE SectionIsHeld'
  BY <1>6 DEF ChooseCommand
<1>7. ASSUME NEW n \in Node, SaveConfig(n) PROVE SectionIsHeld'
  BY <1>7 DEF SaveConfig
<1>8. ASSUME NEW n \in Node, UploadConfig(n) PROVE SectionIsHeld'
  BY <1>8 DEF UploadConfig
<1>9. ASSUME NEW n \in Node, Apply(n) PROVE SectionIsHeld'
  BY <1>9 DEF Apply
<1>10. ASSUME NEW n \in Node, Revert(n) PROVE SectionIsHeld'
  BY <1>10 DEF Revert, SavedReadable
<1>11. ASSUME NEW n \in Node, UpgradeNode(n) PROVE SectionIsHeld'
  BY <1>11 DEF UpgradeNode
<1>12. ASSUME NEW n \in Node, BeginMark(n) PROVE SectionIsHeld'
  BY <1>12 DEF BeginMark
<1>13. ASSUME NEW n \in Node, EndMark(n) PROVE SectionIsHeld'
  BY <1>13 DEF EndMark
<1>14. ASSUME NEW n \in Node, DeleteLock(n) PROVE SectionIsHeld'
  BY <1>14 DEF DeleteLock, DeletesLock
<1>15. ASSUME NEW n \in Node, UpgradeKubelet(n) PROVE SectionIsHeld'
  BY <1>15 DEF UpgradeKubelet, ReplacesKubelet
<1>16. ASSUME NEW n \in Node, Reconfigure(n) PROVE SectionIsHeld'
  BY <1>16 DEF Reconfigure, UploadsConfig
<1>17. ASSUME NEW n \in Node, Reboot(n) PROVE SectionIsHeld'
  BY <1>17 DEF Reboot, Boot
<1>18. ASSUME NEW n \in Node, Crash(n) PROVE SectionIsHeld'
  BY <1>18 DEF Crash, Boot
<1> QED
  BY <1>1, <1>2, <1>3, <1>4, <1>5, <1>6, <1>7, <1>8, <1>9, <1>10,
     <1>11, <1>12, <1>13, <1>14, <1>15, <1>16, <1>17, <1>18, NextCases

\* Nothing but the test at the start and the end of the loop leads out of the
\* script, and both find the record at the image.
LEMMA FinishedStep ==
    ASSUME TypeOK, Roles, SectionIsHeld, FinishedOnImage, [Next]_vars
    PROVE  FinishedOnImage'
<1> USE DEF TypeOK, Roles, SectionIsHeld, FinishedOnImage, Node, Section, Goto, disk
<1>1. CASE UNCHANGED vars
  BY <1>1 DEF vars
<1>2. ASSUME NEW n \in Node, AlreadyLatest(n) PROVE FinishedOnImage'
  BY <1>2 DEF AlreadyLatest, UpToDate
<1>3. ASSUME NEW n \in Node, BeginUpgrade(n) PROVE FinishedOnImage'
  BY <1>3 DEF BeginUpgrade, UpToDate, TakesLock
<1>4. ASSUME NEW n \in Node, CreateLock(n) PROVE FinishedOnImage'
  BY <1>4 DEF CreateLock
<1>5. ASSUME NEW n \in Node, CheckHolder(n) PROVE FinishedOnImage'
  BY <1>5 DEF CheckHolder, IsHolder
<1>6. ASSUME NEW n \in Node, ChooseCommand(n) PROVE FinishedOnImage'
  BY <1>6 DEF ChooseCommand
<1>7. ASSUME NEW n \in Node, SaveConfig(n) PROVE FinishedOnImage'
  BY <1>7 DEF SaveConfig
<1>8. ASSUME NEW n \in Node, UploadConfig(n) PROVE FinishedOnImage'
  BY <1>8 DEF UploadConfig
<1>9. ASSUME NEW n \in Node, Apply(n) PROVE FinishedOnImage'
  BY <1>9 DEF Apply
<1>10. ASSUME NEW n \in Node, Revert(n) PROVE FinishedOnImage'
  BY <1>10 DEF Revert, SavedReadable
<1>11. ASSUME NEW n \in Node, UpgradeNode(n) PROVE FinishedOnImage'
  BY <1>11 DEF UpgradeNode
<1>12. ASSUME NEW n \in Node, BeginMark(n) PROVE FinishedOnImage'
  BY <1>12 DEF BeginMark
<1>13. ASSUME NEW n \in Node, EndMark(n) PROVE FinishedOnImage'
  BY <1>13 DEF EndMark
<1>14. ASSUME NEW n \in Node, DeleteLock(n) PROVE FinishedOnImage'
  BY <1>14 DEF DeleteLock, DeletesLock
<1>15. ASSUME NEW n \in Node, UpgradeKubelet(n) PROVE FinishedOnImage'
  BY <1>15 DEF UpgradeKubelet, ReplacesKubelet
<1>16. ASSUME NEW n \in Node, Reconfigure(n) PROVE FinishedOnImage'
  BY <1>16 DEF Reconfigure, UploadsConfig
<1>17. ASSUME NEW n \in Node, Reboot(n) PROVE FinishedOnImage'
  BY <1>17 DEF Reboot, Boot
<1>18. ASSUME NEW n \in Node, Crash(n) PROVE FinishedOnImage'
  BY <1>18 DEF Crash, Boot
<1> QED
  BY <1>1, <1>2, <1>3, <1>4, <1>5, <1>6, <1>7, <1>8, <1>9, <1>10,
     <1>11, <1>12, <1>13, <1>14, <1>15, <1>16, <1>17, <1>18, NextCases

\* The trail of applied versions is extended by the holder alone, and a node that
\* reads the ConfigMap under the lock never sees a version still to be applied.
LEMMA TrailStep ==
    ASSUME TypeOK, Roles, SectionIsHeld, FinishedOnImage, AppliedTrail, [Next]_vars
    PROVE  AppliedTrail'
<1> USE DEF TypeOK, Roles, SectionIsHeld, FinishedOnImage, Node, Section, Goto, disk,
           NoFaults, Fine, Fail, Spend, AppliedTrail
<1>1. CASE UNCHANGED vars
  BY <1>1 DEF vars
<1>2. ASSUME NEW n \in Node, AlreadyLatest(n) PROVE AppliedTrail'
  BY <1>2 DEF AlreadyLatest, UpToDate
<1>3. ASSUME NEW n \in Node, BeginUpgrade(n) PROVE AppliedTrail'
  BY <1>3 DEF BeginUpgrade, UpToDate, TakesLock
<1>4. ASSUME NEW n \in Node, CreateLock(n) PROVE AppliedTrail'
  BY <1>4 DEF CreateLock
<1>5. ASSUME NEW n \in Node, CheckHolder(n) PROVE AppliedTrail'
  BY <1>5 DEF CheckHolder, IsHolder
<1>6. ASSUME NEW n \in Node, ChooseCommand(n) PROVE AppliedTrail'
  BY <1>6 DEF ChooseCommand
<1>7. ASSUME NEW n \in Node, SaveConfig(n) PROVE AppliedTrail'
  BY <1>7 DEF SaveConfig
<1>8. ASSUME NEW n \in Node, UploadConfig(n) PROVE AppliedTrail'
  BY <1>8 DEF UploadConfig
<1>9. ASSUME NEW n \in Node, Apply(n) PROVE AppliedTrail'
  BY <1>9 DEF Apply
<1>10. ASSUME NEW n \in Node, Revert(n) PROVE AppliedTrail'
  BY <1>10 DEF Revert, SavedReadable
<1>11. ASSUME NEW n \in Node, UpgradeNode(n) PROVE AppliedTrail'
  BY <1>11 DEF UpgradeNode
<1>12. ASSUME NEW n \in Node, BeginMark(n) PROVE AppliedTrail'
  BY <1>12 DEF BeginMark
<1>13. ASSUME NEW n \in Node, EndMark(n) PROVE AppliedTrail'
  BY <1>13 DEF EndMark
<1>14. ASSUME NEW n \in Node, DeleteLock(n) PROVE AppliedTrail'
  BY <1>14 DEF DeleteLock, DeletesLock
<1>15. ASSUME NEW n \in Node, UpgradeKubelet(n) PROVE AppliedTrail'
  BY <1>15 DEF UpgradeKubelet, ReplacesKubelet
<1>16. ASSUME NEW n \in Node, Reconfigure(n) PROVE AppliedTrail'
  BY <1>16 DEF Reconfigure, UploadsConfig
<1>17. ASSUME NEW n \in Node, Reboot(n) PROVE AppliedTrail'
  BY <1>17 DEF Reboot, Boot
<1>18. ASSUME NEW n \in Node, Crash(n) PROVE AppliedTrail'
  BY <1>18 DEF Crash, Boot
<1> QED
  BY <1>1, <1>2, <1>3, <1>4, <1>5, <1>6, <1>7, <1>8, <1>9, <1>10,
     <1>11, <1>12, <1>13, <1>14, <1>15, <1>16, <1>17, <1>18, NextCases

\* Without faults the holder stays inside until it has deleted the lock.
LEMMA InsideStep ==
    ASSUME TypeOK, Roles, SectionIsHeld, FinishedOnImage, HolderInside, [Next]_vars
    PROVE  HolderInside'
<1> USE DEF TypeOK, Roles, SectionIsHeld, FinishedOnImage, Node, Section, Goto, disk,
           NoFaults, Fine, Fail, Spend, HolderInside
<1>1. CASE UNCHANGED vars
  BY <1>1 DEF vars
<1>2. ASSUME NEW n \in Node, AlreadyLatest(n) PROVE HolderInside'
  BY <1>2 DEF AlreadyLatest, UpToDate
<1>3. ASSUME NEW n \in Node, BeginUpgrade(n) PROVE HolderInside'
  BY <1>3 DEF BeginUpgrade, UpToDate, TakesLock
<1>4. ASSUME NEW n \in Node, CreateLock(n) PROVE HolderInside'
  BY <1>4 DEF CreateLock
<1>5. ASSUME NEW n \in Node, CheckHolder(n) PROVE HolderInside'
  BY <1>5 DEF CheckHolder, IsHolder
<1>6. ASSUME NEW n \in Node, ChooseCommand(n) PROVE HolderInside'
  BY <1>6 DEF ChooseCommand
<1>7. ASSUME NEW n \in Node, SaveConfig(n) PROVE HolderInside'
  BY <1>7 DEF SaveConfig
<1>8. ASSUME NEW n \in Node, UploadConfig(n) PROVE HolderInside'
  BY <1>8 DEF UploadConfig
<1>9. ASSUME NEW n \in Node, Apply(n) PROVE HolderInside'
  BY <1>9 DEF Apply
<1>10. ASSUME NEW n \in Node, Revert(n) PROVE HolderInside'
  BY <1>10 DEF Revert, SavedReadable
<1>11. ASSUME NEW n \in Node, UpgradeNode(n) PROVE HolderInside'
  BY <1>11 DEF UpgradeNode
<1>12. ASSUME NEW n \in Node, BeginMark(n) PROVE HolderInside'
  BY <1>12 DEF BeginMark
<1>13. ASSUME NEW n \in Node, EndMark(n) PROVE HolderInside'
  BY <1>13 DEF EndMark
<1>14. ASSUME NEW n \in Node, DeleteLock(n) PROVE HolderInside'
  BY <1>14 DEF DeleteLock, DeletesLock
<1>15. ASSUME NEW n \in Node, UpgradeKubelet(n) PROVE HolderInside'
  BY <1>15 DEF UpgradeKubelet, ReplacesKubelet
<1>16. ASSUME NEW n \in Node, Reconfigure(n) PROVE HolderInside'
  BY <1>16 DEF Reconfigure, UploadsConfig
<1>17. ASSUME NEW n \in Node, Reboot(n) PROVE HolderInside'
  BY <1>17 DEF Reboot, Boot
<1>18. ASSUME NEW n \in Node, Crash(n) PROVE HolderInside'
  BY <1>18 DEF Crash, Boot
<1> QED
  BY <1>1, <1>2, <1>3, <1>4, <1>5, <1>6, <1>7, <1>8, <1>9, <1>10,
     <1>11, <1>12, <1>13, <1>14, <1>15, <1>16, <1>17, <1>18, NextCases

\* Without crashes the kubelet follows the record.
LEMMA KubeletStep ==
    ASSUME TypeOK, Roles, SectionIsHeld, FinishedOnImage, KubeletTrail, [Next]_vars
    PROVE  KubeletTrail'
<1> USE DEF TypeOK, Roles, SectionIsHeld, FinishedOnImage, Node, Section, Goto, disk,
           NoFaults, Fine, Fail, Spend, KubeletTrail
<1>1. CASE UNCHANGED vars
  BY <1>1 DEF vars
<1>2. ASSUME NEW n \in Node, AlreadyLatest(n) PROVE KubeletTrail'
  BY <1>2 DEF AlreadyLatest, UpToDate
<1>3. ASSUME NEW n \in Node, BeginUpgrade(n) PROVE KubeletTrail'
  BY <1>3 DEF BeginUpgrade, UpToDate, TakesLock
<1>4. ASSUME NEW n \in Node, CreateLock(n) PROVE KubeletTrail'
  BY <1>4 DEF CreateLock
<1>5. ASSUME NEW n \in Node, CheckHolder(n) PROVE KubeletTrail'
  BY <1>5 DEF CheckHolder, IsHolder
<1>6. ASSUME NEW n \in Node, ChooseCommand(n) PROVE KubeletTrail'
  BY <1>6 DEF ChooseCommand
<1>7. ASSUME NEW n \in Node, SaveConfig(n) PROVE KubeletTrail'
  BY <1>7 DEF SaveConfig
<1>8. ASSUME NEW n \in Node, UploadConfig(n) PROVE KubeletTrail'
  BY <1>8 DEF UploadConfig
<1>9. ASSUME NEW n \in Node, Apply(n) PROVE KubeletTrail'
  BY <1>9 DEF Apply
<1>10. ASSUME NEW n \in Node, Revert(n) PROVE KubeletTrail'
  BY <1>10 DEF Revert, SavedReadable
<1>11. ASSUME NEW n \in Node, UpgradeNode(n) PROVE KubeletTrail'
  BY <1>11 DEF UpgradeNode
<1>12. ASSUME NEW n \in Node, BeginMark(n) PROVE KubeletTrail'
  BY <1>12 DEF BeginMark
<1>13. ASSUME NEW n \in Node, EndMark(n) PROVE KubeletTrail'
  BY <1>13 DEF EndMark
<1>14. ASSUME NEW n \in Node, DeleteLock(n) PROVE KubeletTrail'
  BY <1>14 DEF DeleteLock, DeletesLock
<1>15. ASSUME NEW n \in Node, UpgradeKubelet(n) PROVE KubeletTrail'
  BY <1>15 DEF UpgradeKubelet, ReplacesKubelet
<1>16. ASSUME NEW n \in Node, Reconfigure(n) PROVE KubeletTrail'
  BY <1>16 DEF Reconfigure, UploadsConfig
<1>17. ASSUME NEW n \in Node, Reboot(n) PROVE KubeletTrail'
  BY <1>17 DEF Reboot, Boot
<1>18. ASSUME NEW n \in Node, Crash(n) PROVE KubeletTrail'
  BY <1>18 DEF Crash, Boot
<1> QED
  BY <1>1, <1>2, <1>3, <1>4, <1>5, <1>6, <1>7, <1>8, <1>9, <1>10,
     <1>11, <1>12, <1>13, <1>14, <1>15, <1>16, <1>17, <1>18, NextCases

\* A record is emptied before it is written, and nothing else touches it in between.
LEMMA RecordStep ==
    ASSUME TypeOK, RecordTrail, [Next]_vars
    PROVE  RecordTrail'
<1> USE DEF TypeOK, RecordTrail, Goto, disk
<1>1. CASE UNCHANGED vars
  BY <1>1 DEF vars
<1>2. ASSUME NEW n \in Node, BeginMark(n) PROVE RecordTrail'
  BY <1>2 DEF BeginMark
<1>3. ASSUME NEW n \in Node, EndMark(n) PROVE RecordTrail'
  BY <1>3 DEF EndMark
<1>4. ASSUME NEW n \in Node, Reboot(n) \/ Crash(n) PROVE RecordTrail'
  BY <1>4 DEF Reboot, Crash, Boot
<1>5. ASSUME NEW n \in Node,
             \/ AlreadyLatest(n) \/ BeginUpgrade(n) \/ CreateLock(n) \/ CheckHolder(n)
             \/ ChooseCommand(n) \/ SaveConfig(n) \/ UploadConfig(n)
             \/ Apply(n) \/ Revert(n) \/ UpgradeNode(n) \/ DeleteLock(n)
             \/ UpgradeKubelet(n) \/ Reconfigure(n)
      PROVE  RecordTrail'
  <2>1. /\ UNCHANGED sentinel
        /\ pc' = pc \/ \E l \in Label \ {"record"} : pc' = [pc EXCEPT ![n] = l]
    BY <1>5 DEF AlreadyLatest, BeginUpgrade, CreateLock, CheckHolder, ChooseCommand,
                SaveConfig, UploadConfig, Apply, Revert, UpgradeNode, DeleteLock,
                UpgradeKubelet, Reconfigure, Label
  <2> QED
    BY <2>1
<1> QED
  BY <1>1, <1>2, <1>3, <1>4, <1>5, NextCases

\* The last control plane node to finish its boot writes the common version, and
\* nobody else writes while all of them are up.
LEMMA ConvergesStep ==
    ASSUME TypeOK, Roles, SectionIsHeld, FinishedOnImage, ConfigMapConverges, [Next]_vars
    PROVE  ConfigMapConverges'
<1> USE DEF TypeOK, Roles, SectionIsHeld, FinishedOnImage, Node, Section, Goto, disk,
           NoFaults, Fine, Fail, Spend, ConfigMapConverges
<1>1. CASE UNCHANGED vars
  BY <1>1 DEF vars
<1>2. ASSUME NEW n \in Node, AlreadyLatest(n) PROVE ConfigMapConverges'
  BY <1>2 DEF AlreadyLatest, UpToDate
<1>3. ASSUME NEW n \in Node, BeginUpgrade(n) PROVE ConfigMapConverges'
  BY <1>3 DEF BeginUpgrade, UpToDate, TakesLock
<1>4. ASSUME NEW n \in Node, CreateLock(n) PROVE ConfigMapConverges'
  BY <1>4 DEF CreateLock
<1>5. ASSUME NEW n \in Node, CheckHolder(n) PROVE ConfigMapConverges'
  BY <1>5 DEF CheckHolder, IsHolder
<1>6. ASSUME NEW n \in Node, ChooseCommand(n) PROVE ConfigMapConverges'
  BY <1>6 DEF ChooseCommand
<1>7. ASSUME NEW n \in Node, SaveConfig(n) PROVE ConfigMapConverges'
  BY <1>7 DEF SaveConfig
<1>8. ASSUME NEW n \in Node, UploadConfig(n) PROVE ConfigMapConverges'
  BY <1>8 DEF UploadConfig
<1>9. ASSUME NEW n \in Node, Apply(n) PROVE ConfigMapConverges'
  BY <1>9 DEF Apply
<1>10. ASSUME NEW n \in Node, Revert(n) PROVE ConfigMapConverges'
  BY <1>10 DEF Revert, SavedReadable
<1>11. ASSUME NEW n \in Node, UpgradeNode(n) PROVE ConfigMapConverges'
  <2>1. CASE n \in Worker
    <3>1. /\ cm' = cm
          /\ \A m \in ControlPlane : pc'[m] = pc[m] /\ image'[m] = image[m]
          /\ spent'.failures = 0 => spent.failures = 0
      BY <1>11, <2>1 DEF UpgradeNode
    <3> QED
      BY <3>1
  <2>2. CASE n \in ControlPlane
    <3>1. pc'[n] # "up"
      BY <1>11 DEF UpgradeNode
    <3> QED
      BY <2>2, <3>1
  <2> QED
    BY <2>1, <2>2
<1>12. ASSUME NEW n \in Node, BeginMark(n) PROVE ConfigMapConverges'
  BY <1>12 DEF BeginMark
<1>13. ASSUME NEW n \in Node, EndMark(n) PROVE ConfigMapConverges'
  BY <1>13 DEF EndMark
<1>14. ASSUME NEW n \in Node, DeleteLock(n) PROVE ConfigMapConverges'
  BY <1>14 DEF DeleteLock, DeletesLock
<1>15. ASSUME NEW n \in Node, UpgradeKubelet(n) PROVE ConfigMapConverges'
  BY <1>15 DEF UpgradeKubelet, ReplacesKubelet
<1>16. ASSUME NEW n \in Node, Reconfigure(n) PROVE ConfigMapConverges'
  BY <1>16 DEF Reconfigure, UploadsConfig
<1>17. ASSUME NEW n \in Node, Reboot(n) PROVE ConfigMapConverges'
  <2>1. CASE n \in Worker
    <3>1. /\ cm' = cm
          /\ \A m \in ControlPlane : pc'[m] = pc[m] /\ image'[m] = image[m]
          /\ spent'.failures = 0 => spent.failures = 0
      BY <1>17, <2>1 DEF Reboot, Boot
    <3> QED
      BY <3>1
  <2>2. CASE n \in ControlPlane
    <3>1. pc'[n] # "up"
      BY <1>17 DEF Reboot, Boot
    <3> QED
      BY <2>2, <3>1
  <2> QED
    BY <2>1, <2>2
<1>18. ASSUME NEW n \in Node, Crash(n) PROVE ConfigMapConverges'
  <2>1. CASE n \in Worker
    <3>1. /\ cm' = cm
          /\ \A m \in ControlPlane : pc'[m] = pc[m] /\ image'[m] = image[m]
          /\ spent'.failures = 0 => spent.failures = 0
      BY <1>18, <2>1 DEF Crash, Boot
    <3> QED
      BY <3>1
  <2>2. CASE n \in ControlPlane
    <3>1. pc'[n] # "up"
      BY <1>18 DEF Crash, Boot
    <3> QED
      BY <2>2, <3>1
  <2> QED
    BY <2>1, <2>2
<1> QED
  BY <1>1, <1>2, <1>3, <1>4, <1>5, <1>6, <1>7, <1>8, <1>9, <1>10,
     <1>11, <1>12, <1>13, <1>14, <1>15, <1>16, <1>17, <1>18, NextCases

-------------------------------------------------------------------------------
(* The inductive invariant, and what follows from it.                       *)

\* IInv holds initially, is kept by every step, and so holds always.
THEOREM Inductive == Spec => []IInv
<1>1. Init => IInv
  BY DEF Init, IInv, TypeOK, Label, Node, Roles, SectionIsHeld, Section,
         FinishedOnImage, AppliedTrail, HolderInside, KubeletTrail,
         RecordTrail, ConfigMapConverges, NoFaults
<1>2. IInv /\ [Next]_vars => IInv'
  BY TypeStep, RolesStep, SectionStep, FinishedStep, TrailStep, InsideStep,
     KubeletStep, RecordStep, ConvergesStep DEF IInv
<1> QED
  BY <1>1, <1>2, PTL DEF Spec

\* Mutual exclusion: a control plane node inside the section is the node the lock
\* names, through every crash, lost answer and failed request.
THEOREM SectionTheorem == Spec => []SectionIsHeld
<1>1. IInv => SectionIsHeld
  BY DEF IInv
<1> QED
  BY <1>1, Inductive, PTL

\* Two control plane nodes are never inside the section together.
THEOREM MutualExclusion ==
    Spec => [](\A m, n \in ControlPlane :
                   pc[m] \in Section /\ pc[n] \in Section => m = n)
<1>1. SectionIsHeld => \A m, n \in ControlPlane :
                           pc[m] \in Section /\ pc[n] \in Section => m = n
  BY DEF SectionIsHeld
<1> QED
  BY <1>1, SectionTheorem, PTL

\* A node leaves the script with its record at the version of its image.
THEOREM FinishedTheorem == Spec => []FinishedOnImage
<1>1. IInv => FinishedOnImage
  BY DEF IInv
<1> QED
  BY <1>1, Inductive, PTL

\* Without faults, `upgrade node` runs only towards versions that `upgrade apply`
\* has succeeded for.
THEOREM ApplyPrecedesNodeTheorem == Spec => []ApplyPrecedesNodeNoFaults
<1>1. IInv => ApplyPrecedesNodeNoFaults
  BY DEF IInv, AppliedTrail, ApplyPrecedesNodeNoFaults, ApplyPrecedesNode
<1> QED
  BY <1>1, Inductive, PTL

\* Without faults no lock outlives the upgrade it was taken for.
THEOREM LockTheorem == Spec => []OnlyFaultsLeakTheLock
<1>1. IInv => OnlyFaultsLeakTheLock
  BY DEF IInv, HolderInside, OnlyFaultsLeakTheLock, LockLeaked, Section
<1> QED
  BY <1>1, Inductive, PTL

\* A step of any node leaves a leaked lock leaked, unless it boots the holder.
LEMMA LeakStep ==
    ASSUME TypeOK, Roles, SectionIsHeld, LockLeaked, [Next]_vars
    PROVE  LockLeaked' \/ pc'[lock] = "start"
<1> USE DEF TypeOK, Goto, LockLeaked
<1>1. CASE UNCHANGED vars
  BY <1>1 DEF vars
<1>2. ASSUME NEW n \in Node, DeleteLock(n) PROVE LockLeaked'
  <2>1. n \in ControlPlane => lock = n
    BY <1>2 DEF DeleteLock, SectionIsHeld, Section
  <2>2. n \notin ControlPlane
    BY <1>2, <2>1 DEF DeleteLock
  <2>3. n # lock /\ UNCHANGED lock /\ pc' = [pc EXCEPT ![n] = "binary"]
    BY <1>2, <2>2 DEF DeleteLock, DeletesLock, Roles
  <2> QED
    BY <2>3
<1>3. ASSUME NEW n \in Node, Reboot(n) \/ Crash(n)
      PROVE  LockLeaked' \/ pc'[lock] = "start"
  <2>1. UNCHANGED lock /\ pc' = [pc EXCEPT ![n] = "start"]
    BY <1>3 DEF Reboot, Crash, Boot
  <2> QED
    BY <2>1
<1>4. ASSUME NEW n \in Node, UpgradeKubelet(n) \/ Reconfigure(n) PROVE LockLeaked'
  <2>1. /\ UNCHANGED lock
        /\ \E l \in {"reconfigure", "reupload", "up"} : pc' = [pc EXCEPT ![n] = l]
    BY <1>4 DEF UpgradeKubelet, Reconfigure
  <2> QED
    BY <2>1
<1>5. ASSUME NEW n \in Node,
             \/ AlreadyLatest(n) \/ BeginUpgrade(n) \/ CreateLock(n) \/ CheckHolder(n)
             \/ ChooseCommand(n) \/ SaveConfig(n) \/ UploadConfig(n)
             \/ Apply(n) \/ Revert(n) \/ UpgradeNode(n) \/ BeginMark(n) \/ EndMark(n)
      PROVE  LockLeaked'
  <2>1. /\ pc[n] \notin {"binary", "reconfigure", "reupload", "up"}
        /\ UNCHANGED lock
        /\ pc' = pc \/ \E l \in Label : pc' = [pc EXCEPT ![n] = l]
    BY <1>5 DEF AlreadyLatest, BeginUpgrade, CreateLock, CheckHolder, ChooseCommand,
                SaveConfig, UploadConfig, Apply, Revert, UpgradeNode, BeginMark,
                EndMark, Label
  <2> QED
    BY <2>1
<1> QED
  BY <1>1, <1>2, <1>3, <1>4, <1>5, NextCases

\* A leaked lock stays, whatever the nodes that wait for it do.
THEOREM LeakTheorem == Spec => LeakStays
<1>1. IInv /\ [Next]_vars => [LockLeaked => LockLeaked' \/ pc'[lock] = "start"]_vars
  BY LeakStep DEF IInv
<1> QED
  BY <1>1, Inductive, PTL DEF Spec, LeakStays

\* Without crashes every node that is up runs the kubelet of its image.
THEOREM KubeletTheorem == Spec => []KubeletFollowsImageNoCrash
<1>1. IInv => KubeletFollowsImageNoCrash
  BY DEF IInv, KubeletTrail, FinishedOnImage, KubeletFollowsImageNoCrash,
         KubeletFollowsImage
<1> QED
  BY <1>1, Inductive, PTL

\* Once all control plane nodes are up on one version, the ConfigMap has it.
THEOREM ConvergenceTheorem == Spec => []ConfigMapConverges
<1>1. IInv => ConfigMapConverges
  BY DEF IInv
<1> QED
  BY <1>1, Inductive, PTL

-------------------------------------------------------------------------------
(* Refinement.                                                              *)

\* Every step of a script is a step of the abstract protocol or changes nothing
\* it sees: creating the lock acquires, marking opens and moves, deleting the lock releases,
\* a boot retargets.
LEMMA StepRefines ==
    ASSUME TypeOK, Roles, SectionIsHeld, FinishedOnImage, [Next]_vars
    PROVE  [RU!Next]_(RU!vars)
<1> USE DEF disk, RU!vars
<1>1. CASE UNCHANGED vars
  BY <1>1 DEF vars
<1>2. ASSUME NEW n \in Node, CreateLock(n) PROVE [RU!Next]_(RU!vars)
  <2>1. CASE UNCHANGED lock
    BY <1>2, <2>1 DEF CreateLock
  <2>2. CASE lock = NoNode /\ lock' = n
    <3>1. n \in ControlPlane
      BY <1>2 DEF CreateLock, Roles, Node
    <3>2. RU!Acquire(n)
      BY <1>2, <2>2 DEF CreateLock, RU!Acquire
    <3> QED
      BY <3>1, <3>2 DEF RU!Next
  <2> QED
    BY <1>2, <2>1, <2>2 DEF CreateLock
<1>3. ASSUME NEW n \in Node, BeginMark(n) \/ EndMark(n) PROVE [RU!Next]_(RU!vars)
  <2>1. n \in ControlPlane => lock = n
    BY <1>3 DEF BeginMark, EndMark, SectionIsHeld, Section
  <2>2. RU!Open(n) \/ RU!Move(n)
    BY <1>3, <2>1 DEF BeginMark, EndMark, RU!Open, RU!Move
  <2> QED
    BY <2>2 DEF RU!Next, RU!Node, Node
<1>4. ASSUME NEW n \in Node, DeleteLock(n) PROVE [RU!Next]_(RU!vars)
  <2>1. CASE UNCHANGED lock
    BY <1>4, <2>1 DEF DeleteLock
  <2>2. CASE n \in ControlPlane /\ lock' = NoNode
    <3>1. lock = n /\ sentinel[n] = image[n]
      BY <1>4, <2>2 DEF DeleteLock, SectionIsHeld, Section, FinishedOnImage
    <3>2. RU!Release(n)
      BY <1>4, <2>2, <3>1 DEF DeleteLock, RU!Release
    <3> QED
      BY <2>2, <3>2 DEF RU!Next
  <2> QED
    BY <1>4, <2>1, <2>2 DEF DeleteLock, DeletesLock
<1>5. ASSUME NEW n \in Node, Reboot(n) \/ Crash(n) PROVE [RU!Next]_(RU!vars)
  <2>1. PICK v \in Version : Boot(n, v)
    BY <1>5 DEF Reboot, Crash
  <2>2. RU!Retarget(n, v)
    BY <2>1 DEF Boot, RU!Retarget
  <2> QED
    BY <2>2 DEF RU!Next, RU!Node, Node
<1>6. ASSUME NEW n \in Node,
             \/ AlreadyLatest(n) \/ BeginUpgrade(n) \/ CheckHolder(n)
             \/ ChooseCommand(n) \/ SaveConfig(n) \/ UploadConfig(n)
             \/ Apply(n) \/ Revert(n) \/ UpgradeNode(n)
             \/ UpgradeKubelet(n) \/ Reconfigure(n)
      PROVE  UNCHANGED RU!vars
  BY <1>6 DEF AlreadyLatest, BeginUpgrade, CheckHolder, ChooseCommand,
              SaveConfig, UploadConfig, Apply, Revert, UpgradeNode,
              UpgradeKubelet, Reconfigure
<1> QED
  BY <1>1, <1>2, <1>3, <1>4, <1>5, <1>6, NextCases

\* The scripts implement the abstract rolling upgrade.
THEOREM Refinement == Spec => ImplementsRollingUpgrade
<1>1. Init => RU!Init
  BY DEF Init, RU!Init, RU!Node, Node
<1>2. IInv /\ [Next]_vars => [RU!Next]_(RU!vars)
  BY StepRefines DEF IInv
<1> QED
  BY <1>1, <1>2, Inductive, PTL DEF Spec, RU!Spec, ImplementsRollingUpgrade

-------------------------------------------------------------------------------
(* One node of the cluster, as NodeLife sees it.                            *)

\* Every step of any node is, for each node, a step of ClusterNode or a stutter:
\* marking opens and writes the record, the end of kube-reconfigure.sh rests, a boot boots.
LEMMA NodeRefines ==
    ASSUME TypeOK, FinishedOnImage, RecordTrail, [Next]_vars, NEW m \in Node
    PROVE  [CN(m)!Next]_(CN(m)!vars)
<1> USE DEF disk, CN!vars, Goto, TypeOK
<1>1. CASE UNCHANGED vars
  BY <1>1 DEF vars
<1>2. ASSUME NEW n \in Node, BeginMark(n) \/ EndMark(n) PROVE [CN(m)!Next]_(CN(m)!vars)
  <2>1. CASE m = n /\ BeginMark(n)
    BY <2>1 DEF BeginMark, CN!OpenRecord, CN!Next
  <2>2. CASE m = n /\ EndMark(n)
    BY <2>2 DEF EndMark, RecordTrail, CN!WriteRecord, CN!Next
  <2>3. CASE m # n
    BY <1>2, <2>3 DEF BeginMark, EndMark
  <2> QED
    BY <1>2, <2>1, <2>2, <2>3
<1>3. ASSUME NEW n \in Node, Reboot(n) \/ Crash(n) PROVE [CN(m)!Next]_(CN(m)!vars)
  <2>1. PICK v \in Version : Boot(n, v)
    BY <1>3 DEF Reboot, Crash
  <2>2. CASE m = n
    BY <2>1, <2>2 DEF Boot, CN!Boot, CN!Next
  <2>3. CASE m # n
    BY <2>1, <2>3 DEF Boot
  <2> QED
    BY <2>2, <2>3
<1>4. ASSUME NEW n \in Node, Reconfigure(n) PROVE [CN(m)!Next]_(CN(m)!vars)
  <2>1. /\ pc[n] # "up" /\ sentinel[n] = image[n]
        /\ pc' = [pc EXCEPT ![n] = "up"] \/ pc' = [pc EXCEPT ![n] = "reupload"]
    BY <1>4 DEF Reconfigure, FinishedOnImage
  <2>2. CASE m = n /\ pc' = [pc EXCEPT ![n] = "up"]
    BY <1>4, <2>1, <2>2 DEF Reconfigure, CN!Rest, CN!Next
  <2>3. CASE m # n \/ pc' = [pc EXCEPT ![n] = "reupload"]
    BY <1>4, <2>1, <2>3 DEF Reconfigure
  <2> QED
    BY <2>1, <2>2, <2>3
<1>5. ASSUME NEW n \in Node,
             \/ AlreadyLatest(n) \/ BeginUpgrade(n) \/ CreateLock(n) \/ CheckHolder(n)
             \/ ChooseCommand(n) \/ SaveConfig(n) \/ UploadConfig(n)
             \/ Apply(n) \/ Revert(n) \/ UpgradeNode(n) \/ DeleteLock(n)
             \/ UpgradeKubelet(n)
      PROVE  UNCHANGED CN(m)!vars
  <2>1. /\ UNCHANGED <<image, sentinel>>
        /\ pc[n] # "up"
        /\ pc' = pc \/ \E l \in Label \ {"up"} : pc' = [pc EXCEPT ![n] = l]
    BY <1>5 DEF AlreadyLatest, BeginUpgrade, CreateLock, CheckHolder, ChooseCommand,
                SaveConfig, UploadConfig, Apply, Revert, UpgradeNode, DeleteLock,
                UpgradeKubelet, Label
  <2> QED
    BY <2>1
<1> QED
  BY <1>1, <1>2, <1>3, <1>4, <1>5, NextCases

\* Whatever the other nodes, the lock and the failures do, each node of an upgrade
\* moves as ClusterNode allows it.
THEOREM NodeTheorem == Spec => NodesAreClusterNodes
<1>1. IInv /\ [Next]_vars => [\A n \in Node : [CN(n)!Next]_(CN(n)!vars)]_vars
  BY NodeRefines DEF IInv
<1> QED
  BY <1>1, Inductive, PTL DEF Spec, NodesAreClusterNodes
===============================================================================
