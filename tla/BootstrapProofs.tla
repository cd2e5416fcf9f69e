---------------------------- MODULE BootstrapProofs ----------------------------
(***************************************************************************)
(* Theorems about Bootstrap, for every set of nodes and every budget.       *)
(***************************************************************************)
EXTENDS Bootstrap, TLAPS

USE BootstrapRoles, BootstrapBudget

-------------------------------------------------------------------------------
(* The parts of the inductive invariant, each kept by every step.           *)

\* Every step keeps every variable in its type.
LEMMA TypeStep ==
    ASSUME TypeOK, [Next]_vars
    PROVE  TypeOK'
<1> USE DEF Node, Joiner, Goto, Spend, cluster, vip, TypeOK, Label, Retrying
<1>1. CASE UNCHANGED vars
  BY <1>1 DEF vars
<1>2. ASSUME NEW n \in Node, StartStages(n) PROVE TypeOK'
  BY <1>2 DEF StartStages, RunsScript, AfterMarker
<1>3. ASSUME NEW n \in Node, Touch(n) PROVE TypeOK'
  BY <1>3 DEF Touch, AfterMarker
<1>4. ASSUME NEW n \in Node, BeginBackup(n) PROVE TypeOK'
  BY <1>4 DEF BeginBackup, BacksUp
<1>5. ASSUME NEW n \in Node, EndBackup(n) PROVE TypeOK'
  BY <1>5 DEF EndBackup
<1>6. ASSUME NEW n \in Node, ResetNode(n) PROVE TypeOK'
  BY <1>6 DEF ResetNode, Cleaned
<1>7. ASSUME NEW n \in Node, BeginRestore(n) PROVE TypeOK'
  BY <1>7 DEF BeginRestore
<1>8. ASSUME NEW n \in Node, EndRestore(n) PROVE TypeOK'
  BY <1>8 DEF EndRestore
<1>9. ASSUME KubeadmInit PROVE TypeOK'
  BY <1>9 DEF KubeadmInit, AfterFailure, NewCluster, Fine
<1>10. ASSUME SeeOwner PROVE TypeOK'
  BY <1>10 DEF SeeOwner, Serving
<1>11. ASSUME UpdateOwner PROVE TypeOK'
  BY <1>11 DEF UpdateOwner, Unexpiring, Fine
<1>12. ASSUME TouchPost PROVE TypeOK'
  BY <1>12 DEF TouchPost
<1>13. ASSUME NEW n \in Joiner, KubeadmJoin(n) PROVE TypeOK'
  BY <1>13 DEF KubeadmJoin, AfterFailure, CanJoin, Serving, Fine
<1>14. ASSUME NEW n \in Node, Abort(n) PROVE TypeOK'
  BY <1>14 DEF Abort, CutOff, Retrying
<1>15. ASSUME NEW n \in Node, Crash(n) PROVE TypeOK'
  BY <1>15 DEF Crash, CutOff
<1>16. ASSUME Expire PROVE TypeOK'
  BY <1>16 DEF Expire
<1>17. ASSUME Collect PROVE TypeOK'
  BY <1>17 DEF Collect
<1>18. ASSUME NEW n \in Node, Reboot(n) PROVE TypeOK'
  BY <1>18 DEF Reboot
<1> QED
  BY <1>1, <1>2, <1>3, <1>4, <1>5, <1>6, <1>7, <1>8, <1>9, <1>10,
     <1>11, <1>12, <1>13, <1>14, <1>15, <1>16, <1>17, <1>18 DEF Next, Script

\* The markers say how far a node has come.
LEMMA ProgressStep ==
    ASSUME TypeOK, Progress, [Next]_vars
    PROVE  Progress'
<1> USE DEF Node, Joiner, Goto, Spend, cluster, vip, TypeOK, Progress
<1>1. CASE UNCHANGED vars
  BY <1>1 DEF vars
<1>2. ASSUME NEW n \in Node, StartStages(n) PROVE Progress'
  BY <1>2 DEF StartStages, RunsScript, AfterMarker
<1>3. ASSUME NEW n \in Node, Touch(n) PROVE Progress'
  BY <1>3 DEF Touch, AfterMarker
<1>4. ASSUME NEW n \in Node, BeginBackup(n) PROVE Progress'
  BY <1>4 DEF BeginBackup, BacksUp
<1>5. ASSUME NEW n \in Node, EndBackup(n) PROVE Progress'
  BY <1>5 DEF EndBackup
<1>6. ASSUME NEW n \in Node, ResetNode(n) PROVE Progress'
  BY <1>6 DEF ResetNode, Cleaned
<1>7. ASSUME NEW n \in Node, BeginRestore(n) PROVE Progress'
  BY <1>7 DEF BeginRestore
<1>8. ASSUME NEW n \in Node, EndRestore(n) PROVE Progress'
  BY <1>8 DEF EndRestore
<1>9. ASSUME KubeadmInit PROVE Progress'
  BY <1>9 DEF KubeadmInit, AfterFailure, NewCluster, Fine
<1>10. ASSUME SeeOwner PROVE Progress'
  BY <1>10 DEF SeeOwner, Serving
<1>11. ASSUME UpdateOwner PROVE Progress'
  BY <1>11 DEF UpdateOwner, Unexpiring, Fine
<1>12. ASSUME TouchPost PROVE Progress'
  BY <1>12 DEF TouchPost
<1>13. ASSUME NEW n \in Joiner, KubeadmJoin(n) PROVE Progress'
  BY <1>13 DEF KubeadmJoin, AfterFailure, CanJoin, Serving, Fine
<1>14. ASSUME NEW n \in Node, Abort(n) PROVE Progress'
  BY <1>14 DEF Abort, CutOff, Retrying
<1>15. ASSUME NEW n \in Node, Crash(n) PROVE Progress'
  BY <1>15 DEF Crash, CutOff
<1>16. ASSUME Expire PROVE Progress'
  BY <1>16 DEF Expire
<1>17. ASSUME Collect PROVE Progress'
  BY <1>17 DEF Collect
<1>18. ASSUME NEW n \in Node, Reboot(n) PROVE Progress'
  BY <1>18 DEF Reboot
<1> QED
  BY <1>1, <1>2, <1>3, <1>4, <1>5, <1>6, <1>7, <1>8, <1>9, <1>10,
     <1>11, <1>12, <1>13, <1>14, <1>15, <1>16, <1>17, <1>18 DEF Next, Script

\* The manifest is removed only where the backup was made before, and half only where a
\* restore is under way or was cut off.
LEMMA VipStep ==
    ASSUME TypeOK, Progress, VipNeverLost, VipTurn, VipInPlace, [Next]_vars
    PROVE  VipNeverLost' /\ VipTurn' /\ VipInPlace'
<1> USE DEF Node, Joiner, Goto, Spend, cluster, vip, TypeOK, Progress, HasVip, VipNeverLost, VipTurn, VipInPlace
<1>1. CASE UNCHANGED vars
  BY <1>1 DEF vars
<1>2. ASSUME NEW n \in Node, StartStages(n) PROVE VipNeverLost' /\ VipTurn' /\ VipInPlace'
  BY <1>2 DEF StartStages, RunsScript, AfterMarker
<1>3. ASSUME NEW n \in Node, Touch(n) PROVE VipNeverLost' /\ VipTurn' /\ VipInPlace'
  BY <1>3 DEF Touch, AfterMarker
<1>4. ASSUME NEW n \in Node, BeginBackup(n) PROVE VipNeverLost' /\ VipTurn' /\ VipInPlace'
  BY <1>4 DEF BeginBackup, BacksUp
<1>5. ASSUME NEW n \in Node, EndBackup(n) PROVE VipNeverLost' /\ VipTurn' /\ VipInPlace'
  BY <1>5 DEF EndBackup
<1>6. ASSUME NEW n \in Node, ResetNode(n) PROVE VipNeverLost' /\ VipTurn' /\ VipInPlace'
  BY <1>6 DEF ResetNode, Cleaned
<1>7. ASSUME NEW n \in Node, BeginRestore(n) PROVE VipNeverLost' /\ VipTurn' /\ VipInPlace'
  BY <1>7 DEF BeginRestore
<1>8. ASSUME NEW n \in Node, EndRestore(n) PROVE VipNeverLost' /\ VipTurn' /\ VipInPlace'
  BY <1>8 DEF EndRestore
<1>9. ASSUME KubeadmInit PROVE VipNeverLost' /\ VipTurn' /\ VipInPlace'
  BY <1>9 DEF KubeadmInit, AfterFailure, NewCluster, Fine
<1>10. ASSUME SeeOwner PROVE VipNeverLost' /\ VipTurn' /\ VipInPlace'
  BY <1>10 DEF SeeOwner, Serving
<1>11. ASSUME UpdateOwner PROVE VipNeverLost' /\ VipTurn' /\ VipInPlace'
  BY <1>11 DEF UpdateOwner, Unexpiring, Fine
<1>12. ASSUME TouchPost PROVE VipNeverLost' /\ VipTurn' /\ VipInPlace'
  BY <1>12 DEF TouchPost
<1>13. ASSUME NEW n \in Joiner, KubeadmJoin(n) PROVE VipNeverLost' /\ VipTurn' /\ VipInPlace'
  BY <1>13 DEF KubeadmJoin, AfterFailure, CanJoin, Serving, Fine
<1>14. ASSUME NEW n \in Node, Abort(n) PROVE VipNeverLost' /\ VipTurn' /\ VipInPlace'
  BY <1>14 DEF Abort, CutOff, Retrying
<1>15. ASSUME NEW n \in Node, Crash(n) PROVE VipNeverLost' /\ VipTurn' /\ VipInPlace'
  BY <1>15 DEF Crash, CutOff
<1>16. ASSUME Expire PROVE VipNeverLost' /\ VipTurn' /\ VipInPlace'
  BY <1>16 DEF Expire
<1>17. ASSUME Collect PROVE VipNeverLost' /\ VipTurn' /\ VipInPlace'
  BY <1>17 DEF Collect
<1>18. ASSUME NEW n \in Node, Reboot(n) PROVE VipNeverLost' /\ VipTurn' /\ VipInPlace'
  BY <1>18 DEF Reboot
<1> QED
  BY <1>1, <1>2, <1>3, <1>4, <1>5, <1>6, <1>7, <1>8, <1>9, <1>10,
     <1>11, <1>12, <1>13, <1>14, <1>15, <1>16, <1>17, <1>18 DEF Next, Script

\* Only a member, or an aborted node, comes to be marked.
LEMMA MarkerStep ==
    ASSUME TypeOK, Progress, MarkerMeansMember, MembersAtTouch, [Next]_vars
    PROVE  MarkerMeansMember' /\ MembersAtTouch'
<1> USE DEF Node, Joiner, Goto, Spend, cluster, vip, TypeOK, Progress, MarkerMeansMember, MarkedAreMembers, MembersAtTouch
<1>1. CASE UNCHANGED vars
  BY <1>1 DEF vars
<1>2. ASSUME NEW n \in Node, StartStages(n) PROVE MarkerMeansMember' /\ MembersAtTouch'
  BY <1>2 DEF StartStages, RunsScript, AfterMarker
<1>3. ASSUME NEW n \in Node, Touch(n) PROVE MarkerMeansMember' /\ MembersAtTouch'
  BY <1>3 DEF Touch, AfterMarker
<1>4. ASSUME NEW n \in Node, BeginBackup(n) PROVE MarkerMeansMember' /\ MembersAtTouch'
  BY <1>4 DEF BeginBackup, BacksUp
<1>5. ASSUME NEW n \in Node, EndBackup(n) PROVE MarkerMeansMember' /\ MembersAtTouch'
  BY <1>5 DEF EndBackup
<1>6. ASSUME NEW n \in Node, ResetNode(n) PROVE MarkerMeansMember' /\ MembersAtTouch'
  BY <1>6 DEF ResetNode, Cleaned
<1>7. ASSUME NEW n \in Node, BeginRestore(n) PROVE MarkerMeansMember' /\ MembersAtTouch'
  BY <1>7 DEF BeginRestore
<1>8. ASSUME NEW n \in Node, EndRestore(n) PROVE MarkerMeansMember' /\ MembersAtTouch'
  BY <1>8 DEF EndRestore
<1>9. ASSUME KubeadmInit PROVE MarkerMeansMember' /\ MembersAtTouch'
  BY <1>9 DEF KubeadmInit, AfterFailure, NewCluster, Fine
<1>10. ASSUME SeeOwner PROVE MarkerMeansMember' /\ MembersAtTouch'
  BY <1>10 DEF SeeOwner, Serving
<1>11. ASSUME UpdateOwner PROVE MarkerMeansMember' /\ MembersAtTouch'
  BY <1>11 DEF UpdateOwner, Unexpiring, Fine
<1>12. ASSUME TouchPost PROVE MarkerMeansMember' /\ MembersAtTouch'
  BY <1>12 DEF TouchPost
<1>13. ASSUME NEW n \in Joiner, KubeadmJoin(n) PROVE MarkerMeansMember' /\ MembersAtTouch'
  BY <1>13 DEF KubeadmJoin, AfterFailure, CanJoin, Serving, Fine
<1>14. ASSUME NEW n \in Node, Abort(n) PROVE MarkerMeansMember' /\ MembersAtTouch'
  BY <1>14 DEF Abort, CutOff, Retrying
<1>15. ASSUME NEW n \in Node, Crash(n) PROVE MarkerMeansMember' /\ MembersAtTouch'
  BY <1>15 DEF Crash, CutOff
<1>16. ASSUME Expire PROVE MarkerMeansMember' /\ MembersAtTouch'
  BY <1>16 DEF Expire
<1>17. ASSUME Collect PROVE MarkerMeansMember' /\ MembersAtTouch'
  BY <1>17 DEF Collect
<1>18. ASSUME NEW n \in Node, Reboot(n) PROVE MarkerMeansMember' /\ MembersAtTouch'
  BY <1>18 DEF Reboot
<1> QED
  BY <1>1, <1>2, <1>3, <1>4, <1>5, <1>6, <1>7, <1>8, <1>9, <1>10,
     <1>11, <1>12, <1>13, <1>14, <1>15, <1>16, <1>17, <1>18 DEF Next, Script

\* Joining uses a node, and wiping it takes it out of its cluster.
LEMMA UsedStep ==
    ASSUME TypeOK, Progress, MembersAreUsed, [Next]_vars
    PROVE  MembersAreUsed'
<1> USE DEF Node, Joiner, Goto, Spend, cluster, vip, TypeOK, Progress, MembersAreUsed
<1>1. CASE UNCHANGED vars
  BY <1>1 DEF vars
<1>2. ASSUME NEW n \in Node, StartStages(n) PROVE MembersAreUsed'
  BY <1>2 DEF StartStages, RunsScript, AfterMarker
<1>3. ASSUME NEW n \in Node, Touch(n) PROVE MembersAreUsed'
  BY <1>3 DEF Touch, AfterMarker
<1>4. ASSUME NEW n \in Node, BeginBackup(n) PROVE MembersAreUsed'
  BY <1>4 DEF BeginBackup, BacksUp
<1>5. ASSUME NEW n \in Node, EndBackup(n) PROVE MembersAreUsed'
  BY <1>5 DEF EndBackup
<1>6. ASSUME NEW n \in Node, ResetNode(n) PROVE MembersAreUsed'
  BY <1>6 DEF ResetNode, Cleaned
<1>7. ASSUME NEW n \in Node, BeginRestore(n) PROVE MembersAreUsed'
  BY <1>7 DEF BeginRestore
<1>8. ASSUME NEW n \in Node, EndRestore(n) PROVE MembersAreUsed'
  BY <1>8 DEF EndRestore
<1>9. ASSUME KubeadmInit PROVE MembersAreUsed'
  BY <1>9 DEF KubeadmInit, AfterFailure, NewCluster, Fine
<1>10. ASSUME SeeOwner PROVE MembersAreUsed'
  BY <1>10 DEF SeeOwner, Serving
<1>11. ASSUME UpdateOwner PROVE MembersAreUsed'
  BY <1>11 DEF UpdateOwner, Unexpiring, Fine
<1>12. ASSUME TouchPost PROVE MembersAreUsed'
  BY <1>12 DEF TouchPost
<1>13. ASSUME NEW n \in Joiner, KubeadmJoin(n) PROVE MembersAreUsed'
  BY <1>13 DEF KubeadmJoin, AfterFailure, CanJoin, Serving, Fine
<1>14. ASSUME NEW n \in Node, Abort(n) PROVE MembersAreUsed'
  BY <1>14 DEF Abort, CutOff, Retrying
<1>15. ASSUME NEW n \in Node, Crash(n) PROVE MembersAreUsed'
  BY <1>15 DEF Crash, CutOff
<1>16. ASSUME Expire PROVE MembersAreUsed'
  BY <1>16 DEF Expire
<1>17. ASSUME Collect PROVE MembersAreUsed'
  BY <1>17 DEF Collect
<1>18. ASSUME NEW n \in Node, Reboot(n) PROVE MembersAreUsed'
  BY <1>18 DEF Reboot
<1> QED
  BY <1>1, <1>2, <1>3, <1>4, <1>5, <1>6, <1>7, <1>8, <1>9, <1>10,
     <1>11, <1>12, <1>13, <1>14, <1>15, <1>16, <1>17, <1>18 DEF Next, Script

\* Past post-init the certificates cannot expire, and the cluster is not rebuilt.
LEMMA CertsStep ==
    ASSUME TypeOK, Progress, CertsTrail, [Next]_vars
    PROVE  CertsTrail'
<1> USE DEF Node, Joiner, Goto, Spend, cluster, vip, TypeOK, Progress, CertsTrail, PostInitKeepsCerts
<1>1. CASE UNCHANGED vars
  BY <1>1 DEF vars
<1>2. ASSUME NEW n \in Node, StartStages(n) PROVE CertsTrail'
  BY <1>2 DEF StartStages, RunsScript, AfterMarker
<1>3. ASSUME NEW n \in Node, Touch(n) PROVE CertsTrail'
  BY <1>3 DEF Touch, AfterMarker
<1>4. ASSUME NEW n \in Node, BeginBackup(n) PROVE CertsTrail'
  BY <1>4 DEF BeginBackup, BacksUp
<1>5. ASSUME NEW n \in Node, EndBackup(n) PROVE CertsTrail'
  BY <1>5 DEF EndBackup
<1>6. ASSUME NEW n \in Node, ResetNode(n) PROVE CertsTrail'
  BY <1>6 DEF ResetNode, Cleaned
<1>7. ASSUME NEW n \in Node, BeginRestore(n) PROVE CertsTrail'
  BY <1>7 DEF BeginRestore
<1>8. ASSUME NEW n \in Node, EndRestore(n) PROVE CertsTrail'
  BY <1>8 DEF EndRestore
<1>9. ASSUME KubeadmInit PROVE CertsTrail'
  BY <1>9 DEF KubeadmInit, AfterFailure, NewCluster, Fine
<1>10. ASSUME SeeOwner PROVE CertsTrail'
  BY <1>10 DEF SeeOwner, Serving
<1>11. ASSUME UpdateOwner PROVE CertsTrail'
  BY <1>11 DEF UpdateOwner, Unexpiring, Fine
<1>12. ASSUME TouchPost PROVE CertsTrail'
  BY <1>12 DEF TouchPost
<1>13. ASSUME NEW n \in Joiner, KubeadmJoin(n) PROVE CertsTrail'
  BY <1>13 DEF KubeadmJoin, AfterFailure, CanJoin, Serving, Fine
<1>14. ASSUME NEW n \in Node, Abort(n) PROVE CertsTrail'
  BY <1>14 DEF Abort, CutOff, Retrying
<1>15. ASSUME NEW n \in Node, Crash(n) PROVE CertsTrail'
  BY <1>15 DEF Crash, CutOff
<1>16. ASSUME Expire PROVE CertsTrail'
  BY <1>16 DEF Expire
<1>17. ASSUME Collect PROVE CertsTrail'
  BY <1>17 DEF Collect
<1>18. ASSUME NEW n \in Node, Reboot(n) PROVE CertsTrail'
  BY <1>18 DEF Reboot
<1> QED
  BY <1>1, <1>2, <1>3, <1>4, <1>5, <1>6, <1>7, <1>8, <1>9, <1>10,
     <1>11, <1>12, <1>13, <1>14, <1>15, <1>16, <1>17, <1>18 DEF Next, Script

\* Without faults there is one cluster, and its members agree on it.
LEMMA ClusterStep ==
    ASSUME TypeOK, Progress, OneCluster, [Next]_vars
    PROVE  OneCluster'
<1> USE DEF Node, Joiner, Goto, Spend, cluster, vip, TypeOK, Progress, OneCluster, Serving, Retrying
<1>1. CASE UNCHANGED vars
  BY <1>1 DEF vars
<1>2. ASSUME NEW n \in Node, StartStages(n) PROVE OneCluster'
  BY <1>2 DEF StartStages, RunsScript, AfterMarker
<1>3. ASSUME NEW n \in Node, Touch(n) PROVE OneCluster'
  BY <1>3 DEF Touch, AfterMarker
<1>4. ASSUME NEW n \in Node, BeginBackup(n) PROVE OneCluster'
  BY <1>4 DEF BeginBackup, BacksUp
<1>5. ASSUME NEW n \in Node, EndBackup(n) PROVE OneCluster'
  BY <1>5 DEF EndBackup
<1>6. ASSUME NEW n \in Node, ResetNode(n) PROVE OneCluster'
  BY <1>6 DEF ResetNode, Cleaned
<1>7. ASSUME NEW n \in Node, BeginRestore(n) PROVE OneCluster'
  BY <1>7 DEF BeginRestore
<1>8. ASSUME NEW n \in Node, EndRestore(n) PROVE OneCluster'
  BY <1>8 DEF EndRestore
<1>9. ASSUME KubeadmInit PROVE OneCluster'
  BY <1>9 DEF KubeadmInit, AfterFailure, NewCluster, Fine
<1>10. ASSUME SeeOwner PROVE OneCluster'
  BY <1>10 DEF SeeOwner, Serving
<1>11. ASSUME UpdateOwner PROVE OneCluster'
  BY <1>11 DEF UpdateOwner, Unexpiring, Fine
<1>12. ASSUME TouchPost PROVE OneCluster'
  BY <1>12 DEF TouchPost
<1>13. ASSUME NEW n \in Joiner, KubeadmJoin(n) PROVE OneCluster'
  BY <1>13 DEF KubeadmJoin, AfterFailure, CanJoin, Serving, Fine
<1>14. ASSUME NEW n \in Node, Abort(n) PROVE OneCluster'
  BY <1>14 DEF Abort, CutOff, Retrying
<1>15. ASSUME NEW n \in Node, Crash(n) PROVE OneCluster'
  BY <1>15 DEF Crash, CutOff
<1>16. ASSUME Expire PROVE OneCluster'
  BY <1>16 DEF Expire
<1>17. ASSUME Collect PROVE OneCluster'
  BY <1>17 DEF Collect
<1>18. ASSUME NEW n \in Node, Reboot(n) PROVE OneCluster'
  BY <1>18 DEF Reboot
<1> QED
  BY <1>1, <1>2, <1>3, <1>4, <1>5, <1>6, <1>7, <1>8, <1>9, <1>10,
     <1>11, <1>12, <1>13, <1>14, <1>15, <1>16, <1>17, <1>18 DEF Next, Script

\* A marked node is beyond the scripts that change its membership.
LEMMA MarkedStep ==
    ASSUME TypeOK, Progress, [Next]_vars
    PROVE  \A m \in marker : m \in marker' /\ member'[m] = member[m]
<1> USE DEF Node, Joiner, Goto, Spend, cluster, vip, TypeOK, Progress
<1>1. CASE UNCHANGED vars
  BY <1>1 DEF vars
<1>2. ASSUME NEW n \in Node, StartStages(n) PROVE \A m \in marker : m \in marker' /\ member'[m] = member[m]
  BY <1>2 DEF StartStages, RunsScript, AfterMarker
<1>3. ASSUME NEW n \in Node, Touch(n) PROVE \A m \in marker : m \in marker' /\ member'[m] = member[m]
  BY <1>3 DEF Touch, AfterMarker
<1>4. ASSUME NEW n \in Node, BeginBackup(n) PROVE \A m \in marker : m \in marker' /\ member'[m] = member[m]
  BY <1>4 DEF BeginBackup, BacksUp
<1>5. ASSUME NEW n \in Node, EndBackup(n) PROVE \A m \in marker : m \in marker' /\ member'[m] = member[m]
  BY <1>5 DEF EndBackup
<1>6. ASSUME NEW n \in Node, ResetNode(n) PROVE \A m \in marker : m \in marker' /\ member'[m] = member[m]
  BY <1>6 DEF ResetNode, Cleaned
<1>7. ASSUME NEW n \in Node, BeginRestore(n) PROVE \A m \in marker : m \in marker' /\ member'[m] = member[m]
  BY <1>7 DEF BeginRestore
<1>8. ASSUME NEW n \in Node, EndRestore(n) PROVE \A m \in marker : m \in marker' /\ member'[m] = member[m]
  BY <1>8 DEF EndRestore
<1>9. ASSUME KubeadmInit PROVE \A m \in marker : m \in marker' /\ member'[m] = member[m]
  BY <1>9 DEF KubeadmInit, AfterFailure, NewCluster, Fine
<1>10. ASSUME SeeOwner PROVE \A m \in marker : m \in marker' /\ member'[m] = member[m]
  BY <1>10 DEF SeeOwner, Serving
<1>11. ASSUME UpdateOwner PROVE \A m \in marker : m \in marker' /\ member'[m] = member[m]
  BY <1>11 DEF UpdateOwner, Unexpiring, Fine
<1>12. ASSUME TouchPost PROVE \A m \in marker : m \in marker' /\ member'[m] = member[m]
  BY <1>12 DEF TouchPost
<1>13. ASSUME NEW n \in Joiner, KubeadmJoin(n) PROVE \A m \in marker : m \in marker' /\ member'[m] = member[m]
  BY <1>13 DEF KubeadmJoin, AfterFailure, CanJoin, Serving, Fine
<1>14. ASSUME NEW n \in Node, Abort(n) PROVE \A m \in marker : m \in marker' /\ member'[m] = member[m]
  BY <1>14 DEF Abort, CutOff, Retrying
<1>15. ASSUME NEW n \in Node, Crash(n) PROVE \A m \in marker : m \in marker' /\ member'[m] = member[m]
  BY <1>15 DEF Crash, CutOff
<1>16. ASSUME Expire PROVE \A m \in marker : m \in marker' /\ member'[m] = member[m]
  BY <1>16 DEF Expire
<1>17. ASSUME Collect PROVE \A m \in marker : m \in marker' /\ member'[m] = member[m]
  BY <1>17 DEF Collect
<1>18. ASSUME NEW n \in Node, Reboot(n) PROVE \A m \in marker : m \in marker' /\ member'[m] = member[m]
  BY <1>18 DEF Reboot
<1> QED
  BY <1>1, <1>2, <1>3, <1>4, <1>5, <1>6, <1>7, <1>8, <1>9, <1>10,
     <1>11, <1>12, <1>13, <1>14, <1>15, <1>16, <1>17, <1>18 DEF Next, Script

\* A backup is opened over a whole one only with a half manifest in place, and a reset
\* removes what has been copied.
LEMMA LossStep ==
    ASSUME TypeOK, VipTurn, [Next]_vars
    PROVE  \A m \in Vip : KeptOrOverwritten(m)
<1> USE DEF Node, Joiner, Goto, Spend, cluster, vip, TypeOK, VipTurn, HasVip, KeptOrOverwritten
<1>1. CASE UNCHANGED vars
  BY <1>1 DEF vars
<1>2. ASSUME NEW n \in Node, StartStages(n) PROVE \A m \in Vip : KeptOrOverwritten(m)
  BY <1>2 DEF StartStages, RunsScript, AfterMarker
<1>3. ASSUME NEW n \in Node, Touch(n) PROVE \A m \in Vip : KeptOrOverwritten(m)
  BY <1>3 DEF Touch, AfterMarker
<1>4. ASSUME NEW n \in Node, BeginBackup(n) PROVE \A m \in Vip : KeptOrOverwritten(m)
  BY <1>4 DEF BeginBackup, BacksUp
<1>5. ASSUME NEW n \in Node, EndBackup(n) PROVE \A m \in Vip : KeptOrOverwritten(m)
  BY <1>5 DEF EndBackup
<1>6. ASSUME NEW n \in Node, ResetNode(n) PROVE \A m \in Vip : KeptOrOverwritten(m)
  BY <1>6 DEF ResetNode, Cleaned
<1>7. ASSUME NEW n \in Node, BeginRestore(n) PROVE \A m \in Vip : KeptOrOverwritten(m)
  BY <1>7 DEF BeginRestore
<1>8. ASSUME NEW n \in Node, EndRestore(n) PROVE \A m \in Vip : KeptOrOverwritten(m)
  BY <1>8 DEF EndRestore
<1>9. ASSUME KubeadmInit PROVE \A m \in Vip : KeptOrOverwritten(m)
  BY <1>9 DEF KubeadmInit, AfterFailure, NewCluster, Fine
<1>10. ASSUME SeeOwner PROVE \A m \in Vip : KeptOrOverwritten(m)
  BY <1>10 DEF SeeOwner, Serving
<1>11. ASSUME UpdateOwner PROVE \A m \in Vip : KeptOrOverwritten(m)
  BY <1>11 DEF UpdateOwner, Unexpiring, Fine
<1>12. ASSUME TouchPost PROVE \A m \in Vip : KeptOrOverwritten(m)
  BY <1>12 DEF TouchPost
<1>13. ASSUME NEW n \in Joiner, KubeadmJoin(n) PROVE \A m \in Vip : KeptOrOverwritten(m)
  BY <1>13 DEF KubeadmJoin, AfterFailure, CanJoin, Serving, Fine
<1>14. ASSUME NEW n \in Node, Abort(n) PROVE \A m \in Vip : KeptOrOverwritten(m)
  BY <1>14 DEF Abort, CutOff, Retrying
<1>15. ASSUME NEW n \in Node, Crash(n) PROVE \A m \in Vip : KeptOrOverwritten(m)
  BY <1>15 DEF Crash, CutOff
<1>16. ASSUME Expire PROVE \A m \in Vip : KeptOrOverwritten(m)
  BY <1>16 DEF Expire
<1>17. ASSUME Collect PROVE \A m \in Vip : KeptOrOverwritten(m)
  BY <1>17 DEF Collect
<1>18. ASSUME NEW n \in Node, Reboot(n) PROVE \A m \in Vip : KeptOrOverwritten(m)
  BY <1>18 DEF Reboot
<1> QED
  BY <1>1, <1>2, <1>3, <1>4, <1>5, <1>6, <1>7, <1>8, <1>9, <1>10,
     <1>11, <1>12, <1>13, <1>14, <1>15, <1>16, <1>17, <1>18 DEF Next, Script

-------------------------------------------------------------------------------
(* The theorems.                                                            *)

\* BInv holds initially, is kept by every step, and so holds always.
THEOREM BootstrapInductive == Spec => []BInv
<1>1. Init => BInv
  <2> SUFFICES ASSUME Init PROVE BInv
    OBVIOUS
  <2> USE DEF Init, Node, Joiner
  <2>1. TypeOK
    <3>1. created \in Nat /\ 0 \in 0..created
      OBVIOUS
    <3>2. member \in [Node -> 0..created]
      BY <3>1
    <3>3. pc \in [Node -> Label]
      BY DEF Label
    <3>4. spent \in [reboots : Nat, crashes : Nat, failures : Nat, aborts : Nat,
                    expiries : Nat, refusals : Nat]
      OBVIOUS
    <3> QED
      BY <3>1, <3>2, <3>3, <3>4 DEF TypeOK
  <2>2. Progress /\ MarkerMeansMember /\ MembersAtTouch /\ MembersAreUsed
    BY DEF Progress, MarkerMeansMember, MarkedAreMembers, MembersAtTouch, MembersAreUsed
  <2>3. VipNeverLost /\ VipTurn /\ VipInPlace
    BY DEF VipNeverLost, HasVip, VipTurn, VipInPlace
  <2>4. CertsTrail /\ OneCluster
    BY DEF CertsTrail, PostInitKeepsCerts, OneCluster, Serving, Retrying
  <2> QED
    BY <2>1, <2>2, <2>3, <2>4 DEF BInv
<1>2. BInv /\ [Next]_vars => BInv'
  BY TypeStep, ProgressStep, VipStep, MarkerStep, UsedStep, CertsStep, ClusterStep DEF BInv
<1> QED
  BY <1>1, <1>2, PTL DEF Spec

\* Through any number of attempts, resets, aborts and crashes a whole kube-vip manifest is
\* in place or in the backup of a node on which no restore was cut off in its middle.
THEOREM VipTheorem == Spec => []VipNeverLost
<1>1. BInv => VipNeverLost
  BY DEF BInv
<1> QED
  BY <1>1, BootstrapInductive, PTL

\* On no node is the last whole manifest lost in any other step than the backup of a half
\* one that a restore left when it was cut off.
THEOREM VipLossTheorem == Spec => VipLostByBackup
<1>1. BInv /\ [Next]_vars => [\A n \in Vip : KeptOrOverwritten(n)]_vars
  BY LossStep DEF BInv
<1> QED
  BY <1>1, BootstrapInductive, PTL DEF Spec, VipLostByBackup

\* Without crashes kubeadm is never tried without the whole manifest.
THEOREM VipRetryTheorem == Spec => []VipBeforeRetry
<1>1. BInv => VipBeforeRetry
  BY DEF BInv, VipInPlace, VipBeforeRetry, Progress, TypeOK
<1> QED
  BY <1>1, BootstrapInductive, PTL

\* The marker freezes the membership of a node.
THEOREM MarkedTheorem == Spec => MarkedStay
<1>1. BInv /\ [Next]_vars =>
          [\A n \in marker : n \in marker' /\ member'[n] = member[n]]_vars
  BY MarkedStep DEF BInv
<1> QED
  BY <1>1, BootstrapInductive, PTL DEF Spec, MarkedStay

\* Without aborted scripts every marked node has become a member.
THEOREM MarkerTheorem == Spec => []MarkerMeansMember
<1>1. BInv => MarkerMeansMember
  BY DEF BInv
<1> QED
  BY <1>1, BootstrapInductive, PTL

\* Through all crashes, failed attempts and aborts the certificates stay once post-init is
\* done, if its update was not refused and no owner expired.
THEOREM CertsTheorem == Spec => []CertsKeptUnlessMissed
<1>1. BInv => CertsKeptUnlessMissed
  BY DEF BInv, CertsTrail, CertsKeptUnlessMissed
<1> QED
  BY <1>1, BootstrapInductive, PTL

\* Without faults no node is left in a cluster that was replaced.
THEOREM OrphanTheorem == Spec => []OrphansNeedFaults
<1>1. BInv => OrphansNeedFaults
  BY DEF BInv, TypeOK, OneCluster, OrphansNeedFaults, NoOrphans
<1> QED
  BY <1>1, BootstrapInductive, PTL

-------------------------------------------------------------------------------
(* Refinement.                                                              *)

\* Every step is a step of Membership or changes nothing it sees: a successful
\* kubeadm founds or joins, the reset leaves, the marker settles.
LEMMA StepRefines ==
    ASSUME TypeOK, Progress, MembersAreUsed, [Next]_vars
    PROVE  [MB!Next]_(MB!vars)
<1> USE DEF MB!vars, Node, Goto, TypeOK, Progress, cluster
<1>1. CASE UNCHANGED vars
  BY <1>1 DEF vars
<1>2. ASSUME NEW n \in Node, Touch(n) PROVE [MB!Next]_(MB!vars)
  BY <1>2 DEF Touch, MB!Settle, MB!Next, MB!Node
<1>3. ASSUME NEW n \in Node, ResetNode(n) PROVE [MB!Next]_(MB!vars)
  <2>1. n \notin marker
    BY <1>3 DEF ResetNode
  <2> QED
    BY <1>3, <2>1 DEF ResetNode, MB!Leave, MB!Next, MB!Node
<1>4. ASSUME KubeadmInit PROVE [MB!Next]_(MB!vars)
  <2>1. InitNode \notin marker
    BY <1>4 DEF KubeadmInit
  <2>2. CASE UNCHANGED <<created, member>>
    BY <1>4, <2>2 DEF KubeadmInit
  <2>3. CASE InitNode \notin dirty /\ NewCluster
    <3>1. member[InitNode] = 0
      BY <2>3 DEF MembersAreUsed
    <3> QED
      BY <1>4, <2>1, <2>3, <3>1 DEF KubeadmInit, NewCluster, MB!Found, MB!Next
  <2> QED
    BY <1>4, <2>2, <2>3 DEF KubeadmInit
<1>5. ASSUME NEW n \in Joiner, KubeadmJoin(n) PROVE [MB!Next]_(MB!vars)
  <2>1. n \notin marker
    BY <1>5 DEF KubeadmJoin
  <2>2. CASE UNCHANGED <<created, member>>
    BY <1>5, <2>2 DEF KubeadmJoin
  <2>3. CASE CanJoin(n) /\ member' = [member EXCEPT ![n] = Serving]
    <3>1. member[n] = 0 /\ member[InitNode] # 0
      BY <2>3 DEF MembersAreUsed, CanJoin, Serving
    <3>2. MB!Join(n)
      BY <1>5, <2>1, <2>3, <3>1 DEF KubeadmJoin, Serving, MB!Join
    <3> QED
      BY <3>2 DEF MB!Next
  <2> QED
    BY <1>5, <2>2, <2>3 DEF KubeadmJoin
<1>6. ASSUME \/ SeeOwner \/ UpdateOwner \/ TouchPost \/ Expire \/ Collect
             \/ \E n \in Node : \/ StartStages(n) \/ BeginBackup(n) \/ EndBackup(n)
                               \/ BeginRestore(n) \/ EndRestore(n)
                               \/ Abort(n) \/ Crash(n) \/ Reboot(n)
      PROVE  UNCHANGED MB!vars
  BY <1>6 DEF SeeOwner, UpdateOwner, TouchPost, Expire, Collect, StartStages,
              BeginBackup, EndBackup, BeginRestore, EndRestore, Abort, Crash, Reboot
<1> QED
  BY <1>1, <1>2, <1>3, <1>4, <1>5, <1>6 DEF Next, Script

\* The stages and scripts that bring up a cluster implement Membership.
THEOREM Refinement == Spec => ImplementsMembership
<1>1. Init => MB!Init
  BY DEF Init, MB!Init, MB!Node, Node
<1>2. BInv /\ [Next]_vars => [MB!Next]_(MB!vars)
  BY StepRefines DEF BInv
<1> QED
  BY <1>1, <1>2, BootstrapInductive, PTL DEF Spec, MB!Spec, ImplementsMembership

-------------------------------------------------------------------------------
(* One node of the cluster, as NodeLife sees it.                            *)

\* Every step of any node is, for each node, a step of ClusterNode or a stutter:
\* kubeadm joins, the reset leaves, the marker settles.
LEMMA NodeRefines ==
    ASSUME TypeOK, Progress, MembersAreUsed, [Next]_vars, NEW m \in Node
    PROVE  [CN(m)!Next]_(CN(m)!vars)
<1> USE DEF CN!vars, Node, TypeOK, Progress, cluster
<1>1. CASE UNCHANGED vars
  BY <1>1 DEF vars
<1>2. ASSUME NEW n \in Node, Touch(n) PROVE [CN(m)!Next]_(CN(m)!vars)
  <2>1. CASE m = n
    <3>1. n \notin marker /\ n \in marker'
      BY <1>2 DEF Touch
    <3> QED
      BY <1>2, <2>1, <3>1 DEF Touch, CN!Settle, CN!Next
  <2>2. CASE m # n
    BY <1>2, <2>2 DEF Touch
  <2> QED
    BY <2>1, <2>2
<1>3. ASSUME NEW n \in Node, ResetNode(n) PROVE [CN(m)!Next]_(CN(m)!vars)
  <2>1. n \notin marker
    BY <1>3 DEF ResetNode
  <2>2. CASE m = n
    BY <1>3, <2>1, <2>2 DEF ResetNode, CN!Leave, CN!Next
  <2>3. CASE m # n
    BY <1>3, <2>3 DEF ResetNode
  <2> QED
    BY <2>2, <2>3
<1>4. ASSUME KubeadmInit PROVE [CN(m)!Next]_(CN(m)!vars)
  <2>1. InitNode \notin marker /\ UNCHANGED marker
    BY <1>4 DEF KubeadmInit
  <2>2. CASE UNCHANGED member
    BY <2>1, <2>2
  <2>3. CASE InitNode \notin dirty /\ NewCluster
    <3>1. member[InitNode] = 0 /\ member' = [member EXCEPT ![InitNode] = created + 1]
      BY <2>3 DEF MembersAreUsed, NewCluster
    <3>2. CASE m = InitNode
      <4>1. m \notin marker /\ member[m] = 0 /\ member'[m] # 0
        BY <2>1, <3>1, <3>2
      <4> QED
        BY <2>1, <4>1 DEF CN!Join, CN!Next
    <3>3. CASE m # InitNode
      BY <2>1, <3>1, <3>3
    <3> QED
      BY <3>2, <3>3
  <2> QED
    BY <1>4, <2>2, <2>3 DEF KubeadmInit
<1>5. ASSUME NEW n \in Joiner, KubeadmJoin(n) PROVE [CN(m)!Next]_(CN(m)!vars)
  <2>1. n \notin marker /\ UNCHANGED marker
    BY <1>5 DEF KubeadmJoin
  <2>2. CASE UNCHANGED member
    BY <2>1, <2>2
  <2>3. CASE CanJoin(n) /\ member' = [member EXCEPT ![n] = Serving]
    <3>1. member[n] = 0 /\ member[InitNode] # 0
      BY <2>3 DEF MembersAreUsed, CanJoin, Serving
    <3>2. CASE m = n
      <4>1. m \notin marker /\ member[m] = 0 /\ member'[m] # 0
        BY <2>1, <2>3, <3>1, <3>2 DEF Serving
      <4> QED
        BY <2>1, <4>1 DEF CN!Join, CN!Next
    <3>3. CASE m # n
      BY <2>1, <2>3, <3>3
    <3> QED
      BY <3>2, <3>3
  <2> QED
    BY <1>5, <2>2, <2>3 DEF KubeadmJoin
<1>6. ASSUME \/ SeeOwner \/ UpdateOwner \/ TouchPost \/ Expire \/ Collect
             \/ \E n \in Node : \/ StartStages(n) \/ BeginBackup(n) \/ EndBackup(n)
                               \/ BeginRestore(n) \/ EndRestore(n)
                               \/ Abort(n) \/ Crash(n) \/ Reboot(n)
      PROVE  UNCHANGED CN(m)!vars
  BY <1>6 DEF SeeOwner, UpdateOwner, TouchPost, Expire, Collect, StartStages,
              BeginBackup, EndBackup, BeginRestore, EndRestore, Abort, Crash, Reboot
<1> QED
  BY <1>1, <1>2, <1>3, <1>4, <1>5, <1>6 DEF Next, Script

\* Whatever the other nodes, the retries and the aborted scripts do, each node joins,
\* leaves and settles as ClusterNode allows it.
THEOREM NodeTheorem == Spec => NodesAreClusterNodes
<1>1. BInv /\ [Next]_vars => [\A n \in Node : [CN(n)!Next]_(CN(n)!vars)]_vars
  BY NodeRefines DEF BInv
<1> QED
  BY <1>1, BootstrapInductive, PTL DEF Spec, NodesAreClusterNodes
===============================================================================
