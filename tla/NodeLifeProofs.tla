----------------------------- MODULE NodeLifeProofs -----------------------------
(***************************************************************************)
(* Theorems about NodeLife, for every set of images, with one root path or  *)
(* two, and for every budget of boots, resets and faults.                   *)
(***************************************************************************)
EXTENDS NodeLife, TLAPS

USE LifeValues, LifeBudget

-------------------------------------------------------------------------------
(* What the budgets tell.                                                   *)

\* What a budget that is drawn on leaves of the others.
LEMMA SpendFacts ==
    ASSUME TypeOK
    PROVE  /\ Spend("reboots") => spent' = [reboots |-> spent.reboots + 1, crashes |->
                             spent.crashes, torn |-> spent.torn, cutoffs |->
                             spent.cutoffs, resets |-> spent.resets, overlaps |->
                             spent.overlaps, failures |-> spent.failures]
           /\ Spend("crashes") => spent' = [reboots |-> spent.reboots, crashes |->
                             spent.crashes + 1, torn |-> spent.torn, cutoffs |->
                             spent.cutoffs, resets |-> spent.resets, overlaps |->
                             spent.overlaps, failures |-> spent.failures]
           /\ Spend("torn") => spent' = [reboots |-> spent.reboots, crashes |-> spent.crashes,
                             torn |-> spent.torn + 1, cutoffs |-> spent.cutoffs,
                             resets |-> spent.resets, overlaps |-> spent.overlaps,
                             failures |-> spent.failures]
           /\ Spend("cutoffs") => spent' = [reboots |-> spent.reboots, crashes |->
                             spent.crashes, torn |-> spent.torn, cutoffs |->
                             spent.cutoffs + 1, resets |-> spent.resets, overlaps
                             |-> spent.overlaps, failures |-> spent.failures]
           /\ Spend("resets") => spent' = [reboots |-> spent.reboots, crashes |->
                             spent.crashes, torn |-> spent.torn, cutoffs |->
                             spent.cutoffs, resets |-> spent.resets + 1, overlaps
                             |-> spent.overlaps, failures |-> spent.failures]
           /\ Spend("overlaps") => spent' = [reboots |-> spent.reboots, crashes |->
                             spent.crashes, torn |-> spent.torn, cutoffs |->
                             spent.cutoffs, resets |-> spent.resets, overlaps |->
                             spent.overlaps + 1, failures |-> spent.failures]
           /\ Spend("failures") => spent' = [reboots |-> spent.reboots, crashes |->
                             spent.crashes, torn |-> spent.torn, cutoffs |->
                             spent.cutoffs, resets |-> spent.resets, overlaps |->
                             spent.overlaps, failures |-> spent.failures + 1]
BY DEF TypeOK, Spend

\* The type of the record.
Spent == [reboots : Nat, crashes : Nat, torn : Nat, cutoffs : Nat, resets : Nat,
          overlaps : Nat, failures : Nat]

\* A command that fails is counted.
LEMMA FailureFacts ==
    ASSUME TypeOK, Spend("failures")
    PROVE  /\ spent' \in Spent /\ spent'.failures # 0 /\ spent'.overlaps = spent.overlaps
           /\ spent'.torn = spent.torn
BY SpendFacts DEF TypeOK, Spent

\* So is a reset event, ...
LEMMA AskFacts ==
    ASSUME TypeOK, Spend(IF pc = "up" THEN "resets" ELSE "overlaps")
    PROVE  /\ spent' \in Spent /\ spent'.failures = spent.failures
           /\ spent'.cutoffs = spent.cutoffs /\ spent'.crashes = spent.crashes
           /\ spent'.torn = spent.torn
           /\ IF pc = "up" THEN spent'.overlaps = spent.overlaps ELSE spent'.overlaps # 0
<1>1. CASE pc = "up"
  BY <1>1, SpendFacts DEF TypeOK, Spent
<1>2. CASE pc # "up"
  BY <1>2, SpendFacts DEF TypeOK, Spent
<1> QED
  BY <1>1, <1>2

\* ... and a boot, by what it cuts off.
LEMMA BootFacts ==
    ASSUME TypeOK, Boot
    PROVE  /\ spent' \in Spent /\ spent'.failures = spent.failures
           /\ spent'.overlaps = spent.overlaps
           /\ spent'.cutoffs = 0 => rpc = "idle" /\ spent.cutoffs = 0
           /\ spent'.torn = 0 =>
                  /\ spent.torn = 0
                  /\ rpc = "idle" => pc \notin {"deliver", "copy", "swapping"}
           /\ spent'.crashes = 0 /\ spent'.torn = 0 /\ spent'.cutoffs = 0 =>
                  pc = "up" /\ spent.crashes = 0 /\ spent.torn = 0
           /\ image' \in Version /\ scripts' = TRUE /\ delivered' \in {delivered, image'}
           /\ pc' = "pre" /\ rpc' = "idle" /\ asked' = None /\ reply' = None
           /\ UNCHANGED <<role, sameRoot, kubelet, sentinel, marker, joined>>
<1> USE DEF Boot, Interrupted, TypeOK, Spent
<1>1. CASE rpc # "idle"
  BY <1>1, SpendFacts
<1>2. CASE rpc = "idle" /\ pc = "up"
  BY <1>2, SpendFacts
<1>3. CASE rpc = "idle" /\ pc \in {"deliver", "copy", "swapping"}
  BY <1>3, SpendFacts
<1>4. CASE rpc = "idle" /\ pc \notin {"deliver", "copy", "swapping", "up"}
  BY <1>4, SpendFacts
<1> QED
  BY <1>1, <1>2, <1>3, <1>4

-------------------------------------------------------------------------------
(* The parts of the inductive invariant, each kept by every step.           *)

\* Every step keeps every variable in its type.
LEMMA TypeStep ==
    ASSUME TypeOK, [Next]_vars
    PROVE  TypeOK'
<1> USE DEF TypeOK, Spent, Label, node, files, reset, Fine
<1>1. CASE UNCHANGED vars
  BY <1>1 DEF vars
<1>2. CASE SkipPreInit
  BY <1>2 DEF SkipPreInit
<1>3. CASE BeginDelivery
  BY <1>3 DEF BeginDelivery
<1>4. CASE EndDelivery
  BY <1>4, FailureFacts DEF EndDelivery, EndsCopyOf, Copied
<1>5. CASE BeginCopy
  BY <1>5 DEF BeginCopy
<1>6. CASE EndCopy
  BY <1>6, FailureFacts DEF EndCopy, EndsCopyOf, Copied
<1>7. CASE BeginRecord
  BY <1>7 DEF BeginRecord
<1>8. CASE EndRecord
  BY <1>8, FailureFacts DEF EndRecord, Written
<1>9. CASE BeginJoin
  BY <1>9 DEF BeginJoin
<1>10. CASE TryJoin
  <2>1. joined' \in BOOLEAN
    BY <1>10, Zenon DEF TryJoin, AfterLostImport, KubeletRuns
  <2> QED
    BY <1>10, <2>1, FailureFacts DEF TryJoin, AfterLostImport, KubeletRuns
<1>11. CASE Touch
  BY <1>11 DEF Touch
<1>12. CASE BeginUpgrade
  BY <1>12 DEF BeginUpgrade, Outdated
<1>13. CASE BeginMark
  BY <1>13 DEF BeginMark, KubeletRuns
<1>14. CASE EndMark
  BY <1>14 DEF EndMark, Written
<1>15. CASE BeginSwap
  BY <1>15 DEF BeginSwap
<1>16. CASE EndSwap
  BY <1>16, FailureFacts DEF EndSwap, EndsCopyOf, Copied
<1>17. CASE BeginReconfigure
  BY <1>17 DEF BeginReconfigure
<1>18. CASE EndReconfigure
  BY <1>18 DEF EndReconfigure
<1>19. CASE ResetKubeadm
  <2>1. joined' \in BOOLEAN
    BY <1>19, Zenon DEF ResetKubeadm, Command
  <2> QED
    BY <1>19, <2>1, FailureFacts DEF ResetKubeadm, Command
<1>20. CASE RemoveKubelet
  BY <1>20, FailureFacts DEF RemoveKubelet, Command, KubeletAfterReset
<1>21. CASE RemoveCredentials
  <2>1. joined' \in BOOLEAN
    BY <1>21, Zenon DEF RemoveCredentials, Command
  <2> QED
    BY <1>21, <2>1, FailureFacts DEF RemoveCredentials, Command
<1>22. CASE RemoveScripts
  <2>1. scripts' \in BOOLEAN
    BY <1>22, Zenon DEF RemoveScripts, Command
  <2> QED
    BY <1>22, <2>1, FailureFacts DEF RemoveScripts, Command
<1>23. CASE RemoveMarkers
  <2>1. marker' \in BOOLEAN
    BY <1>23, Zenon DEF RemoveMarkers, Command, MarkerAfterReset
  <2> QED
    BY <1>23, <2>1, FailureFacts DEF RemoveMarkers, Command, MarkerAfterReset
<1>24. CASE RemoveRecord
  BY <1>24, FailureFacts DEF RemoveRecord, Command
<1>25. CASE Boot
  BY <1>25, BootFacts
<1>26. CASE \E event \in {"bad", "nocluster", "good"} : Ask(event)
  BY <1>26, AskFacts DEF Ask
<1> QED
  BY <1>1, <1>2, <1>3, <1>4, <1>5, <1>6, <1>7, <1>8, <1>9, <1>10, <1>11,
     <1>12, <1>13, <1>14, <1>15, <1>16, <1>17, <1>18, <1>19, <1>20, <1>21,
     <1>22, <1>23, <1>24, <1>25, <1>26 DEF Next, BootStep, ResetStep, PreInit

\* Without overlaps only a boot that is over is touched by a reset.
LEMMA ResetTrailStep ==
    ASSUME TypeOK, ResetTrail, [Next]_vars
    PROVE  ResetTrail'
<1> USE DEF TypeOK, Spent, Label, node, files, reset, Fine, ResetTrail, Untouched
<1>1. CASE UNCHANGED vars
  BY <1>1 DEF vars
<1>2. CASE SkipPreInit
  BY <1>2 DEF SkipPreInit
<1>3. CASE BeginDelivery
  BY <1>3 DEF BeginDelivery
<1>4. CASE EndDelivery
  BY <1>4, FailureFacts DEF EndDelivery, EndsCopyOf, Copied
<1>5. CASE BeginCopy
  BY <1>5 DEF BeginCopy
<1>6. CASE EndCopy
  BY <1>6, FailureFacts DEF EndCopy, EndsCopyOf, Copied
<1>7. CASE BeginRecord
  BY <1>7 DEF BeginRecord
<1>8. CASE EndRecord
  BY <1>8, FailureFacts DEF EndRecord, Written
<1>9. CASE BeginJoin
  BY <1>9 DEF BeginJoin
<1>10. CASE TryJoin
  BY <1>10, FailureFacts DEF TryJoin, AfterLostImport, KubeletRuns
<1>11. CASE Touch
  BY <1>11 DEF Touch
<1>12. CASE BeginUpgrade
  BY <1>12 DEF BeginUpgrade, Outdated
<1>13. CASE BeginMark
  BY <1>13 DEF BeginMark, KubeletRuns
<1>14. CASE EndMark
  BY <1>14 DEF EndMark, Written
<1>15. CASE BeginSwap
  BY <1>15 DEF BeginSwap
<1>16. CASE EndSwap
  BY <1>16, FailureFacts DEF EndSwap, EndsCopyOf, Copied
<1>17. CASE BeginReconfigure
  BY <1>17 DEF BeginReconfigure
<1>18. CASE EndReconfigure
  BY <1>18 DEF EndReconfigure
<1>19. CASE ResetKubeadm
  BY <1>19, FailureFacts DEF ResetKubeadm, Command
<1>20. CASE RemoveKubelet
  BY <1>20, FailureFacts DEF RemoveKubelet, Command, KubeletAfterReset
<1>21. CASE RemoveCredentials
  BY <1>21, FailureFacts DEF RemoveCredentials, Command
<1>22. CASE RemoveScripts
  BY <1>22, FailureFacts DEF RemoveScripts, Command
<1>23. CASE RemoveMarkers
  BY <1>23, FailureFacts DEF RemoveMarkers, Command, MarkerAfterReset
<1>24. CASE RemoveRecord
  BY <1>24, FailureFacts DEF RemoveRecord, Command
<1>25. CASE Boot
  BY <1>25, BootFacts
<1>26. CASE \E event \in {"bad", "nocluster", "good"} : Ask(event)
  BY <1>26, AskFacts DEF Ask
<1> QED
  BY <1>1, <1>2, <1>3, <1>4, <1>5, <1>6, <1>7, <1>8, <1>9, <1>10, <1>11,
     <1>12, <1>13, <1>14, <1>15, <1>16, <1>17, <1>18, <1>19, <1>20, <1>21,
     <1>22, <1>23, <1>24, <1>25, <1>26 DEF Next, BootStep, ResetStep, PreInit

\* The script empties the node command by command, and nobody fills it meanwhile.
LEMMA CleanStep ==
    ASSUME TypeOK, ResetTrail, CleanTrail, ResetCleans, [Next]_vars
    PROVE  CleanTrail' /\ ResetCleans'
<1> USE DEF TypeOK, Spent, Label, node, files, reset, Fine, ResetTrail, CleanTrail, ResetCleans,
            Untouched, Orderly, Clean
<1>1. CASE UNCHANGED vars
  BY <1>1 DEF vars
<1>2. CASE SkipPreInit
  BY <1>2 DEF SkipPreInit
<1>3. CASE BeginDelivery
  BY <1>3 DEF BeginDelivery
<1>4. CASE EndDelivery
  BY <1>4, FailureFacts DEF EndDelivery, EndsCopyOf, Copied
<1>5. CASE BeginCopy
  BY <1>5 DEF BeginCopy
<1>6. CASE EndCopy
  BY <1>6, FailureFacts DEF EndCopy, EndsCopyOf, Copied
<1>7. CASE BeginRecord
  BY <1>7 DEF BeginRecord
<1>8. CASE EndRecord
  BY <1>8, FailureFacts DEF EndRecord, Written
<1>9. CASE BeginJoin
  BY <1>9 DEF BeginJoin
<1>10. CASE TryJoin
  BY <1>10, FailureFacts DEF TryJoin, AfterLostImport, KubeletRuns
<1>11. CASE Touch
  BY <1>11 DEF Touch
<1>12. CASE BeginUpgrade
  BY <1>12 DEF BeginUpgrade, Outdated
<1>13. CASE BeginMark
  BY <1>13 DEF BeginMark, KubeletRuns
<1>14. CASE EndMark
  BY <1>14 DEF EndMark, Written
<1>15. CASE BeginSwap
  BY <1>15 DEF BeginSwap
<1>16. CASE EndSwap
  BY <1>16, FailureFacts DEF EndSwap, EndsCopyOf, Copied
<1>17. CASE BeginReconfigure
  BY <1>17 DEF BeginReconfigure
<1>18. CASE EndReconfigure
  BY <1>18 DEF EndReconfigure
<1>19. CASE ResetKubeadm
  BY <1>19, FailureFacts DEF ResetKubeadm, Command
<1>20. CASE RemoveKubelet
  BY <1>20, FailureFacts DEF RemoveKubelet, Command, KubeletAfterReset
<1>21. CASE RemoveCredentials
  BY <1>21, FailureFacts DEF RemoveCredentials, Command
<1>22. CASE RemoveScripts
  BY <1>22, FailureFacts DEF RemoveScripts, Command
<1>23. CASE RemoveMarkers
  BY <1>23, FailureFacts DEF RemoveMarkers, Command, MarkerAfterReset
<1>24. CASE RemoveRecord
  BY <1>24, FailureFacts DEF RemoveRecord, Command
<1>25. CASE Boot
  BY <1>25, BootFacts
<1>26. CASE \E event \in {"bad", "nocluster", "good"} : Ask(event)
  BY <1>26, AskFacts DEF Ask
<1> QED
  BY <1>1, <1>2, <1>3, <1>4, <1>5, <1>6, <1>7, <1>8, <1>9, <1>10, <1>11,
     <1>12, <1>13, <1>14, <1>15, <1>16, <1>17, <1>18, <1>19, <1>20, <1>21,
     <1>22, <1>23, <1>24, <1>25, <1>26 DEF Next, BootStep, ResetStep, PreInit

\* A marker is set for a member, and goes in the same reset.
LEMMA MemberStep ==
    ASSUME TypeOK, ResetTrail, CleanTrail, JoinTrail, MemberTrail, [Next]_vars
    PROVE  MemberTrail'
<1> USE DEF TypeOK, Spent, Label, node, files, reset, Fine, ResetTrail, CleanTrail, JoinTrail, MemberTrail,
            Untouched, Orderly, Clean
<1>1. CASE UNCHANGED vars
  BY <1>1 DEF vars
<1>2. CASE SkipPreInit
  BY <1>2 DEF SkipPreInit
<1>3. CASE BeginDelivery
  BY <1>3 DEF BeginDelivery
<1>4. CASE EndDelivery
  BY <1>4, FailureFacts DEF EndDelivery, EndsCopyOf, Copied
<1>5. CASE BeginCopy
  BY <1>5 DEF BeginCopy
<1>6. CASE EndCopy
  BY <1>6, FailureFacts DEF EndCopy, EndsCopyOf, Copied
<1>7. CASE BeginRecord
  BY <1>7 DEF BeginRecord
<1>8. CASE EndRecord
  BY <1>8, FailureFacts DEF EndRecord, Written
<1>9. CASE BeginJoin
  BY <1>9 DEF BeginJoin
<1>10. CASE TryJoin
  <2> SUFFICES ASSUME Orderly', spent'.cutoffs = 0
               PROVE  MemberTrail'
    OBVIOUS
  <2>1. Fine /\ Orderly /\ spent.cutoffs = 0
    BY <1>10, FailureFacts DEF TryJoin
  <2>2. scripts /\ rpc = "idle" /\ pc = "joining" /\ rpc' = "idle" /\ marker' = marker
    BY <1>10, <2>1 DEF TryJoin
  <2>3. marker = FALSE
    BY <1>10, <2>1, <2>2
  <2> QED
    BY <1>10, <2>1, <2>2, <2>3, FailureFacts DEF TryJoin
<1>11. CASE Touch
  BY <1>11 DEF Touch
<1>12. CASE BeginUpgrade
  BY <1>12 DEF BeginUpgrade, Outdated
<1>13. CASE BeginMark
  BY <1>13 DEF BeginMark, KubeletRuns
<1>14. CASE EndMark
  BY <1>14 DEF EndMark, Written
<1>15. CASE BeginSwap
  BY <1>15 DEF BeginSwap
<1>16. CASE EndSwap
  BY <1>16, FailureFacts DEF EndSwap, EndsCopyOf, Copied
<1>17. CASE BeginReconfigure
  BY <1>17 DEF BeginReconfigure
<1>18. CASE EndReconfigure
  BY <1>18 DEF EndReconfigure
<1>19. CASE ResetKubeadm
  BY <1>19, FailureFacts DEF ResetKubeadm, Command
<1>20. CASE RemoveKubelet
  BY <1>20, FailureFacts DEF RemoveKubelet, Command, KubeletAfterReset
<1>21. CASE RemoveCredentials
  BY <1>21, FailureFacts DEF RemoveCredentials, Command
<1>22. CASE RemoveScripts
  BY <1>22, FailureFacts DEF RemoveScripts, Command
<1>23. CASE RemoveMarkers
  BY <1>23, FailureFacts DEF RemoveMarkers, Command, MarkerAfterReset
<1>24. CASE RemoveRecord
  BY <1>24, FailureFacts DEF RemoveRecord, Command
<1>25. CASE Boot
  BY <1>25, BootFacts
<1>26. CASE \E event \in {"bad", "nocluster", "good"} : Ask(event)
  BY <1>26, AskFacts DEF Ask
<1> QED
  BY <1>1, <1>2, <1>3, <1>4, <1>5, <1>6, <1>7, <1>8, <1>9, <1>10, <1>11,
     <1>12, <1>13, <1>14, <1>15, <1>16, <1>17, <1>18, <1>19, <1>20, <1>21,
     <1>22, <1>23, <1>24, <1>25, <1>26 DEF Next, BootStep, ResetStep, PreInit

\* What the stages do follows the marker, which only a reset removes.
LEMMA JoinStep ==
    ASSUME TypeOK, ResetTrail, JoinTrail, [Next]_vars
    PROVE  JoinTrail'
<1> USE DEF TypeOK, Spent, Label, node, files, reset, Fine, ResetTrail, JoinTrail,
            Untouched, PastUpgrade
<1>1. CASE UNCHANGED vars
  BY <1>1 DEF vars
<1>2. CASE SkipPreInit
  BY <1>2 DEF SkipPreInit
<1>3. CASE BeginDelivery
  BY <1>3 DEF BeginDelivery
<1>4. CASE EndDelivery
  BY <1>4, FailureFacts DEF EndDelivery, EndsCopyOf, Copied
<1>5. CASE BeginCopy
  BY <1>5 DEF BeginCopy
<1>6. CASE EndCopy
  BY <1>6, FailureFacts DEF EndCopy, EndsCopyOf, Copied
<1>7. CASE BeginRecord
  BY <1>7 DEF BeginRecord
<1>8. CASE EndRecord
  BY <1>8, FailureFacts DEF EndRecord, Written
<1>9. CASE BeginJoin
  BY <1>9 DEF BeginJoin
<1>10. CASE TryJoin
  BY <1>10, FailureFacts DEF TryJoin, AfterLostImport, KubeletRuns
<1>11. CASE Touch
  BY <1>11 DEF Touch
<1>12. CASE BeginUpgrade
  BY <1>12 DEF BeginUpgrade, Outdated
<1>13. CASE BeginMark
  BY <1>13 DEF BeginMark, KubeletRuns
<1>14. CASE EndMark
  BY <1>14 DEF EndMark, Written
<1>15. CASE BeginSwap
  BY <1>15 DEF BeginSwap
<1>16. CASE EndSwap
  BY <1>16, FailureFacts DEF EndSwap, EndsCopyOf, Copied
<1>17. CASE BeginReconfigure
  BY <1>17 DEF BeginReconfigure
<1>18. CASE EndReconfigure
  BY <1>18 DEF EndReconfigure
<1>19. CASE ResetKubeadm
  BY <1>19, FailureFacts DEF ResetKubeadm, Command
<1>20. CASE RemoveKubelet
  BY <1>20, FailureFacts DEF RemoveKubelet, Command, KubeletAfterReset
<1>21. CASE RemoveCredentials
  BY <1>21, FailureFacts DEF RemoveCredentials, Command
<1>22. CASE RemoveScripts
  BY <1>22, FailureFacts DEF RemoveScripts, Command
<1>23. CASE RemoveMarkers
  BY <1>23, FailureFacts DEF RemoveMarkers, Command, MarkerAfterReset
<1>24. CASE RemoveRecord
  BY <1>24, FailureFacts DEF RemoveRecord, Command
<1>25. CASE Boot
  BY <1>25, BootFacts
<1>26. CASE \E event \in {"bad", "nocluster", "good"} : Ask(event)
  BY <1>26, AskFacts DEF Ask
<1> QED
  BY <1>1, <1>2, <1>3, <1>4, <1>5, <1>6, <1>7, <1>8, <1>9, <1>10, <1>11,
     <1>12, <1>13, <1>14, <1>15, <1>16, <1>17, <1>18, <1>19, <1>20, <1>21,
     <1>22, <1>23, <1>24, <1>25, <1>26 DEF Next, BootStep, ResetStep, PreInit

\* A copy that is not cut off leaves a kubelet.
LEMMA BinaryStep ==
    ASSUME TypeOK, ResetTrail, BinaryTrail, [Next]_vars
    PROVE  BinaryTrail'
<1> USE DEF TypeOK, Spent, Label, node, files, reset, Fine, ResetTrail, BinaryTrail,
            Untouched
<1>1. CASE UNCHANGED vars
  BY <1>1 DEF vars
<1>2. CASE SkipPreInit
  BY <1>2 DEF SkipPreInit
<1>3. CASE BeginDelivery
  BY <1>3 DEF BeginDelivery
<1>4. CASE EndDelivery
  BY <1>4, FailureFacts DEF EndDelivery, EndsCopyOf, Copied
<1>5. CASE BeginCopy
  BY <1>5 DEF BeginCopy
<1>6. CASE EndCopy
  BY <1>6, FailureFacts DEF EndCopy, EndsCopyOf, Copied
<1>7. CASE BeginRecord
  BY <1>7 DEF BeginRecord
<1>8. CASE EndRecord
  BY <1>8, FailureFacts DEF EndRecord, Written
<1>9. CASE BeginJoin
  BY <1>9 DEF BeginJoin
<1>10. CASE TryJoin
  BY <1>10, FailureFacts DEF TryJoin, AfterLostImport, KubeletRuns
<1>11. CASE Touch
  BY <1>11 DEF Touch
<1>12. CASE BeginUpgrade
  BY <1>12 DEF BeginUpgrade, Outdated
<1>13. CASE BeginMark
  BY <1>13 DEF BeginMark, KubeletRuns
<1>14. CASE EndMark
  BY <1>14 DEF EndMark, Written
<1>15. CASE BeginSwap
  BY <1>15 DEF BeginSwap
<1>16. CASE EndSwap
  BY <1>16, FailureFacts DEF EndSwap, EndsCopyOf, Copied
<1>17. CASE BeginReconfigure
  BY <1>17 DEF BeginReconfigure
<1>18. CASE EndReconfigure
  BY <1>18 DEF EndReconfigure
<1>19. CASE ResetKubeadm
  BY <1>19, FailureFacts DEF ResetKubeadm, Command
<1>20. CASE RemoveKubelet
  BY <1>20, FailureFacts DEF RemoveKubelet, Command, KubeletAfterReset
<1>21. CASE RemoveCredentials
  BY <1>21, FailureFacts DEF RemoveCredentials, Command
<1>22. CASE RemoveScripts
  BY <1>22, FailureFacts DEF RemoveScripts, Command
<1>23. CASE RemoveMarkers
  BY <1>23, FailureFacts DEF RemoveMarkers, Command, MarkerAfterReset
<1>24. CASE RemoveRecord
  BY <1>24, FailureFacts DEF RemoveRecord, Command
<1>25. CASE Boot
  BY <1>25, BootFacts
<1>26. CASE \E event \in {"bad", "nocluster", "good"} : Ask(event)
  BY <1>26, AskFacts DEF Ask
<1> QED
  BY <1>1, <1>2, <1>3, <1>4, <1>5, <1>6, <1>7, <1>8, <1>9, <1>10, <1>11,
     <1>12, <1>13, <1>14, <1>15, <1>16, <1>17, <1>18, <1>19, <1>20, <1>21,
     <1>22, <1>23, <1>24, <1>25, <1>26 DEF Next, BootStep, ResetStep, PreInit

\* The upgrade stage is passed with the version of the image on record.
LEMMA RecordStep ==
    ASSUME TypeOK, ResetTrail, JoinTrail, RecordTrail, [Next]_vars
    PROVE  RecordTrail'
<1> USE DEF TypeOK, Spent, Label, node, files, reset, Fine, ResetTrail, RecordTrail, PastUpgrade, Untouched
<1>1. CASE UNCHANGED vars
  BY <1>1 DEF vars
<1>2. CASE SkipPreInit
  BY <1>2 DEF SkipPreInit
<1>3. CASE BeginDelivery
  BY <1>3 DEF BeginDelivery
<1>4. CASE EndDelivery
  BY <1>4, FailureFacts DEF EndDelivery, EndsCopyOf, Copied
<1>5. CASE BeginCopy
  BY <1>5 DEF BeginCopy
<1>6. CASE EndCopy
  BY <1>6, FailureFacts DEF EndCopy, EndsCopyOf, Copied
<1>7. CASE BeginRecord
  BY <1>7 DEF BeginRecord
<1>8. CASE EndRecord
  BY <1>8, FailureFacts DEF EndRecord, Written
<1>9. CASE BeginJoin
  BY <1>9 DEF BeginJoin
<1>10. CASE TryJoin
  BY <1>10, FailureFacts DEF TryJoin, AfterLostImport, KubeletRuns
<1>11. CASE Touch
  BY <1>11 DEF Touch
<1>12. CASE BeginUpgrade
  BY <1>12 DEF BeginUpgrade, Outdated
<1>13. CASE BeginMark
  BY <1>13 DEF BeginMark, KubeletRuns
<1>14. CASE EndMark
  BY <1>14, LifeValues DEF EndMark, Written, JoinTrail
<1>15. CASE BeginSwap
  BY <1>15 DEF BeginSwap
<1>16. CASE EndSwap
  BY <1>16, FailureFacts DEF EndSwap, EndsCopyOf, Copied
<1>17. CASE BeginReconfigure
  BY <1>17 DEF BeginReconfigure
<1>18. CASE EndReconfigure
  BY <1>18 DEF EndReconfigure
<1>19. CASE ResetKubeadm
  BY <1>19, FailureFacts DEF ResetKubeadm, Command
<1>20. CASE RemoveKubelet
  BY <1>20, FailureFacts DEF RemoveKubelet, Command, KubeletAfterReset
<1>21. CASE RemoveCredentials
  BY <1>21, FailureFacts DEF RemoveCredentials, Command
<1>22. CASE RemoveScripts
  BY <1>22, FailureFacts DEF RemoveScripts, Command
<1>23. CASE RemoveMarkers
  BY <1>23, FailureFacts DEF RemoveMarkers, Command, MarkerAfterReset
<1>24. CASE RemoveRecord
  BY <1>24, FailureFacts DEF RemoveRecord, Command
<1>25. CASE Boot
  BY <1>25, BootFacts
<1>26. CASE \E event \in {"bad", "nocluster", "good"} : Ask(event)
  BY <1>26, AskFacts DEF Ask
<1> QED
  BY <1>1, <1>2, <1>3, <1>4, <1>5, <1>6, <1>7, <1>8, <1>9, <1>10, <1>11,
     <1>12, <1>13, <1>14, <1>15, <1>16, <1>17, <1>18, <1>19, <1>20, <1>21,
     <1>22, <1>23, <1>24, <1>25, <1>26 DEF Next, BootStep, ResetStep, PreInit

\* Each of the copies installs the kubelet of the image.
LEMMA KubeletStep ==
    ASSUME TypeOK, ResetTrail, RecordTrail, KubeletTrail, [Next]_vars
    PROVE  KubeletTrail'
<1> USE DEF TypeOK, Spent, Label, node, files, reset, Fine, ResetTrail, RecordTrail, KubeletTrail, PastUpgrade,
            Untouched, Uninterrupted
<1>1. CASE UNCHANGED vars
  BY <1>1 DEF vars
<1>2. CASE SkipPreInit
  BY <1>2 DEF SkipPreInit
<1>3. CASE BeginDelivery
  BY <1>3 DEF BeginDelivery
<1>4. CASE EndDelivery
  BY <1>4, FailureFacts DEF EndDelivery, EndsCopyOf, Copied
<1>5. CASE BeginCopy
  <2> SUFFICES ASSUME Uninterrupted
               PROVE  KubeletTrail'
    BY <1>5 DEF BeginCopy
  <2>1. scripts /\ delivered = None /\ (kubelet = sentinel \/ kubelet = image)
    BY <1>5 DEF BeginCopy
  <2>2. CASE kubelet = None
    <3>1. sentinel = None /\ pc' = "copy" /\ kubelet' = "partial"
      BY <1>5, <2>1, <2>2 DEF BeginCopy
    <3> QED
      BY <1>5, <2>1, <3>1 DEF BeginCopy
  <2>3. CASE kubelet # None
    <3>1. pc' = "version" /\ kubelet' = kubelet /\ sentinel' = sentinel
      BY <1>5, <2>3 DEF BeginCopy
    <3> QED
      BY <1>5, <2>1, <2>3, <3>1 DEF BeginCopy
  <2> QED
    BY <2>2, <2>3
<1>6. CASE EndCopy
  <2> SUFFICES ASSUME Uninterrupted'
               PROVE  KubeletTrail'
    BY DEF KubeletTrail
  <2>0. Uninterrupted /\ Fine
    <3>1. ~Spend("failures")
      BY FailureFacts
    <3>2. Fine
      BY <1>6, <3>1 DEF EndCopy, EndsCopyOf
    <3> QED
      BY <3>2
  <2>1. delivered = None /\ kubelet = "partial"
    BY <1>6, <2>0 DEF EndCopy
  <2>2. kubelet' = image /\ pc' = "version"
    BY <1>6, <2>0, <2>1, FailureFacts DEF EndCopy, EndsCopyOf, Copied
  <2> QED
    BY <1>6, <2>0, <2>1, <2>2 DEF EndCopy
<1>7. CASE BeginRecord
  BY <1>7 DEF BeginRecord
<1>8. CASE EndRecord
  BY <1>8, FailureFacts DEF EndRecord, Written
<1>9. CASE BeginJoin
  BY <1>9 DEF BeginJoin
<1>10. CASE TryJoin
  BY <1>10, FailureFacts DEF TryJoin, AfterLostImport, KubeletRuns
<1>11. CASE Touch
  BY <1>11 DEF Touch
<1>12. CASE BeginUpgrade
  BY <1>12 DEF BeginUpgrade, Outdated
<1>13. CASE BeginMark
  BY <1>13 DEF BeginMark, KubeletRuns
<1>14. CASE EndMark
  BY <1>14 DEF EndMark, Written
<1>15. CASE BeginSwap
  BY <1>15 DEF BeginSwap
<1>16. CASE EndSwap
  BY <1>16, FailureFacts DEF EndSwap, EndsCopyOf, Copied
<1>17. CASE BeginReconfigure
  BY <1>17 DEF BeginReconfigure
<1>18. CASE EndReconfigure
  BY <1>18 DEF EndReconfigure
<1>19. CASE ResetKubeadm
  BY <1>19, FailureFacts DEF ResetKubeadm, Command
<1>20. CASE RemoveKubelet
  BY <1>20, FailureFacts DEF RemoveKubelet, Command, KubeletAfterReset
<1>21. CASE RemoveCredentials
  BY <1>21, FailureFacts DEF RemoveCredentials, Command
<1>22. CASE RemoveScripts
  BY <1>22, FailureFacts DEF RemoveScripts, Command
<1>23. CASE RemoveMarkers
  BY <1>23, FailureFacts DEF RemoveMarkers, Command, MarkerAfterReset
<1>24. CASE RemoveRecord
  BY <1>24, FailureFacts DEF RemoveRecord, Command
<1>25. CASE Boot
  BY <1>25, BootFacts
<1>26. CASE \E event \in {"bad", "nocluster", "good"} : Ask(event)
  BY <1>26, AskFacts DEF Ask
<1> QED
  BY <1>1, <1>2, <1>3, <1>4, <1>5, <1>6, <1>7, <1>8, <1>9, <1>10, <1>11,
     <1>12, <1>13, <1>14, <1>15, <1>16, <1>17, <1>18, <1>19, <1>20, <1>21,
     <1>22, <1>23, <1>24, <1>25, <1>26 DEF Next, BootStep, ResetStep, PreInit

-------------------------------------------------------------------------------
(* The theorems.                                                            *)

\* NInv holds initially, is kept by every step, and so holds always.
THEOREM LifeInductive == Spec => []NInv
<1>1. Init => NInv
  <2> SUFFICES ASSUME Init PROVE NInv
    OBVIOUS
  <2>1. TypeOK
    BY DEF Init, TypeOK, Label
  <2>2. scripts = TRUE /\ ~marker /\ ~joined
    BY DEF Init
  <2>3. ResetTrail /\ ResetCleans /\ RecordTrail
    BY <2>2 DEF Init, ResetTrail, ResetCleans, RecordTrail, PastUpgrade, Untouched
  <2>4. CleanTrail /\ MemberTrail
    BY <2>2 DEF Init, CleanTrail, MemberTrail
  <2>5. KubeletTrail
    BY <2>1 DEF Init, KubeletTrail
  <2>6. JoinTrail /\ BinaryTrail /\ NeverStuck
    BY <2>2 DEF Init, JoinTrail, BinaryTrail, PastUpgrade, NeverStuck, Stuck
  <2> QED
    BY <2>1, <2>3, <2>4, <2>5, <2>6 DEF NInv
<1>2. NInv /\ [Next]_vars => NInv'
  <2> SUFFICES ASSUME NInv, [Next]_vars PROVE NInv'
    OBVIOUS
  <2>1. /\ TypeOK' /\ ResetTrail' /\ CleanTrail' /\ ResetCleans' /\ MemberTrail'
        /\ JoinTrail' /\ BinaryTrail' /\ RecordTrail' /\ KubeletTrail'
    BY TypeStep, ResetTrailStep, CleanStep, MemberStep, JoinStep, BinaryStep, RecordStep,
       KubeletStep DEF NInv
  <2>2. ResetTrail' /\ MemberTrail' /\ JoinTrail' /\ BinaryTrail' /\ TypeOK' => NeverStuck'
    BY DEF ResetTrail, MemberTrail, JoinTrail, BinaryTrail, TypeOK, NeverStuck, Undisturbed,
           Orderly, Stuck, KubeletRuns, Untouched, PastUpgrade
  <2> QED
    BY <2>1, <2>2 DEF NInv
<1> QED
  BY <1>1, <1>2, PTL DEF Spec

\* A reset that is answered leaves nothing of the cluster on the node.
THEOREM ResetTheorem == Spec => []ResetCleans
<1>1. NInv => ResetCleans
  BY DEF NInv
<1> QED
  BY <1>1, LifeInductive, PTL

\* The marker stands for a membership unless a reset was cut off.
THEOREM MemberTheorem == Spec => []MarkedIsMember
<1>1. NInv => MarkedIsMember
  BY DEF NInv, MemberTrail, MarkedIsMember
<1> QED
  BY <1>1, LifeInductive, PTL

\* Every boot that ends has its image on record and, if nothing was cut off, its kubelet.
THEOREM RestTheorem == Spec => []ImageAtRest
<1>1. NInv => ImageAtRest
  BY DEF NInv, RecordTrail, PastUpgrade, KubeletTrail, ImageAtRest
<1> QED
  BY <1>1, LifeInductive, PTL

\* No boot comes to a place it cannot leave, unless a copy or a reset was disturbed.
THEOREM StuckTheorem == Spec => []NeverStuck
<1>1. NInv => NeverStuck
  BY DEF NInv
<1> QED
  BY <1>1, LifeInductive, PTL

-------------------------------------------------------------------------------
(* The refinement.                                                          *)

\* Every step is a step of ClusterNode or changes nothing it sees.
LEMMA StepRefines ==
    ASSUME TypeOK, ResetTrail, JoinTrail, RecordTrail, [Next]_vars
    PROVE  [CN!Next]_(CN!vars)
<1> USE DEF TypeOK, node, files, reset, JoinTrail, Untouched, CN!vars
<1>1. CASE UNCHANGED vars
  BY <1>1 DEF vars
<1>2. CASE \/ SkipPreInit \/ BeginDelivery \/ EndDelivery \/ BeginCopy \/ EndCopy
           \/ BeginJoin \/ BeginUpgrade \/ BeginSwap \/ EndSwap
  BY <1>2 DEF SkipPreInit, BeginDelivery, EndDelivery, BeginCopy, EndCopy, BeginJoin,
              BeginUpgrade, BeginSwap, EndSwap
<1>3. CASE BeginRecord
  BY <1>3 DEF BeginRecord, CN!OpenRecord, CN!Next
<1>4. CASE EndRecord
  <2>1. CASE sentinel' = sentinel
    BY <1>4, <2>1 DEF EndRecord
  <2>2. CASE sentinel = "empty" /\ sentinel' = image
    BY <1>4, <2>2 DEF EndRecord, CN!WriteRecord, CN!Next
  <2> QED
    BY <1>4, <2>1, <2>2 DEF EndRecord, Written
<1>5. CASE TryJoin
  <2>1. pc = "joining" /\ ~marker /\ pc' \in {"joining", "touch"}
    BY <1>5 DEF TryJoin, AfterLostImport
  <2>2. CASE ~joined /\ joined' = TRUE
    BY <1>5, <2>1, <2>2 DEF TryJoin, CN!Join, CN!Next
  <2>3. CASE joined' = FALSE
    BY <1>5, <2>1, <2>3 DEF TryJoin, CN!Leave, CN!Next
  <2> QED
    BY <1>5, <2>2, <2>3 DEF TryJoin
<1>6. CASE Touch
  BY <1>6 DEF Touch, CN!Settle, CN!Next
<1>7. CASE BeginMark
  BY <1>7 DEF BeginMark, CN!OpenRecord, CN!Next
<1>12. CASE EndMark
  <2>1. CASE sentinel' = sentinel
    BY <1>12, <2>1 DEF EndMark
  <2>2. CASE sentinel = "empty" /\ sentinel' = image
    BY <1>12, <2>2 DEF EndMark, CN!WriteRecord, CN!Next
  <2> QED
    BY <1>12, <2>1, <2>2 DEF EndMark, Written
<1>8. CASE BeginReconfigure \/ EndReconfigure
  <2>1. pc # "up" /\ (Untouched => marker /\ sentinel = image)
    BY <1>8 DEF BeginReconfigure, EndReconfigure, RecordTrail, PastUpgrade
  <2> QED
    BY <1>8, <2>1 DEF BeginReconfigure, EndReconfigure, CN!Rest, CN!Next
<1>9. CASE ResetStep
  <2>1. rpc # "idle" /\ ~(rpc' = "idle" /\ reply' = None) /\ UNCHANGED <<image, pc>>
    BY <1>9 DEF ResetStep, ResetKubeadm, RemoveKubelet, RemoveCredentials,
                RemoveScripts, RemoveMarkers, RemoveRecord, Command
  <2>2. \/ UNCHANGED <<joined, marker, sentinel>>
        \/ joined' = FALSE /\ UNCHANGED <<marker, sentinel>>
        \/ marker' = FALSE /\ UNCHANGED <<joined, sentinel>>
        \/ sentinel' = None /\ UNCHANGED <<joined, marker>>
    BY <1>9 DEF ResetStep, ResetKubeadm, RemoveKubelet, RemoveCredentials,
                RemoveScripts, RemoveMarkers, RemoveRecord, Command, MarkerAfterReset
  <2> QED
    BY <2>1, <2>2 DEF CN!Reset, CN!Next
<1>10. CASE Boot
  BY <1>10, BootFacts DEF CN!Boot, CN!Next
<1>11. CASE \E event \in {"bad", "nocluster", "good"} : Ask(event)
  <2>1. ~(rpc' = "idle" /\ reply' = None) /\ UNCHANGED <<image, joined, marker, sentinel, pc>>
    BY <1>11 DEF Ask
  <2> QED
    BY <2>1 DEF CN!Event, CN!Next
<1> QED
  BY <1>1, <1>2, <1>3, <1>4, <1>5, <1>6, <1>7, <1>8, <1>9, <1>10, <1>11, <1>12
     DEF Next, BootStep, PreInit

\* Boots, crashes and resets of a node implement ClusterNode.
THEOREM Refinement == Spec => ImplementsClusterNode
<1>1. Init => CN!Init
  BY DEF Init, CN!Init, Untouched
<1>2. NInv /\ [Next]_vars => [CN!Next]_(CN!vars)
  BY StepRefines DEF NInv
<1> QED
  BY <1>1, <1>2, LifeInductive, PTL DEF Spec, CN!Spec, ImplementsClusterNode

\* And so only a reset event takes a settled node out of the cluster or an upgrade's
\* result off the record.
THEOREM SettledTheorem == Spec => CN!SettledStay
<1> DEFINE Stay == /\ marker /\ Untouched => marker' /\ (joined => joined')
                   /\ sentinel \in Version /\ sentinel' # sentinel =>
                          ~Untouched \/ (joined /\ sentinel' \in {"empty", image})
<1>1. TypeOK /\ [CN!Next]_(CN!vars) => [Stay]_(CN!vars)
  BY DEF TypeOK, CN!vars, CN!Next, CN!OpenRecord, CN!WriteRecord, CN!Join, CN!Leave,
         CN!Settle, CN!Rest, CN!Event, CN!Reset, CN!Boot
<1>2. NInv => TypeOK
  BY DEF NInv
<1> QED
  BY <1>1, <1>2, LifeInductive, Refinement, PTL
     DEF ImplementsClusterNode, CN!Spec, CN!SettledStay
===============================================================================
