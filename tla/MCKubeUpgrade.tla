----------------------------- MODULE MCKubeUpgrade -----------------------------
(* Small instances of KubeUpgrade.  Nodes are model values; control plane     *)
(* nodes can be swapped, which the safety runs use (liveness runs must not).   *)
EXTENDS KubeUpgrade, TLC

MCVersion == 1..2

MCSymmetry == Permutations(ControlPlane)
===============================================================================
