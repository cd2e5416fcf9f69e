---------------------------- MODULE RollingUpgrade ----------------------------
(***************************************************************************)
(* What the upgrade protocol of the provider promises, with no script, no   *)
(* boot and no kubeadm command in it.  Every node records the version it    *)
(* runs and has the version its image carries as its target.  One control   *)
(* plane node at a time holds the right to change the recorded version of a *)
(* control plane node, and a holder gives that right back only when its own *)
(* record has reached its target.  Workers move whenever they like.         *)
(***************************************************************************)

CONSTANTS ControlPlane, Worker, Version, FirstVersion, NoNode, Unreadable

VARIABLES
    holder,     \* the control plane node that may change its version, or NoNode
    target,     \* the version each node was last booted with
    version     \* the version each node has recorded as deployed, or Unreadable

vars == <<holder, target, version>>

Node == ControlPlane \cup Worker

Init ==
    /\ holder = NoNode
    /\ target = [n \in Node |-> FirstVersion]
    /\ version = [n \in Node |-> FirstVersion]

Acquire(n) ==
    /\ holder = NoNode
    /\ holder' = n
    /\ UNCHANGED <<target, version>>

Retarget(n, v) ==
    /\ target' = [target EXCEPT ![n] = v]
    /\ UNCHANGED <<holder, version>>

\* A control plane node moves to its target under its own hold only, and for a moment
\* it is at neither version.
Open(n) ==
    /\ n \in ControlPlane => holder = n
    /\ version' = [version EXCEPT ![n] = Unreadable]
    /\ UNCHANGED <<holder, target>>

Move(n) ==
    /\ n \in ControlPlane => holder = n
    /\ version' = [version EXCEPT ![n] = target[n]]
    /\ UNCHANGED <<holder, target>>

\* The right is given back by a holder that has reached its target.
Release(n) ==
    /\ holder = n
    /\ version[n] = target[n]
    /\ holder' = NoNode
    /\ UNCHANGED <<target, version>>

Next ==
    \/ \E n \in ControlPlane : Acquire(n) \/ Release(n)
    \/ \E n \in Node : Open(n) \/ Move(n)
    \/ \E n \in Node, v \in Version : Retarget(n, v)

Spec == Init /\ [][Next]_vars
===============================================================================
