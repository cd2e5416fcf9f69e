------------------------------ MODULE Membership ------------------------------
(***************************************************************************)
(* What bringing up a cluster promises, with no kubeadm, no retry and no    *)
(* crash in it.  A founder makes clusters, one after the other; a node      *)
(* outside of all clusters may join the one its founder is in, and a member *)
(* may be taken out of its cluster again, until it is settled: from then on *)
(* it stays where it is.  No node moves from one cluster to another without *)
(* having been in none, and nobody joins a cluster that was given up.       *)
(***************************************************************************)
EXTENDS Naturals

CONSTANTS Founder, Joiner

VARIABLES
    founded,    \* how many clusters there have been
    home,       \* the number of the cluster each node is in, 0 for none
    settled     \* the nodes that stay where they are

vars == <<founded, home, settled>>

Node == {Founder} \cup Joiner

Init ==
    /\ founded = 0
    /\ home = [n \in Node |-> 0]
    /\ settled = {}

Found ==
    /\ Founder \notin settled /\ home[Founder] = 0
    /\ founded' = founded + 1
    /\ home' = [home EXCEPT ![Founder] = founded + 1]
    /\ UNCHANGED settled

Join(n) ==
    /\ n \notin settled /\ home[n] = 0
    /\ home[Founder] # 0
    /\ home' = [home EXCEPT ![n] = home[Founder]]
    /\ UNCHANGED <<founded, settled>>

Leave(n) ==
    /\ n \notin settled
    /\ home' = [home EXCEPT ![n] = 0]
    /\ UNCHANGED <<founded, settled>>

Settle(n) ==
    /\ settled' = settled \cup {n}
    /\ UNCHANGED <<founded, home>>

Next ==
    \/ Found
    \/ \E n \in Joiner : Join(n)
    \/ \E n \in Node : Leave(n) \/ Settle(n)

Spec == Init /\ [][Next]_vars
===============================================================================
