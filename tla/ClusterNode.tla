------------------------------ MODULE ClusterNode ------------------------------
(***************************************************************************)
(* What the files of a node promise, with no command, no crash and no half  *)
(* file in it.  A node joins and leaves the cluster until it is settled,    *)
(* and from then on only a reset event takes it out.  The version on record *)
(* is that of the image that wrote it; another one is written over it only  *)
(* by the upgrade of a member, and a boot that no event has met ends with   *)
(* the node settled and the image it runs on record.                        *)
(***************************************************************************)
CONSTANTS Version, None, Unreadable

VARIABLES
    image,      \* what the node has booted
    member,     \* is it in the cluster?
    settled,    \* is it taken to be, by every later boot?
    record,     \* the version it is at; None for none, Unreadable for half a record
    resting,    \* is its boot over?
    touched     \* has a reset event come in this boot?

vars == <<image, member, settled, record, resting, touched>>

Init ==
    /\ image \in Version
    /\ member = FALSE /\ settled = FALSE /\ record = None
    /\ resting = FALSE /\ touched = FALSE

\* A record is written in two steps: the first one of a node, and that of an upgrade.
OpenRecord ==
    /\ ~resting /\ (record = None \/ member)
    /\ record' = Unreadable
    /\ UNCHANGED <<image, member, settled, resting, touched>>

WriteRecord ==
    /\ ~resting /\ record = Unreadable
    /\ record' = image
    /\ UNCHANGED <<image, member, settled, resting, touched>>

Join ==
    /\ ~resting /\ ~settled /\ ~member
    /\ member' = TRUE
    /\ UNCHANGED <<image, settled, record, resting, touched>>

Leave ==
    /\ ~resting /\ ~settled
    /\ member' = FALSE
    /\ UNCHANGED <<image, settled, record, resting, touched>>

Settle ==
    /\ ~resting /\ ~settled
    /\ settled' = TRUE
    /\ UNCHANGED <<image, member, record, resting, touched>>

Rest ==
    /\ ~resting
    /\ touched \/ (settled /\ record = image)
    /\ resting' = TRUE
    /\ UNCHANGED <<image, member, settled, record, touched>>

\* An event comes; whether and how far it gets is open.
Event ==
    /\ touched' = TRUE
    /\ UNCHANGED <<image, member, settled, record, resting>>

\* What it takes away, one thing at a time.
Reset ==
    /\ touched
    /\ \/ member' = FALSE /\ UNCHANGED <<settled, record>>
       \/ settled' = FALSE /\ UNCHANGED <<member, record>>
       \/ record' = None /\ UNCHANGED <<member, settled>>
    /\ UNCHANGED <<image, resting, touched>>

Boot ==
    /\ image' \in Version
    /\ resting' = FALSE /\ touched' = FALSE
    /\ UNCHANGED <<member, settled, record>>

Next ==
    \/ OpenRecord \/ WriteRecord \/ Join \/ Leave \/ Settle
    \/ Rest \/ Event \/ Reset \/ Boot

Spec == Init /\ [][Next]_vars

-------------------------------------------------------------------------------
\* What later boots take for granted stays true until an event comes: no boot, crash
\* or retry takes a settled node out of the cluster, and none but the upgrade of a
\* member changes a version that is on record: it is emptied and written anew.
SettledStay ==
    [][/\ settled /\ ~touched => settled' /\ (member => member')
       /\ record \in Version /\ record' # record =>
              touched \/ (member /\ record' \in {Unreadable, image})]_vars
===============================================================================
