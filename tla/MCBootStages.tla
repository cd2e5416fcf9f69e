------------------------------ MODULE MCBootStages ------------------------------
(* Values for BootStages: WithServices tells a list of the user from none.      *)
EXTENDS BootStages

CONSTANTS services, joined

MCWithServices == [list \in {Empty} \cup Value |-> IF list = Empty THEN services ELSE joined]
===============================================================================
