------------------------------ MODULE MCBackup ------------------------------
(* Instances of Backup.  Every request but the exploratory e1 names the    *)
(* run of the one captured prediction, all documents describe one external *)
(* run, and all windows overlap.                                           *)
EXTENDS Backup, TLC

CONSTANTS e1, r1, d1, s1

MCTarget   == [q \in Requests |-> IF q = e1 THEN None ELSE r1]
MCCellsOf  == [o \in Origin |-> {d1}]
MCSourceOf == [d \in Docs |-> s1]
=============================================================================
