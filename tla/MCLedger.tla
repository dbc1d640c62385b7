------------------------------ MODULE MCLedger ------------------------------
(* An instance of Ledger: one request, whose prediction's run every run    *)
(* request names.                                                          *)
EXTENDS Ledger, TLC

CONSTANTS r1, u1, d1

MCCellsOf   == [r \in Reqs |-> {d1}]
MCTarget    == [q \in RunRequests |-> <<r1, u1>>]
MCOwnWindow == [o \in RunRequests \cup Docs |-> {d1}]
MCSourceOf  == [d \in Docs |-> d]
=============================================================================
