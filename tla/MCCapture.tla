----------------------------- MODULE MCCapture -----------------------------
(* Instances of Capture: the window of r2 lies inside the window of r1.    *)
EXTENDS Capture, TLC

CONSTANTS r1, r2, d1, d2

MCCellsOf == [r \in Reqs |-> Cells \cap IF r = r1 THEN {d1, d2} ELSE {d2}]
Perms == Permutations(Procs) \cup Permutations(Uuids)
=============================================================================
