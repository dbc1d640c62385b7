----------------------------- MODULE MCSessions -----------------------------
(* Two identities share one device; each may establish a session and       *)
(* extract once in a window.                                               *)
EXTENDS Sessions, TLC

MCItems    == {"session", "extraction"} \X Users
MCLimitOf  == [i \in MCItems |-> 1]
MCSymmetry == Permutations(Callers) \cup Permutations(Users) \cup Permutations(Sids)
=============================================================================
