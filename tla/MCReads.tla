------------------------------ MODULE MCReads ------------------------------
(* Four predictions, all but the second about one strategy; pages of       *)
(* one item and queries of two rows, so that a page needs several queries  *)
(* and a walk several pages.                                               *)
EXTENDS Reads

CONSTANTS a, b

MCStrategyOf == [p \in Preds |-> IF p = 2 THEN b ELSE a]
MCFilters == {NoFilter,
              [NoFilter EXCEPT !.strategy = a],
              [NoFilter EXCEPT !.status = "open"],
              [NoFilter EXCEPT !.status = "quarantined"],
              [NoFilter EXCEPT !.result = FALSE]}
=============================================================================
