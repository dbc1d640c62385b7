------------------------------- MODULE Reads -------------------------------
(***************************************************************************)
(* LedgerReadService (src/ledger/read_service.py) over the registry's      *)
(* queries (registry.py): pages of committed predictions, newest first,    *)
(* walked with a cursor, and the detail of one prediction.                 *)
(*                                                                         *)
(* A walk holds nothing between its steps.  Every batch is a query of its  *)
(* own, every row is verified in a read transaction of its own and then    *)
(* against its files, and captures, resolutions, quarantines and damage    *)
(* go on in between.                                                       *)
(***************************************************************************)
EXTENDS Naturals, Sequences, FiniteSets, SequencesExt

CONSTANTS
    NPreds,         \* prediction identifiers, ordered as their text is
    NKeys,          \* values of committed_sort_key
    StrategyOf,     \* the strategy each prediction is about
    Filters,        \* [status, strategy, result], None where not restricted
    Limit, Batch,   \* items of a page, rows of a query
    None,
    MaxChanges      \* bound: changes others make to the ledger

Preds == 1..NPreds
Keys  == 1..NKeys

Statuses == {"open", "resolved", "quarantined"}
Row == [key : Keys, status : Statuses, result : BOOLEAN]

ASSUME ReadBounds == /\ NPreds \in Nat /\ NKeys \in Nat /\ MaxChanges \in Nat
                     /\ Limit \in Nat \ {0} /\ Batch \in Nat \ {0}
ASSUME NoneAssumption == None \notin Row \cup [key : Keys, id : Preds]

VARIABLES
    preds,      \* committed predictions
    damaged,    \* predictions whose files no longer verify
    changes,
    mode,       \* "walk" or "detail"
    at,         \* where the reader is
    filter,
    after,      \* the sort key and identifier the next query starts below
    rows,       \* listed rows, not yet verified
    more,       \* the last query filled its batch
    snap,       \* the row read in the read transaction
    matched,    \* summaries of this page
    shown,      \* history: predictions on the pages of this walk
    steady,     \* history: predictions the walk could show all along
    known       \* history: quarantined when the reader made its last step

ledger == <<preds, damaged, changes>>
vars == <<ledger, mode, at, filter, after, rows, more, snap, matched, shown, steady, known>>

NoFilter == [status |-> None, strategy |-> None, result |-> None]

Quarantined(ps) == {p \in Preds : ps[p] # None /\ ps[p].status = "quarantined"}

(* The clauses of list_committed_predictions. *)
Eligible(p, f, ps) ==
    /\ ps[p] # None
    /\ IF f.status = None THEN ps[p].status # "quarantined" ELSE ps[p].status = f.status
    /\ f.result # None => ps[p].result = f.result

Below(p, c) ==
    c # None => preds[p].key < c.key \/ (preds[p].key = c.key /\ p < c.id)

Newer(p, q) == preds[q].key < preds[p].key \/ (preds[q].key = preds[p].key /\ q < p)

(* The rows a query matches, and how many of them come before one.         *)
Matching(f, c) == {p \in Preds : Eligible(p, f, preds) /\ Below(p, c)}
Rank(p, S) == Cardinality({q \in S : Newer(q, p)})

(* Faulty variant: the query has no LIMIT. *)
QueryAll(f, c) ==
    LET S == Matching(f, c)
    IN  [i \in 1..Cardinality(S) |-> CHOOSE p \in S : Rank(p, S) = i - 1]

(* The newest of them, in order. *)
Query(f, c) ==
    LET S == Matching(f, c)
        n == IF Cardinality(S) < Batch THEN Cardinality(S) ELSE Batch
    IN  [i \in 1..n |-> CHOOSE p \in S : Rank(p, S) = i - 1]

Listed(p) == [id |-> p, row |-> preds[p]]
Position(p) == [key |-> preds[p].key, id |-> p]

(* What a walk that sees the prediction shows as verified. *)
CanShow(p, f, ps, broken) ==
    /\ Eligible(p, f, ps)
    /\ ps[p].status # "quarantined" /\ p \notin broken
    /\ f.strategy \in {None, StrategyOf[p]}

Init ==
    /\ preds \in [Preds -> [key : Keys, status : {"open"}, result : {FALSE}] \cup {None}]
    /\ damaged = {} /\ changes = 0
    /\ mode = "walk" /\ at = "idle" /\ filter = NoFilter
    /\ after = None /\ rows = <<>> /\ more = FALSE /\ snap = None
    /\ matched = <<>> /\ shown = <<>> /\ steady = {} /\ known = {}

----------------------------------------------------------------------------
(* list_predictions. *)

Noticed == known' = Quarantined(preds)

Begin(f) ==
    /\ at \in {"idle", "done"}
    /\ mode' = "walk" /\ at' = "list" /\ filter' = f
    /\ after' = None /\ matched' = <<>> /\ shown' = <<>>
    /\ steady' = {p \in Preds : CanShow(p, f, preds, damaged)}
    /\ Noticed
    /\ UNCHANGED <<ledger, rows, more, snap>>

List ==
    /\ at = "list"
    /\ rows' = [i \in DOMAIN Query(filter, after) |->
                  Listed(Query(filter, after)[i])]
    /\ more' = (Len(rows') = Batch)
    /\ after' = IF rows' = <<>> THEN after ELSE Position(Last(rows').id)
    /\ at' = IF rows' = <<>> THEN "page" ELSE "verify"
    /\ Noticed
    /\ UNCHANGED <<ledger, mode, filter, snap, matched, shown, steady>>

(* Faulty variant: the listed row is verified, not the current one. *)
SnapshotFromList ==
    /\ at = "verify"
    /\ snap' = Head(rows).row
    /\ at' = "files"
    /\ Noticed
    /\ UNCHANGED <<ledger, mode, filter, after, rows, more, matched, shown, steady>>

(* _verify_bundle: the row again, with its violations, run and result.     *)
Snapshot ==
    /\ at = "verify"
    /\ snap' = preds[Head(rows).id]
    /\ at' = "files"
    /\ Noticed
    /\ UNCHANGED <<ledger, mode, filter, after, rows, more, matched, shown, steady>>

(* The record, the schema, the snapshot, the run and the result agree.     *)
Intact(p) == p \notin damaged

Verified(p) == snap.status # "quarantined" /\ Intact(p)

(* What fails is summarised from the listed row and has no strategy.  A row *)
(* whose status does not even name one, which the registry's constraints   *)
(* exclude (read_service.py:391-395), would end the query.                 *)
Summary ==
    LET p == Head(rows).id
    IN  [id |-> p, verified |-> Verified(p),
         row |-> IF Verified(p) THEN snap ELSE Head(rows).row]

Wanted(item) ==
    IF mode = "detail" THEN item.verified
    ELSE filter.strategy = None \/ (item.verified /\ filter.strategy = StrategyOf[item.id])

Files ==
    /\ at = "files"
    /\ matched' = IF Wanted(Summary) THEN Append(matched, Summary) ELSE matched
    /\ rows' = IF Len(matched') > Limit THEN <<>> ELSE Tail(rows)
    /\ at' = CASE mode = "detail" -> "done"
               [] mode = "walk" /\ rows' # <<>> -> "verify"
               [] mode = "walk" /\ rows' = <<>> /\ Len(matched') <= Limit /\ more -> "list"
               [] OTHER -> "page"
    /\ snap' = None
    /\ Noticed
    /\ UNCHANGED <<ledger, mode, filter, after, more, shown, steady>>

Ids(items) == [i \in DOMAIN items |-> items[i].id]

(* Faulty variant: the cursor is the first item of the next page. *)
PageFromExtra ==
    LET items == SubSeq(matched, 1, IF Len(matched) < Limit THEN Len(matched) ELSE Limit)
    IN  /\ at = "page"
        /\ shown' = shown \o Ids(items)
        /\ after' = IF Len(matched) > Limit THEN Position(matched[Limit + 1].id) ELSE None
        /\ at' = IF Len(matched) > Limit THEN "paged" ELSE "done"
        /\ matched' = <<>>
        /\ Noticed
        /\ UNCHANGED <<ledger, mode, filter, rows, more, snap, steady>>

(* There is a next page if one item more was found; its cursor is the last *)
(* item of this one.                                                       *)
Page ==
    LET items == SubSeq(matched, 1, IF Len(matched) < Limit THEN Len(matched) ELSE Limit)
    IN  /\ at = "page"
        /\ shown' = shown \o Ids(items)
        /\ after' = IF Len(matched) > Limit THEN Position(Last(items).id) ELSE None
        /\ at' = IF Len(matched) > Limit THEN "paged" ELSE "done"
        /\ matched' = <<>>
        /\ Noticed
        /\ UNCHANGED <<ledger, mode, filter, rows, more, snap, steady>>

(* A cursor serves the filters it was made for, and no others. *)
NextPage(f) ==
    /\ at = "paged"
    /\ f = filter
    /\ at' = "list"
    /\ Noticed
    /\ UNCHANGED <<ledger, mode, filter, after, rows, more, snap, matched, shown, steady>>

(* get_prediction: found, then verified like a row of a page. *)
Detail(p) ==
    /\ at \in {"idle", "done"}
    /\ preds[p] # None
    /\ mode' = "detail" /\ at' = "verify" /\ filter' = NoFilter
    /\ after' = None /\ matched' = <<>> /\ shown' = <<>> /\ steady' = {}
    /\ rows' = <<Listed(p)>>
    /\ Noticed
    /\ UNCHANGED <<ledger, more, snap>>

----------------------------------------------------------------------------
(* What others do to the ledger meanwhile. *)

reader == <<mode, at, filter, after, rows, more, snap, matched, shown, known>>

Change(ps, broken) ==
    /\ changes < MaxChanges
    /\ changes' = changes + 1
    /\ preds' = ps
    /\ damaged' = broken
    /\ steady' = {p \in steady : CanShow(p, filter, ps, broken)}
    /\ UNCHANGED reader

(* Clocks differ: a prediction committed later may carry an older time.    *)
Commit(p, k) ==
    /\ preds[p] = None
    /\ Change([preds EXCEPT ![p] = [key |-> k, status |-> "open", result |-> FALSE]], damaged)

Resolve(p) ==
    /\ preds[p] # None
    /\ preds[p].status = "open"
    /\ Change([preds EXCEPT ![p].status = "resolved"], damaged)

(* A result is recorded for the prediction's run. *)
Ingest(p) ==
    /\ preds[p] # None
    /\ ~preds[p].result
    /\ Change([preds EXCEPT ![p].result = TRUE], damaged)

(* The status and the violation are written in one transaction. *)
Quarantine(p) ==
    /\ preds[p] # None
    /\ preds[p].status # "quarantined"
    /\ Change([preds EXCEPT ![p].status = "quarantined"], damaged)

Damage(p) ==
    /\ preds[p] # None
    /\ p \notin damaged
    /\ Change(preds, damaged \cup {p})

----------------------------------------------------------------------------

Next ==
    \/ List \/ Snapshot \/ Files \/ Page
    \/ \E f \in Filters : Begin(f) \/ NextPage(f)
    \/ \E p \in Preds : Detail(p) \/ Resolve(p) \/ Ingest(p) \/ Quarantine(p) \/ Damage(p)
    \/ \E p \in Preds, k \in Keys : Commit(p, k)

Spec == Init /\ [][Next]_vars

----------------------------------------------------------------------------
(* Properties. *)

Place == [key : Keys, id : Preds] \cup {None}

(* Every variable has its type, and a query returns at most its batch. *)
TypeOK ==
    /\ preds \in [Preds -> Row \cup {None}]
    /\ damaged \subseteq Preds /\ steady \subseteq Preds /\ known \subseteq Preds
    /\ changes \in 0..MaxChanges
    /\ mode \in {"walk", "detail"}
    /\ at \in {"idle", "list", "verify", "files", "page", "paged", "done"}
    /\ filter \in Filters \cup {NoFilter}
    /\ after \in Place
    /\ rows \in Seq([id : Preds, row : Row]) /\ Len(rows) <= Batch
    /\ matched \in Seq([id : Preds, verified : BOOLEAN, row : Row])
    /\ Len(matched) <= Limit + 1
    /\ shown \in Seq(Preds)
    /\ snap \in Row \cup {None}

(* A walk over all pages shows every prediction it could show all along    *)
(* exactly once, and none twice, whatever is committed, resolved,          *)
(* quarantined or damaged meanwhile, and although predictions share a      *)
(* commit time (read_service.py, list_predictions; registry.py,            *)
(* list_committed_predictions).                                            *)
WalkIsExact ==
    /\ \A i, j \in DOMAIN shown : shown[i] = shown[j] => i = j
    /\ at = "done" /\ mode = "walk" => steady \subseteq Range(shown)

(* What was quarantined before the reader's previous step is not shown as  *)
(* verified by the next one, on a page or as a detail: rows listed earlier *)
(* are read again before they are believed                                 *)
(* (read_service.py, _verify_bundle).                                      *)
VerifiedIsCurrent ==
    [][\A i \in DOMAIN matched' : i \notin DOMAIN matched /\ matched'[i].verified =>
         matched'[i].id \notin known]_vars
=============================================================================
