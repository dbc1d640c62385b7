---------------------------- MODULE AtomicLedger ----------------------------
(***************************************************************************)
(* What the ledger promises its callers, with no files, locks or crashes:  *)
(* a capture happens in one step, at most once for an idempotency key,     *)
(* only on a window nobody has looked at, and a caller is only ever given  *)
(* the prediction its own request is bound to.                             *)
(***************************************************************************)
CONSTANTS Keys, Reqs, Uuids, DraftIds, Cells, CellsOf, None

VARIABLES
    predictions,      \* committed predictions
    captureRequests,  \* idempotency key -> request and prediction
    touchedWindows,   \* observations some run has seen
    receipts          \* answers given to callers of capture

avars == <<predictions, captureRequests, touchedWindows, receipts>>

AInit ==
    /\ predictions = {}
    /\ captureRequests = [k \in Keys |-> None]
    /\ touchedWindows = {}
    /\ receipts = {}

Register(k, r, q) ==
    /\ captureRequests[k] = None
    /\ q \notin predictions
    /\ CellsOf[r] \cap touchedWindows = {}
    /\ captureRequests' = [captureRequests EXCEPT ![k] = [req |-> r, pid |-> q]]
    /\ predictions' = predictions \cup {q}
    /\ UNCHANGED <<touchedWindows, receipts>>

WriteDraft(q) ==
    /\ q \notin predictions
    /\ predictions' = predictions \cup {q}
    /\ UNCHANGED <<captureRequests, touchedWindows, receipts>>

Answer(k) ==
    /\ captureRequests[k] # None
    /\ receipts' = receipts \cup {[key |-> k, req |-> captureRequests[k].req,
                                   pid |-> captureRequests[k].pid]}
    /\ UNCHANGED <<predictions, captureRequests, touchedWindows>>

Observe(C) ==
    /\ touchedWindows' = touchedWindows \cup C
    /\ UNCHANGED <<predictions, captureRequests, receipts>>

ANext ==
    \/ \E k \in Keys, r \in Reqs, q \in Uuids : Register(k, r, q)
    \/ \E q \in DraftIds : WriteDraft(q)
    \/ \E k \in Keys : Answer(k)
    \/ \E C \in SUBSET Cells : Observe(C)

ASpec == AInit /\ [][ANext]_avars
=============================================================================
