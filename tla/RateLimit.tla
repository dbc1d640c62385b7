----------------------------- MODULE RateLimit -----------------------------
(***************************************************************************)
(* ConsoleRateLimiter and ConsoleAbuseControls                             *)
(* (src/ledger/console/rate_limit.py): sliding windows of attempts, and    *)
(* one extraction at a time for each identity.                             *)
(*                                                                         *)
(* A caller reads the monotonic clock before it takes the limiter's lock.  *)
(* What happens under the lock is one step, with a reading made at any     *)
(* moment since the caller's previous step; meanwhile another caller with  *)
(* a later reading may have pruned every window and been admitted.         *)
(***************************************************************************)
EXTENDS Naturals, Sequences, FiniteSets, FiniteSetsExt

CONSTANTS
    Callers,    \* threads that can be in the limiter at the same time
    Items,      \* <<bucket, key>>
    LimitOf,    \* attempts an item is allowed in one window
    Window,     \* window_seconds, one policy for every bucket
    MaxKeys,    \* items the table holds
    MaxClock    \* bound: the clock stops here

ASSUME PolicyAssumption ==
    /\ Window \in Nat \ {0} /\ MaxKeys \in Nat \ {0} /\ MaxClock \in Nat
    /\ LimitOf \in [Items -> Nat \ {0}]

VARIABLES
    clock,      \* the monotonic clock
    since,      \* when each caller made its previous step
    events,     \* _events: the stamps of each item in the table
    inFlight,   \* _in_flight
    admitted    \* history: the stamps of the attempts admitted, by item

limiter == <<events, inFlight, admitted>>

Times == 0..MaxClock

NoEvents == [i \in {} |-> <<>>]
NoAttempts == [i \in Items |-> <<>>]

LimiterInit ==
    /\ clock = 0
    /\ since = [q \in Callers |-> 0]
    /\ events = NoEvents
    /\ inFlight = {}
    /\ admitted = NoAttempts

Readings(q) == since[q] .. clock

(* Faulty variant: the window's length is forgotten. *)
UnexpiredNow(queue, now) ==
    LET fresh == {k \in DOMAIN queue : queue[k] > now}
    IN  IF fresh = {} THEN <<>> ELSE SubSeq(queue, Min(fresh), Len(queue))

(* Expired stamps leave at the head of the queue, and only there. *)
Unexpired(queue, now) ==
    LET fresh == {k \in DOMAIN queue : queue[k] + Window > now}
    IN  IF fresh = {} THEN <<>> ELSE SubSeq(queue, Min(fresh), Len(queue))

Prune(now) ==
    [i \in {j \in DOMAIN events : Unexpired(events[j], now) # <<>>} |->
        Unexpired(events[i], now)]

(* Faulty variant: the table has no limit. *)
AdmitsNewKeys(now, i) ==
    LET kept == Prune(now) IN i \in DOMAIN kept => Len(kept[i]) < LimitOf[i]

(* A full table refuses a new item, a full window a known one. *)
Admits(now, i) ==
    LET kept == Prune(now)
    IN  IF i \in DOMAIN kept THEN Len(kept[i]) < LimitOf[i]
                             ELSE Cardinality(DOMAIN kept) < MaxKeys

(* hit: what a refused attempt leaves behind is the pruned table. *)
Hit(now, i) ==
    LET kept == Prune(now)
        old  == IF i \in DOMAIN kept THEN kept[i] ELSE <<>>
    IN  IF Admits(now, i)
        THEN /\ events' = [j \in DOMAIN kept \cup {i} |->
                             IF j = i THEN Append(old, now) ELSE kept[j]]
             /\ admitted' = [admitted EXCEPT ![i] = Append(@, now)]
        ELSE events' = kept /\ UNCHANGED admitted

(* one_in_flight, its entry and its finally. *)
Enter(i) == i \notin inFlight /\ inFlight' = inFlight \cup {i}
Leave(i) == inFlight' = inFlight \ {i}

LimiterTypeOK ==
    /\ clock \in Times
    /\ since \in [Callers -> Times]
    /\ DOMAIN events \subseteq Items
    /\ Cardinality(DOMAIN events) <= MaxKeys
    /\ \A i \in DOMAIN events : events[i] \in Seq(Times) /\ events[i] # <<>>
    /\ inFlight \subseteq Items
    /\ admitted \in [Items -> Seq(Times)]

(* The attempts of an item admitted in the window that ends at t. *)
AdmittedIn(i, t) ==
    Cardinality({k \in DOMAIN admitted[i] :
                   admitted[i][k] <= t /\ t < admitted[i][k] + Window})
=============================================================================
