--------------------------- MODULE SessionsProofs ---------------------------
(***************************************************************************)
(* Proofs about modules Sessions and RateLimit, for any number of          *)
(* browsers, identities, sessions and requests, and any clock skew.        *)
(*                                                                         *)
(* That nobody acts in another's name rests on what ties a request to its  *)
(* session while other requests end and replace sessions (AttachedFits),   *)
(* that sessions run out on how the three times of a row hang together     *)
(* (RowsFit), and the one slot of an identity on who holds it (SlotFits).  *)
(* That windows hold rests on the queue of an item being the end of what   *)
(* it was admitted, and on the next reading of the clock being late enough *)
(* (GatesFit).                                                             *)
(***************************************************************************)
EXTENDS Sessions, FiniteSetTheorems, SequenceTheorems, WellFoundedInduction, TLAPS

Labels == {"idle", "arrived", "gate", "sweep", "mint", "checked", "handler", "extract",
           "work", "refused", "reply"}
Served == {"checked", "handler", "extract", "work", "refused"}

Request == [browser : Browsers \cup {None}, user : Users \cup {None}, kind : Kinds \cup {None},
            cookie : Sids \cup {None}, form : Sids \cup {None}, session : Sids \cup {None},
            reply : Sids \cup {"clear", None}]

(* A request is somebody's until it is answered. *)
RequestsFit ==
    /\ pc \in [Callers -> Labels]
    /\ req \in [Callers -> Request]
    /\ \A q \in Callers : /\ pc[q] \notin {"idle", "reply"} => req[q].user \in Users
                          /\ pc[q] = "reply" <=> req[q].reply # None

(* The session attached to a request was created for its identity. *)
AttachedFits ==
    \A q \in Callers : pc[q] \in Served =>
        req[q].session \in Sids /\ issued[req[q].session] = req[q].user

(* A row belongs to whom it was created for, and its times hang together.  *)
RowsFit ==
    \A s \in Sids : rows[s] # None =>
        /\ rows[s] \in Row
        /\ issued[s] = rows[s].user
        /\ rows[s].absolute = rows[s].created + Absolute
        /\ rows[s].idle <= rows[s].absolute
        /\ rows[s].idle <= rows[s].seen + Idle

(* The slot of an identity is taken by exactly one request. *)
Holds(q, u) == Extracting(q) /\ req[q].user = u
SlotFor(u) ==
    /\ <<"extraction", u>> \notin inFlight => \A q \in Callers : ~Holds(q, u)
    /\ <<"extraction", u>> \in inFlight =>
         \E h \in Callers : Holds(h, u) /\ \A q \in Callers : Holds(q, u) => q = h
SlotFits == \A u \in Users : SlotFor(u)

IInv ==
    /\ TypeOK /\ IsFiniteSet(DOMAIN events)
    /\ RequestsFit /\ AttachedFits /\ ActsAsItself
    /\ RowsFit
    /\ SlotFits

----------------------------------------------------------------------------
(* Operators. *)

(* A set of naturals has a least element, and Min is it. *)
LEMMA LeastElement ==
  ASSUME NEW S \in SUBSET Nat, S # {}
  PROVE  Min(S) \in S /\ \A y \in S : Min(S) <= y
<1> DEFINE T == {0..k : k \in S}
<1>1. T \subseteq FiniteSubsetsOf(Nat) /\ T # {}
  <2>1. ASSUME NEW k \in S PROVE 0..k \subseteq Nat /\ IsFiniteSet(0..k)
    <3>1. k \in Nat /\ 0..k \subseteq Nat
      OBVIOUS
    <3> QED
      BY <3>1, FS_Interval
  <2>2. T \subseteq FiniteSubsetsOf(Nat)
    BY <2>1 DEF FiniteSubsetsOf
  <2> QED
    BY <2>2
<1>2. PICK X \in T : \A Y \in T : <<Y, X>> \notin StrictSubsetOrdering(Nat)
  BY <1>1, FS_StrictSubsetOrderingWellFounded, WFMin
<1>3. PICK x \in S : X = 0..x
  BY <1>2
<1>4. ASSUME NEW y \in S, y < x PROVE FALSE
  <2>1. 0..y \in T /\ 0..y \subseteq 0..x /\ 0..y # 0..x
    BY <1>4
  <2>2. 0..x \subseteq Nat /\ 0..y \subseteq Nat
    OBVIOUS
  <2>3. <<0..y, 0..x>> \notin StrictSubsetOrdering(Nat)
    BY <1>2, <1>3, <2>1
  <2> HIDE DEF T
  <2> QED
    BY <2>1, <2>2, <2>3 DEF StrictSubsetOrdering
<1>5. \A y \in S : x <= y
  BY <1>4
<1> QED
  BY <1>5 DEF Min

(* The lesser of two expiry times is at most each of them.                 *)
LEMMA Lesser ==
  ASSUME NEW a \in Nat, NEW b \in Nat
  PROVE  Min({a, b}) \in Nat /\ Min({a, b}) <= a /\ Min({a, b}) <= b
  BY LeastElement

(* What is left of a queue after pruning is a queue of stamps. *)
LEMMA UnexpiredType ==
  ASSUME NEW queue \in Seq(Times), NEW now \in Times PROVE Unexpired(queue, now) \in Seq(Times)
<1> DEFINE fresh == {k \in DOMAIN queue : queue[k] + Window > now}
<1>1. CASE fresh = {}
  BY <1>1 DEF Unexpired
<1>2. CASE fresh # {}
  <2>1. Min(fresh) \in 1..Len(queue)
    BY <1>2, LeastElement
  <2>2. SubSeq(queue, Min(fresh), Len(queue)) \in Seq(Times)
    BY <2>1
  <2> QED
    BY <1>2, <2>2 DEF Unexpired
<1> QED
  BY <1>1, <1>2

(* A pruned table holds no more items than before, and typed queues. *)
LEMMA PruneTypes ==
  ASSUME LimiterTypeOK, IsFiniteSet(DOMAIN events), NEW now \in Times
  PROVE  /\ DOMAIN Prune(now) \subseteq Items /\ IsFiniteSet(DOMAIN Prune(now))
         /\ Cardinality(DOMAIN Prune(now)) \in Nat /\ Cardinality(DOMAIN Prune(now)) <= MaxKeys
         /\ \A j \in DOMAIN Prune(now) : Prune(now)[j] \in Seq(Times) /\ Prune(now)[j] # <<>>
<1>1. DOMAIN Prune(now) \subseteq DOMAIN events
  BY DEF Prune
<1>2. \A j \in DOMAIN Prune(now) : Prune(now)[j] = Unexpired(events[j], now) /\ Prune(now)[j] # <<>>
  BY DEF Prune
<1>3. \A j \in DOMAIN Prune(now) : Prune(now)[j] \in Seq(Times)
  BY <1>1, <1>2, UnexpiredType DEF LimiterTypeOK
<1>4. /\ IsFiniteSet(DOMAIN Prune(now))
      /\ Cardinality(DOMAIN Prune(now)) <= Cardinality(DOMAIN events)
      /\ Cardinality(DOMAIN Prune(now)) \in Nat /\ Cardinality(DOMAIN events) \in Nat
  BY <1>1, FS_Subset, FS_CardinalityType
<1> QED
  BY <1>1, <1>2, <1>3, <1>4, PolicyAssumption DEF LimiterTypeOK

(* An attempt, admitted or not, leaves a table within its bound. *)
LEMMA HitTypes ==
  ASSUME LimiterTypeOK, IsFiniteSet(DOMAIN events), NEW now \in Times, NEW i \in Items, Hit(now, i)
  PROVE  /\ DOMAIN events' \subseteq Items /\ IsFiniteSet(DOMAIN events')
         /\ Cardinality(DOMAIN events') <= MaxKeys
         /\ \A j \in DOMAIN events' : events'[j] \in Seq(Times) /\ events'[j] # <<>>
         /\ admitted' \in [Items -> Seq(Times)]
<1> DEFINE kept == Prune(now)
           old  == IF i \in DOMAIN kept THEN kept[i] ELSE <<>>
<1>1. /\ DOMAIN kept \subseteq Items /\ IsFiniteSet(DOMAIN kept)
      /\ Cardinality(DOMAIN kept) \in Nat /\ Cardinality(DOMAIN kept) <= MaxKeys
      /\ \A j \in DOMAIN kept : kept[j] \in Seq(Times) /\ kept[j] # <<>>
  BY PruneTypes
<1>2. CASE Admits(now, i)
  <2>1. /\ events' = [j \in DOMAIN kept \cup {i} |-> IF j = i THEN Append(old, now) ELSE kept[j]]
        /\ admitted' = [admitted EXCEPT ![i] = Append(@, now)]
    BY <1>2 DEF Hit
  <2>2. Cardinality(DOMAIN kept \cup {i}) <= MaxKeys /\ IsFiniteSet(DOMAIN kept \cup {i})
    <3>1. CASE i \in DOMAIN kept
      <4>1. DOMAIN kept \cup {i} = DOMAIN kept
        BY <3>1
      <4> QED
        BY <1>1, <4>1
    <3>2. CASE i \notin DOMAIN kept
      <4>1. Cardinality(DOMAIN kept) < MaxKeys
        BY <1>2, <3>2 DEF Admits
      <4> HIDE DEF kept
      <4>2. Cardinality(DOMAIN kept \cup {i}) = Cardinality(DOMAIN kept) + 1
        BY <1>1, <3>2, FS_AddElement
      <4>3. IsFiniteSet(DOMAIN kept \cup {i})
        BY <1>1, FS_AddElement
      <4> QED
        BY <1>1, <4>1, <4>2, <4>3, PolicyAssumption
    <3> QED
      BY <3>1, <3>2
  <2> HIDE DEF kept
  <2>3. old \in Seq(Times)
    BY <1>1
  <2>4. Append(old, now) \in Seq(Times) /\ Append(old, now) # <<>>
    BY <2>3
  <2>5. \A j \in DOMAIN events' : events'[j] \in Seq(Times) /\ events'[j] # <<>>
    <3> HIDE DEF old
    <3> QED
      BY <1>1, <2>1, <2>4
  <2>6. admitted' \in [Items -> Seq(Times)]
    BY <2>1 DEF LimiterTypeOK
  <2>7. DOMAIN events' = DOMAIN kept \cup {i}
    BY <2>1
  <2> QED
    BY <1>1, <2>2, <2>5, <2>6, <2>7
<1>3. CASE ~Admits(now, i)
  BY <1>1, <1>3 DEF Hit, LimiterTypeOK
<1> QED
  BY <1>2, <1>3

(* The store and the browsers, without the limiter and the requests. *)
StoreTypeOK ==
    /\ rows \in [Sids -> Row \cup {None}]
    /\ issued \in [Sids -> Users \cup {None}]
    /\ jar \in [Browsers -> Sids \cup {None}]
    /\ forms \in [Browsers -> SUBSET Sids]
    /\ sent \in 0..MaxRequests

(* Every clock reading, of the wall clock too, is a time. *)
LEMMA ReadingsAreTimes ==
  ASSUME IInv, NEW q \in Callers
  PROVE  Readings(q) \subseteq Times /\ WallReadings(q) \subseteq Times
<1>1. since[q] \in Nat /\ clock \in Nat /\ clock <= MaxClock /\ MaxClock \in Nat
  BY PolicyAssumption DEF IInv, TypeOK, LimiterTypeOK, Times
<1> QED
  BY <1>1 DEF Readings, WallReadings, WallAround, Times

----------------------------------------------------------------------------
(* Where a request goes on, a clock may be read from now on. *)
LEMMA SinceTypes ==
  ASSUME IInv, NEW q \in Callers, NEW label, Go(q, label) PROVE since' \in [Callers -> Times]
<1>1. 0 \in Times /\ clock \in Times
  BY PolicyAssumption DEF IInv, TypeOK, LimiterTypeOK, Times
<1> QED
  BY <1>1 DEF IInv, TypeOK, LimiterTypeOK, Go

(* A request that is answered at once still fits its place.                *)
LEMMA AnswerFits ==
  ASSUME IInv, NEW q \in Callers, Answer(q) PROVE RequestsFit'
  BY NamesAssumption DEF IInv, RequestsFit, Labels, Request, NoRequest, Answer, Go

(* So does one that is answered with a cookie.                             *)
LEMMA RespondFits ==
  ASSUME IInv, NEW q \in Callers, NEW c \in Sids \cup {"clear"}, Respond(q, c) PROVE RequestsFit'
  BY NamesAssumption DEF IInv, RequestsFit, Labels, Request, NoRequest, Respond, Go

(* So does one that goes on to its next check.                             *)
LEMMA GoFits ==
  ASSUME IInv, NEW q \in Callers, NEW label \in Labels \ {"idle", "reply"},
         pc[q] \notin {"idle", "reply"}, Go(q, label), UNCHANGED req
  PROVE  RequestsFit'
  BY NamesAssumption DEF IInv, RequestsFit, Labels, Go

(* So does one that goes on with a session attached.                       *)
LEMMA AttachFits ==
  ASSUME IInv, NEW q \in Callers, NEW s \in Sids, pc[q] \notin {"idle", "reply"}, Attach(q, s)
  PROVE  RequestsFit'
<1> DEFINE r == [req[q] EXCEPT !.session = s, !.cookie = None]
<1>1. req[q] \in Request
  BY DEF IInv, RequestsFit
<1>2. r \in Request /\ r.user = req[q].user /\ r.reply = req[q].reply
  BY <1>1 DEF Request
<1>3. req' = [req EXCEPT ![q] = r]
  BY DEF Attach
<1> HIDE DEF r
<1> QED
  BY <1>2, <1>3, NamesAssumption DEF IInv, RequestsFit, Labels, Attach, Go

(* A request keeps its identity, and a reply is there when it is sent. *)
LEMMA RequestsStep == IInv /\ [Next]_vars => RequestsFit'
<1> SUFFICES ASSUME IInv, [Next]_vars PROVE RequestsFit'
  OBVIOUS
<1> USE DEF IInv, browser, limiter, RequestsFit, AttachedFits, TypeOK, Labels, Served,
        Request, NoRequest, Kinds, Changing
<1>1. ASSUME NEW q \in Callers, NEW b \in Browsers, NEW u \in Users, NEW k \in Kinds, Send(q, b, u, k)
      PROVE  RequestsFit'
  <2>1. PICK form \in forms[b] \cup {None}, cookie \in {jar[b], None} :
          req' = [req EXCEPT ![q] = [NoRequest EXCEPT !.browser = b, !.user = u,
                    !.kind = k, !.cookie = cookie, !.form = form]]
    BY <1>1 DEF Send
  <2>2. Go(q, "arrived")
    BY <1>1 DEF Send
  <2>3. form \in Sids \cup {None} /\ cookie \in Sids \cup {None}
    OBVIOUS
  <2> QED
    BY <2>1, <2>2, <2>3, NamesAssumption DEF Go
<1>2. ASSUME NEW q \in Callers, Receive(q)
      PROVE  RequestsFit'
  BY <1>2, NamesAssumption DEF Receive, Answer, Go
<1>3. ASSUME NEW q \in Callers, Lose(q)
      PROVE  RequestsFit'
  BY <1>3, NamesAssumption DEF Lose, Answer, Go
<1>4. ASSUME NEW q \in Callers, TurnAway(q)
      PROVE  RequestsFit'
  BY <1>4, NamesAssumption DEF TurnAway, Answer, Go
<1>5. ASSUME NEW q \in Callers, LookupMissing(q)
      PROVE  RequestsFit'
  <2>1. \/ Go(q, "gate") /\ UNCHANGED req
        \/ Answer(q)
    BY <1>5 DEF LookupMissing
  <2>2. pc[q] \notin {"idle", "reply"}
    BY <1>5 DEF LookupMissing
  <2> QED
    BY <2>1, <2>2, GoFits, AnswerFits, RespondFits
<1>6. ASSUME NEW q \in Callers, LookupMismatch(q)
      PROVE  RequestsFit'
  BY <1>6, NamesAssumption DEF LookupMismatch, Respond, Without, Found, Owned, Go
<1>7. ASSUME NEW q \in Callers, NEW now \in Times, LookupExpired(q, now)
      PROVE  RequestsFit'
  <2>1. \/ Go(q, "gate") /\ UNCHANGED req
        \/ Respond(q, "clear")
    BY <1>7 DEF LookupExpired
  <2>2. pc[q] \notin {"idle", "reply"}
    BY <1>7 DEF LookupExpired, Found
  <2> QED
    BY <2>1, <2>2, GoFits, AnswerFits, RespondFits
<1>8. ASSUME NEW q \in Callers, NEW now \in Times, LookupOvertaken(q, now)
      PROVE  RequestsFit'
  BY <1>8, NamesAssumption DEF LookupOvertaken, Answer, Found, Presented, Owned,
        Expired, Go
<1>9. ASSUME NEW q \in Callers, NEW now \in Times, LookupValid(q, now)
      PROVE  RequestsFit'
  BY <1>9, NamesAssumption DEF LookupValid, Attach, Found, Presented, Owned, Expired,
        Advanced, Go
<1>10. ASSUME NEW q \in Callers, NEW now \in Times, Establish(q, now)
      PROVE  RequestsFit'
  <2>1. \/ Go(q, "sweep") /\ UNCHANGED req
        \/ Answer(q)
    BY <1>10 DEF Establish
  <2>2. pc[q] \notin {"idle", "reply"}
    BY <1>10 DEF Establish
  <2> QED
    BY <2>1, <2>2, GoFits, AnswerFits
<1>11. ASSUME NEW q \in Callers, NEW now \in Times, Cleanup(q, now)
      PROVE  RequestsFit'
  BY <1>11, NamesAssumption DEF Cleanup, Go, Swept
<1>12. ASSUME NEW q \in Callers, NEW now \in Times, Create(q, now)
      PROVE  RequestsFit'
  <2>1. PICK s \in Sids : Attach(q, s)
    BY <1>12 DEF Create
  <2>2. pc[q] = "mint"
    BY <1>12 DEF Create
  <2> QED
    BY <2>1, <2>2, AttachFits
<1>13. ASSUME NEW q \in Callers, CreateFails(q)
      PROVE  RequestsFit'
  BY <1>13, NamesAssumption DEF CreateFails, Answer, Go
<1>14. ASSUME NEW q \in Callers, Check(q)
      PROVE  RequestsFit'
  <2>1. \/ Go(q, "handler") /\ UNCHANGED req
        \/ Respond(q, req[q].session)
    BY <1>14 DEF Check
  <2>2. pc[q] \notin {"idle", "reply"} /\ req[q].session \in Sids
    BY <1>14 DEF Check
  <2> QED
    BY <2>1, <2>2, GoFits, AnswerFits, RespondFits
<1>15. ASSUME NEW q \in Callers, TooLarge(q)
      PROVE  RequestsFit'
  BY <1>15, NamesAssumption DEF TooLarge, Respond, Go
<1>16. ASSUME NEW q \in Callers, Logout(q)
      PROVE  RequestsFit'
  BY <1>16, NamesAssumption DEF Logout, Respond, Without, Go
<1>17. ASSUME NEW q \in Callers, EnterExtraction(q)
      PROVE  RequestsFit'
  BY <1>17, NamesAssumption DEF EnterExtraction, Go, ItemOf, Enter
<1>18. ASSUME NEW q \in Callers, ExtractionBusy(q)
      PROVE  RequestsFit'
  BY <1>18, NamesAssumption DEF ExtractionBusy, Respond, ItemOf, Go
<1>19. ASSUME NEW q \in Callers, NEW now \in Times, Attempt(q, now)
      PROVE  RequestsFit'
  BY <1>19, NamesAssumption DEF Attempt, Go, ItemOf
<1>20. ASSUME NEW q \in Callers, LeaveExtraction(q)
      PROVE  RequestsFit'
  BY <1>20, NamesAssumption DEF LeaveExtraction, Respond, ItemOf, Leave, Go
<1>21. CASE Tick
  BY <1>21, NamesAssumption DEF Tick
<1>22. CASE Restart
  BY <1>22, NamesAssumption DEF Restart, Swept, NoEvents, NoAttempts
<1>23. CASE UNCHANGED vars
  BY <1>23 DEF vars
<1> QED
  BY <1>1, <1>2, <1>3, <1>4, <1>5, <1>6, <1>7, <1>8, <1>9, <1>10, <1>11,
     <1>12, <1>13, <1>14, <1>15, <1>16, <1>17, <1>18, <1>19, <1>20, <1>21, <1>22,
     <1>23, ReadingsAreTimes
     DEF Next, Serve, Lookup

(* The limiter's table stays within its bound. *)
LEMMA LimiterStep == IInv /\ [Next]_vars => (LimiterTypeOK /\ IsFiniteSet(DOMAIN events) /\ loop \in Times)'
<1> SUFFICES ASSUME IInv, [Next]_vars PROVE (LimiterTypeOK /\ IsFiniteSet(DOMAIN events) /\ loop \in Times)'
  OBVIOUS
<1> USE DEF IInv, browser, limiter, TypeOK, LimiterTypeOK
<1>1. ASSUME NEW q \in Callers, NEW b \in Browsers, NEW u \in Users, NEW k \in Kinds, Send(q, b, u, k)
      PROVE  (LimiterTypeOK /\ IsFiniteSet(DOMAIN events) /\ loop \in Times)'
  <2>1. since' \in [Callers -> Times]
    BY <1>1, SinceTypes DEF Send
  <2> QED
    BY <1>1, <2>1 DEF Send
<1>2. ASSUME NEW q \in Callers, Receive(q)
      PROVE  (LimiterTypeOK /\ IsFiniteSet(DOMAIN events) /\ loop \in Times)'
  <2>1. since' \in [Callers -> Times]
    BY <1>2, SinceTypes DEF Receive, Answer
  <2> QED
    BY <1>2, <2>1 DEF Receive
<1>3. ASSUME NEW q \in Callers, Lose(q)
      PROVE  (LimiterTypeOK /\ IsFiniteSet(DOMAIN events) /\ loop \in Times)'
  <2>1. since' \in [Callers -> Times]
    BY <1>3, SinceTypes DEF Lose, Answer
  <2> QED
    BY <1>3, <2>1 DEF Lose
<1>4. ASSUME NEW q \in Callers, TurnAway(q)
      PROVE  (LimiterTypeOK /\ IsFiniteSet(DOMAIN events) /\ loop \in Times)'
  <2>1. since' \in [Callers -> Times]
    BY <1>4, SinceTypes DEF TurnAway, Answer
  <2> QED
    BY <1>4, <2>1 DEF TurnAway
<1>5. ASSUME NEW q \in Callers, LookupMissing(q)
      PROVE  (LimiterTypeOK /\ IsFiniteSet(DOMAIN events) /\ loop \in Times)'
  <2>1. since' \in [Callers -> Times]
    BY <1>5, SinceTypes DEF LookupMissing, Answer
  <2> QED
    BY <1>5, <2>1 DEF LookupMissing
<1>6. ASSUME NEW q \in Callers, LookupMismatch(q)
      PROVE  (LimiterTypeOK /\ IsFiniteSet(DOMAIN events) /\ loop \in Times)'
  <2>1. since' \in [Callers -> Times]
    BY <1>6, SinceTypes DEF LookupMismatch, Respond
  <2> QED
    BY <1>6, <2>1 DEF LookupMismatch
<1>7. ASSUME NEW q \in Callers, NEW now \in Times, LookupExpired(q, now)
      PROVE  (LimiterTypeOK /\ IsFiniteSet(DOMAIN events) /\ loop \in Times)'
  <2>1. since' \in [Callers -> Times]
    BY <1>7, SinceTypes DEF LookupExpired, Respond
  <2> QED
    BY <1>7, <2>1 DEF LookupExpired
<1>8. ASSUME NEW q \in Callers, NEW now \in Times, LookupOvertaken(q, now)
      PROVE  (LimiterTypeOK /\ IsFiniteSet(DOMAIN events) /\ loop \in Times)'
  <2>1. since' \in [Callers -> Times]
    BY <1>8, SinceTypes DEF LookupOvertaken, Answer
  <2> QED
    BY <1>8, <2>1 DEF LookupOvertaken
<1>9. ASSUME NEW q \in Callers, NEW now \in Times, LookupValid(q, now)
      PROVE  (LimiterTypeOK /\ IsFiniteSet(DOMAIN events) /\ loop \in Times)'
  <2>1. since' \in [Callers -> Times]
    BY <1>9, SinceTypes DEF LookupValid, Attach
  <2> QED
    BY <1>9, <2>1 DEF LookupValid
<1>10. ASSUME NEW q \in Callers, NEW now \in Times, Establish(q, now)
      PROVE  (LimiterTypeOK /\ IsFiniteSet(DOMAIN events) /\ loop \in Times)'
  <2>1. ItemOf("session", q) \in Items
    BY <1>10, NamesAssumption DEF Establish, ItemOf, RequestsFit
  <2>2. Hit(now, ItemOf("session", q)) /\ UNCHANGED <<clock, inFlight>>
    BY <1>10 DEF Establish
  <2>3. since' \in [Callers -> Times]
    BY <1>10, SinceTypes DEF Establish, Answer
  <2>4. loop' \in Times
    BY <1>10 DEF Establish
  <2> QED
    BY <2>1, <2>2, <2>3, <2>4, HitTypes DEF LimiterTypeOK
<1>11. ASSUME NEW q \in Callers, NEW now \in Times, Cleanup(q, now)
      PROVE  (LimiterTypeOK /\ IsFiniteSet(DOMAIN events) /\ loop \in Times)'
  <2>1. since' \in [Callers -> Times]
    BY <1>11, SinceTypes DEF Cleanup
  <2> QED
    BY <1>11, <2>1 DEF Cleanup
<1>12. ASSUME NEW q \in Callers, NEW now \in Times, Create(q, now)
      PROVE  (LimiterTypeOK /\ IsFiniteSet(DOMAIN events) /\ loop \in Times)'
  <2>1. since' \in [Callers -> Times]
    BY <1>12, SinceTypes DEF Create, Attach
  <2> QED
    BY <1>12, <2>1 DEF Create
<1>13. ASSUME NEW q \in Callers, CreateFails(q)
      PROVE  (LimiterTypeOK /\ IsFiniteSet(DOMAIN events) /\ loop \in Times)'
  <2>1. since' \in [Callers -> Times]
    BY <1>13, SinceTypes DEF CreateFails, Answer
  <2> QED
    BY <1>13, <2>1 DEF CreateFails
<1>14. ASSUME NEW q \in Callers, Check(q)
      PROVE  (LimiterTypeOK /\ IsFiniteSet(DOMAIN events) /\ loop \in Times)'
  <2>1. since' \in [Callers -> Times]
    BY <1>14, SinceTypes DEF Check, Respond
  <2> QED
    BY <1>14, <2>1 DEF Check
<1>15. ASSUME NEW q \in Callers, TooLarge(q)
      PROVE  (LimiterTypeOK /\ IsFiniteSet(DOMAIN events) /\ loop \in Times)'
  <2>1. since' \in [Callers -> Times]
    BY <1>15, SinceTypes DEF TooLarge, Respond
  <2> QED
    BY <1>15, <2>1 DEF TooLarge
<1>16. ASSUME NEW q \in Callers, Logout(q)
      PROVE  (LimiterTypeOK /\ IsFiniteSet(DOMAIN events) /\ loop \in Times)'
  <2>1. since' \in [Callers -> Times]
    BY <1>16, SinceTypes DEF Logout, Respond
  <2> QED
    BY <1>16, <2>1 DEF Logout
<1>17. ASSUME NEW q \in Callers, EnterExtraction(q)
      PROVE  (LimiterTypeOK /\ IsFiniteSet(DOMAIN events) /\ loop \in Times)'
  <2>1. since' \in [Callers -> Times]
    BY <1>17, SinceTypes DEF EnterExtraction
  <2>2. ItemOf("extraction", q) \in Items
    BY <1>17, NamesAssumption DEF EnterExtraction, ItemOf, RequestsFit
  <2> QED
    BY <1>17, <2>1, <2>2 DEF EnterExtraction, Enter
<1>18. ASSUME NEW q \in Callers, ExtractionBusy(q)
      PROVE  (LimiterTypeOK /\ IsFiniteSet(DOMAIN events) /\ loop \in Times)'
  <2>1. since' \in [Callers -> Times]
    BY <1>18, SinceTypes DEF ExtractionBusy, Respond
  <2> QED
    BY <1>18, <2>1 DEF ExtractionBusy
<1>19. ASSUME NEW q \in Callers, NEW now \in Times, Attempt(q, now)
      PROVE  (LimiterTypeOK /\ IsFiniteSet(DOMAIN events) /\ loop \in Times)'
  <2>1. ItemOf("extraction", q) \in Items
    BY <1>19, NamesAssumption DEF Attempt, ItemOf, RequestsFit
  <2>2. Hit(now, ItemOf("extraction", q)) /\ UNCHANGED <<clock, inFlight>>
    BY <1>19 DEF Attempt
  <2>3. since' \in [Callers -> Times]
    BY <1>19, SinceTypes DEF Attempt, Answer
  <2>4. loop' \in Times
    BY <1>19 DEF Attempt
  <2> QED
    BY <2>1, <2>2, <2>3, <2>4, HitTypes DEF LimiterTypeOK
<1>20. ASSUME NEW q \in Callers, LeaveExtraction(q)
      PROVE  (LimiterTypeOK /\ IsFiniteSet(DOMAIN events) /\ loop \in Times)'
  <2>1. since' \in [Callers -> Times]
    BY <1>20, SinceTypes DEF LeaveExtraction, Respond
  <2>2. ItemOf("extraction", q) \in Items
    BY <1>20, NamesAssumption DEF LeaveExtraction, ItemOf, RequestsFit
  <2> QED
    BY <1>20, <2>1, <2>2 DEF LeaveExtraction, Leave
<1>21. CASE Tick
  <2>1. clock' \in Times
    BY <1>21, PolicyAssumption DEF Tick, Times
  <2> QED
    BY <1>21, <2>1 DEF Tick
<1>22. CASE Restart
  <2>1. 0 \in Times
    BY PolicyAssumption DEF Times
  <2>2. DOMAIN events' = {}
    BY <1>22 DEF Restart, NoEvents
  <2>3. IsFiniteSet(DOMAIN events') /\ Cardinality(DOMAIN events') <= MaxKeys
    BY <2>2, FS_EmptySet, PolicyAssumption
  <2>4. admitted' \in [Items -> Seq(Times)]
    BY <1>22 DEF Restart, NoAttempts
  <2> QED
    BY <1>22, <2>1, <2>2, <2>3, <2>4 DEF Restart
<1>23. CASE UNCHANGED vars
  BY <1>23 DEF vars
<1> QED
  BY <1>1, <1>2, <1>3, <1>4, <1>5, <1>6, <1>7, <1>8, <1>9, <1>10, <1>11,
     <1>12, <1>13, <1>14, <1>15, <1>16, <1>17, <1>18, <1>19, <1>20, <1>21, <1>22,
     <1>23, ReadingsAreTimes
     DEF Next, Serve, Lookup

(* The store, the cookies and the forms keep their types. *)
LEMMA StoreStep == IInv /\ [Next]_vars => StoreTypeOK'
<1> SUFFICES ASSUME IInv, [Next]_vars PROVE StoreTypeOK'
  OBVIOUS
<1> USE DEF IInv, browser, limiter, StoreTypeOK, TypeOK, RequestsFit, RowsFit
<1>1. ASSUME NEW q \in Callers, NEW b \in Browsers, NEW u \in Users, NEW k \in Kinds, Send(q, b, u, k)
      PROVE  StoreTypeOK'
  <2>1. sent' \in 0..MaxRequests
    BY <1>1, BoundAssumption DEF Send
  <2> QED
    BY <1>1, <2>1 DEF Send
<1>2. ASSUME NEW q \in Callers, Receive(q)
      PROVE  StoreTypeOK'
  BY <1>2, NamesAssumption DEF Receive, Answer, Go
<1>3. ASSUME NEW q \in Callers, Lose(q)
      PROVE  StoreTypeOK'
  BY <1>3, NamesAssumption DEF Lose, Answer, Go
<1>4. ASSUME NEW q \in Callers, TurnAway(q)
      PROVE  StoreTypeOK'
  BY <1>4, NamesAssumption DEF TurnAway, Answer, Go
<1>5. ASSUME NEW q \in Callers, LookupMissing(q)
      PROVE  StoreTypeOK'
  BY <1>5, NamesAssumption DEF LookupMissing, Go, Answer
<1>6. ASSUME NEW q \in Callers, LookupMismatch(q)
      PROVE  StoreTypeOK'
  BY <1>6, NamesAssumption DEF LookupMismatch, Respond, Without, Found, Owned, Go
<1>7. ASSUME NEW q \in Callers, NEW now \in Times, LookupExpired(q, now)
      PROVE  StoreTypeOK'
  BY <1>7, NamesAssumption DEF LookupExpired, Go, Respond, Without, Found, Presented,
        Owned, Expired
<1>8. ASSUME NEW q \in Callers, NEW now \in Times, LookupOvertaken(q, now)
      PROVE  StoreTypeOK'
  BY <1>8, NamesAssumption DEF LookupOvertaken, Answer, Found, Presented, Owned,
        Expired, Go
<1>9. ASSUME NEW q \in Callers, NEW now \in Times, LookupValid(q, now)
      PROVE  StoreTypeOK'
  <2>1. req[q].cookie \in Sids /\ Presented(q) \in Row
    BY <1>9 DEF LookupValid, Found, Presented, Request
  <2>2. Advanced(Presented(q), now) \in Row
    <3>1. /\ Presented(q).absolute \in Nat /\ now \in Nat /\ now + Idle \in Nat
      BY <2>1, LifetimeAssumption, PolicyAssumption DEF Row, Times
    <3>2. Min({now + Idle, Presented(q).absolute}) \in Nat
      BY <3>1, Lesser
    <3> QED
      BY <2>1, <3>1, <3>2 DEF Row, Advanced
  <2>3. rows' = [rows EXCEPT ![req[q].cookie] = Advanced(Presented(q), now)]
    BY <1>9 DEF LookupValid, Presented
  <2> QED
    BY <1>9, <2>1, <2>2, <2>3 DEF LookupValid
<1>10. ASSUME NEW q \in Callers, NEW now \in Times, Establish(q, now)
      PROVE  StoreTypeOK'
  BY <1>10, NamesAssumption DEF Establish, Go, Answer, ItemOf
<1>11. ASSUME NEW q \in Callers, NEW now \in Times, Cleanup(q, now)
      PROVE  StoreTypeOK'
  BY <1>11, NamesAssumption DEF Cleanup, Go, Swept
<1>12. ASSUME NEW q \in Callers, NEW now \in Times, Create(q, now)
      PROVE  StoreTypeOK'
  <2>1. PICK s \in Sids :
          /\ rows' = [rows EXCEPT ![s] =
               [user |-> req[q].user, created |-> now, seen |-> now,
                idle |-> Min({now + Idle, now + Absolute}), absolute |-> now + Absolute]]
          /\ issued' = [issued EXCEPT ![s] = req[q].user]
    BY <1>12 DEF Create
  <2>2. req[q].user \in Users
    BY <1>12 DEF Create
  <2>3. now \in Nat /\ now + Idle \in Nat /\ now + Absolute \in Nat
    BY LifetimeAssumption, PolicyAssumption DEF Times
  <2>4. Min({now + Idle, now + Absolute}) \in Nat
    BY <2>3, Lesser
  <2>5. [user |-> req[q].user, created |-> now, seen |-> now,
         idle |-> Min({now + Idle, now + Absolute}), absolute |-> now + Absolute] \in Row
    BY <2>2, <2>3, <2>4 DEF Row
  <2> QED
    BY <1>12, <2>1, <2>2, <2>5 DEF Create
<1>13. ASSUME NEW q \in Callers, CreateFails(q)
      PROVE  StoreTypeOK'
  BY <1>13, NamesAssumption DEF CreateFails, Answer, Go
<1>14. ASSUME NEW q \in Callers, Check(q)
      PROVE  StoreTypeOK'
  BY <1>14, NamesAssumption DEF Check, Go, Respond
<1>15. ASSUME NEW q \in Callers, TooLarge(q)
      PROVE  StoreTypeOK'
  BY <1>15, NamesAssumption DEF TooLarge, Respond, Go
<1>16. ASSUME NEW q \in Callers, Logout(q)
      PROVE  StoreTypeOK'
  BY <1>16, NamesAssumption DEF Logout, Respond, Without, Go
<1>17. ASSUME NEW q \in Callers, EnterExtraction(q)
      PROVE  StoreTypeOK'
  BY <1>17, NamesAssumption DEF EnterExtraction, Go, ItemOf, Enter
<1>18. ASSUME NEW q \in Callers, ExtractionBusy(q)
      PROVE  StoreTypeOK'
  BY <1>18, NamesAssumption DEF ExtractionBusy, Respond, ItemOf, Go
<1>19. ASSUME NEW q \in Callers, NEW now \in Times, Attempt(q, now)
      PROVE  StoreTypeOK'
  BY <1>19, NamesAssumption DEF Attempt, Go, ItemOf
<1>20. ASSUME NEW q \in Callers, LeaveExtraction(q)
      PROVE  StoreTypeOK'
  BY <1>20, NamesAssumption DEF LeaveExtraction, Respond, ItemOf, Leave, Go
<1>21. CASE Tick
  BY <1>21, NamesAssumption DEF Tick
<1>22. CASE Restart
  BY <1>22, NamesAssumption DEF Restart, Swept, NoEvents, NoAttempts
<1>23. CASE UNCHANGED vars
  BY <1>23 DEF vars
<1> QED
  BY <1>1, <1>2, <1>3, <1>4, <1>5, <1>6, <1>7, <1>8, <1>9, <1>10, <1>11,
     <1>12, <1>13, <1>14, <1>15, <1>16, <1>17, <1>18, <1>19, <1>20, <1>21, <1>22,
     <1>23, ReadingsAreTimes
     DEF Next, Serve, Lookup

(* A row is its owner's, and its times hang together. *)
LEMMA RowsStep == IInv /\ [Next]_vars => RowsFit'
<1> SUFFICES ASSUME IInv, [Next]_vars PROVE RowsFit'
  OBVIOUS
<1> USE DEF IInv, browser, limiter, RowsFit, TypeOK, RequestsFit
<1>1. ASSUME NEW q \in Callers, NEW b \in Browsers, NEW u \in Users, NEW k \in Kinds, Send(q, b, u, k)
      PROVE  RowsFit'
  BY <1>1, NamesAssumption DEF Send, Go
<1>2. ASSUME NEW q \in Callers, Receive(q)
      PROVE  RowsFit'
  BY <1>2, NamesAssumption DEF Receive, Answer, Go
<1>3. ASSUME NEW q \in Callers, Lose(q)
      PROVE  RowsFit'
  BY <1>3, NamesAssumption DEF Lose, Answer, Go
<1>4. ASSUME NEW q \in Callers, TurnAway(q)
      PROVE  RowsFit'
  BY <1>4, NamesAssumption DEF TurnAway, Answer, Go
<1>5. ASSUME NEW q \in Callers, LookupMissing(q)
      PROVE  RowsFit'
  BY <1>5, NamesAssumption DEF LookupMissing, Go, Answer
<1>6. ASSUME NEW q \in Callers, LookupMismatch(q)
      PROVE  RowsFit'
  BY <1>6, NamesAssumption DEF LookupMismatch, Respond, Without, Found, Owned, Go
<1>7. ASSUME NEW q \in Callers, NEW now \in Times, LookupExpired(q, now)
      PROVE  RowsFit'
  BY <1>7, NamesAssumption DEF LookupExpired, Go, Respond, Without, Found, Presented,
        Owned, Expired
<1>8. ASSUME NEW q \in Callers, NEW now \in Times, LookupOvertaken(q, now)
      PROVE  RowsFit'
  BY <1>8, NamesAssumption DEF LookupOvertaken, Answer, Found, Presented, Owned,
        Expired, Go
<1>9. ASSUME NEW q \in Callers, NEW now \in Times, LookupValid(q, now)
      PROVE  RowsFit'
  <2>1. req[q].cookie \in Sids /\ Presented(q) \in Row /\ Presented(q) # None
    BY <1>9 DEF LookupValid, Found, Presented, Request
  <2>2. /\ Presented(q).absolute \in Nat /\ now \in Nat /\ Idle \in Nat
        /\ Presented(q).idle \in Nat /\ Presented(q).seen \in Nat
    BY <2>1, LifetimeAssumption, PolicyAssumption DEF Row, Times
  <2> DEFINE new == Advanced(Presented(q), now)
  <2>3. /\ new \in Row /\ new.user = Presented(q).user /\ new.seen = now
        /\ new.created = Presented(q).created /\ new.absolute = Presented(q).absolute
        /\ new.idle <= now + Idle /\ new.idle <= new.absolute
    <3>1. Min({now + Idle, Presented(q).absolute}) \in Nat
      BY <2>2, Lesser
    <3>2. /\ Min({now + Idle, Presented(q).absolute}) <= now + Idle
          /\ Min({now + Idle, Presented(q).absolute}) <= Presented(q).absolute
      BY <2>2, Lesser
    <3> QED
      BY <2>1, <2>2, <3>1, <3>2 DEF Row, Advanced
  <2>4. rows' = [rows EXCEPT ![req[q].cookie] = new]
    BY <1>9 DEF LookupValid, Presented
  <2> HIDE DEF new
  <2> QED
    BY <1>9, <2>1, <2>3, <2>4 DEF LookupValid, Presented
<1>10. ASSUME NEW q \in Callers, NEW now \in Times, Establish(q, now)
      PROVE  RowsFit'
  BY <1>10, NamesAssumption DEF Establish, Go, Answer, ItemOf
<1>11. ASSUME NEW q \in Callers, NEW now \in Times, Cleanup(q, now)
      PROVE  RowsFit'
  BY <1>11, NamesAssumption DEF Cleanup, Go, Swept
<1>12. ASSUME NEW q \in Callers, NEW now \in Times, Create(q, now)
      PROVE  RowsFit'
  <2>1. PICK s \in Sids :
          /\ issued[s] = None
          /\ rows' = [rows EXCEPT ![s] =
               [user |-> req[q].user, created |-> now, seen |-> now,
                idle |-> Min({now + Idle, now + Absolute}), absolute |-> now + Absolute]]
          /\ issued' = [issued EXCEPT ![s] = req[q].user]
    BY <1>12 DEF Create
  <2>2. req[q].user \in Users
    BY <1>12 DEF Create, RequestsFit
  <2> DEFINE new == [user |-> req[q].user, created |-> now, seen |-> now,
                     idle |-> Min({now + Idle, now + Absolute}), absolute |-> now + Absolute]
  <2>3. /\ new \in Row /\ new.user = req[q].user /\ new.absolute = new.created + Absolute
        /\ new.idle <= new.absolute /\ new.idle <= new.seen + Idle
    <3>1. now \in Nat /\ now + Idle \in Nat /\ now + Absolute \in Nat
      BY LifetimeAssumption, PolicyAssumption DEF Times
    <3>2. Min({now + Idle, now + Absolute}) \in Nat
      BY <3>1, Lesser
    <3>3. Min({now + Idle, now + Absolute}) <= now + Idle /\ Min({now + Idle, now + Absolute}) <= now + Absolute
      BY <3>1, Lesser
    <3> QED
      BY <2>2, <3>1, <3>2, <3>3 DEF Row
  <2>4. rows' = [rows EXCEPT ![s] = new]
    BY <2>1
  <2> HIDE DEF new
  <2> QED
    BY <2>1, <2>2, <2>3, <2>4
<1>13. ASSUME NEW q \in Callers, CreateFails(q)
      PROVE  RowsFit'
  BY <1>13, NamesAssumption DEF CreateFails, Answer, Go
<1>14. ASSUME NEW q \in Callers, Check(q)
      PROVE  RowsFit'
  BY <1>14, NamesAssumption DEF Check, Go, Respond
<1>15. ASSUME NEW q \in Callers, TooLarge(q)
      PROVE  RowsFit'
  BY <1>15, NamesAssumption DEF TooLarge, Respond, Go
<1>16. ASSUME NEW q \in Callers, Logout(q)
      PROVE  RowsFit'
  BY <1>16, NamesAssumption DEF Logout, Respond, Without, Go
<1>17. ASSUME NEW q \in Callers, EnterExtraction(q)
      PROVE  RowsFit'
  BY <1>17, NamesAssumption DEF EnterExtraction, Go, ItemOf, Enter
<1>18. ASSUME NEW q \in Callers, ExtractionBusy(q)
      PROVE  RowsFit'
  BY <1>18, NamesAssumption DEF ExtractionBusy, Respond, ItemOf, Go
<1>19. ASSUME NEW q \in Callers, NEW now \in Times, Attempt(q, now)
      PROVE  RowsFit'
  BY <1>19, NamesAssumption DEF Attempt, Go, ItemOf
<1>20. ASSUME NEW q \in Callers, LeaveExtraction(q)
      PROVE  RowsFit'
  BY <1>20, NamesAssumption DEF LeaveExtraction, Respond, ItemOf, Leave, Go
<1>21. CASE Tick
  BY <1>21, NamesAssumption DEF Tick
<1>22. CASE Restart
  BY <1>22, NamesAssumption DEF Restart, Swept, NoEvents, NoAttempts
<1>23. CASE UNCHANGED vars
  BY <1>23 DEF vars
<1> QED
  BY <1>1, <1>2, <1>3, <1>4, <1>5, <1>6, <1>7, <1>8, <1>9, <1>10, <1>11,
     <1>12, <1>13, <1>14, <1>15, <1>16, <1>17, <1>18, <1>19, <1>20, <1>21, <1>22,
     <1>23, ReadingsAreTimes
     DEF Next, Serve, Lookup

(* A request acts for its identity, in its own session. *)
LEMMA AttachedStep == IInv /\ [Next]_vars => (AttachedFits /\ ActsAsItself)'
<1> SUFFICES ASSUME IInv, [Next]_vars PROVE (AttachedFits /\ ActsAsItself)'
  OBVIOUS
<1> USE DEF IInv, browser, limiter, AttachedFits, ActsAsItself, TypeOK, RequestsFit,
        RowsFit, Served, Request, NoRequest, Kinds, Changing
<1>1. ASSUME NEW q \in Callers, NEW b \in Browsers, NEW u \in Users, NEW k \in Kinds, Send(q, b, u, k)
      PROVE  (AttachedFits /\ ActsAsItself)'
  BY <1>1, NamesAssumption DEF Send, Go
<1>2. ASSUME NEW q \in Callers, Receive(q)
      PROVE  (AttachedFits /\ ActsAsItself)'
  BY <1>2, NamesAssumption DEF Receive, Answer, Go
<1>3. ASSUME NEW q \in Callers, Lose(q)
      PROVE  (AttachedFits /\ ActsAsItself)'
  BY <1>3, NamesAssumption DEF Lose, Answer, Go
<1>4. ASSUME NEW q \in Callers, TurnAway(q)
      PROVE  (AttachedFits /\ ActsAsItself)'
  BY <1>4, NamesAssumption DEF TurnAway, Answer, Go
<1>5. ASSUME NEW q \in Callers, LookupMissing(q)
      PROVE  (AttachedFits /\ ActsAsItself)'
  <2>1. pc[q] = "arrived" /\ pc'[q] \in {"gate", "idle"} /\ UNCHANGED issued
    BY <1>5 DEF LookupMissing, Go, Answer
  <2>2. \A r \in Callers : r # q => pc'[r] = pc[r] /\ req'[r] = req[r]
    BY <1>5 DEF LookupMissing, Go, Answer
  <2> QED
    BY <2>1, <2>2
<1>6. ASSUME NEW q \in Callers, LookupMismatch(q)
      PROVE  (AttachedFits /\ ActsAsItself)'
  BY <1>6, NamesAssumption DEF LookupMismatch, Respond, Without, Found, Owned, Go
<1>7. ASSUME NEW q \in Callers, NEW now \in Times, LookupExpired(q, now)
      PROVE  (AttachedFits /\ ActsAsItself)'
  BY <1>7, NamesAssumption DEF LookupExpired, Go, Respond, Without, Found, Presented,
        Owned, Expired
<1>8. ASSUME NEW q \in Callers, NEW now \in Times, LookupOvertaken(q, now)
      PROVE  (AttachedFits /\ ActsAsItself)'
  BY <1>8, NamesAssumption DEF LookupOvertaken, Answer, Found, Presented, Owned,
        Expired, Go
<1>9. ASSUME NEW q \in Callers, NEW now \in Times, LookupValid(q, now)
      PROVE  (AttachedFits /\ ActsAsItself)'
  BY <1>9, NamesAssumption DEF LookupValid, Attach, Found, Presented, Owned, Expired,
        Advanced, Go
<1>10. ASSUME NEW q \in Callers, NEW now \in Times, Establish(q, now)
      PROVE  (AttachedFits /\ ActsAsItself)'
  BY <1>10, NamesAssumption DEF Establish, Go, Answer, ItemOf
<1>11. ASSUME NEW q \in Callers, NEW now \in Times, Cleanup(q, now)
      PROVE  (AttachedFits /\ ActsAsItself)'
  BY <1>11, NamesAssumption DEF Cleanup, Go, Swept
<1>12. ASSUME NEW q \in Callers, NEW now \in Times, Create(q, now)
      PROVE  (AttachedFits /\ ActsAsItself)'
  BY <1>12, NamesAssumption DEF Create, Attach, Go
<1>13. ASSUME NEW q \in Callers, CreateFails(q)
      PROVE  (AttachedFits /\ ActsAsItself)'
  BY <1>13, NamesAssumption DEF CreateFails, Answer, Go
<1>14. ASSUME NEW q \in Callers, Check(q)
      PROVE  (AttachedFits /\ ActsAsItself)'
  BY <1>14, NamesAssumption DEF Check, Go, Respond
<1>15. ASSUME NEW q \in Callers, TooLarge(q)
      PROVE  (AttachedFits /\ ActsAsItself)'
  BY <1>15, NamesAssumption DEF TooLarge, Respond, Go
<1>16. ASSUME NEW q \in Callers, Logout(q)
      PROVE  (AttachedFits /\ ActsAsItself)'
  BY <1>16, NamesAssumption DEF Logout, Respond, Without, Go
<1>17. ASSUME NEW q \in Callers, EnterExtraction(q)
      PROVE  (AttachedFits /\ ActsAsItself)'
  BY <1>17, NamesAssumption DEF EnterExtraction, Go, ItemOf, Enter
<1>18. ASSUME NEW q \in Callers, ExtractionBusy(q)
      PROVE  (AttachedFits /\ ActsAsItself)'
  BY <1>18, NamesAssumption DEF ExtractionBusy, Respond, ItemOf, Go
<1>19. ASSUME NEW q \in Callers, NEW now \in Times, Attempt(q, now)
      PROVE  (AttachedFits /\ ActsAsItself)'
  BY <1>19, NamesAssumption DEF Attempt, Go, ItemOf
<1>20. ASSUME NEW q \in Callers, LeaveExtraction(q)
      PROVE  (AttachedFits /\ ActsAsItself)'
  BY <1>20, NamesAssumption DEF LeaveExtraction, Respond, ItemOf, Leave, Go
<1>21. CASE Tick
  BY <1>21, NamesAssumption DEF Tick
<1>22. CASE Restart
  BY <1>22, NamesAssumption DEF Restart, Swept, NoEvents, NoAttempts
<1>23. CASE UNCHANGED vars
  BY <1>23 DEF vars
<1> QED
  BY <1>1, <1>2, <1>3, <1>4, <1>5, <1>6, <1>7, <1>8, <1>9, <1>10, <1>11,
     <1>12, <1>13, <1>14, <1>15, <1>16, <1>17, <1>18, <1>19, <1>20, <1>21, <1>22,
     <1>23, ReadingsAreTimes
     DEF Next, Serve, Lookup

(* Nothing changes for a slot that no request enters or leaves. *)
LEMMA SlotKept ==
  ASSUME NEW u \in Users, SlotFor(u), <<"extraction", u>> \in inFlight' <=> <<"extraction", u>> \in inFlight,
         \A r \in Callers : Holds(r, u)' <=> Holds(r, u)
  PROVE  SlotFor(u)'
<1>1. CASE <<"extraction", u>> \notin inFlight
  BY <1>1 DEF SlotFor
<1>2. CASE <<"extraction", u>> \in inFlight
  <2>1. PICK h \in Callers : Holds(h, u) /\ \A q \in Callers : Holds(q, u) => q = h
    BY <1>2 DEF SlotFor
  <2>2. Holds(h, u)' /\ \A q \in Callers : Holds(q, u)' => q = h
    BY <2>1
  <2> QED
    BY <1>2, <2>2 DEF SlotFor
<1> QED
  BY <1>1, <1>2

(* A slot is taken and given back by one request. *)
LEMMA SlotStep == IInv /\ [Next]_vars => SlotFits'
<1> SUFFICES ASSUME IInv, [Next]_vars PROVE SlotFits'
  OBVIOUS
<1> USE DEF IInv, browser, limiter, TypeOK, RequestsFit
<1>1. ASSUME NEW q \in Callers, NEW b \in Browsers, NEW u \in Users, NEW k \in Kinds, Send(q, b, u, k)
      PROVE  SlotFits'
  <2>1. \A r \in Callers, v \in Users : Holds(r, v)' <=> Holds(r, v)
    BY <1>1 DEF Send, Go, Holds, Extracting, NoRequest
  <2>2. UNCHANGED inFlight
    BY <1>1 DEF Send
  <2> QED
    BY <2>1, <2>2, SlotKept DEF SlotFits
<1>2. ASSUME NEW q \in Callers, Receive(q)
      PROVE  SlotFits'
  <2>1. \A r \in Callers, u \in Users : Holds(r, u)' <=> Holds(r, u)
    BY <1>2 DEF Receive, Answer, Go, Holds, Extracting, NoRequest
  <2>2. UNCHANGED inFlight
    BY <1>2 DEF Receive
  <2> QED
    BY <2>1, <2>2, SlotKept DEF SlotFits
<1>3. ASSUME NEW q \in Callers, Lose(q)
      PROVE  SlotFits'
  <2>1. \A r \in Callers, u \in Users : Holds(r, u)' <=> Holds(r, u)
    BY <1>3 DEF Lose, Answer, Go, Holds, Extracting, NoRequest
  <2>2. UNCHANGED inFlight
    BY <1>3 DEF Lose
  <2> QED
    BY <2>1, <2>2, SlotKept DEF SlotFits
<1>4. ASSUME NEW q \in Callers, TurnAway(q)
      PROVE  SlotFits'
  <2>1. \A r \in Callers, u \in Users : Holds(r, u)' <=> Holds(r, u)
    BY <1>4 DEF TurnAway, Answer, Go, Holds, Extracting, NoRequest
  <2>2. UNCHANGED inFlight
    BY <1>4 DEF TurnAway
  <2> QED
    BY <2>1, <2>2, SlotKept DEF SlotFits
<1>5. ASSUME NEW q \in Callers, LookupMissing(q)
      PROVE  SlotFits'
  <2>1. \A r \in Callers, u \in Users : Holds(r, u)' <=> Holds(r, u)
    BY <1>5 DEF LookupMissing, Go, Answer, Holds, Extracting, NoRequest
  <2>2. UNCHANGED inFlight
    BY <1>5 DEF LookupMissing
  <2> QED
    BY <2>1, <2>2, SlotKept DEF SlotFits
<1>6. ASSUME NEW q \in Callers, LookupMismatch(q)
      PROVE  SlotFits'
  <2>1. \A r \in Callers, u \in Users : Holds(r, u)' <=> Holds(r, u)
    BY <1>6 DEF LookupMismatch, Respond, Found, Go, Holds, Extracting, NoRequest
  <2>2. UNCHANGED inFlight
    BY <1>6 DEF LookupMismatch
  <2> QED
    BY <2>1, <2>2, SlotKept DEF SlotFits
<1>7. ASSUME NEW q \in Callers, NEW now \in Times, LookupExpired(q, now)
      PROVE  SlotFits'
  <2>1. \A r \in Callers, u \in Users : Holds(r, u)' <=> Holds(r, u)
    BY <1>7 DEF LookupExpired, Go, Respond, Found, Holds, Extracting, NoRequest
  <2>2. UNCHANGED inFlight
    BY <1>7 DEF LookupExpired
  <2> QED
    BY <2>1, <2>2, SlotKept DEF SlotFits
<1>8. ASSUME NEW q \in Callers, NEW now \in Times, LookupOvertaken(q, now)
      PROVE  SlotFits'
  <2>1. \A r \in Callers, u \in Users : Holds(r, u)' <=> Holds(r, u)
    BY <1>8 DEF LookupOvertaken, Answer, Found, Go, Holds, Extracting, NoRequest
  <2>2. UNCHANGED inFlight
    BY <1>8 DEF LookupOvertaken
  <2> QED
    BY <2>1, <2>2, SlotKept DEF SlotFits
<1>9. ASSUME NEW q \in Callers, NEW now \in Times, LookupValid(q, now)
      PROVE  SlotFits'
  <2>1. \A r \in Callers, u \in Users : Holds(r, u)' <=> Holds(r, u)
    BY <1>9 DEF LookupValid, Attach, Found, Go, Holds, Extracting, NoRequest
  <2>2. UNCHANGED inFlight
    BY <1>9 DEF LookupValid
  <2> QED
    BY <2>1, <2>2, SlotKept DEF SlotFits
<1>10. ASSUME NEW q \in Callers, NEW now \in Times, Establish(q, now)
      PROVE  SlotFits'
  <2>1. \A r \in Callers, u \in Users : Holds(r, u)' <=> Holds(r, u)
    BY <1>10 DEF Establish, Go, Answer, Holds, Extracting, NoRequest
  <2>2. UNCHANGED inFlight
    BY <1>10 DEF Establish
  <2> QED
    BY <2>1, <2>2, SlotKept DEF SlotFits
<1>11. ASSUME NEW q \in Callers, NEW now \in Times, Cleanup(q, now)
      PROVE  SlotFits'
  <2>1. \A r \in Callers, u \in Users : Holds(r, u)' <=> Holds(r, u)
    BY <1>11 DEF Cleanup, Go, Holds, Extracting, NoRequest
  <2>2. UNCHANGED inFlight
    BY <1>11 DEF Cleanup
  <2> QED
    BY <2>1, <2>2, SlotKept DEF SlotFits
<1>12. ASSUME NEW q \in Callers, NEW now \in Times, Create(q, now)
      PROVE  SlotFits'
  <2>1. \A r \in Callers, u \in Users : Holds(r, u)' <=> Holds(r, u)
    BY <1>12 DEF Create, Attach, Go, Holds, Extracting, NoRequest
  <2>2. UNCHANGED inFlight
    BY <1>12 DEF Create
  <2> QED
    BY <2>1, <2>2, SlotKept DEF SlotFits
<1>13. ASSUME NEW q \in Callers, CreateFails(q)
      PROVE  SlotFits'
  <2>1. \A r \in Callers, u \in Users : Holds(r, u)' <=> Holds(r, u)
    BY <1>13 DEF CreateFails, Answer, Go, Holds, Extracting, NoRequest
  <2>2. UNCHANGED inFlight
    BY <1>13 DEF CreateFails
  <2> QED
    BY <2>1, <2>2, SlotKept DEF SlotFits
<1>14. ASSUME NEW q \in Callers, Check(q)
      PROVE  SlotFits'
  <2>1. \A r \in Callers, u \in Users : Holds(r, u)' <=> Holds(r, u)
    BY <1>14 DEF Check, Go, Respond, Holds, Extracting, NoRequest
  <2>2. UNCHANGED inFlight
    BY <1>14 DEF Check
  <2> QED
    BY <2>1, <2>2, SlotKept DEF SlotFits
<1>15. ASSUME NEW q \in Callers, TooLarge(q)
      PROVE  SlotFits'
  <2>1. \A r \in Callers, u \in Users : Holds(r, u)' <=> Holds(r, u)
    BY <1>15 DEF TooLarge, Respond, Go, Holds, Extracting, NoRequest
  <2>2. UNCHANGED inFlight
    BY <1>15 DEF TooLarge
  <2> QED
    BY <2>1, <2>2, SlotKept DEF SlotFits
<1>16. ASSUME NEW q \in Callers, Logout(q)
      PROVE  SlotFits'
  <2>1. \A r \in Callers, u \in Users : Holds(r, u)' <=> Holds(r, u)
    BY <1>16 DEF Logout, Respond, Go, Holds, Extracting, NoRequest
  <2>2. UNCHANGED inFlight
    BY <1>16 DEF Logout
  <2> QED
    BY <2>1, <2>2, SlotKept DEF SlotFits
<1>17. ASSUME NEW q \in Callers, EnterExtraction(q)
      PROVE  SlotFits'
  <2>0. PICK v \in Users : v = req[q].user
    BY <1>17 DEF EnterExtraction
  <2>1. /\ <<"extraction", v>> \notin inFlight
        /\ inFlight' = inFlight \cup {<<"extraction", v>>}
    BY <1>17, <2>0 DEF EnterExtraction, Enter, ItemOf
  <2>2. \A r \in Callers, u \in Users : Holds(r, u)' <=> Holds(r, u) \/ (r = q /\ u = v)
    BY <1>17, <2>0 DEF EnterExtraction, Go, Holds, Extracting
  <2>3. SlotFor(v)'
    <3>1. \A r \in Callers : ~Holds(r, v)
      BY <2>1 DEF SlotFits, SlotFor
    <3>2. Holds(q, v)' /\ \A r \in Callers : Holds(r, v)' => r = q
      BY <2>1, <2>2, <3>1
    <3> QED
      BY <2>1, <3>2 DEF SlotFor
  <2>4. ASSUME NEW u \in Users, u # v PROVE SlotFor(u)'
    <3>1. <<"extraction", u>> \in inFlight' <=> <<"extraction", u>> \in inFlight
      BY <2>1, <2>4
    <3>2. \A r \in Callers : Holds(r, u)' <=> Holds(r, u)
      BY <2>2, <2>4
    <3> QED
      BY <3>1, <3>2, SlotKept DEF SlotFits
  <2> QED
    BY <2>3, <2>4 DEF SlotFits
<1>18. ASSUME NEW q \in Callers, ExtractionBusy(q)
      PROVE  SlotFits'
  <2>1. \A r \in Callers, u \in Users : Holds(r, u)' <=> Holds(r, u)
    BY <1>18 DEF ExtractionBusy, Respond, Go, Holds, Extracting, NoRequest
  <2>2. UNCHANGED inFlight
    BY <1>18 DEF ExtractionBusy
  <2> QED
    BY <2>1, <2>2, SlotKept DEF SlotFits
<1>19. ASSUME NEW q \in Callers, NEW now \in Times, Attempt(q, now)
      PROVE  SlotFits'
  <2>1. \A r \in Callers, u \in Users : Holds(r, u)' <=> Holds(r, u)
    BY <1>19 DEF Attempt, Go, Holds, Extracting, NoRequest
  <2>2. UNCHANGED inFlight
    BY <1>19 DEF Attempt
  <2> QED
    BY <2>1, <2>2, SlotKept DEF SlotFits
<1>20. ASSUME NEW q \in Callers, LeaveExtraction(q)
      PROVE  SlotFits'
  <2>0. PICK v \in Users : v = req[q].user
    BY <1>20 DEF LeaveExtraction
  <2>1. Holds(q, v) /\ inFlight' = inFlight \ {<<"extraction", v>>}
    BY <1>20, <2>0 DEF LeaveExtraction, Leave, ItemOf, Holds, Extracting
  <2>2. \A r \in Callers, u \in Users : Holds(r, u)' <=> Holds(r, u) /\ r # q
    BY <1>20, <2>1 DEF LeaveExtraction, Respond, Go, Holds, Extracting
  <2>3. SlotFor(v)'
    <3>1. \A r \in Callers : Holds(r, v) => r = q
      BY <2>1 DEF SlotFits, SlotFor
    <3>2. \A r \in Callers : ~Holds(r, v)'
      BY <2>1, <2>2, <3>1
    <3> QED
      BY <2>1, <3>2 DEF SlotFor
  <2>4. ASSUME NEW u \in Users, u # v PROVE SlotFor(u)'
    <3>1. <<"extraction", u>> \in inFlight' <=> <<"extraction", u>> \in inFlight
      BY <2>1, <2>4
    <3>2. \A r \in Callers : Holds(r, u)' <=> Holds(r, u)
      BY <2>0, <2>1, <2>2, <2>4 DEF Holds
    <3> QED
      BY <3>1, <3>2, SlotKept DEF SlotFits
  <2> QED
    BY <2>3, <2>4 DEF SlotFits
<1>21. CASE Tick
  <2>1. \A r \in Callers, u \in Users : Holds(r, u)' <=> Holds(r, u)
    BY <1>21 DEF Tick, Holds, Extracting, NoRequest
  <2>2. UNCHANGED inFlight
    BY <1>21 DEF Tick
  <2> QED
    BY <2>1, <2>2, SlotKept DEF SlotFits
<1>22. CASE Restart
  BY <1>22 DEF Restart, SlotFits, SlotFor, Holds, Extracting
<1>23. CASE UNCHANGED vars
  <2>1. \A r \in Callers, u \in Users : Holds(r, u)' <=> Holds(r, u)
    BY <1>23 DEF vars, Holds, Extracting
  <2>2. UNCHANGED inFlight
    BY <1>23 DEF vars
  <2> QED
    BY <2>1, <2>2, SlotKept DEF SlotFits
<1> QED
  BY <1>1, <1>2, <1>3, <1>4, <1>5, <1>6, <1>7, <1>8, <1>9, <1>10, <1>11,
     <1>12, <1>13, <1>14, <1>15, <1>16, <1>17, <1>18, <1>19, <1>20, <1>21, <1>22,
     <1>23, ReadingsAreTimes
     DEF Next, Serve, Lookup

----------------------------------------------------------------------------
(* What a step may do to a session. *)
RunsOut ==
    \A s \in Sids :
      /\ issued[s] # None /\ rows[s] = None => rows'[s] = None
      /\ rows[s] # None /\ rows'[s] \notin {None, rows[s]} =>
           /\ rows'[s].seen \in rows[s].seen .. rows[s].seen + Idle - 1
           /\ rows'[s].seen < rows[s].created + Absolute
           /\ rows'[s].idle <= rows[s].created + Absolute

(* No step gives a session that has ended back its life, or a later end.   *)
LEMMA RunsOutStep == IInv /\ [Next]_vars => RunsOut
<1> SUFFICES ASSUME IInv, [Next]_vars PROVE RunsOut
  OBVIOUS
<1> USE DEF IInv, browser, limiter, RunsOut, RowsFit, TypeOK, RequestsFit
<1>1. ASSUME NEW q \in Callers, NEW b \in Browsers, NEW u \in Users, NEW k \in Kinds, Send(q, b, u, k)
      PROVE  RunsOut
  BY <1>1 DEF Send
<1>2. ASSUME NEW q \in Callers, Receive(q)
      PROVE  RunsOut
  BY <1>2 DEF Receive
<1>3. ASSUME NEW q \in Callers, Lose(q)
      PROVE  RunsOut
  BY <1>3 DEF Lose
<1>4. ASSUME NEW q \in Callers, TurnAway(q)
      PROVE  RunsOut
  BY <1>4 DEF TurnAway
<1>5. ASSUME NEW q \in Callers, LookupMissing(q)
      PROVE  RunsOut
  BY <1>5 DEF LookupMissing
<1>6. ASSUME NEW q \in Callers, LookupMismatch(q)
      PROVE  RunsOut
  BY <1>6 DEF LookupMismatch, Without
<1>7. ASSUME NEW q \in Callers, NEW now \in Times, LookupExpired(q, now)
      PROVE  RunsOut
  BY <1>7 DEF LookupExpired, Without
<1>8. ASSUME NEW q \in Callers, NEW now \in Times, LookupOvertaken(q, now)
      PROVE  RunsOut
  BY <1>8 DEF LookupOvertaken
<1>9. ASSUME NEW q \in Callers, NEW now \in Times, LookupValid(q, now)
      PROVE  RunsOut
  <2>1. req[q].cookie \in Sids /\ Presented(q) \in Row /\ Presented(q) # None
    BY <1>9 DEF LookupValid, Found, Presented, Request
  <2>2. /\ Presented(q).absolute \in Nat /\ now \in Nat /\ Idle \in Nat
        /\ Presented(q).idle \in Nat /\ Presented(q).seen \in Nat
    BY <2>1, LifetimeAssumption, PolicyAssumption DEF Row, Times
  <2> DEFINE new == Advanced(Presented(q), now)
  <2>3. /\ new \in Row /\ new.user = Presented(q).user /\ new.seen = now
        /\ new.created = Presented(q).created /\ new.absolute = Presented(q).absolute
        /\ new.idle <= now + Idle /\ new.idle <= new.absolute
    <3>1. Min({now + Idle, Presented(q).absolute}) \in Nat
      BY <2>2, Lesser
    <3>2. /\ Min({now + Idle, Presented(q).absolute}) <= now + Idle
          /\ Min({now + Idle, Presented(q).absolute}) <= Presented(q).absolute
      BY <2>2, Lesser
    <3> QED
      BY <2>1, <2>2, <3>1, <3>2 DEF Row, Advanced
  <2>4. rows' = [rows EXCEPT ![req[q].cookie] = new]
    BY <1>9 DEF LookupValid, Presented
  <2> HIDE DEF new
  <2>5. /\ Presented(q).seen <= now /\ now < Presented(q).absolute
        /\ now < Presented(q).idle
    BY <1>9, <2>2 DEF LookupValid, Expired
  <2>6. /\ Presented(q).created \in Nat /\ Absolute \in Nat
        /\ Presented(q).absolute = Presented(q).created + Absolute
        /\ Presented(q).idle <= Presented(q).seen + Idle
    BY <2>1, LifetimeAssumption DEF Row, Presented
  <2>7. /\ new.seen \in Presented(q).seen .. Presented(q).seen + Idle - 1
        /\ new.seen < Presented(q).created + Absolute
        /\ new.idle <= Presented(q).created + Absolute
    BY <2>2, <2>3, <2>5, <2>6
  <2>8. \A s \in Sids : s # req[q].cookie => rows'[s] = rows[s]
    BY <2>4
  <2>9. rows'[req[q].cookie] = new /\ rows[req[q].cookie] # None
    BY <2>1, <2>4 DEF Presented
  <2> QED
    BY <2>7, <2>8, <2>9 DEF Presented
<1>10. ASSUME NEW q \in Callers, NEW now \in Times, Establish(q, now)
      PROVE  RunsOut
  BY <1>10 DEF Establish
<1>11. ASSUME NEW q \in Callers, NEW now \in Times, Cleanup(q, now)
      PROVE  RunsOut
  BY <1>11 DEF Cleanup, Swept
<1>12. ASSUME NEW q \in Callers, NEW now \in Times, Create(q, now)
      PROVE  RunsOut
  <2>1. PICK s \in Sids : issued[s] = None /\ \A t \in Sids \ {s} : rows'[t] = rows[t]
    BY <1>12 DEF Create
  <2>2. rows[s] = None
    BY <2>1, NamesAssumption DEF Row
  <2> QED
    BY <2>1, <2>2
<1>13. ASSUME NEW q \in Callers, CreateFails(q)
      PROVE  RunsOut
  BY <1>13 DEF CreateFails
<1>14. ASSUME NEW q \in Callers, Check(q)
      PROVE  RunsOut
  BY <1>14 DEF Check
<1>15. ASSUME NEW q \in Callers, TooLarge(q)
      PROVE  RunsOut
  BY <1>15 DEF TooLarge
<1>16. ASSUME NEW q \in Callers, Logout(q)
      PROVE  RunsOut
  BY <1>16 DEF Logout, Without
<1>17. ASSUME NEW q \in Callers, EnterExtraction(q)
      PROVE  RunsOut
  BY <1>17 DEF EnterExtraction
<1>18. ASSUME NEW q \in Callers, ExtractionBusy(q)
      PROVE  RunsOut
  BY <1>18 DEF ExtractionBusy
<1>19. ASSUME NEW q \in Callers, NEW now \in Times, Attempt(q, now)
      PROVE  RunsOut
  BY <1>19 DEF Attempt
<1>20. ASSUME NEW q \in Callers, LeaveExtraction(q)
      PROVE  RunsOut
  BY <1>20 DEF LeaveExtraction
<1>21. CASE Tick
  BY <1>21 DEF Tick
<1>22. CASE Restart
  BY <1>22 DEF Restart, Swept
<1>23. CASE UNCHANGED vars
  BY <1>23 DEF vars
<1> QED
  BY <1>1, <1>2, <1>3, <1>4, <1>5, <1>6, <1>7, <1>8, <1>9, <1>10, <1>11,
     <1>12, <1>13, <1>14, <1>15, <1>16, <1>17, <1>18, <1>19, <1>20, <1>21, <1>22,
     <1>23, ReadingsAreTimes
     DEF Next, Serve, Lookup

----------------------------------------------------------------------------
(* The initial state satisfies the invariant. *)
LEMMA InitIInv == Init => IInv
<1> SUFFICES ASSUME Init PROVE IInv
  OBVIOUS
<1> USE NamesAssumption DEF Init, LimiterInit, NoEvents, NoAttempts, NoRequest
<1>1. DOMAIN events = {} /\ IsFiniteSet(DOMAIN events) /\ Cardinality(DOMAIN events) = 0
  BY FS_EmptySet
<1>2. 0 \in Times
  BY PolicyAssumption DEF Times
<1>3. LimiterTypeOK
  BY <1>1, <1>2, PolicyAssumption DEF LimiterTypeOK
<1>4. TypeOK
  BY <1>2, <1>3, BoundAssumption DEF TypeOK
<1>5. RequestsFit /\ AttachedFits /\ ActsAsItself
  BY DEF RequestsFit, AttachedFits, ActsAsItself, Labels, Request, Served
<1>6. RowsFit /\ SlotFits
  BY DEF RowsFit, SlotFits, SlotFor, Holds, Extracting
<1> QED
  BY <1>1, <1>4, <1>5, <1>6 DEF IInv

(* The parts of the type invariant together. *)
LEMMA TypeStep == IInv /\ [Next]_vars => TypeOK'
<1> SUFFICES ASSUME IInv, [Next]_vars PROVE TypeOK'
  OBVIOUS
<1>1. RequestsFit' /\ StoreTypeOK' /\ (LimiterTypeOK /\ loop \in Times)'
  BY RequestsStep, StoreStep, LimiterStep
<1>2. \A q \in Callers : /\ req'[q].session \in Sids \cup {None}
                         /\ pc'[q] = "reply" <=> req'[q].reply \in Sids \cup {"clear"}
  BY <1>1, NamesAssumption DEF RequestsFit, Request
<1> QED
  BY <1>1, <1>2 DEF TypeOK, StoreTypeOK

(* The inductive invariant of requests, sessions and slots holds throughout. *)
LEMMA IInvariant == Spec => []IInv
<1>1. IInv /\ [Next]_vars => IInv'
  BY TypeStep, LimiterStep, RequestsStep, AttachedStep, RowsStep, SlotStep DEF IInv
<1> QED
  BY InitIInv, <1>1, PTL DEF Spec

----------------------------------------------------------------------------
(* The windows of the limiter.                                             *)

Queue(i) == IF i \in DOMAIN events THEN events[i] ELSE <<>>

(* A queue is the end of what was admitted, and what is before it expired. *)
Remains(queue, a, t) ==
    \E gone \in Nat :
      /\ Len(a) = gone + Len(queue)
      /\ \A k \in 1..Len(queue) : queue[k] = a[gone + k]
      /\ \A k \in 1..gone : a[k] + Window <= t

(* Stamps do not decrease, and n + 1 attempts on, a window has passed. *)
Spaced(a, n) ==
    /\ \A j, k \in 1..Len(a) : j <= k => a[j] <= a[k]
    /\ \A k \in 1..Len(a) : k + n + 1 <= Len(a) => a[k] + Window <= a[k + n + 1]

(* An attempt stamped t can follow the others and keep them spaced. *)
Before(a, n, t) ==
    /\ \A k \in 1..Len(a) : a[k] <= t
    /\ Len(a) > n => a[Len(a) - n] + Window <= t

ItemFits(i) ==
    /\ Remains(Queue(i), admitted[i], clock)
    /\ Spaced(admitted[i], LimitOf[i])
    /\ Before(admitted[i], LimitOf[i], clock)

(* What no call has overtaken yet: the next reading for an item comes from *)
(* the event loop, or from the one request that holds the slot.            *)
GatesFit ==
    /\ \A i \in Items : ItemFits(i)
    /\ \A u \in Users : Before(admitted[<<"session", u>>], LimitOf[<<"session", u>>], loop)
    /\ \A q \in Callers, u \in Users : pc[q] = "extract" /\ req[q].user = u =>
         Before(admitted[<<"extraction", u>>], LimitOf[<<"extraction", u>>], since[q])

(* Times are natural numbers. *)
LEMMA TimesAreNaturals == Times \subseteq Nat
  BY PolicyAssumption DEF Times

(* What may follow at one time may follow later. *)
LEMMA BeforeLater ==
  ASSUME NEW a \in Seq(Nat), NEW n \in Nat, NEW t \in Nat, NEW w \in Nat, t <= w, Before(a, n, t)
  PROVE  Before(a, n, w)
<1>1. \A k \in 1..Len(a) : a[k] \in Nat
  OBVIOUS
<1>2. Window \in Nat
  BY PolicyAssumption
<1>3. \A k \in 1..Len(a) : a[k] <= w
  BY <1>1 DEF Before
<1>4. ASSUME Len(a) > n PROVE a[Len(a) - n] + Window <= w
  <2>1. a[Len(a) - n] + Window <= t
    BY <1>4 DEF Before
  <2>2. CASE n = 0
    <3>1. Len(a) \in Nat /\ Len(a) - n \in 1..Len(a)
      BY <1>4, <2>2
    <3> QED
      BY <1>1, <1>2, <2>1, <3>1
  <2>3. CASE n # 0
    <3>1. Len(a) \in Nat /\ Len(a) - n \in 1..Len(a)
      BY <1>4, <2>3
    <3> QED
      BY <1>1, <1>2, <2>1, <3>1
  <2> QED
    BY <2>2, <2>3
<1> QED
  BY <1>3, <1>4 DEF Before

(* What has expired stays so. *)
LEMMA RemainsLater ==
  ASSUME NEW a \in Seq(Nat), NEW queue \in Seq(Nat), NEW t \in Nat, NEW w \in Nat, t <= w,
         Remains(queue, a, t)
  PROVE  Remains(queue, a, w)
<1>1. PICK gone \in Nat :
        /\ Len(a) = gone + Len(queue)
        /\ \A k \in 1..Len(queue) : queue[k] = a[gone + k]
        /\ \A k \in 1..gone : a[k] + Window <= t
  BY DEF Remains
<1>2. Window \in Nat /\ Len(queue) \in Nat /\ Len(a) \in Nat
  BY PolicyAssumption
<1>3. \A k \in 1..gone : k \in 1..Len(a) /\ a[k] \in Nat
  BY <1>1, <1>2
<1>4. \A k \in 1..gone : a[k] + Window <= w
  BY <1>1, <1>2, <1>3
<1> QED
  BY <1>1, <1>4 DEF Remains

(* An attempt that may follow the others keeps them spaced. *)
LEMMA SpacedAppend ==
  ASSUME NEW a \in Seq(Nat), NEW n \in Nat, NEW t \in Nat, Spaced(a, n), Before(a, n, t)
  PROVE  Spaced(Append(a, t), n)
<1> DEFINE b == Append(a, t)
<1>1. /\ Len(b) = Len(a) + 1 /\ Len(a) \in Nat /\ b[Len(a) + 1] = t
      /\ \A k \in 1..Len(a) : b[k] = a[k] /\ a[k] \in Nat
  OBVIOUS
<1>2. Window \in Nat
  BY PolicyAssumption
<1> HIDE DEF b
<1>3. ASSUME NEW j \in 1..Len(b), NEW k \in 1..Len(b), j <= k PROVE b[j] <= b[k]
  <2>1. CASE k \in 1..Len(a)
    <3>1. j \in 1..Len(a)
      BY <1>1, <1>3, <2>1
    <3> QED
      BY <1>1, <1>3, <2>1, <3>1 DEF Spaced
  <2>2. CASE k = Len(a) + 1
    <3>1. CASE j \in 1..Len(a)
      BY <1>1, <2>2, <3>1 DEF Before
    <3>2. CASE j = Len(a) + 1
      BY <1>1, <2>2, <3>2
    <3> QED
      BY <1>1, <3>1, <3>2
  <2> QED
    BY <1>1, <2>1, <2>2
<1>4. ASSUME NEW k \in 1..Len(b), k + n + 1 <= Len(b) PROVE b[k] + Window <= b[k + n + 1]
  <2>1. k \in 1..Len(a)
    BY <1>1, <1>4
  <2>2. CASE k + n + 1 <= Len(a)
    <3>1. k + n + 1 \in 1..Len(a)
      BY <1>1, <2>1, <2>2
    <3> QED
      BY <1>1, <2>1, <2>2, <3>1 DEF Spaced
  <2>3. CASE k + n + 1 = Len(a) + 1
    <3>1. Len(a) > n /\ k = Len(a) - n
      BY <1>1, <2>1, <2>3
    <3>2. a[k] + Window <= t
      BY <3>1 DEF Before
    <3> QED
      BY <1>1, <2>1, <2>3, <3>2
  <2> QED
    BY <1>1, <1>4, <2>1, <2>2, <2>3
<1> QED
  BY <1>3, <1>4 DEF Spaced, b

(* Spaced attempts fit one window n + 1 at a time. *)
LEMMA SpacedFits ==
  ASSUME NEW a \in Seq(Nat), NEW n \in Nat, NEW t \in Nat, Spaced(a, n)
  PROVE  Cardinality({k \in DOMAIN a : a[k] <= t /\ t < a[k] + Window}) <= n + 1
<1> DEFINE K == {k \in DOMAIN a : a[k] <= t /\ t < a[k] + Window}
<1>1. DOMAIN a = 1..Len(a) /\ Len(a) \in Nat /\ Window \in Nat /\ \A k \in 1..Len(a) : a[k] \in Nat
  BY PolicyAssumption
<1>2. CASE K = {}
  <2>1. Cardinality(K) = 0
    BY <1>2, FS_EmptySet
  <2> HIDE DEF K
  <2> QED
    BY <2>1 DEF K
<1>3. CASE K # {}
  <2>1. K \subseteq Nat
    BY <1>1
  <2>2. PICK m \in K : \A y \in K : m <= y
    BY <1>3, <2>1, LeastElement
  <2>3. m \in 1..Len(a) /\ m \in Nat /\ t < a[m] + Window
    BY <1>1, <2>2
  <2>4. ASSUME NEW y \in K, y > m + n PROVE FALSE
    <3>1. y \in 1..Len(a) /\ a[y] <= t
      BY <1>1, <2>4
    <3>2. m + n + 1 <= y /\ m + n + 1 \in 1..Len(a) /\ m + n + 1 <= Len(a)
      BY <1>1, <2>3, <2>4, <3>1
    <3>3. a[m] + Window <= a[m + n + 1] /\ a[m + n + 1] <= a[y]
      BY <2>3, <3>1, <3>2 DEF Spaced
    <3>4. a[m] \in Nat /\ a[m + n + 1] \in Nat /\ a[y] \in Nat
      BY <1>1, <2>3, <3>1, <3>2
    <3> QED
      BY <1>1, <2>3, <3>1, <3>3, <3>4
  <2>5. K \subseteq m..(m + n)
    BY <2>1, <2>2, <2>3, <2>4
  <2> HIDE DEF K
  <2>6. IsFiniteSet(m..(m + n)) /\ Cardinality(m..(m + n)) = n + 1
    <3>1. m \in Int /\ m + n \in Int /\ ~(m > m + n) /\ (m + n) - m + 1 = n + 1
      BY <2>3
    <3>2. /\ IsFiniteSet(m..(m + n))
          /\ Cardinality(m..(m + n)) = IF m > m + n THEN 0 ELSE (m + n) - m + 1
      BY <3>1, FS_Interval
    <3> QED
      BY <3>1, <3>2
  <2>7. Cardinality(K) <= Cardinality(m..(m + n))
    BY <2>5, <2>6, FS_Subset
  <2> QED
    BY <2>6, <2>7 DEF K
<1> QED
  BY <1>2, <1>3

(* Pruning takes expired stamps from the head, and leaves the end. *)
LEMMA PruneRemains ==
  ASSUME NEW a \in Seq(Nat), NEW queue \in Seq(Nat), NEW now \in Nat, NEW t \in Nat, now <= t,
         Remains(queue, a, t)
  PROVE  /\ Unexpired(queue, now) \in Seq(Nat) /\ Len(Unexpired(queue, now)) <= Len(queue)
         /\ Remains(Unexpired(queue, now), a, t)
<1> DEFINE fresh == {k \in DOMAIN queue : queue[k] + Window > now}
<1>1. PICK gone \in Nat :
        /\ Len(a) = gone + Len(queue)
        /\ \A k \in 1..Len(queue) : queue[k] = a[gone + k]
        /\ \A k \in 1..gone : a[k] + Window <= t
  BY DEF Remains
<1>2. /\ DOMAIN queue = 1..Len(queue) /\ Len(queue) \in Nat /\ Len(a) \in Nat /\ Window \in Nat
      /\ \A k \in 1..Len(queue) : queue[k] \in Nat
  BY PolicyAssumption
<1>3. ASSUME NEW m \in Nat, m <= Len(queue), \A k \in 1..m : k \notin fresh
      PROVE  \A k \in 1..(gone + m) : a[k] + Window <= t
  <2> SUFFICES ASSUME NEW k \in 1..(gone + m), k > gone PROVE a[k] + Window <= t
    BY <1>1
  <2>1. k - gone \in 1..m /\ k - gone \in 1..Len(queue) /\ gone + (k - gone) = k
    BY <1>2, <1>3
  <2>2. ~(queue[k - gone] + Window > now)
    BY <1>2, <1>3, <2>1
  <2>3. queue[k - gone] = a[k] /\ queue[k - gone] \in Nat
    BY <1>1, <1>2, <2>1
  <2> QED
    BY <1>2, <2>2, <2>3
<1>4. CASE fresh = {}
  <2>1. Unexpired(queue, now) = <<>>
    BY <1>4 DEF Unexpired
  <2>2. \A k \in 1..(gone + Len(queue)) : a[k] + Window <= t
    <3> HIDE DEF fresh
    <3>1. \A k \in 1..Len(queue) : k \notin fresh
      BY <1>4
    <3>2. Len(queue) \in Nat /\ Len(queue) <= Len(queue)
      BY <1>2
    <3> QED
      BY <1>3, <3>1, <3>2
  <2>3. /\ <<>> \in Seq(Nat) /\ Len(<<>>) = 0
        /\ gone + Len(queue) \in Nat /\ Len(a) = (gone + Len(queue)) + Len(<<>>)
    BY <1>1, <1>2
  <2>4. Remains(<<>>, a, t)
    BY <2>2, <2>3 DEF Remains
  <2> QED
    BY <1>2, <2>1, <2>3, <2>4
<1>5. CASE fresh # {}
  <2>1. PICK m \in 1..Len(queue) : m = Min(fresh) /\ \A y \in fresh : m <= y
    <3>1. fresh \in SUBSET Nat /\ fresh \subseteq 1..Len(queue)
      BY <1>2
    <3> HIDE DEF fresh
    <3>2. Min(fresh) \in fresh /\ \A y \in fresh : Min(fresh) <= y
      BY <1>5, <3>1, LeastElement
    <3> QED
      BY <3>1, <3>2
  <2>2. m \in 1..Len(queue) /\ m \in Nat
    BY <2>1
  <2> DEFINE rest == SubSeq(queue, m, Len(queue))
  <2>3. Unexpired(queue, now) = rest
    BY <1>5, <2>1 DEF Unexpired
  <2>4. /\ rest \in Seq(Nat) /\ Len(rest) = Len(queue) - m + 1
        /\ \A k \in 1..Len(rest) : rest[k] = queue[m + k - 1]
    <3>1. m \in 1..(Len(queue) + 1) /\ Len(queue) \in (m - 1)..Len(queue)
      BY <1>2, <2>2
    <3>2. rest \in Seq(Nat) /\ Len(rest) = Len(queue) - m + 1
      BY <1>2, <2>2, <3>1, SubSeqProperties
    <3>3. \A k \in 1..(Len(queue) - m + 1) : rest[k] = queue[m + k - 1]
      BY <1>2, <2>2, <3>1, SubSeqProperties
    <3> HIDE DEF rest
    <3> QED
      BY <3>2, <3>3
  <2> HIDE DEF rest
  <2>5. /\ gone + (m - 1) \in Nat /\ m - 1 <= Len(queue) /\ m - 1 \in Nat
        /\ Len(a) = (gone + (m - 1)) + Len(rest)
    BY <1>1, <1>2, <2>2, <2>4
  <2>6. \A k \in 1..(m - 1) : k \notin fresh
    <3> HIDE DEF fresh
    <3>1. \A k \in 1..(m - 1) : ~(m <= k)
      BY <2>2
    <3> QED
      BY <2>1, <3>1
  <2>7. \A k \in 1..(gone + (m - 1)) : a[k] + Window <= t
    <3> HIDE DEF fresh
    <3> QED
      BY <1>3, <2>5, <2>6
  <2>8. ASSUME NEW k \in 1..Len(rest) PROVE rest[k] = a[gone + (m - 1) + k]
    <3>1. m + k - 1 \in 1..Len(queue) /\ gone + (m + k - 1) = gone + (m - 1) + k
      BY <1>2, <2>2, <2>4, <2>8
    <3> QED
      BY <1>1, <2>4, <2>8, <3>1
  <2>9. Remains(rest, a, t)
    BY <2>5, <2>7, <2>8 DEF Remains
  <2> QED
    BY <1>2, <2>2, <2>3, <2>4, <2>9
<1> QED
  BY <1>4, <1>5

(* An admitted stamp joins the queue and what was admitted. *)
LEMMA RemainsAppend ==
  ASSUME NEW a \in Seq(Nat), NEW queue \in Seq(Nat), NEW t \in Nat, NEW s \in Nat, Remains(queue, a, t)
  PROVE  Remains(Append(queue, s), Append(a, s), t)
<1>1. PICK gone \in Nat :
        /\ Len(a) = gone + Len(queue)
        /\ \A k \in 1..Len(queue) : queue[k] = a[gone + k]
        /\ \A k \in 1..gone : a[k] + Window <= t
  BY DEF Remains
<1> DEFINE b == Append(a, s)
           r == Append(queue, s)
<1>2. /\ Len(b) = Len(a) + 1 /\ Len(a) \in Nat /\ b[Len(a) + 1] = s
      /\ \A k \in 1..Len(a) : b[k] = a[k]
      /\ Len(r) = Len(queue) + 1 /\ Len(queue) \in Nat /\ r[Len(queue) + 1] = s
      /\ \A k \in 1..Len(queue) : r[k] = queue[k]
  OBVIOUS
<1> HIDE DEF b, r
<1>3. Len(b) = gone + Len(r)
  BY <1>1, <1>2
<1>4. ASSUME NEW k \in 1..Len(r) PROVE r[k] = b[gone + k]
  <2>1. CASE k \in 1..Len(queue)
    <3>1. gone + k \in 1..Len(a)
      BY <1>1, <1>2, <2>1
    <3> QED
      BY <1>1, <1>2, <2>1, <3>1
  <2>2. CASE k = Len(queue) + 1
    <3>1. gone + k = Len(a) + 1
      BY <1>1, <1>2, <2>2
    <3> QED
      BY <1>2, <2>2, <3>1
  <2> QED
    BY <1>2, <1>4, <2>1, <2>2
<1>5. \A k \in 1..gone : b[k] + Window <= t
  <2>1. \A k \in 1..gone : k \in 1..Len(a)
    BY <1>1, <1>2
  <2> QED
    BY <1>1, <1>2, <2>1
<1> QED
  BY <1>3, <1>4, <1>5 DEF Remains, b, r

(* An attempt that finds fewer than n in the queue leaves the others so far *)
(* behind that the next one may follow at the present time.                 *)
LEMMA BeforeNext ==
  ASSUME NEW a \in Seq(Nat), NEW queue \in Seq(Nat), NEW n \in Nat, NEW t \in Nat, NEW s \in Nat,
         s <= t, Before(a, n, t), Remains(queue, a, t), Len(queue) < n
  PROVE  Before(Append(a, s), n, t)
<1>1. PICK gone \in Nat :
        /\ Len(a) = gone + Len(queue)
        /\ \A k \in 1..gone : a[k] + Window <= t
  BY DEF Remains
<1> DEFINE b == Append(a, s)
<1>2. /\ Len(b) = Len(a) + 1 /\ Len(a) \in Nat /\ b[Len(a) + 1] = s /\ Len(queue) \in Nat
      /\ \A k \in 1..Len(a) : b[k] = a[k]
  OBVIOUS
<1> HIDE DEF b
<1>3. ASSUME NEW k \in 1..Len(b) PROVE b[k] <= t
  <2>1. k \in 1..Len(a) \/ k = Len(a) + 1
    BY <1>2
  <2> QED
    BY <1>2, <2>1 DEF Before
<1>4. ASSUME Len(b) > n PROVE b[Len(b) - n] + Window <= t
  <2>1. Len(b) - n \in 1..gone /\ Len(b) - n \in 1..Len(a)
    BY <1>1, <1>2, <1>4
  <2> QED
    BY <1>1, <1>2, <2>1
<1> QED
  BY <1>3, <1>4 DEF Before, b

(* A sequence of stamps is one of natural numbers. *)
LEMMA StampsAreNaturals == ASSUME NEW s \in Seq(Times) PROVE s \in Seq(Nat)
<1>1. \A k \in 1..Len(s) : s[k] \in Nat
  <2>1. \A k \in 1..Len(s) : s[k] \in Times
    OBVIOUS
  <2> QED
    BY <2>1, TimesAreNaturals
<1>2. s = [k \in 1..Len(s) |-> s[k]]
  OBVIOUS
<1> QED
  BY <1>1, <1>2, IsASeq

(* A queue holds stamps. *)
LEMMA QueueType ==
  ASSUME LimiterTypeOK, NEW i \in Items PROVE Queue(i) \in Seq(Nat)
<1>1. Queue(i) \in Seq(Times)
  <2>1. CASE i \in DOMAIN events
    BY <2>1 DEF LimiterTypeOK, Queue
  <2>2. CASE i \notin DOMAIN events
    BY <2>2 DEF Queue
  <2> QED
    BY <2>1, <2>2
<1> QED
  BY <1>1, StampsAreNaturals

(* The history of an item is one of stamps. *)
LEMMA AdmittedType ==
  ASSUME LimiterTypeOK, NEW i \in Items PROVE admitted[i] \in Seq(Nat)
<1>1. admitted[i] \in Seq(Times)
  BY DEF LimiterTypeOK
<1> QED
  BY <1>1, StampsAreNaturals

(* A reading is made between the caller's previous step and the present. *)
LEMMA ReadingTimes ==
  ASSUME IInv, NEW q \in Callers, NEW now \in Readings(q)
  PROVE  now \in Times /\ since[q] <= now /\ now <= clock
<1>1. since[q] \in Nat /\ clock \in Nat
  BY TimesAreNaturals DEF IInv, TypeOK, LimiterTypeOK
<1>2. since[q] <= now /\ now <= clock
  BY <1>1 DEF Readings
<1> QED
  BY <1>2, ReadingsAreTimes

(* Without attempts everything fits. *)
LEMMA NothingFits ==
  ASSUME NEW n \in Nat, NEW t PROVE Spaced(<<>>, n) /\ Before(<<>>, n, t) /\ Remains(<<>>, <<>>, t)
<1>1. Len(<<>>) = 0 /\ 1..0 = {} /\ ~(0 > n) /\ 0 \in Nat /\ 0 = 0 + 0
  OBVIOUS
<1>2. Spaced(<<>>, n)
  BY <1>1 DEF Spaced
<1>3. Before(<<>>, n, t)
  BY <1>1 DEF Before
<1>4. Remains(<<>>, <<>>, t)
  BY <1>1 DEF Remains
<1> QED
  BY <1>2, <1>3, <1>4

(* An attempt, admitted or not, keeps every item's attempts spaced.        *)
LEMMA HitFits ==
  ASSUME LimiterTypeOK, NEW now \in Times, now <= clock, NEW i \in Items, Hit(now, i), UNCHANGED clock,
         \A j \in Items : ItemFits(j), Before(admitted[i], LimitOf[i], now)
  PROVE  (\A j \in Items : ItemFits(j)') /\ \A j \in Items \ {i} : admitted'[j] = admitted[j]
<1> DEFINE kept == Prune(now)
           K(j) == IF j \in DOMAIN kept THEN kept[j] ELSE <<>>
<1>1. now \in Nat /\ clock \in Nat /\ \A j \in Items : LimitOf[j] \in Nat \ {0}
  BY TimesAreNaturals, PolicyAssumption DEF LimiterTypeOK
<1>2. ASSUME NEW j \in Items
      PROVE  /\ admitted[j] \in Seq(Nat) /\ K(j) \in Seq(Nat)
             /\ Remains(K(j), admitted[j], clock)
  <2>1. admitted[j] \in Seq(Nat)
    BY TimesAreNaturals DEF LimiterTypeOK
  <2>2. Queue(j) \in Seq(Nat)
    BY QueueType
  <2>3. /\ Unexpired(Queue(j), now) \in Seq(Nat)
        /\ Len(Unexpired(Queue(j), now)) <= Len(Queue(j))
        /\ Remains(Unexpired(Queue(j), now), admitted[j], clock)
    BY <1>1, <2>1, <2>2, PruneRemains DEF ItemFits
  <2>4. K(j) = Unexpired(Queue(j), now)
    <3>1. CASE j \in DOMAIN events
      BY <3>1 DEF Prune, Queue
    <3>2. CASE j \notin DOMAIN events
      <4>1. Queue(j) = <<>> /\ K(j) = <<>>
        BY <3>2 DEF Prune, Queue
      <4>2. Unexpired(<<>>, now) = <<>>
        BY <2>3, <4>1
      <4> QED
        BY <4>1, <4>2
    <3> QED
      BY <3>1, <3>2
  <2> QED
    BY <2>1, <2>3, <2>4
<1>3. CASE Admits(now, i)
  <2>1. /\ events' = [j \in DOMAIN kept \cup {i} |-> IF j = i THEN Append(K(i), now) ELSE kept[j]]
        /\ admitted' = [admitted EXCEPT ![i] = Append(@, now)]
    BY <1>3 DEF Hit
  <2>2. Len(K(i)) < LimitOf[i]
    <3>1. CASE i \in DOMAIN kept
      BY <1>3, <3>1 DEF Admits
    <3>2. CASE i \notin DOMAIN kept
      <4>1. K(i) = <<>>
        BY <3>2
      <4> QED
        BY <1>1, <4>1
    <3> QED
      BY <3>1, <3>2
  <2>3. \A j \in Items : admitted'[j] = IF j = i THEN Append(admitted[i], now) ELSE admitted[j]
    BY <2>1 DEF LimiterTypeOK
  <2>4. \A j \in Items : Queue(j)' = IF j = i THEN Append(K(i), now) ELSE K(j)
    BY <2>1 DEF Queue
  <2> HIDE DEF K, kept
  <2>5. ItemFits(i)'
    <3>1. /\ admitted[i] \in Seq(Nat) /\ K(i) \in Seq(Nat) /\ LimitOf[i] \in Nat
          /\ Remains(K(i), admitted[i], clock)
          /\ Spaced(admitted[i], LimitOf[i]) /\ Before(admitted[i], LimitOf[i], clock)
      BY <1>1, <1>2 DEF ItemFits
    <3>2. Spaced(Append(admitted[i], now), LimitOf[i])
      BY <1>1, <3>1, SpacedAppend
    <3>3. Remains(Append(K(i), now), Append(admitted[i], now), clock)
      BY <1>1, <3>1, RemainsAppend
    <3>4. Before(Append(admitted[i], now), LimitOf[i], clock)
      BY <1>1, <2>2, <3>1, BeforeNext
    <3>5. Queue(i)' = Append(K(i), now) /\ admitted'[i] = Append(admitted[i], now)
      BY <2>3, <2>4
    <3> QED
      BY <3>2, <3>3, <3>4, <3>5 DEF ItemFits
  <2>6. ASSUME NEW j \in Items \ {i} PROVE ItemFits(j)'
    <3>1. Queue(j)' = K(j) /\ admitted'[j] = admitted[j]
      BY <2>3, <2>4
    <3> QED
      BY <1>2, <3>1 DEF ItemFits
  <2> QED
    BY <2>3, <2>5, <2>6
<1>4. CASE ~Admits(now, i)
  <2>1. events' = kept /\ admitted' = admitted
    BY <1>4 DEF Hit
  <2>2. \A j \in Items : Queue(j)' = K(j)
    BY <2>1 DEF Queue
  <2> HIDE DEF K, kept
  <2>3. ASSUME NEW j \in Items PROVE ItemFits(j)'
    BY <1>2, <2>1, <2>2 DEF ItemFits
  <2> QED
    BY <2>1, <2>3
<1> QED
  BY <1>3, <1>4

(* A request that comes to the limiter reads the clock from now on. *)
Arrives(q) == pc'[q] = "extract" =>
    \/ since'[q] = clock
    \/ pc[q] = "extract" /\ req'[q].user = req[q].user /\ since'[q] = since[q]

(* Nothing else but an attempt changes what may follow. *)
LEMMA GatesKept ==
  ASSUME IInv, GatesFit, UNCHANGED <<clock, events, admitted, loop>>,
         \A q \in Callers : Arrives(q)
  PROVE  GatesFit'
<1>1. \A i \in Items : ItemFits(i)'
  BY DEF GatesFit, ItemFits, Queue
<1>2. \A u \in Users : Before(admitted[<<"session", u>>], LimitOf[<<"session", u>>], loop)'
  BY DEF GatesFit
<1>3. ASSUME NEW q \in Callers, NEW u \in Users, pc'[q] = "extract", req'[q].user = u
      PROVE  Before(admitted[<<"extraction", u>>], LimitOf[<<"extraction", u>>], since'[q])
  <2>1. <<"extraction", u>> \in Items
    BY NamesAssumption
  <2>2. CASE since'[q] = clock
    BY <2>1, <2>2 DEF GatesFit, ItemFits
  <2>3. CASE pc[q] = "extract" /\ req'[q].user = req[q].user /\ since'[q] = since[q]
    BY <1>3, <2>3 DEF GatesFit
  <2> QED
    BY <1>3, <2>2, <2>3 DEF Arrives
<1> QED
  BY <1>1, <1>2, <1>3 DEF GatesFit

(* A step of one request brings it to the limiter, and no other. *)
LEMMA GoArrives ==
  ASSUME IInv, NEW q \in Callers, NEW label, Go(q, label),
         \A r \in Callers : r # q => req'[r] = req[r]
  PROVE  \A r \in Callers : Arrives(r)
  BY DEF IInv, TypeOK, LimiterTypeOK, RequestsFit, Go, Arrives, Reading

(* The next reading for an item is late enough, whoever makes it. *)
LEMMA GatesStep == IInv /\ GatesFit /\ [Next]_vars => GatesFit'
<1> SUFFICES ASSUME IInv, GatesFit, [Next]_vars PROVE GatesFit'
  OBVIOUS
<1>1. ASSUME NEW q \in Callers, NEW b \in Browsers, NEW u \in Users, NEW k \in Kinds, Send(q, b, u, k)
      PROVE  GatesFit'
  <2>1. UNCHANGED <<clock, events, admitted, loop>>
    BY <1>1 DEF Send, limiter
  <2>2. \A r \in Callers : Arrives(r)
    BY <1>1, GoArrives DEF Send, IInv, RequestsFit
  <2> QED
    BY <2>1, <2>2, GatesKept
<1>2. ASSUME NEW q \in Callers, Receive(q)
      PROVE  GatesFit'
  <2>1. UNCHANGED <<clock, events, admitted, loop>>
    BY <1>2 DEF Receive, limiter
  <2>2. \A r \in Callers : Arrives(r)
    BY <1>2, GoArrives DEF Receive, Answer, IInv, RequestsFit
  <2> QED
    BY <2>1, <2>2, GatesKept
<1>3. ASSUME NEW q \in Callers, Lose(q)
      PROVE  GatesFit'
  <2>1. UNCHANGED <<clock, events, admitted, loop>>
    BY <1>3 DEF Lose, limiter
  <2>2. \A r \in Callers : Arrives(r)
    BY <1>3, GoArrives DEF Lose, Answer, IInv, RequestsFit
  <2> QED
    BY <2>1, <2>2, GatesKept
<1>4. ASSUME NEW q \in Callers, TurnAway(q)
      PROVE  GatesFit'
  <2>1. UNCHANGED <<clock, events, admitted, loop>>
    BY <1>4 DEF TurnAway, limiter
  <2>2. \A r \in Callers : Arrives(r)
    BY <1>4, GoArrives DEF TurnAway, Answer, IInv, RequestsFit
  <2> QED
    BY <2>1, <2>2, GatesKept
<1>5. ASSUME NEW q \in Callers, LookupMissing(q)
      PROVE  GatesFit'
  <2>1. UNCHANGED <<clock, events, admitted, loop>>
    BY <1>5 DEF LookupMissing, limiter
  <2>2. \A r \in Callers : Arrives(r)
    BY <1>5, GoArrives DEF LookupMissing, Answer, IInv, RequestsFit
  <2> QED
    BY <2>1, <2>2, GatesKept
<1>6. ASSUME NEW q \in Callers, LookupMismatch(q)
      PROVE  GatesFit'
  <2>1. UNCHANGED <<clock, events, admitted, loop>>
    BY <1>6 DEF LookupMismatch, limiter
  <2>2. \A r \in Callers : Arrives(r)
    BY <1>6, GoArrives DEF LookupMismatch, Respond, IInv, RequestsFit
  <2> QED
    BY <2>1, <2>2, GatesKept
<1>7. ASSUME NEW q \in Callers, NEW now \in Times, LookupExpired(q, now)
      PROVE  GatesFit'
  <2>1. UNCHANGED <<clock, events, admitted, loop>>
    BY <1>7 DEF LookupExpired, limiter
  <2>2. \A r \in Callers : Arrives(r)
    BY <1>7, GoArrives DEF LookupExpired, Respond, IInv, RequestsFit
  <2> QED
    BY <2>1, <2>2, GatesKept
<1>8. ASSUME NEW q \in Callers, NEW now \in Times, LookupOvertaken(q, now)
      PROVE  GatesFit'
  <2>1. UNCHANGED <<clock, events, admitted, loop>>
    BY <1>8 DEF LookupOvertaken, limiter
  <2>2. \A r \in Callers : Arrives(r)
    BY <1>8, GoArrives DEF LookupOvertaken, Answer, IInv, RequestsFit
  <2> QED
    BY <2>1, <2>2, GatesKept
<1>9. ASSUME NEW q \in Callers, NEW now \in Times, LookupValid(q, now)
      PROVE  GatesFit'
  <2>1. UNCHANGED <<clock, events, admitted, loop>>
    BY <1>9 DEF LookupValid, limiter
  <2>2. \A r \in Callers : Arrives(r)
    BY <1>9, GoArrives DEF LookupValid, Attach, IInv, RequestsFit
  <2> QED
    BY <2>1, <2>2, GatesKept
<1>10. ASSUME NEW q \in Callers, NEW now \in Readings(q), Establish(q, now)
      PROVE  GatesFit'
  <2> DEFINE i == ItemOf("session", q)
  <2>1. PICK u \in Users : u = req[q].user /\ i = <<"session", u>>
    BY <1>10 DEF Establish, ItemOf, IInv, RequestsFit
  <2>2. i \in Items /\ LimitOf[i] \in Nat /\ now \in Times /\ now <= clock
    BY <2>1, ReadingTimes, NamesAssumption, PolicyAssumption
  <2>3. Hit(now, i) /\ UNCHANGED clock /\ loop' = clock /\ loop <= now
    BY <1>10, <2>2 DEF Establish
  <2>4. LimiterTypeOK /\ \A j \in Items : ItemFits(j)
    BY DEF IInv, TypeOK, GatesFit
  <2>5. Before(admitted[i], LimitOf[i], now)
    <3>1. admitted[i] \in Seq(Nat) /\ loop \in Nat /\ now \in Nat
      BY <2>2, <2>4, AdmittedType, TimesAreNaturals DEF IInv, TypeOK
    <3>2. Before(admitted[i], LimitOf[i], loop)
      BY <2>1 DEF GatesFit
    <3> QED
      BY <2>2, <2>3, <3>1, <3>2, BeforeLater
  <2>6. /\ \A j \in Items : ItemFits(j)'
        /\ \A j \in Items \ {i} : admitted'[j] = admitted[j]
    <3> HIDE DEF i
    <3> QED
      BY <2>2, <2>3, <2>4, <2>5, HitFits
  <2>7. \A v \in Users : Before(admitted[<<"session", v>>], LimitOf[<<"session", v>>], loop)'
    <3>1. \A v \in Users : <<"session", v>> \in Items
      BY NamesAssumption
    <3> QED
      BY <2>3, <2>6, <3>1 DEF ItemFits
  <2>8. ASSUME NEW r \in Callers, NEW v \in Users, pc'[r] = "extract", req'[r].user = v
        PROVE  Before(admitted'[<<"extraction", v>>], LimitOf[<<"extraction", v>>], since'[r])
    <3>1. <<"extraction", v>> \in Items \ {i}
      BY <2>1, NamesAssumption
    <3>2. pc[r] = "extract" /\ req[r].user = v /\ since'[r] = since[r]
      BY <1>10, <2>8 DEF Establish, Answer, Go, IInv, RequestsFit, TypeOK, LimiterTypeOK
    <3> QED
      BY <2>6, <3>1, <3>2 DEF GatesFit
  <2> QED
    BY <2>6, <2>7, <2>8 DEF GatesFit
<1>11. ASSUME NEW q \in Callers, NEW now \in Times, Cleanup(q, now)
      PROVE  GatesFit'
  <2>1. UNCHANGED <<clock, events, admitted, loop>>
    BY <1>11 DEF Cleanup, limiter
  <2>2. \A r \in Callers : Arrives(r)
    BY <1>11, GoArrives DEF Cleanup, IInv, RequestsFit
  <2> QED
    BY <2>1, <2>2, GatesKept
<1>12. ASSUME NEW q \in Callers, NEW now \in Times, Create(q, now)
      PROVE  GatesFit'
  <2>1. UNCHANGED <<clock, events, admitted, loop>>
    BY <1>12 DEF Create, limiter
  <2>2. \A r \in Callers : Arrives(r)
    BY <1>12, GoArrives DEF Create, Attach, IInv, RequestsFit
  <2> QED
    BY <2>1, <2>2, GatesKept
<1>13. ASSUME NEW q \in Callers, CreateFails(q)
      PROVE  GatesFit'
  <2>1. UNCHANGED <<clock, events, admitted, loop>>
    BY <1>13 DEF CreateFails, limiter
  <2>2. \A r \in Callers : Arrives(r)
    BY <1>13, GoArrives DEF CreateFails, Answer, IInv, RequestsFit
  <2> QED
    BY <2>1, <2>2, GatesKept
<1>14. ASSUME NEW q \in Callers, Check(q)
      PROVE  GatesFit'
  <2>1. UNCHANGED <<clock, events, admitted, loop>>
    BY <1>14 DEF Check, limiter
  <2>2. \A r \in Callers : Arrives(r)
    BY <1>14, GoArrives DEF Check, Respond, IInv, RequestsFit
  <2> QED
    BY <2>1, <2>2, GatesKept
<1>15. ASSUME NEW q \in Callers, TooLarge(q)
      PROVE  GatesFit'
  <2>1. UNCHANGED <<clock, events, admitted, loop>>
    BY <1>15 DEF TooLarge, limiter
  <2>2. \A r \in Callers : Arrives(r)
    BY <1>15, GoArrives DEF TooLarge, Respond, IInv, RequestsFit
  <2> QED
    BY <2>1, <2>2, GatesKept
<1>16. ASSUME NEW q \in Callers, Logout(q)
      PROVE  GatesFit'
  <2>1. UNCHANGED <<clock, events, admitted, loop>>
    BY <1>16 DEF Logout, limiter
  <2>2. \A r \in Callers : Arrives(r)
    BY <1>16, GoArrives DEF Logout, Respond, IInv, RequestsFit
  <2> QED
    BY <2>1, <2>2, GatesKept
<1>17. ASSUME NEW q \in Callers, EnterExtraction(q)
      PROVE  GatesFit'
  <2>1. UNCHANGED <<clock, events, admitted, loop>>
    BY <1>17 DEF EnterExtraction, limiter
  <2>2. \A r \in Callers : Arrives(r)
    BY <1>17, GoArrives DEF EnterExtraction, IInv, RequestsFit
  <2> QED
    BY <2>1, <2>2, GatesKept
<1>18. ASSUME NEW q \in Callers, ExtractionBusy(q)
      PROVE  GatesFit'
  <2>1. UNCHANGED <<clock, events, admitted, loop>>
    BY <1>18 DEF ExtractionBusy, limiter
  <2>2. \A r \in Callers : Arrives(r)
    BY <1>18, GoArrives DEF ExtractionBusy, Respond, IInv, RequestsFit
  <2> QED
    BY <2>1, <2>2, GatesKept
<1>19. ASSUME NEW q \in Callers, NEW now \in Readings(q), Attempt(q, now)
      PROVE  GatesFit'
  <2> DEFINE i == ItemOf("extraction", q)
  <2>1. PICK u \in Users : u = req[q].user /\ i = <<"extraction", u>>
    BY <1>19 DEF Attempt, ItemOf, IInv, RequestsFit
  <2>2. /\ i \in Items /\ LimitOf[i] \in Nat /\ now \in Times /\ now <= clock
        /\ since[q] <= now /\ since[q] \in Nat /\ now \in Nat
    BY <2>1, ReadingTimes, TimesAreNaturals, NamesAssumption, PolicyAssumption
       DEF IInv, TypeOK, LimiterTypeOK
  <2>3. Hit(now, i) /\ UNCHANGED <<clock, loop>> /\ pc[q] = "extract"
    BY <1>19 DEF Attempt
  <2>4. LimiterTypeOK /\ \A j \in Items : ItemFits(j)
    BY DEF IInv, TypeOK, GatesFit
  <2>5. Before(admitted[i], LimitOf[i], now)
    <3>1. admitted[i] \in Seq(Nat)
      BY <2>2, <2>4, AdmittedType
    <3>2. Before(admitted[i], LimitOf[i], since[q])
      BY <2>1, <2>3 DEF GatesFit
    <3> QED
      BY <2>2, <3>1, <3>2, BeforeLater
  <2>6. /\ \A j \in Items : ItemFits(j)'
        /\ \A j \in Items \ {i} : admitted'[j] = admitted[j]
    <3> HIDE DEF i
    <3> QED
      BY <2>2, <2>3, <2>4, <2>5, HitFits
  <2>7. \A v \in Users : Before(admitted[<<"session", v>>], LimitOf[<<"session", v>>], loop)'
    <3>1. \A v \in Users : <<"session", v>> \in Items \ {i}
      BY <2>1, NamesAssumption
    <3> QED
      BY <2>3, <2>6, <3>1 DEF GatesFit
  <2>8. ASSUME NEW r \in Callers, NEW v \in Users, pc'[r] = "extract", req'[r].user = v
        PROVE  Before(admitted'[<<"extraction", v>>], LimitOf[<<"extraction", v>>], since'[r])
    <3>1. /\ r # q /\ pc[r] = "extract" /\ req[r].user = v /\ since'[r] = since[r]
      BY <1>19, <2>8 DEF Attempt, Go, IInv, RequestsFit, TypeOK, LimiterTypeOK
    <3>2. v # u
      BY <2>1, <2>3, <3>1 DEF IInv, SlotFits, SlotFor, Holds, Extracting
    <3>3. <<"extraction", v>> \in Items \ {i}
      BY <2>1, <3>2, NamesAssumption
    <3> QED
      BY <2>6, <3>1, <3>3 DEF GatesFit
  <2> QED
    BY <2>6, <2>7, <2>8 DEF GatesFit
<1>20. ASSUME NEW q \in Callers, LeaveExtraction(q)
      PROVE  GatesFit'
  <2>1. UNCHANGED <<clock, events, admitted, loop>>
    BY <1>20 DEF LeaveExtraction, limiter
  <2>2. \A r \in Callers : Arrives(r)
    BY <1>20, GoArrives DEF LeaveExtraction, Respond, IInv, RequestsFit
  <2> QED
    BY <2>1, <2>2, GatesKept
<1>21. CASE Tick
  <2>1. UNCHANGED <<events, admitted, loop, since, pc, req>> /\ clock \in Nat /\ clock' \in Nat /\ clock <= clock'
    BY <1>21, TimesAreNaturals DEF Tick, limiter, IInv, TypeOK, LimiterTypeOK
  <2>2. ASSUME NEW i \in Items PROVE ItemFits(i)'
    <3>1. ItemFits(i) /\ admitted[i] \in Seq(Nat) /\ Queue(i) \in Seq(Nat) /\ LimitOf[i] \in Nat
      BY AdmittedType, QueueType, PolicyAssumption DEF GatesFit, IInv, TypeOK
    <3>2. Remains(Queue(i), admitted[i], clock') /\ Before(admitted[i], LimitOf[i], clock')
      BY <2>1, <3>1, RemainsLater, BeforeLater DEF ItemFits
    <3>3. Queue(i)' = Queue(i)
      BY <2>1 DEF Queue
    <3> QED
      BY <2>1, <3>1, <3>2, <3>3 DEF ItemFits
  <2> QED
    BY <2>1, <2>2 DEF GatesFit
<1>22. CASE Restart
  <2>1. /\ \A i \in Items : Queue(i)' = <<>> /\ admitted'[i] = <<>>
        /\ \A q \in Callers : pc'[q] = "idle"
    BY <1>22 DEF Restart, Queue, NoEvents, NoAttempts
  <2>2. \A i \in Items : LimitOf[i] \in Nat
    BY PolicyAssumption
  <2>3. \A n \in Nat : \A t : Spaced(<<>>, n) /\ Before(<<>>, n, t) /\ Remains(<<>>, <<>>, t)
    BY NothingFits
  <2>4. \A i \in Items : ItemFits(i)'
    BY <2>1, <2>2, <2>3 DEF ItemFits
  <2>5. \A u \in Users : <<"session", u>> \in Items
    BY NamesAssumption
  <2> QED
    BY <2>1, <2>2, <2>3, <2>4, <2>5 DEF GatesFit
<1>23. CASE UNCHANGED vars
  <2>1. UNCHANGED <<clock, events, admitted, loop>> /\ \A r \in Callers : Arrives(r)
    BY <1>23 DEF vars, limiter, Arrives
  <2> QED
    BY <2>1, GatesKept
<1> QED
  BY <1>1, <1>2, <1>3, <1>4, <1>5, <1>6, <1>7, <1>8, <1>9, <1>10, <1>11,
     <1>12, <1>13, <1>14, <1>15, <1>16, <1>17, <1>18, <1>19, <1>20, <1>21, <1>22,
     <1>23, ReadingsAreTimes
     DEF Next, Serve, Lookup

(* Before the first attempt there is room for it. *)
LEMMA InitGates == Init => GatesFit
<1> SUFFICES ASSUME Init PROVE GatesFit
  OBVIOUS
<1>1. /\ \A i \in Items : Queue(i) = <<>> /\ admitted[i] = <<>>
      /\ \A q \in Callers : pc[q] = "idle"
  BY DEF Init, LimiterInit, Queue, NoEvents, NoAttempts
<1>2. \A i \in Items : LimitOf[i] \in Nat
  BY PolicyAssumption
<1>3. \A n \in Nat : \A t : Spaced(<<>>, n) /\ Before(<<>>, n, t) /\ Remains(<<>>, <<>>, t)
  BY NothingFits
<1>4. \A i \in Items : ItemFits(i)
  BY <1>1, <1>2, <1>3 DEF ItemFits
<1>5. \A u \in Users : <<"session", u>> \in Items
  BY NamesAssumption
<1> QED
  BY <1>1, <1>2, <1>3, <1>4, <1>5 DEF GatesFit

----------------------------------------------------------------------------
(* Theorems. *)

(* Every variable keeps its type, and the limiter's table never holds more  *)
(* than max_keys items, whatever the order of the calls (rate_limit.py).    *)
THEOREM TypeCorrect == Spec => []TypeOK
<1>1. IInv => TypeOK
  BY DEF IInv
<1> QED
  BY IInvariant, <1>1, PTL

(* The boundary lets a state-changing handler run only for the identity its *)
(* session was created for, on a form of that very session (security.py).   *)
THEOREM NobodyActsForAnother == Spec => []ActsAsItself
<1>1. IInv => ActsAsItself
  BY DEF IInv
<1> QED
  BY IInvariant, <1>1, PTL

(* one_in_flight: an identity's slot has one holder while it is taken, and  *)
(* none when it is free (rate_limit.py).                                    *)
THEOREM SlotIsHeldOnce == Spec => []SlotHasOneHolder
<1>1. ASSUME IInv PROVE SlotHasOneHolder
  <2> SUFFICES ASSUME NEW u \in Users
               PROVE  Cardinality({q \in Callers : Extracting(q) /\ req[q].user = u})
                        = IF <<"extraction", u>> \in inFlight THEN 1 ELSE 0
    BY DEF SlotHasOneHolder
  <2> DEFINE H == {q \in Callers : Extracting(q) /\ req[q].user = u}
  <2>1. SlotFor(u)
    BY <1>1 DEF IInv, SlotFits
  <2>2. CASE <<"extraction", u>> \notin inFlight
    <3>1. H = {}
      BY <2>1, <2>2 DEF SlotFor, Holds
    <3> QED
      BY <2>2, <3>1, FS_EmptySet
  <2>3. CASE <<"extraction", u>> \in inFlight
    <3>1. PICK h \in Callers : H = {h}
      BY <2>1, <2>3 DEF SlotFor, Holds
    <3> QED
      BY <2>3, <3>1, FS_Singleton
  <2> QED
    BY <2>2, <2>3
<1> QED
  BY IInvariant, <1>1, PTL

(* hit: whatever the overlaps of the callers, no window of an item holds    *)
(* more than its limit and one (rate_limit.py).                             *)
THEOREM WindowsHold == Spec => []GatesHold
<1>1. IInv /\ GatesFit /\ [Next]_vars => GatesFit'
  BY GatesStep
<1>2. Spec => []GatesFit
  BY InitGates, IInvariant, <1>1, PTL DEF Spec
<1>3. ASSUME IInv, GatesFit PROVE GatesHold
  <2> SUFFICES ASSUME NEW i \in Items, NEW t \in Times PROVE AdmittedIn(i, t) <= LimitOf[i] + 1
    BY DEF GatesHold
  <2>1. admitted[i] \in Seq(Nat) /\ t \in Nat /\ LimitOf[i] \in Nat
    BY <1>3, AdmittedType, TimesAreNaturals, PolicyAssumption DEF IInv, TypeOK
  <2>2. Spaced(admitted[i], LimitOf[i])
    BY <1>3 DEF GatesFit, ItemFits
  <2> QED
    BY <2>1, <2>2, SpacedFits DEF AdmittedIn
<1> QED
  BY IInvariant, <1>2, <1>3, PTL

(* lookup and delete_hash: a session that has ended never returns, and none *)
(* is used beyond its idle or its absolute lifetime (sessions.py).          *)
THEOREM SessionsEnd == Spec => SessionsRunOut
<1>1. IInv /\ [Next]_vars => [RunsOut]_vars
  BY RunsOutStep
<1>2. Spec => [][RunsOut]_vars
  BY IInvariant, <1>1, PTL DEF Spec
<1> QED
  BY <1>2 DEF SessionsRunOut, RunsOut
=============================================================================
