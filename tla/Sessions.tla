------------------------------ MODULE Sessions ------------------------------
(***************************************************************************)
(* Browser sessions of the research console: ConsoleSecurityMiddleware     *)
(* (src/ledger/console/security.py) over ConsoleSessionStore               *)
(* (src/ledger/console/sessions.py), with the handlers of                  *)
(* src/ledger/console/app.py that end a session or pass the limiter.       *)
(*                                                                         *)
(* A request holds no lock while it goes through the boundary: it reads a  *)
(* clock, makes one transaction, reads a clock again, and so on, and other *)
(* requests of the same browser are served in between.  Responses reach    *)
(* the browser in any order, or never.  The wall clock may be set back.    *)
(***************************************************************************)
EXTENDS RateLimit

CONSTANTS
    Browsers,
    Users,          \* identities Tailscale asserts and the console allows
    Sids,           \* session identifiers: 256 random bits, drawn once
    Idle, Absolute, \* lifetimes of a session
    None,
    MaxSkew,        \* bound: how far the wall clock is ever set back
    MaxRequests     \* bound: requests the browsers send

ASSUME LifetimeAssumption ==
    Idle \in Nat \ {0} /\ Absolute \in Nat /\ Idle < Absolute
ASSUME BoundAssumption == MaxSkew \in Nat /\ MaxRequests \in Nat
ASSUME NamesAssumption ==
    /\ None \notin Users \cup Sids \cup {"clear"} /\ "clear" \notin Sids
    /\ {"session", "extraction"} \X Users \subseteq Items

VARIABLES
    rows,       \* console_sessions
    issued,     \* history: whom each session was created for
    jar,        \* the cookie each browser holds
    forms,      \* sessions whose CSRF tokens are on open pages of a browser
    loop,       \* when the event loop was last done with the limiter
    sent,       \* requests sent so far
    pc, req     \* where each request is, and what it carries

browser == <<jar, forms, sent>>
vars == <<clock, since, limiter, rows, issued, loop, browser, pc, req>>

Changing == {"act", "logout"}
Kinds    == {"open"} \cup Changing

Row == [user : Users, created : Nat, seen : Nat, idle : Nat, absolute : Nat]

(* cookie, form, session: what the browser sent, the token it submitted,   *)
(* and the session the boundary attached; reply: the response's cookie.    *)
NoRequest == [browser |-> None, user |-> None, kind |-> None, cookie |-> None,
              form |-> None, session |-> None, reply |-> None]

Init ==
    /\ LimiterInit
    /\ rows = [s \in Sids |-> None]
    /\ issued = [s \in Sids |-> None]
    /\ jar = [b \in Browsers |-> None]
    /\ forms = [b \in Browsers |-> {}]
    /\ loop = 0
    /\ sent = 0
    /\ pc = [q \in Callers |-> "idle"]
    /\ req = [q \in Callers |-> NoRequest]

(* The labels at which a clock is read next. *)
Reading == {"arrived", "gate", "sweep", "mint", "extract"}

Go(q, label) ==
    /\ pc' = [pc EXCEPT ![q] = label]
    /\ since' = [since EXCEPT ![q] = IF label \in Reading THEN clock ELSE 0]
Without(s) == [rows EXCEPT ![s] = None]
ItemOf(bucket, q) == <<bucket, req[q].user>>

(* A response without a cookie changes nothing at the browser. *)
Answer(q) == Go(q, "idle") /\ req' = [req EXCEPT ![q] = NoRequest]

(* A response on its way, that sets the cookie to a session or clears it.  *)
Respond(q, cookie) ==
    /\ Go(q, "reply")
    /\ req' = [req EXCEPT ![q] = [NoRequest EXCEPT
                 !.browser = req[q].browser, !.kind = req[q].kind, !.reply = cookie]]

----------------------------------------------------------------------------
(* The browser. *)

(* The ingress attaches the identity that is logged in on the device, and  *)
(* another person may log in at any time; the cookie may have been cleared *)
(* or have run out.  A request with no form, a GET that is no navigation,  *)
(* may use a session and not establish one, like an act with a bad token.  *)
Send(q, b, u, kind) ==
    /\ pc[q] = "idle"
    /\ sent < MaxRequests
    /\ sent' = sent + 1
    /\ \E form \in forms[b] \cup {None}, cookie \in {jar[b], None} :
         /\ kind = "open" => form = None
         /\ kind = "logout" => form # None
         /\ req' = [req EXCEPT ![q] = [NoRequest EXCEPT !.browser = b, !.user = u,
                      !.kind = kind, !.cookie = cookie, !.form = form]]
    /\ Go(q, "arrived")
    /\ UNCHANGED <<clock, limiter, rows, issued, loop, jar, forms>>

(* The forms of a page carry tokens of the session it was rendered in.     *)
Receive(q) ==
    LET b == req[q].browser
        c == req[q].reply
    IN  /\ pc[q] = "reply"
        /\ jar' = [jar EXCEPT ![b] = IF c = "clear" THEN None ELSE c]
        /\ forms' = [forms EXCEPT ![b] =
                       IF req[q].kind = "open" /\ c # "clear" THEN @ \cup {c} ELSE @]
        /\ Answer(q)
        /\ UNCHANGED <<clock, limiter, rows, issued, loop, sent>>

(* The client disconnects, while the body is read or the response is sent. *)
Lose(q) ==
    /\ pc[q] \in {"checked", "reply"}
    /\ Answer(q)
    /\ UNCHANGED <<clock, limiter, rows, issued, loop, browser>>

----------------------------------------------------------------------------
(* The boundary.  A request with a wrong peer, identity, host, origin or   *)
(* length, or without any CSRF token, is answered before the store is read. *)

TurnAway(q) ==
    /\ pc[q] = "arrived"
    /\ Answer(q)
    /\ UNCHANGED <<clock, limiter, rows, issued, loop, browser>>

(* The store reads the wall clock before its transaction, and the clock    *)
(* may have been set back by then.                                         *)
WallAround(readings) == {t \in Times : \E r \in readings : t <= r /\ r <= t + MaxSkew}
WallReadings(q) == WallAround(Readings(q))

LookupMissing(q) ==
    /\ pc[q] = "arrived"
    /\ req[q].cookie # None => rows[req[q].cookie] = None
    /\ IF req[q].kind = "open" THEN Go(q, "gate") /\ UNCHANGED req ELSE Answer(q)
    /\ UNCHANGED <<clock, limiter, rows, issued, loop, browser>>

Found(q) == pc[q] = "arrived" /\ req[q].cookie # None /\ rows[req[q].cookie] # None
Presented(q) == rows[req[q].cookie]
Owned(q) == Presented(q).user = req[q].user
Expired(row, now) == now >= row.absolute \/ now >= row.idle

LookupMismatch(q) ==
    /\ Found(q) /\ ~Owned(q)
    /\ rows' = Without(req[q].cookie)
    /\ Respond(q, "clear")
    /\ UNCHANGED <<clock, limiter, issued, loop, browser>>

(* A document navigation may establish a session, anything else is refused. *)
LookupExpired(q, now) ==
    /\ Found(q) /\ Owned(q)
    /\ Expired(Presented(q), now)
    /\ rows' = Without(req[q].cookie)
    /\ IF req[q].kind = "open" THEN Go(q, "gate") /\ UNCHANGED req ELSE Respond(q, "clear")
    /\ UNCHANGED <<clock, limiter, issued, loop, browser>>

(* The trigger console_sessions_time_moves_forward aborts the update when  *)
(* a later reading is already recorded: the request fails with 503.        *)
LookupOvertaken(q, now) ==
    /\ Found(q) /\ Owned(q)
    /\ ~Expired(Presented(q), now)
    /\ now < Presented(q).seen
    /\ Answer(q)
    /\ UNCHANGED <<clock, limiter, rows, issued, loop, browser>>

Attach(q, s) ==
    /\ req' = [req EXCEPT ![q].session = s, ![q].cookie = None]
    /\ Go(q, "checked")

Advanced(row, now) ==
    [row EXCEPT !.seen = now, !.idle = Min({now + Idle, row.absolute})]

(* Faulty variant: only the absolute expiry is looked at. *)
LookupValidForever(q, now) ==
    /\ Found(q) /\ Owned(q)
    /\ now < Presented(q).absolute
    /\ now >= Presented(q).seen
    /\ rows' = [rows EXCEPT ![req[q].cookie] = Advanced(@, now)]
    /\ Attach(q, req[q].cookie)
    /\ UNCHANGED <<clock, limiter, issued, loop, browser>>

LookupValid(q, now) ==
    /\ Found(q) /\ Owned(q)
    /\ ~Expired(Presented(q), now)
    /\ now >= Presented(q).seen
    /\ rows' = [rows EXCEPT ![req[q].cookie] = Advanced(@, now)]
    /\ Attach(q, req[q].cookie)
    /\ UNCHANGED <<clock, limiter, issued, loop, browser>>

(* session_establishment, cleanup_expired and create follow each other.    *)
(* The first runs on the event loop, so no two such calls overlap: the     *)
(* clock is read after the previous call was done.                         *)
Establish(q, now) ==
    /\ pc[q] = "gate"
    /\ now >= loop
    /\ loop' = clock
    /\ Hit(now, ItemOf("session", q))
    /\ IF Admits(now, ItemOf("session", q))
       THEN Go(q, "sweep") /\ UNCHANGED req ELSE Answer(q)
    /\ UNCHANGED <<clock, inFlight, rows, issued, browser>>

Swept(now) ==
    [s \in Sids |-> IF rows[s] # None /\ Expired(rows[s], now) THEN None ELSE rows[s]]

Cleanup(q, now) ==
    /\ pc[q] = "sweep"
    /\ rows' = Swept(now)
    /\ Go(q, "mint")
    /\ UNCHANGED <<clock, limiter, issued, loop, browser, req>>

(* The identifiers are interchangeable: the next unused one is drawn.      *)
Create(q, now) ==
    /\ pc[q] = "mint"
    /\ \E t \in Sids : issued[t] = None
    /\ LET s == CHOOSE t \in Sids : issued[t] = None
       IN  /\ rows' = [rows EXCEPT ![s] =
                [user |-> req[q].user, created |-> now, seen |-> now,
                 idle |-> Min({now + Idle, now + Absolute}), absolute |-> now + Absolute]]
           /\ issued' = [issued EXCEPT ![s] = req[q].user]
           /\ Attach(q, s)
    /\ UNCHANGED <<clock, limiter, loop, browser>>

(* Five collisions in a row, or the database refuses: 503. *)
CreateFails(q) ==
    /\ pc[q] = "mint"
    /\ Answer(q)
    /\ UNCHANGED <<clock, limiter, rows, issued, loop, browser>>

(* Faulty variant: any token of an open page will do. *)
CheckAnyToken(q) ==
    /\ pc[q] = "checked"
    /\ IF req[q].kind \in Changing
       THEN Go(q, "handler") /\ UNCHANGED req ELSE Respond(q, req[q].session)
    /\ UNCHANGED <<clock, limiter, rows, issued, loop, browser>>

(* The CSRF token is derived from the attached session's secret.  A page,  *)
(* a wrong token and a body that is too large are answered with the cookie *)
(* that was just refreshed.                                                *)
Check(q) ==
    /\ pc[q] = "checked"
    /\ IF req[q].kind \in Changing /\ req[q].form = req[q].session
       THEN Go(q, "handler") /\ UNCHANGED req ELSE Respond(q, req[q].session)
    /\ UNCHANGED <<clock, limiter, rows, issued, loop, browser>>

TooLarge(q) ==
    /\ pc[q] = "checked"
    /\ req[q].kind \in Changing
    /\ Respond(q, req[q].session)
    /\ UNCHANGED <<clock, limiter, rows, issued, loop, browser>>

----------------------------------------------------------------------------
(* Handlers of state-changing requests. *)

Logout(q) ==
    /\ pc[q] = "handler"
    /\ req[q].kind = "logout"
    /\ rows' = Without(req[q].session)
    /\ Respond(q, "clear")
    /\ UNCHANGED <<clock, limiter, issued, loop, browser>>

(* create_workflow: one extraction at a time, and so many in a window.     *)
EnterExtraction(q) ==
    /\ pc[q] = "handler"
    /\ req[q].kind = "act"
    /\ Enter(ItemOf("extraction", q))
    /\ Go(q, "extract")
    /\ UNCHANGED <<clock, events, admitted, rows, issued, loop, browser, req>>

ExtractionBusy(q) ==
    /\ pc[q] = "handler"
    /\ req[q].kind = "act"
    /\ ItemOf("extraction", q) \in inFlight
    /\ Respond(q, req[q].session)
    /\ UNCHANGED <<clock, limiter, rows, issued, loop, browser>>

(* Faulty variant: a refused attempt keeps the identity's slot. *)
AttemptKeepsSlot(q, now) ==
    /\ pc[q] = "extract"
    /\ Hit(now, ItemOf("extraction", q))
    /\ IF Admits(now, ItemOf("extraction", q))
       THEN Go(q, "work") /\ UNCHANGED req ELSE Respond(q, req[q].session)
    /\ UNCHANGED <<clock, inFlight, rows, issued, loop, browser>>

Attempt(q, now) ==
    /\ pc[q] = "extract"
    /\ Hit(now, ItemOf("extraction", q))
    /\ Go(q, IF Admits(now, ItemOf("extraction", q)) THEN "work" ELSE "refused")
    /\ UNCHANGED <<clock, inFlight, rows, issued, loop, browser, req>>

(* The extraction succeeds, fails, or was refused: the slot is given back. *)
LeaveExtraction(q) ==
    /\ pc[q] \in {"work", "refused"}
    /\ Leave(ItemOf("extraction", q))
    /\ Respond(q, req[q].session)
    /\ UNCHANGED <<clock, events, admitted, rows, issued, loop, browser>>

----------------------------------------------------------------------------
(* Time, and the process. *)

Tick ==
    /\ clock < MaxClock
    /\ clock' = clock + 1
    /\ UNCHANGED <<since, limiter, rows, issued, loop, browser, pc, req>>

(* Faulty variant: the limiter's table outlives the slots of the process.  *)
RestartHalf ==
    /\ \E now \in WallAround({clock}) : rows' = Swept(now)
    /\ pc' = [q \in Callers |-> "idle"]
    /\ req' = [q \in Callers |-> NoRequest]
    /\ loop' = 0
    /\ since' = [q \in Callers |-> 0]
    /\ UNCHANGED <<clock, limiter, issued, browser>>

(* The sessions survive, requests and the limiter's tables do not; the new *)
(* process sweeps before it serves.                                        *)
Restart ==
    /\ \E now \in WallAround({clock}) : rows' = Swept(now)
    /\ events' = NoEvents
    /\ inFlight' = {}
    /\ admitted' = NoAttempts
    /\ pc' = [q \in Callers |-> "idle"]
    /\ req' = [q \in Callers |-> NoRequest]
    /\ loop' = 0
    /\ since' = [q \in Callers |-> 0]
    /\ UNCHANGED <<clock, issued, browser>>

----------------------------------------------------------------------------

Lookup(q) ==
    \/ LookupMissing(q)
    \/ LookupMismatch(q)
    \/ \E now \in WallReadings(q) :
         LookupExpired(q, now) \/ LookupOvertaken(q, now) \/ LookupValid(q, now)

Serve(q) ==
    \/ Lookup(q) \/ CreateFails(q) \/ Check(q) \/ Logout(q)
    \/ EnterExtraction(q) \/ ExtractionBusy(q) \/ LeaveExtraction(q)
    \/ \E now \in Readings(q) : Establish(q, now) \/ Attempt(q, now)
    \/ \E now \in WallReadings(q) : Cleanup(q, now) \/ Create(q, now)

Next ==
    \/ \E q \in Callers : Serve(q) \/ TurnAway(q) \/ TooLarge(q) \/ Receive(q) \/ Lose(q)
    \/ \E q \in Callers, b \in Browsers, u \in Users, k \in Kinds : Send(q, b, u, k)
    \/ Tick \/ Restart

Spec == Init /\ [][Next]_vars

----------------------------------------------------------------------------
(* Properties.                                                             *)

(* Every variable has its type. *)
TypeOK ==
    /\ LimiterTypeOK
    /\ rows \in [Sids -> Row \cup {None}]
    /\ issued \in [Sids -> Users \cup {None}]
    /\ jar \in [Browsers -> Sids \cup {None}]
    /\ forms \in [Browsers -> SUBSET Sids]
    /\ loop \in Times
    /\ sent \in 0..MaxRequests
    /\ \A q \in Callers : /\ req[q].session \in Sids \cup {None}
                          /\ pc[q] = "reply" <=> req[q].reply \in Sids \cup {"clear"}

(* Sessions run out, whatever requests overlap, however late a transaction *)
(* follows its clock reading, and although responses bring back the cookie *)
(* of a session that has ended: a deleted session never returns, a session *)
(* is only used less than the idle lifetime after its last recorded use    *)
(* and within its absolute lifetime, and its recorded time never goes back *)
(* (sessions.py, lookup and delete_hash).                                  *)
SessionsRunOut ==
    [][\A s \in Sids :
         /\ issued[s] # None /\ rows[s] = None => rows'[s] = None
         /\ rows[s] # None /\ rows'[s] \notin {None, rows[s]} =>
              /\ rows'[s].seen \in rows[s].seen .. rows[s].seen + Idle - 1
              /\ rows'[s].seen < rows[s].created + Absolute
              /\ rows'[s].idle <= rows[s].created + Absolute]_vars

(* Nobody acts in somebody else's name: a state-changing handler runs only *)
(* for the identity its session was created for, and only on a form that   *)
(* was rendered in that very session, although the device may change hands *)
(* between the page and its submission and another tab may have replaced   *)
(* the cookie (security.py, the order of lookup and CSRF checks).          *)
ActsAsItself ==
    \A q \in Callers : pc[q] \in {"handler", "extract", "work"} =>
        req[q].user = issued[req[q].session] /\ req[q].form = req[q].session

(* In every window an item's limit is exceeded by one attempt at the most: *)
(* a call may be overtaken between its clock reading and the lock by one   *)
(* that prunes with a later time, but two calls of one item are never in   *)
(* the limiter together, for sessions are established on the event loop    *)
(* and an identity extracts once at a time (rate_limit.py, hit).           *)
GatesHold ==
    \A i \in Items, t \in Times :
        AdmittedIn(i, t) <= LimitOf[i] + 1

Extracting(q) == pc[q] \in {"extract", "work", "refused"}

(* An identity has one extraction at a time, and its slot is never left    *)
(* behind: it is taken exactly while one request of the identity is inside *)
(* the extraction, also when the attempt is refused by the rate limit, the *)
(* session ends meanwhile or the console is restarted                      *)
(* (rate_limit.py, one_in_flight and extraction).                          *)
SlotHasOneHolder ==
    \A u \in Users :
        Cardinality({q \in Callers : Extracting(q) /\ req[q].user = u})
          = IF <<"extraction", u>> \in inFlight THEN 1 ELSE 0
=============================================================================
