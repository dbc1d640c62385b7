------------------------------ MODULE Services ------------------------------
(***************************************************************************)
(* The processes of one vault and the files they are found by: the backend *)
(* (src/ledger/backend.py, backend_cli.py), the bridge that stands in for  *)
(* a remote backend (bridge_cli.py), the console's socket (console_cli.py, *)
(* console/unix_socket.py), and a client that reads the descriptor and     *)
(* then the token (obsidian-plugin/src/backend-client.ts).                 *)
(*                                                                         *)
(* Each process runs once.  A killed process loses its lock and its        *)
(* sockets; the descriptor, the token, the socket's path and the bridge's  *)
(* ssh child stay.                                                         *)
(***************************************************************************)
EXTENDS Naturals

CONSTANTS
    NProcs,     \* processes started, one after the other
    Releases,   \* contents the released schema file may have
    None, Empty, Remote

ASSUME NProcsAssumption == NProcs \in Nat \ {0}

Procs == 1..NProcs
Kinds == {"backend", "bridge", "console"}

(* A token a process has drawn is named by the process. *)
Tokens == Procs \cup {Remote}

ASSUME NamesAssumption ==
    /\ None \notin Procs /\ None \notin Kinds /\ None \notin Releases
    /\ None \notin {Empty, Remote} /\ Empty \notin Tokens

VARIABLES
    proc,           \* the state of each process
    lock,           \* backend.lock
    schema,         \* the installed schema file
    token,          \* backend.token
    descriptor,     \* backend.json: the process it names
    tunnel,         \* the bridge whose ssh holds the local port
    socket,         \* the console whose socket is at the path
    found           \* the descriptor the client has read, its token not yet

shared == <<lock, schema, token, descriptor, tunnel, socket>>
vars   == <<proc, shared, found>>

(* Where a process is that has the lock, and where any process may be.     *)
Holding == {"token", "fill", "bind", "publish", "serving", "clear", "close",
            "fetch", "tunnel", "wait", "install"}
Labels  == {"unborn", "ended", "schemas", "link", "lock",
            "inspect", "bindSocket", "secure", "remove"} \cup Holding

(* release: the schema it was released with; accepts: the token a backend  *)
(* accepts or a bridge has fetched; previous: the token a bridge found;    *)
(* asked: a signal came; event, told: stop_requested and should_exit.       *)
Process == [kind : Kinds \cup {None}, at : Labels, release : Releases \cup {None},
            accepts : Tokens \cup {None}, previous : Tokens \cup {None, Empty},
            asked : BOOLEAN, event : BOOLEAN, told : BOOLEAN]

Unborn == [kind |-> None, at |-> "unborn", release |-> None, accepts |-> None,
           previous |-> None, asked |-> FALSE, event |-> FALSE, told |-> FALSE]
Ended  == [Unborn EXCEPT !.at = "ended"]

Init ==
    /\ proc = [p \in Procs |-> Unborn]
    /\ lock = None /\ schema = None /\ token = None
    /\ descriptor = None /\ tunnel = None /\ socket = None
    /\ found = None

At(p, label) == proc[p].at = label
Is(p, k) == proc[p].kind = k

(* A process that is closing down has no further use for what it knows.    *)
Move(p, state, to) ==
    proc' = [proc EXCEPT ![p] =
               CASE to = "ended" -> Ended
                 [] to \in {"clear", "close"} ->
                      [Unborn EXCEPT !.at = to, !.kind = state.kind,
                                     !.release = state.release, !.asked = state.asked]
                 [] OTHER -> [state EXCEPT !.at = to]]
Go(p, to) == Move(p, proc[p], to)
Step(p, from, to) == At(p, from) /\ Go(p, to)

Start(p, k) ==
    /\ At(p, "unborn")
    /\ \A q \in Procs : q < p => ~At(q, "unborn")
    /\ \E r \in IF k = "backend" THEN Releases ELSE {None} :
         Move(p, [proc[p] EXCEPT !.kind = k, !.release = r],
              CASE k = "backend" -> "schemas" [] k = "bridge" -> "lock" [] OTHER -> "inspect")
    /\ UNCHANGED <<shared, found>>

----------------------------------------------------------------------------
(* install_schemas, before the process lock is taken.                      *)

(* The target exists: it must be the release's own, byte for byte.         *)
CompareSchema(p) ==
    /\ proc[p].at \in {"schemas", "link"}
    /\ schema # None
    /\ Go(p, IF schema = proc[p].release THEN "lock" ELSE "ended")
    /\ UNCHANGED <<shared, found>>

CopySchema(p) ==
    /\ schema = None
    /\ Step(p, "schemas", "link")
    /\ UNCHANGED <<shared, found>>

(* Faulty variant: the temporary file is renamed over the target. *)
LinkSchemaOver(p) ==
    /\ Step(p, "link", "lock")
    /\ schema' = proc[p].release
    /\ UNCHANGED <<lock, token, descriptor, tunnel, socket, found>>

(* link fails where another process was faster; see CompareSchema.         *)
LinkSchema(p) ==
    /\ schema = None
    /\ Step(p, "link", "lock")
    /\ schema' = proc[p].release
    /\ UNCHANGED <<lock, token, descriptor, tunnel, socket, found>>

(* "check" ends here, and so does a start without its other components.    *)
EndEarly(p) ==
    /\ Is(p, "backend")
    /\ Step(p, "lock", "ended")
    /\ UNCHANGED <<shared, found>>

----------------------------------------------------------------------------
(* The lock, and the end of every process that holds it. *)

Acquire(p) ==
    /\ At(p, "lock")
    /\ IF lock = None
       THEN lock' = p /\ Go(p, IF Is(p, "backend") THEN "token" ELSE "fetch")
       ELSE Go(p, "ended") /\ UNCHANGED lock
    /\ UNCHANGED <<schema, token, descriptor, tunnel, socket, found>>

(* Only the descriptor that still names this process is removed. *)
Clear(p) ==
    /\ Step(p, "clear", "close")
    /\ descriptor' = IF descriptor = p THEN None ELSE descriptor
    /\ UNCHANGED <<lock, schema, token, tunnel, socket, found>>

(* Faulty variant: the lock is left to whoever comes next. *)
CloseKeepsLock(p) ==
    /\ Step(p, "close", "ended")
    /\ tunnel' = IF tunnel = p THEN None ELSE tunnel
    /\ UNCHANGED <<lock, schema, token, descriptor, socket, found>>

Close(p) ==
    /\ Step(p, "close", "ended")
    /\ lock' = None
    /\ tunnel' = IF tunnel = p THEN None ELSE tunnel
    /\ UNCHANGED <<schema, token, descriptor, socket, found>>

----------------------------------------------------------------------------
(* The backend: get_or_create_token, bind, publish, serve. *)

CreateToken(p) ==
    /\ token = None
    /\ Step(p, "token", "fill")
    /\ token' = Empty
    /\ UNCHANGED <<lock, schema, descriptor, tunnel, socket, found>>

FillToken(p) ==
    /\ At(p, "fill")
    /\ Move(p, [proc[p] EXCEPT !.accepts = p], "bind")
    /\ token' = p
    /\ UNCHANGED <<lock, schema, descriptor, tunnel, socket, found>>

FillFails(p) ==
    /\ Step(p, "fill", "close")
    /\ token' = None
    /\ UNCHANGED <<lock, schema, descriptor, tunnel, socket, found>>

(* A file that was created and never filled is malformed, for every start. *)
ReadToken(p) ==
    /\ At(p, "token")
    /\ token # None
    /\ IF token = Empty THEN Go(p, "close")
                        ELSE Move(p, [proc[p] EXCEPT !.accepts = token], "bind")
    /\ UNCHANGED <<shared, found>>

Bind(p) ==
    /\ At(p, "bind")
    /\ Go(p, "publish") \/ Go(p, "clear")
    /\ UNCHANGED <<shared, found>>

(* uvicorn looks at should_exit once it has started, and then again and again. *)
ServerEnds(p) ==
    /\ proc[p].told
    /\ Step(p, "serving", "clear")
    /\ UNCHANGED <<shared, found>>

(* The temporary file replaces the descriptor; then publish may still fail. *)
Publish(p) ==
    /\ Step(p, "publish", "serving")
    /\ descriptor' = p
    /\ UNCHANGED <<lock, schema, token, tunnel, socket, found>>

PublishFails(p) ==
    /\ Step(p, "publish", "clear")
    /\ descriptor' \in {descriptor, p}
    /\ token' = IF Is(p, "bridge") THEN proc[p].previous ELSE token
    /\ UNCHANGED <<lock, schema, tunnel, socket, found>>

----------------------------------------------------------------------------
(* serve_with_signals: a signal sets an event, the main thread passes it   *)
(* on to the server as often as it wakes up, once there is a server.       *)

HasServer(p) == proc[p].at \in {"bind", "publish", "serving"}
Handled(p) == Is(p, "backend") /\ proc[p].at \in ({"lock"} \cup Holding) \ {"clear", "close"}

(* Faulty variant: the handler stops the server itself. *)
SignalOnce(p) ==
    /\ Handled(p)
    /\ proc' = [proc EXCEPT ![p].asked = TRUE, ![p].told = @ \/ HasServer(p)]
    /\ UNCHANGED <<shared, found>>

Signal(p) ==
    /\ Handled(p)
    /\ proc' = [proc EXCEPT ![p].asked = TRUE, ![p].event = TRUE]
    /\ UNCHANGED <<shared, found>>

PollStop(p) ==
    /\ proc[p].event /\ ~proc[p].told
    /\ HasServer(p)
    /\ proc' = [proc EXCEPT ![p].told = TRUE]
    /\ UNCHANGED <<shared, found>>

----------------------------------------------------------------------------
(* The bridge: fetch_remote_runtime, the tunnel, _publish_runtime. *)

(* All bridges are to one remote, whose token stays: an ssh left over from *)
(* a bridge that was set up for another remote is not modelled.            *)
Fetch(p) ==
    /\ At(p, "fetch")
    /\ Move(p, [proc[p] EXCEPT !.accepts = Remote], "tunnel")
    /\ UNCHANGED <<shared, found>>

FetchFails(p) ==
    /\ Step(p, "fetch", "clear")
    /\ UNCHANGED <<shared, found>>

(* ssh gives up where another ssh holds the port; the bridge notices later. *)
Spawn(p) ==
    /\ Step(p, "tunnel", "wait")
    /\ tunnel' = IF tunnel = None THEN p ELSE tunnel
    /\ UNCHANGED <<lock, schema, token, descriptor, socket, found>>

(* The health check asks whoever holds the port. *)
Healthy(p) ==
    /\ tunnel # None
    /\ Step(p, "wait", "install")
    /\ UNCHANGED <<shared, found>>

WaitFails(p) ==
    /\ Step(p, "wait", "clear")
    /\ UNCHANGED <<shared, found>>

(* Faulty variant: a token that is there is kept. *)
InstallTokenIfMissing(p) ==
    /\ At(p, "install")
    /\ Move(p, [proc[p] EXCEPT !.previous = token], "publish")
    /\ token' = IF token = None THEN proc[p].accepts ELSE token
    /\ UNCHANGED <<lock, schema, descriptor, tunnel, socket, found>>

InstallToken(p) ==
    /\ At(p, "install")
    /\ Move(p, [proc[p] EXCEPT !.previous = token], "publish")
    /\ token' = proc[p].accepts
    /\ UNCHANGED <<lock, schema, descriptor, tunnel, socket, found>>

InstallFails(p) ==
    /\ Step(p, "install", "clear")
    /\ UNCHANGED <<shared, found>>

(* The ssh connection breaks or had never got the port, or uvicorn fails.  *)
ServiceBreaks(p) ==
    /\ ~Is(p, "console")
    /\ Step(p, "serving", "clear")
    /\ tunnel' = IF tunnel = p THEN None ELSE tunnel
    /\ UNCHANGED <<lock, schema, token, descriptor, socket, found>>

(* Ctrl-C ends whatever the bridge waits for. *)
Interrupt(p) ==
    /\ Is(p, "bridge")
    /\ proc[p].at \in Holding \ {"clear", "close"}
    /\ Go(p, "clear")
    /\ token' = IF At(p, "publish") THEN proc[p].previous ELSE token
    /\ UNCHANGED <<lock, schema, descriptor, tunnel, socket, found>>

(* The ssh child of a bridge that was killed loses its connection. *)
OrphanEnds ==
    /\ tunnel # None
    /\ At(tunnel, "ended")
    /\ tunnel' = None
    /\ UNCHANGED <<lock, schema, token, descriptor, socket, proc, found>>

----------------------------------------------------------------------------
(* The console: secure_unix_socket. *)

Inspect(p) ==
    /\ Step(p, "inspect", IF socket = None THEN "bindSocket" ELSE "ended")
    /\ UNCHANGED <<shared, found>>

(* Faulty variant: the path is removed also by one who has not bound it. *)
BindSocketRefusedRemoves(p) ==
    /\ socket # None
    /\ Step(p, "bindSocket", "ended")
    /\ socket' = None
    /\ UNCHANGED <<lock, schema, token, descriptor, tunnel, found>>

BindSocketRefused(p) ==
    /\ socket # None
    /\ Step(p, "bindSocket", "ended")
    /\ UNCHANGED <<shared, found>>

BindSocket(p) ==
    /\ socket = None
    /\ Step(p, "bindSocket", "secure")
    /\ socket' = p
    /\ UNCHANGED <<lock, schema, token, descriptor, tunnel, found>>

(* Owner, group and mode are set and looked at.  If that fails the path is *)
(* removed, unless it fails before the socket's identity is known.         *)
SecureSocket(p) ==
    /\ At(p, "secure")
    /\ Go(p, "serving") \/ Go(p, "remove") \/ Go(p, "ended")
    /\ UNCHANGED <<shared, found>>

StopConsole(p) ==
    /\ Is(p, "console")
    /\ Step(p, "serving", "remove")
    /\ UNCHANGED <<shared, found>>

RemoveSocket(p) ==
    /\ Step(p, "remove", "ended")
    /\ socket' = IF socket = p THEN None ELSE socket
    /\ UNCHANGED <<lock, schema, token, descriptor, tunnel, found>>

(* The service manager empties the runtime directory of a stopped unit. *)
EmptyRuntimeDirectory ==
    /\ socket # None
    /\ At(socket, "ended")
    /\ \A p \in Procs : ~Is(p, "console")
    /\ socket' = None
    /\ UNCHANGED <<lock, schema, token, descriptor, tunnel, proc, found>>

----------------------------------------------------------------------------
(* A kill, or a signal nobody handles. *)

Kill(p) ==
    /\ proc[p].at \notin {"unborn", "ended"}
    /\ Go(p, "ended")
    /\ lock' = IF lock = p THEN None ELSE lock
    /\ UNCHANGED <<schema, token, descriptor, tunnel, socket, found>>

(* discover: the descriptor first, then the token, for one call. *)
ReadDescriptor ==
    /\ found = None
    /\ descriptor # None
    /\ found' = descriptor
    /\ UNCHANGED <<proc, shared>>

ReadItsToken ==
    /\ found # None
    /\ found' = None
    /\ UNCHANGED <<proc, shared>>

----------------------------------------------------------------------------

Backend(p) ==
    \/ CompareSchema(p) \/ CopySchema(p) \/ LinkSchema(p) \/ EndEarly(p)
    \/ CreateToken(p) \/ FillToken(p) \/ FillFails(p) \/ ReadToken(p) \/ Bind(p)
    \/ ServerEnds(p) \/ PollStop(p)
Bridge(p) ==
    \/ Fetch(p) \/ FetchFails(p) \/ Spawn(p) \/ Healthy(p) \/ WaitFails(p)
    \/ InstallToken(p) \/ InstallFails(p)
Console(p) ==
    \/ Inspect(p) \/ BindSocketRefused(p) \/ BindSocket(p) \/ SecureSocket(p) \/ RemoveSocket(p)
Run(p) ==
    \/ Acquire(p) \/ Publish(p) \/ PublishFails(p) \/ Clear(p) \/ Close(p)
    \/ Backend(p) \/ Bridge(p) \/ Console(p)

Next ==
    \/ \E p \in Procs : Run(p) \/ ServiceBreaks(p) \/ Signal(p) \/ Interrupt(p)
                          \/ StopConsole(p) \/ Kill(p)
    \/ \E p \in Procs, k \in Kinds : Start(p, k)
    \/ OrphanEnds \/ EmptyRuntimeDirectory
    \/ ReadDescriptor \/ ReadItsToken

Spec == Init /\ [][Next]_vars

(* The operating system lets a process that can go on go on; nobody has to *)
(* start one, signal it, kill it or break its connection.                  *)
FairSpec == Spec /\ \A p \in Procs : WF_vars(Run(p))

----------------------------------------------------------------------------
(* Properties. *)

(* Every variable has its type, and the lock belongs to the one process    *)
(* that is between taking and releasing it.                                *)
TypeOK ==
    /\ proc \in [Procs -> Process]
    /\ schema \in Releases \cup {None}
    /\ token \in Tokens \cup {None, Empty}
    /\ {lock, descriptor, tunnel, socket} \subseteq Procs \cup {None}
    /\ \A p \in Procs : lock = p <=> ~Is(p, "console") /\ proc[p].at \in Holding

(* A client that reads the token some time after the descriptor, while a   *)
(* bridge may replace the token, a start fail half way or a process be     *)
(* killed, gets the token the descriptor's process accepts, if the process *)
(* still serves (backend.py, get_or_create_token and publish;              *)
(* bridge_cli.py, _publish_runtime).                                       *)
DiscoveredTokenWorks ==
    [][found # None /\ found' = None /\ At(found, "serving") =>
         token = proc[found].accepts]_vars

(* An installed schema is never replaced, and every process that goes on   *)
(* to serve sees the schema it was released with, although several are     *)
(* installing before any of them holds the lock                            *)
(* (backend_cli.py, install_schemas).                                      *)
SchemasStand ==
    [][/\ schema # None => schema' = schema
       /\ \A p \in Procs : Is(p, "backend") /\ proc'[p].at \in Holding =>
            schema' = proc[p].release]_vars

(* While a console serves, the path leads to its socket: a second start    *)
(* that fails or stops never removes it (unix_socket.py,                   *)
(* secure_unix_socket and _remove_created_socket).                         *)
SocketStands ==
    \A p \in Procs : Is(p, "console") /\ At(p, "serving") => socket = p

(* A backend that is told to stop ends, also when the signal comes before  *)
(* there is a server to stop (backend_cli.py, serve_with_signals).         *)
StopIsHonoured ==
    \A p \in Procs : proc[p].asked ~> At(p, "ended")
=============================================================================
