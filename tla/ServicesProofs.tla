--------------------------- MODULE ServicesProofs ---------------------------
(***************************************************************************)
(* Proofs about module Services, for any number of processes started one   *)
(* after the other.                                                        *)
(*                                                                         *)
(* The argument is the process lock: only its holder writes the token and  *)
(* the descriptor, so from the moment a process has a token (TokenStands)  *)
(* to its end the token is the one it accepts.  What comes before the lock *)
(* (install_schemas) and beside it (the console's socket) is exclusive by  *)
(* link and bind alone (SchemaIsSeen, SocketIsBound).                      *)
(***************************************************************************)
EXTENDS Services, TLAPS

(* The labels of each kind of process. *)
BackendOnly == {"schemas", "link", "token", "fill", "bind"}
BridgeOnly  == {"fetch", "tunnel", "wait", "install"}
ConsoleOnly == {"inspect", "bindSocket", "secure", "remove"}

LabelsFit ==
    \A p \in Procs :
      \/ proc[p].at \in {"unborn", "ended"} /\ Is(p, None)
      \/ proc[p].at \in BackendOnly /\ Is(p, "backend")
      \/ proc[p].at \in BridgeOnly /\ Is(p, "bridge")
      \/ proc[p].at \in ConsoleOnly /\ Is(p, "console")
      \/ proc[p].at \in {"lock", "publish", "clear", "close"} /\ proc[p].kind \in {"backend", "bridge"}
      \/ At(p, "serving") /\ proc[p].kind \in Kinds

(* Only a backend handles signals. *)
FlagsFit == \A p \in Procs : proc[p].event \/ proc[p].told => Is(p, "backend")

(* The descriptor and what a client has read of it name a process that was *)
(* started and is no console.                                              *)
NamesService ==
    \A p \in Procs : p \in {descriptor, found} => ~At(p, "unborn") /\ ~Is(p, "console")

(* From the moment a process has its token, the file holds it. *)
TokenStands ==
    \A p \in Procs :
      /\ At(p, "bind") => token = proc[p].accepts
      /\ proc[p].at \in {"publish", "serving"} /\ ~Is(p, "console") => token = proc[p].accepts

(* A backend that is past the installation sees its own schema. *)
SchemaIsSeen ==
    \A p \in Procs : Is(p, "backend") =>
      /\ proc[p].release \in Releases
      /\ proc[p].at \in {"lock"} \cup Holding => schema = proc[p].release

(* A console that has bound its socket owns the path until it removes it.  *)
SocketIsBound ==
    \A p \in Procs : Is(p, "console") /\ proc[p].at \in {"secure", "serving", "remove"} => socket = p

IInv ==
    /\ TypeOK /\ found \in Procs \cup {None}
    /\ LabelsFit /\ FlagsFit /\ NamesService /\ TokenStands /\ SchemaIsSeen /\ SocketIsBound

----------------------------------------------------------------------------
(* What a process that moves to a label keeps of its state. *)
LEMMA MoveEffect ==
  ASSUME proc \in [Procs -> Process], NEW p \in Procs, NEW s \in Process, NEW to \in Labels,
         Move(p, s, to)
  PROVE  /\ proc' \in [Procs -> Process]
         /\ \A q \in Procs : q # p => proc'[q] = proc[q]
         /\ proc'[p].at = to
         /\ to = "ended" => proc'[p].kind = None
         /\ to # "ended" => proc'[p].kind = s.kind /\ proc'[p].release = s.release
         /\ to \notin {"ended", "clear", "close"} => proc'[p].accepts = s.accepts
         /\ proc'[p].event => s.event /\ to # "ended"
         /\ proc'[p].told => s.told /\ to # "ended"
<1>1. CASE to = "ended"
  BY <1>1 DEF Move, Ended, Unborn, Process
<1>2. CASE to \in {"clear", "close"}
  BY <1>2 DEF Move, Unborn, Process
<1>3. CASE to \notin {"ended", "clear", "close"}
  <2>1. proc' = [proc EXCEPT ![p] = [s EXCEPT !.at = to]]
    BY <1>3 DEF Move
  <2> QED
    BY <1>3, <2>1 DEF Process
<1> QED
  BY <1>1, <1>2, <1>3

(* The same for the moves that keep the rest as it is. *)
LEMMA GoEffect ==
  ASSUME proc \in [Procs -> Process], NEW p \in Procs, NEW to \in Labels, Go(p, to)
  PROVE  /\ proc' \in [Procs -> Process]
         /\ \A q \in Procs : q # p => proc'[q] = proc[q]
         /\ proc'[p].at = to
         /\ to = "ended" => proc'[p].kind = None
         /\ to # "ended" => proc'[p].kind = proc[p].kind /\ proc'[p].release = proc[p].release
         /\ to \notin {"ended", "clear", "close"} => proc'[p].accepts = proc[p].accepts
         /\ proc'[p].event => proc[p].event /\ to # "ended"
         /\ proc'[p].told => proc[p].told /\ to # "ended"
BY MoveEffect DEF Go

(* A signal and its delivery to the server only set flags. *)
LEMMA FlagEffect ==
  ASSUME proc \in [Procs -> Process], NEW p \in Procs, Signal(p) \/ PollStop(p)
  PROVE  /\ proc' \in [Procs -> Process]
         /\ \A q \in Procs :
              /\ proc'[q].at = proc[q].at /\ proc'[q].kind = proc[q].kind
              /\ proc'[q].release = proc[q].release /\ proc'[q].accepts = proc[q].accepts
              /\ q # p => proc'[q] = proc[q]
<1>1. CASE Signal(p)
  <2> DEFINE s == [proc[p] EXCEPT !.asked = TRUE, !.event = TRUE]
  <2>1. /\ s \in Process /\ s.at = proc[p].at /\ s.kind = proc[p].kind
        /\ s.release = proc[p].release /\ s.accepts = proc[p].accepts
    BY DEF Process
  <2>2. proc' = [proc EXCEPT ![p] = s]
    BY <1>1 DEF Signal
  <2> HIDE DEF s
  <2> QED
    BY <2>1, <2>2
<1>2. CASE PollStop(p)
  <2> DEFINE s == [proc[p] EXCEPT !.told = TRUE]
  <2>1. /\ s \in Process /\ s.at = proc[p].at /\ s.kind = proc[p].kind
        /\ s.release = proc[p].release /\ s.accepts = proc[p].accepts
    BY DEF Process
  <2>2. proc' = [proc EXCEPT ![p] = s]
    BY <1>2 DEF PollStop
  <2> HIDE DEF s
  <2> QED
    BY <2>1, <2>2
<1> QED
  BY <1>1, <1>2

(* Nothing runs, no socket is bound and nothing is advertised.             *)
LEMMA InitIInv == Init => IInv
<1> SUFFICES ASSUME Init PROVE IInv
  OBVIOUS
<1>1. proc \in [Procs -> Process] /\ \A p \in Procs : proc[p] = Unborn
  <2>1. Unborn \in Process
    BY DEF Unborn, Process, Labels
  <2> QED
    BY <2>1 DEF Init
<1>2. \A p \in Procs : proc[p].at = "unborn" /\ proc[p].kind = None
                      /\ ~proc[p].event /\ ~proc[p].told
  BY <1>1 DEF Unborn
<1> QED
  BY <1>1, <1>2, NamesAssumption
     DEF Init, IInv, TypeOK, LabelsFit, FlagsFit, NamesService, TokenStands, SchemaIsSeen,
         SocketIsBound, At, Is, Holding, Kinds, Tokens

----------------------------------------------------------------------------
(* A process that was started keeps its kind and its release to the end.   *)
KindsKept ==
    \A q \in Procs :
      \/ At(q, "unborn") \/ proc'[q].at = "ended"
      \/ proc'[q].kind = proc[q].kind /\ proc'[q].release = proc[q].release

(* Every step of a backend keeps the invariant. *)
LEMMA BackendStep ==
  ASSUME IInv, NEW p \in Procs, Backend(p) PROVE IInv' /\ KindsKept
<1> USE NamesAssumption DEF IInv, TypeOK, LabelsFit, FlagsFit, NamesService, TokenStands,
      SchemaIsSeen, SocketIsBound, BackendOnly, BridgeOnly, ConsoleOnly, At, Is, Step, Holding, Labels, Kinds,
      shared, Tokens, KindsKept
<1>1. CASE CompareSchema(p)
  BY <1>1, GoEffect DEF CompareSchema
<1>2. CASE CopySchema(p)
  BY <1>2, GoEffect DEF CopySchema
<1>3. CASE LinkSchema(p)
  BY <1>3, GoEffect DEF LinkSchema
<1>4. CASE EndEarly(p)
  BY <1>4, GoEffect DEF EndEarly
<1>5. CASE CreateToken(p)
  BY <1>5, GoEffect DEF CreateToken
<1>6. CASE FillToken(p)
  <2> DEFINE s == [proc[p] EXCEPT !.accepts = p]
  <2>1. /\ s \in Process /\ s.kind = proc[p].kind /\ s.release = proc[p].release
        /\ s.accepts = p /\ s.event = proc[p].event /\ s.told = proc[p].told
    BY <1>6 DEF Process, FillToken
  <2> HIDE DEF s
  <2>2. Move(p, s, "bind")
    BY <1>6 DEF FillToken, s
  <2>3. /\ proc' \in [Procs -> Process]
        /\ \A q \in Procs : q # p => proc'[q] = proc[q]
        /\ proc'[p].at = "bind" /\ proc'[p].kind = proc[p].kind
        /\ proc'[p].release = proc[p].release /\ proc'[p].accepts = p
        /\ (proc'[p].event => proc[p].event) /\ (proc'[p].told => proc[p].told)
    BY <2>1, <2>2, MoveEffect
  <2> QED
    BY <1>6, <2>3 DEF FillToken
<1>7. CASE FillFails(p)
  BY <1>7, GoEffect DEF FillFails
<1>8. CASE ReadToken(p)
  <2>1. CASE token = Empty
    BY <1>8, <2>1, GoEffect DEF ReadToken
  <2>2. CASE token # Empty
    <3> DEFINE s == [proc[p] EXCEPT !.accepts = token]
    <3>1. /\ s \in Process /\ s.kind = proc[p].kind /\ s.release = proc[p].release
          /\ s.accepts = token /\ s.event = proc[p].event /\ s.told = proc[p].told
      BY <1>8, <2>2 DEF Process, ReadToken
    <3> HIDE DEF s
    <3>2. Move(p, s, "bind")
      BY <1>8, <2>2 DEF ReadToken, s
    <3>3. /\ proc' \in [Procs -> Process]
          /\ \A q \in Procs : q # p => proc'[q] = proc[q]
          /\ proc'[p].at = "bind" /\ proc'[p].kind = proc[p].kind
          /\ proc'[p].release = proc[p].release /\ proc'[p].accepts = token
          /\ (proc'[p].event => proc[p].event) /\ (proc'[p].told => proc[p].told)
      BY <3>1, <3>2, MoveEffect
    <3> QED
      BY <1>8, <3>3 DEF ReadToken
  <2> QED
    BY <2>1, <2>2
<1>9. CASE Bind(p)
  BY <1>9, GoEffect DEF Bind
<1>10. CASE ServerEnds(p)
  BY <1>10, GoEffect DEF ServerEnds
<1>11. CASE PollStop(p)
  <2>1. Is(p, "backend")
    BY <1>11 DEF PollStop
  <2>2. UNCHANGED <<lock, schema, token, descriptor, tunnel, socket, found>>
    BY <1>11 DEF PollStop
  <2> QED
    BY <1>11, <2>1, <2>2, FlagEffect
<1> QED
  BY <1>1, <1>2, <1>3, <1>4, <1>5, <1>6, <1>7, <1>8, <1>9, <1>10, <1>11 DEF Backend

(* Every step of a bridge keeps the invariant. *)
LEMMA BridgeStep ==
  ASSUME IInv, NEW p \in Procs, Bridge(p) PROVE IInv' /\ KindsKept
<1> USE NamesAssumption DEF IInv, TypeOK, LabelsFit, FlagsFit, NamesService, TokenStands,
      SchemaIsSeen, SocketIsBound, BackendOnly, BridgeOnly, ConsoleOnly, At, Is, Step, Holding, Labels, Kinds,
      shared, Tokens, KindsKept
<1>1. CASE Fetch(p)
  <2> DEFINE s == [proc[p] EXCEPT !.accepts = Remote]
  <2>1. /\ s \in Process /\ s.kind = proc[p].kind /\ s.release = proc[p].release
        /\ s.accepts = Remote /\ s.event = proc[p].event /\ s.told = proc[p].told
    BY <1>1 DEF Process, Fetch
  <2> HIDE DEF s
  <2>2. Move(p, s, "tunnel")
    BY <1>1 DEF Fetch, s
  <2>3. /\ proc' \in [Procs -> Process]
        /\ \A q \in Procs : q # p => proc'[q] = proc[q]
        /\ proc'[p].at = "tunnel" /\ proc'[p].kind = proc[p].kind
        /\ proc'[p].release = proc[p].release /\ proc'[p].accepts = Remote
        /\ (proc'[p].event => proc[p].event) /\ (proc'[p].told => proc[p].told)
    BY <2>1, <2>2, MoveEffect
  <2> QED
    BY <1>1, <2>3 DEF Fetch
<1>2. CASE FetchFails(p)
  BY <1>2, GoEffect DEF FetchFails
<1>3. CASE Spawn(p)
  BY <1>3, GoEffect DEF Spawn
<1>4. CASE Healthy(p)
  BY <1>4, GoEffect DEF Healthy
<1>5. CASE WaitFails(p)
  BY <1>5, GoEffect DEF WaitFails
<1>6. CASE InstallToken(p)
  <2> DEFINE s == [proc[p] EXCEPT !.previous = token]
  <2>1. /\ s \in Process /\ s.kind = proc[p].kind /\ s.release = proc[p].release
        /\ s.accepts = proc[p].accepts /\ s.event = proc[p].event /\ s.told = proc[p].told
    BY DEF Process
  <2> HIDE DEF s
  <2>2. Move(p, s, "publish")
    BY <1>6 DEF InstallToken, s
  <2>3. /\ proc' \in [Procs -> Process]
        /\ \A q \in Procs : q # p => proc'[q] = proc[q]
        /\ proc'[p].at = "publish" /\ proc'[p].kind = proc[p].kind
        /\ proc'[p].release = proc[p].release /\ proc'[p].accepts = proc[p].accepts
        /\ (proc'[p].event => proc[p].event) /\ (proc'[p].told => proc[p].told)
    BY <2>1, <2>2, MoveEffect
  <2>4. proc[p].accepts \in Tokens \cup {None}
    BY DEF Process
  <2> QED
    BY <1>6, <2>3, <2>4 DEF InstallToken
<1>7. CASE InstallFails(p)
  BY <1>7, GoEffect DEF InstallFails
<1> QED
  BY <1>1, <1>2, <1>3, <1>4, <1>5, <1>6, <1>7 DEF Bridge

(* Every step of a console keeps the invariant. *)
LEMMA ConsoleStep ==
  ASSUME IInv, NEW p \in Procs, Console(p) PROVE IInv' /\ KindsKept
<1> USE NamesAssumption DEF IInv, TypeOK, LabelsFit, FlagsFit, NamesService, TokenStands,
      SchemaIsSeen, SocketIsBound, BackendOnly, BridgeOnly, ConsoleOnly, At, Is, Step, Holding, Labels, Kinds,
      shared, Tokens, KindsKept
<1>1. CASE Inspect(p)
  BY <1>1, GoEffect DEF Inspect
<1>2. CASE BindSocketRefused(p)
  BY <1>2, GoEffect DEF BindSocketRefused
<1>3. CASE BindSocket(p)
  BY <1>3, GoEffect DEF BindSocket
<1>4. CASE SecureSocket(p)
  BY <1>4, GoEffect DEF SecureSocket
<1>5. CASE RemoveSocket(p)
  BY <1>5, GoEffect DEF RemoveSocket
<1> QED
  BY <1>1, <1>2, <1>3, <1>4, <1>5 DEF Console

(* Every step of a live process keeps the invariant. *)
LEMMA RunStep ==
  ASSUME IInv, NEW p \in Procs, Run(p) PROVE IInv' /\ KindsKept
<1> USE NamesAssumption DEF IInv, TypeOK, LabelsFit, FlagsFit, NamesService, TokenStands,
      SchemaIsSeen, SocketIsBound, BackendOnly, BridgeOnly, ConsoleOnly, At, Is, Step, Holding, Labels, Kinds,
      shared, Tokens, KindsKept
<1>1. CASE Acquire(p)
  BY <1>1, GoEffect DEF Acquire
<1>2. CASE Publish(p)
  BY <1>2, GoEffect DEF Publish
<1>3. CASE PublishFails(p)
  <2>1. proc[p].previous \in Tokens \cup {None, Empty}
    BY DEF Process
  <2> QED
    BY <1>3, <2>1, GoEffect DEF PublishFails
<1>4. CASE Clear(p)
  BY <1>4, GoEffect DEF Clear
<1>5. CASE Close(p)
  BY <1>5, GoEffect DEF Close
<1>6. CASE Backend(p)
  BY <1>6, BackendStep
<1>7. CASE Bridge(p)
  BY <1>7, BridgeStep
<1>8. CASE Console(p)
  BY <1>8, ConsoleStep
<1> QED
  BY <1>1, <1>2, <1>3, <1>4, <1>5, <1>6, <1>7, <1>8 DEF Run

(* What happens to a process from outside keeps the invariant. *)
LEMMA EnvironmentStep ==
  ASSUME IInv, NEW p \in Procs, ServiceBreaks(p) \/ Signal(p) \/ Interrupt(p)
                                      \/ StopConsole(p) \/ Kill(p)
  PROVE  IInv' /\ KindsKept
<1> USE NamesAssumption DEF IInv, TypeOK, LabelsFit, FlagsFit, NamesService, TokenStands,
      SchemaIsSeen, SocketIsBound, BackendOnly, BridgeOnly, ConsoleOnly, At, Is, Step, Holding, Labels, Kinds,
      shared, Tokens, KindsKept
<1>1. CASE ServiceBreaks(p)
  BY <1>1, GoEffect DEF ServiceBreaks
<1>2. CASE Signal(p)
  <2>1. Is(p, "backend")
    BY <1>2 DEF Signal, Handled
  <2>2. UNCHANGED <<lock, schema, token, descriptor, tunnel, socket, found>>
    BY <1>2 DEF Signal
  <2> QED
    BY <1>2, <2>1, <2>2, FlagEffect
<1>3. CASE Interrupt(p)
  <2>1. proc[p].previous \in Tokens \cup {None, Empty}
    BY DEF Process
  <2> QED
    BY <1>3, <2>1, GoEffect DEF Interrupt
<1>4. CASE StopConsole(p)
  BY <1>4, GoEffect DEF StopConsole
<1>5. CASE Kill(p)
  BY <1>5, GoEffect DEF Kill
<1> QED
  BY <1>1, <1>2, <1>3, <1>4, <1>5

(* Starting a service keeps the invariant.                                 *)
LEMMA StartStep ==
  ASSUME IInv, NEW p \in Procs, NEW k \in Kinds, Start(p, k) PROVE IInv' /\ KindsKept
<1> USE NamesAssumption DEF IInv, TypeOK, LabelsFit, FlagsFit, NamesService, TokenStands,
      SchemaIsSeen, SocketIsBound, BackendOnly, BridgeOnly, ConsoleOnly, At, Is, Holding, Labels,
      Kinds, shared, Tokens, KindsKept
<1>1. PICK r \in IF k = "backend" THEN Releases ELSE {None} :
        Move(p, [proc[p] EXCEPT !.kind = k, !.release = r],
             CASE k = "backend" -> "schemas" [] k = "bridge" -> "lock" [] OTHER -> "inspect")
  BY DEF Start
<1> DEFINE s == [proc[p] EXCEPT !.kind = k, !.release = r]
           to == CASE k = "backend" -> "schemas" [] k = "bridge" -> "lock" [] OTHER -> "inspect"
<1>2. /\ s \in Process /\ s.kind = k /\ s.release = r
      /\ s.event = proc[p].event /\ s.told = proc[p].told
  <2>1. r \in Releases \cup {None} /\ proc[p] \in Process
    BY <1>1
  <2> QED
    BY <2>1 DEF Process
<1>3. \/ k = "backend" /\ to = "schemas" /\ r \in Releases
      \/ k = "bridge" /\ to = "lock"
      \/ k = "console" /\ to = "inspect"
  BY <1>1
<1>4. Move(p, s, to)
  BY <1>1
<1> HIDE DEF s, to
<1>5. to \in Labels
  BY <1>3
<1>6. /\ proc' \in [Procs -> Process]
      /\ \A q \in Procs : q # p => proc'[q] = proc[q]
      /\ proc'[p].at = to /\ proc'[p].kind = k /\ proc'[p].release = r
      /\ (proc'[p].event => proc[p].event) /\ (proc'[p].told => proc[p].told)
  BY <1>2, <1>3, <1>4, <1>5, MoveEffect
<1> QED
  BY <1>3, <1>6 DEF Start

(* and whatever the rest of the world does. *)
LEMMA WorldStep ==
  ASSUME IInv, OrphanEnds \/ EmptyRuntimeDirectory \/ ReadDescriptor \/ ReadItsToken
  PROVE  IInv' /\ KindsKept
<1> USE NamesAssumption DEF IInv, TypeOK, LabelsFit, FlagsFit, NamesService, TokenStands,
      SchemaIsSeen, SocketIsBound, BackendOnly, BridgeOnly, ConsoleOnly, At, Is, Holding, Labels,
      Kinds, shared, Tokens, KindsKept
<1>1. CASE OrphanEnds
  BY <1>1 DEF OrphanEnds
<1>2. CASE EmptyRuntimeDirectory
  BY <1>2 DEF EmptyRuntimeDirectory
<1>3. CASE ReadDescriptor
  BY <1>3 DEF ReadDescriptor
<1>4. CASE ReadItsToken
  BY <1>4 DEF ReadItsToken
<1> QED
  BY <1>1, <1>2, <1>3, <1>4

(* Every step keeps the invariant and the schemas of the registry.         *)
LEMMA NextStep == IInv /\ [Next]_vars => IInv' /\ KindsKept
<1> SUFFICES ASSUME IInv, [Next]_vars PROVE IInv' /\ KindsKept
  OBVIOUS
<1>1. CASE UNCHANGED vars
  BY <1>1 DEF vars, shared, IInv, TypeOK, LabelsFit, FlagsFit, NamesService, TokenStands,
     SchemaIsSeen, SocketIsBound, At, Is, KindsKept
<1> QED
  BY <1>1, RunStep, EnvironmentStep, StartStep, WorldStep DEF Next

----------------------------------------------------------------------------
(* The theorems. *)

(* The invariant holds in every reachable state. *)
LEMMA IInvariant == Spec => []IInv
<1>1. IInv /\ [Next]_vars => IInv'
  BY NextStep
<1> QED
  BY InitIInv, <1>1, PTL DEF Spec

(* Types, and the lock belongs to the one process between taking and       *)
(* releasing it, for any number of processes.                              *)
THEOREM TypeCorrect == Spec => []TypeOK
<1>1. IInv => TypeOK
  BY DEF IInv
<1> QED
  BY IInvariant, <1>1, PTL

(* secure_unix_socket: the path leads to the socket of the console that    *)
(* serves, whoever fails to start or stops beside it.                      *)
THEOREM SocketsStand == Spec => []SocketStands
<1>1. IInv => SocketStands
  BY DEF IInv, SocketIsBound, SocketStands, At
<1> QED
  BY IInvariant, <1>1, PTL

(* discover: the token a client reads is the one the process it found      *)
(* accepts, if that process still serves.                                  *)
THEOREM DiscoveryWorks == Spec => DiscoveredTokenWorks
<1>1. IInv /\ [Next]_vars =>
        [found # None /\ found' = None /\ At(found, "serving") =>
           token = proc[found].accepts]_vars
  BY DEF IInv, NamesService, TokenStands, At
<1> QED
  BY IInvariant, <1>1, PTL DEF Spec, DiscoveredTokenWorks

(* install_schemas: no schema is replaced, and a backend that goes on to   *)
(* serve has seen its own.                                                 *)
THEOREM SchemasNeverChange == Spec => SchemasStand
<1> DEFINE Stand ==
      /\ schema # None => schema' = schema
      /\ \A p \in Procs : Is(p, "backend") /\ proc'[p].at \in Holding => schema' = proc[p].release
<1>1. IInv /\ [Next]_vars => [Stand]_vars
  <2> SUFFICES ASSUME IInv, Next PROVE Stand
    OBVIOUS
  <2>1. schema # None => schema' = schema
    BY DEF Next, Run, Backend, Bridge, Console, shared, Start, CompareSchema, CopySchema, LinkSchema,
           EndEarly, CreateToken, FillToken, FillFails, ReadToken, Bind, ServerEnds, PollStop,
           Fetch, FetchFails, Spawn, Healthy, WaitFails, InstallToken, InstallFails, Inspect,
           BindSocketRefused, BindSocket, SecureSocket, RemoveSocket, Acquire, Publish,
           PublishFails, Clear, Close, ServiceBreaks, Signal, Interrupt, StopConsole, Kill,
           OrphanEnds, EmptyRuntimeDirectory, ReadDescriptor, ReadItsToken
  <2>2. ASSUME NEW p \in Procs, Is(p, "backend"), proc'[p].at \in Holding
        PROVE  schema' = proc[p].release
    <3>1. IInv' /\ KindsKept
      BY NextStep
    <3>2. ~At(p, "unborn") /\ proc'[p].at # "ended"
      BY <2>2, NamesAssumption
         DEF IInv, LabelsFit, At, Is, Holding, Kinds, BackendOnly, BridgeOnly, ConsoleOnly
    <3>3. Is(p, "backend")' /\ proc'[p].release = proc[p].release
      BY <2>2, <3>1, <3>2 DEF KindsKept, Is
    <3> QED
      BY <2>2, <3>1, <3>3 DEF IInv, SchemaIsSeen
  <2> QED
    BY <2>1, <2>2
<1> QED
  BY IInvariant, <1>1, PTL DEF Spec, SchemasStand

=============================================================================
