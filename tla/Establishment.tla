---------------------------- MODULE Establishment ----------------------------
(***************************************************************************)
(* From Dial and Accept to an established session: the primary path, its   *)
(* control stream, the authentication over it, the state machine of a      *)
(* session (pkg/session/session_state.go) and the managers both ends start *)
(* before their call returns.                                              *)
(*                                                                         *)
(* The two calls run on two machines.  The control stream is not framed: a *)
(* Read takes some frames, and what parses is the last of them.  Of the    *)
(* managers only flow control is followed inside, for it is the one that   *)
(* waits and writes to the control stream: AddPath holds pathWindowsMutex  *)
(* for writing, and calculates the window of a new path under the same     *)
(* mutex, for reading, when EnablePathWindows is set.  It is set in        *)
(* DefaultFlowControlConfig, which every session takes; the other value    *)
(* shows the code behind that wait.  What Dial starts after flow control   *)
(* (client.go:422-438) cannot fail when it is started for the first time.  *)
(***************************************************************************)
EXTENDS Integers, Sequences

VARIABLES
  at,                \* how far the call of an end is
  state,             \* SessionStateManager of an end's session
  pathWindows,       \* EnablePathWindows, which no step changes
  pathWindowsMutex,  \* of an end's FlowControlManager: "free" or "held"
  windows,           \* ends whose flow control has the path
  link,              \* the QUIC connection: "none", "up", "down"
  toServer,          \* frames on the control stream
  toClient,
  listener           \* KwikListener: "open" or "closed"

vars == <<at, state, pathWindows, pathWindowsMutex, windows, link, toServer, toClient, listener>>
wire == <<link, toServer, toClient>>
flow == <<pathWindows, pathWindowsMutex, windows>>

Ends == {"client", "server"}
Over == {"established", "failed"}

(* Inside flow control's AddPath, with its mutex; behind it. *)
Locked == {"locked", "sized", "entered", "announced"}
AddingPath == Locked \cup {"unlocked"}

(* The server's session is in activeSessions and its call has not failed.  *)
Registered ==
  at["server"] \in {"registered", "starting", "adding", "established"} \cup AddingPath

Init ==
  /\ at = [e \in Ends |-> "begun"]
  /\ state = [e \in Ends |-> "connecting"]
  /\ pathWindows \in BOOLEAN
  /\ pathWindowsMutex = [e \in Ends |-> "free"] /\ windows = {}
  /\ link = "none" /\ toServer = <<>> /\ toClient = <<>>
  /\ listener = "open"

Goes(e, from, to) == at[e] = from /\ at' = [at EXCEPT ![e] = to]

---------------------------------------------------------------------------
(* isValidTransition *)
ValidTransition(from, to) ==
  \/ to = "closed" /\ from # "closed"
  \/ <<from, to>> \in {<<"connecting", "authenticating">>, <<"authenticating", "authenticated">>,
                       <<"authenticated", "active">>}

CanSetState(e, new) == ValidTransition(state[e], new)
SetState(e, new) == CanSetState(e, new) /\ state' = [state EXCEPT ![e] = new]

IsAuthenticationComplete(e) == state[e] \in {"authenticated", "active"}

(* A call that fails closes its session and with it the connection; only   *)
(* the server's Close tells the state machine, and a server that gets no   *)
(* control stream closes the connection alone.                             *)
Disconnect == link' = IF link = "none" THEN "none" ELSE "down"

Fail(e, from) ==
  /\ Goes(e, from, "failed")
  /\ Disconnect
  /\ state' = IF e = "server" /\ from # "accepted" THEN [state EXCEPT ![e] = "closed"] ELSE state
  /\ UNCHANGED <<flow, toServer, toClient, listener>>

---------------------------------------------------------------------------
(* Dial *)
CreatePath ==
  \/ /\ Goes("client", "begun", "connected") /\ link' = "up"
     /\ UNCHANGED <<state, flow, toServer, toClient, listener>>
  \/ Fail("client", "begun")

(* performAuthentication: the request is the first thing the client sends. *)
SendRequest ==
  IF link = "up"
  THEN /\ Goes("client", "connected", "waiting")
       /\ SetState("client", "authenticating")
       /\ toServer' = Append(toServer, "request")
       /\ UNCHANGED <<flow, link, toClient, listener>>
  ELSE Fail("client", "connected")

(* The answer, unless the Read got something behind it as well.            *)
ReadResponse ==
  /\ at["client"] = "waiting" /\ toClient # <<>>
  /\ \E n \in 1..Len(toClient) :
       IF toClient[n] = "response"
       THEN /\ Goes("client", "waiting", "authenticated")
            /\ SetState("client", "authenticated")
            /\ toClient' = SubSeq(toClient, n + 1, Len(toClient))
            /\ UNCHANGED <<flow, link, toServer, listener>>
       ELSE Fail("client", "waiting")

(* Mutant: the answer is waited for without a timeout. *)
ResponseLost == link = "down" /\ Fail("client", "waiting")

(* The Read fails or the handshake's timeout passes.                       *)
NoResponse == Fail("client", "waiting")

ActivateClient ==
  /\ Goes("client", "authenticated", "starting")
  /\ SetState("client", "active")
  /\ UNCHANGED <<flow, wire, listener>>

---------------------------------------------------------------------------
(* AcceptWithConfig *)
AcceptConnection ==
  /\ link # "none" /\ listener = "open"
  /\ Goes("server", "begun", "accepted")
  /\ UNCHANGED <<state, flow, wire, listener>>

(* The stream is there when its first bytes are; the wait ends with the    *)
(* connection.                                                             *)
AcceptControlStream ==
  \/ /\ toServer # <<>>
     /\ Goes("server", "accepted", "reading")
     /\ SetState("server", "authenticating")
     /\ UNCHANGED <<flow, wire, listener>>
  \/ link = "down" /\ Fail("server", "accepted")

(* handleAuthenticationWithSessionID *)
ReadRequest ==
  /\ toServer # <<>>
  /\ Goes("server", "reading", "requested")
  /\ toServer' = <<>>
  /\ UNCHANGED <<state, flow, link, toClient, listener>>

(* The Read fails or the handshake's timeout passes.                       *)
NoRequest == Fail("server", "reading")

SendResponse ==
  IF link = "up"
  THEN /\ Goes("server", "requested", "responded")
       /\ toClient' = Append(toClient, "response")
       /\ UNCHANGED <<state, flow, link, toServer, listener>>
  ELSE Fail("server", "requested")

(* After its 200 ms the session is authenticated and goes into             *)
(* activeSessions, from where the listener's Close closes it.              *)
Register ==
  /\ Goes("server", "responded", "registered")
  /\ SetState("server", "authenticated")
  /\ UNCHANGED <<flow, wire, listener>>

(* The loop that waits for the authentication does not end on a session    *)
(* that was closed.                                                        *)
AwaitAuthentication ==
  /\ IsAuthenticationComplete("server")
  /\ Goes("server", "registered", "activating")
  /\ UNCHANGED <<state, flow, wire, listener>>

ActivateServer ==
  IF CanSetState("server", "active")
  THEN /\ Goes("server", "activating", "starting")
       /\ SetState("server", "active")
       /\ UNCHANGED <<flow, wire, listener>>
  ELSE Fail("server", "activating")

(* Close of the listener closes the sessions it knows.                     *)
CloseListener ==
  /\ listener = "open" /\ listener' = "closed"
  /\ IF Registered \/ at["server"] = "activating"
     THEN state' = [state EXCEPT !["server"] = "closed"] /\ Disconnect
     ELSE UNCHANGED <<state, link>>
  /\ UNCHANGED <<at, flow, toServer, toClient>>

---------------------------------------------------------------------------
(* The managers: health monitor, heartbeats, offsets; the health monitor   *)
(* refuses a session that is not authenticated.                            *)
StartManagers(e) ==
  IF IsAuthenticationComplete(e)
  THEN Goes(e, "starting", "adding") /\ UNCHANGED <<state, flow, wire, listener>>
  ELSE Fail(e, "starting")

(* FlowControlManager.AddPath *)
LockPathWindows(e) ==
  /\ pathWindowsMutex[e] = "free"
  /\ Goes(e, "adding", "locked")
  /\ pathWindowsMutex' = [pathWindowsMutex EXCEPT ![e] = "held"]
  /\ UNCHANGED <<state, pathWindows, windows, wire, listener>>

CalculateInitialPathWindow(e) ==
  /\ pathWindows => pathWindowsMutex[e] = "free"
  /\ Goes(e, "locked", "sized")
  /\ UNCHANGED <<state, flow, wire, listener>>

EnterPath(e) ==
  /\ Goes(e, "sized", "entered")
  /\ windows' = windows \cup {e}
  /\ UNCHANGED <<state, pathWindows, pathWindowsMutex, wire, listener>>

(* The call goes on whatever becomes of the first window update.           *)
SendWindowUpdate(e) ==
  /\ Goes(e, "entered", "announced")
  /\ IF link # "up" THEN UNCHANGED <<toServer, toClient>>
     ELSE IF e = "client" THEN toServer' = Append(toServer, "window") /\ UNCHANGED toClient
                          ELSE toClient' = Append(toClient, "window") /\ UNCHANGED toServer
  /\ UNCHANGED <<state, flow, link, listener>>

UnlockPathWindows(e) ==
  /\ Goes(e, "announced", "unlocked")
  /\ pathWindowsMutex' = [pathWindowsMutex EXCEPT ![e] = "free"]
  /\ UNCHANGED <<state, pathWindows, windows, wire, listener>>

(* The workers start and the call of the end returns.                      *)
Return(e) ==
  /\ Goes(e, "unlocked", "established")
  /\ UNCHANGED <<state, flow, wire, listener>>

Start(e) ==
  StartManagers(e) \/ LockPathWindows(e) \/ CalculateInitialPathWindow(e) \/ EnterPath(e)
    \/ SendWindowUpdate(e) \/ UnlockPathWindows(e) \/ Return(e)

---------------------------------------------------------------------------
LoseConnection ==
  /\ link = "up" /\ link' = "down"
  /\ UNCHANGED <<at, state, flow, toServer, toClient, listener>>

Dial ==
  CreatePath \/ SendRequest \/ ReadResponse \/ NoResponse \/ ActivateClient \/ Start("client")

Accept ==
  AcceptConnection \/ AcceptControlStream \/ ReadRequest \/ NoRequest \/ SendResponse
    \/ Register \/ AwaitAuthentication \/ ActivateServer \/ Start("server")

Next == Dial \/ Accept \/ CloseListener \/ LoseConnection

(* Nothing makes either machine go on.  What a call needs is that its own  *)
(* machine does; nobody has to accept a connection.                        *)
Spec == Init /\ [][Next]_vars

DialGoesOn == WF_vars(Dial)
AcceptGoesOn == WF_vars(Accept /\ ~AcceptConnection)

FairSpec == Spec /\ DialGoesOn /\ AcceptGoesOn
---------------------------------------------------------------------------
TypeOK ==
  /\ at \in [Ends -> {"begun", "connected", "waiting", "authenticated", "accepted", "reading",
                      "requested", "responded", "registered", "activating", "starting",
                      "adding"} \cup AddingPath \cup Over]
  /\ state \in [Ends -> {"connecting", "authenticating", "authenticated", "active", "closed"}]
  /\ pathWindows \in BOOLEAN /\ windows \subseteq Ends
  /\ pathWindowsMutex \in [Ends -> {"free", "held"}]
  /\ link \in {"none", "up", "down"} /\ listener \in {"open", "closed"}
  /\ toServer \in Seq({"request", "window"}) /\ toClient \in Seq({"response", "window"})

(* No call asks its state machine for a step that isValidTransition        *)
(* refuses, save ActivateServer, which finds a session that the listener's *)
(* Close has closed: the error branches behind the other calls of SetState *)
(* (client.go:344, :1345, :1435, server.go:1828, :1947), which the actions *)
(* leave out, are never taken.                                             *)
TransitionsAreValid ==
  /\ at["client"] = "connected" => CanSetState("client", "authenticating")
  /\ at["client"] = "waiting" => CanSetState("client", "authenticated")
  /\ at["client"] = "authenticated" => CanSetState("client", "active")
  /\ at["server"] = "accepted" => CanSetState("server", "authenticating")
  /\ at["server"] = "responded" => CanSetState("server", "authenticated")

(* The two state machines follow each other: a server's session only       *)
(* leaves "connecting" for a client that has asked, and a client's is only *)
(* authenticated when the server has answered, however many frames a Read  *)
(* merges and whichever end fails.                                         *)
HandshakeInOrder ==
  /\ state["server"] # "connecting" => state["client"] # "connecting"
  /\ IsAuthenticationComplete("client") =>
       at["server"] \notin {"begun", "accepted", "reading", "requested"}

(* The answer is the first thing a client that waits for it finds, however *)
(* far the server has got meanwhile: what a Read may find behind it is the *)
(* first window update, which flow control sends over the same stream.     *)
AnswerComesFirst ==
  at["client"] = "waiting" /\ toClient # <<>> => Head(toClient) = "response"

(* With EnablePathWindows, the default, no call ever comes back with a     *)
(* session, at either end.                                                 *)
NobodyIsEstablished == pathWindows => \A e \in Ends : at[e] # "established"

(* A call is over, or it waits for the mutex that it holds itself.         *)
WaitsForItself(e) == pathWindows /\ at[e] = "locked"
Settled(e) == at[e] \in Over \/ WaitsForItself(e)

(* An end whose own machine goes on settles whatever the other machine     *)
(* does or does not do: Dial always, for a timeout or the loss of the      *)
(* connection ends each of its waits; Accept once the client has opened    *)
(* its control stream or the connection is lost, unless its listener is    *)
(* closed meanwhile.  A client that stays connected and opens no stream    *)
(* holds Accept for ever (path.go:312 waits without a timeout).            *)
DialSettles == at["client"] = "begun" ~> Settled("client")
AcceptSettles ==
  at["server"] = "accepted" /\ (toServer # <<>> \/ link = "down")
    ~> Settled("server") \/ listener = "closed"
EstablishmentEnds == (DialGoesOn => DialSettles) /\ (AcceptGoesOn => AcceptSettles)

(* "Attendre que l'authentification soit terminée avant de continuer"      *)
(* (session/server.go:371): on a session that the listener's Close has     *)
(* closed the loop waits for ever.                                         *)
AcceptAlwaysReturns == at["server"] = "accepted" ~> at["server"] \in Over

(* "Attendre un délai de sécurité pour s'assurer que le client reçoit la   *)
(* réponse" (session/server.go:1942): a client that reads late finds the   *)
(* first window update behind the answer, and takes both for one frame.    *)
AnswerIsReadAlone == [][at["client"] = "waiting" => toClient \in {<<>>, <<"response">>}]_vars

(* "Dial establishes a connection to the primary server"                   *)
(* (session/client.go:286): with the configuration that every session has, *)
(* FlowControlManager.AddPath waits for a mutex its caller holds.          *)
DialEnds == at["client"] = "begun" ~> at["client"] \in Over
=============================================================================
