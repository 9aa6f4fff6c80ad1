------------------------- MODULE EstablishmentProofs -------------------------
(***************************************************************************)
(* Proofs about Establishment, for both values of pathWindows.  IInv ties  *)
(* the state machine of an end to how far its call is, what is on the      *)
(* control stream to the two calls, and the mutex of flow control to the   *)
(* call that holds it.                                                     *)
(***************************************************************************)
EXTENDS Establishment, SequenceTheorems, TLAPS

(* What the session of the client is when its call is somewhere: nobody    *)
(* else touches it.                                                        *)
ClientFollows ==
  /\ at["client"] \in {"begun", "connected"} => state["client"] = "connecting"
  /\ at["client"] = "waiting" => state["client"] = "authenticating"
  /\ at["client"] = "authenticated" => state["client"] = "authenticated"
  /\ at["client"] \notin {"accepted", "reading", "requested", "responded", "registered", "activating"}
  /\ at["client"] \in {"starting", "adding", "established"} \cup AddingPath =>
       state["client"] = "active"

(* The session of the server, which the listener's Close may close once it *)
(* is registered.                                                          *)
ServerFollows ==
  /\ at["server"] \in {"begun", "accepted"} => state["server"] = "connecting"
  /\ at["server"] \in {"reading", "requested", "responded"} => state["server"] = "authenticating"
  /\ at["server"] \in {"registered", "activating"} => state["server"] \in {"authenticated", "closed"}
  /\ at["server"] \in {"starting", "adding", "established"} \cup AddingPath =>
       state["server"] \in {"active", "closed"}

(* Before its answer; nothing is on the control stream that its sender has *)
(* not got to, and the answer stays at the head of what a client that has  *)
(* not read it will find.                                                  *)
Unanswered == {"begun", "accepted", "reading", "requested"}
StreamFollows ==
  /\ toServer # <<>> => state["client"] # "connecting"
  /\ toClient # <<>> => at["server"] \notin Unanswered
  /\ at["client"] \in {"begun", "connected", "waiting"} =>
       /\ at["server"] \in Unanswered \cup {"failed"} \/ toClient # <<>>
       /\ toClient # <<>> => toClient[1] = "response"

(* The mutex is held between its lock and the end of flow control's        *)
(* AddPath, and with EnablePathWindows nobody gets beyond the second lock. *)
MutexFollows ==
  /\ \A e \in Ends : pathWindowsMutex[e] = "held" <=> at[e] \in Locked
  /\ pathWindows =>
       \A e \in Ends : at[e] \notin {"established"} \cup (AddingPath \ {"locked"})

(* Flow control knows the path of an end from its insert on. *)
WindowsFollowCalls ==
  windows = {e \in Ends : at[e] \in {"entered", "announced", "unlocked", "established"}}

IInv ==
  /\ TypeOK /\ ClientFollows /\ ServerFollows /\ StreamFollows /\ MutexFollows
  /\ HandshakeInOrder /\ WindowsFollowCalls

(* The positions of a call, one by one. *)
LEMMA Positions ==
  /\ AddingPath = {"locked", "sized", "entered", "announced", "unlocked"}
  /\ Locked = {"locked", "sized", "entered", "announced"}
  /\ AddingPath \ {"locked"} = {"sized", "entered", "announced", "unlocked"}
  /\ Over = {"established", "failed"}
BY DEF AddingPath, Locked, Over

LEMMA InitIInv == Init => IInv
BY DEF Init, IInv, TypeOK, ClientFollows, ServerFollows, StreamFollows, MutexFollows,
   HandshakeInOrder, WindowsFollowCalls, Ends, Over, IsAuthenticationComplete, AddingPath, Locked,
   Unanswered

-----------------------------------------------------------------------------
(* What Goes says of the two calls. *)
LEMMA GoesEffect ==
  ASSUME TypeOK, NEW e \in Ends, NEW from, NEW to, Goes(e, from, to)
  PROVE  /\ at[e] = from /\ at'[e] = to
         /\ \A f \in Ends \ {e} : at'[f] = at[f]
BY DEF TypeOK, Goes

LEMMA SetStateEffect ==
  ASSUME TypeOK, NEW e \in Ends, NEW new, SetState(e, new)
  PROVE  /\ state'[e] = new
         /\ \A f \in Ends \ {e} : state'[f] = state[f]
BY DEF TypeOK, SetState

(* A control stream stays a sequence of its frames. *)
LEMMA Frames ==
  ASSUME NEW S, NEW s \in Seq(S)
  PROVE  <<>> \in Seq(S) /\ \A x \in S : Append(s, x) \in Seq(S)
OBVIOUS

(* Who is where in flow control stays, and so does flow control. *)
LEMMA FlowStays ==
  ASSUME MutexFollows, WindowsFollowCalls, UNCHANGED <<pathWindows, pathWindowsMutex, windows>>,
         \A f \in Ends : \A x \in {"established"} \cup AddingPath : at'[f] = x <=> at[f] = x
  PROVE  MutexFollows' /\ WindowsFollowCalls'
<1>1. ASSUME NEW f \in Ends
      PROVE  /\ at'[f] \in Locked <=> at[f] \in Locked
             /\ at'[f] \in {"established"} \cup (AddingPath \ {"locked"})
                  <=> at[f] \in {"established"} \cup (AddingPath \ {"locked"})
             /\ at'[f] \in {"entered", "announced", "unlocked", "established"}
                  <=> at[f] \in {"entered", "announced", "unlocked", "established"}
  BY Positions
<1>2. MutexFollows'
  BY <1>1 DEF MutexFollows
<1>3. WindowsFollowCalls'
  BY <1>1 DEF WindowsFollowCalls
<1> QED BY <1>2, <1>3

(* A call that fails outside of flow control. *)
LEMMA FailIInv ==
  ASSUME IInv, NEW e \in Ends, NEW from, Fail(e, from),
         from \in {"begun", "connected", "waiting", "accepted", "reading", "requested", "activating",
                   "starting"},
         e = "server" => from \notin {"begun", "connected", "waiting"}
  PROVE  IInv'
<1>1. /\ at[e] = from /\ at' = [at EXCEPT ![e] = "failed"]
      /\ state' = IF e = "server" /\ from # "accepted" THEN [state EXCEPT ![e] = "closed"] ELSE state
      /\ UNCHANGED <<flow, toServer, toClient, listener>>
      /\ link' \in {"none", "down"}
  BY DEF Fail, Goes, Disconnect
<1>2. TypeOK'
  BY <1>1 DEF IInv, TypeOK, flow, Over
<1>3. at'[e] = "failed" /\ \A f \in Ends \ {e} : at'[f] = at[f]
  BY <1>1 DEF IInv, TypeOK
<1>4. ClientFollows' /\ ServerFollows'
  BY <1>1, <1>3, Positions DEF IInv, TypeOK, ClientFollows, ServerFollows, Ends
<1>5. StreamFollows'
  <2>1. UNCHANGED <<toServer, toClient>> /\ (toServer # <<>> => state'["client"] # "connecting")
    BY <1>1 DEF IInv, TypeOK, StreamFollows, Ends
  <2>2. CASE e = "client"
    BY <2>1, <2>2, <1>1, <1>3 DEF IInv, StreamFollows, Ends
  <2>3. CASE e = "server"
    BY <2>1, <2>3, <1>1, <1>3 DEF IInv, StreamFollows, Unanswered, Ends
  <2> QED BY <2>2, <2>3 DEF Ends
<1>7. HandshakeInOrder'
  <2>1. CASE e = "client"
    BY <2>1, <1>1, <1>3 DEF IInv, HandshakeInOrder, IsAuthenticationComplete, Ends
  <2>2. CASE e = "server" /\ from = "accepted"
    BY <2>2, <1>1, <1>3 DEF IInv, HandshakeInOrder, IsAuthenticationComplete, Ends
  <2>3. CASE e = "server" /\ from # "accepted"
    <3>1. state["server"] # "connecting"
      BY <2>3, <1>1 DEF IInv, ClientFollows, ServerFollows
    <3>2. state'["client"] = state["client"] /\ at'["server"] = "failed"
      BY <2>3, <1>1, <1>3 DEF IInv, TypeOK, Ends
    <3> QED BY <3>1, <3>2 DEF IInv, HandshakeInOrder, IsAuthenticationComplete
  <2> QED BY <2>1, <2>2, <2>3 DEF Ends
<1>6. MutexFollows' /\ WindowsFollowCalls'
  <2>1. UNCHANGED <<pathWindows, pathWindowsMutex, windows>>
    BY <1>1 DEF flow
  <2>2. \A f \in Ends : \A x \in {"established"} \cup AddingPath : at'[f] = x <=> at[f] = x
    BY <1>1, <1>3, Positions
  <2> QED BY <2>1, <2>2, FlowStays DEF IInv
<1> QED BY <1>2, <1>4, <1>5, <1>6, <1>7 DEF IInv

(* A step of one call that leaves flow control alone. *)
LEMMA OutsideFlow ==
  ASSUME IInv, NEW e \in Ends, NEW from, NEW to, Goes(e, from, to), UNCHANGED flow,
         {from, to} \cap ({"established", "failed"} \cup AddingPath) = {}
  PROVE  MutexFollows' /\ WindowsFollowCalls'
<1>1. at[e] = from /\ at'[e] = to /\ \A f \in Ends \ {e} : at'[f] = at[f]
  BY GoesEffect DEF IInv
<1>2. UNCHANGED <<pathWindows, pathWindowsMutex, windows>>
  BY DEF flow
<1>3. \A f \in Ends : \A x \in {"established"} \cup AddingPath : at'[f] = x <=> at[f] = x
  BY <1>1 DEF AddingPath, Locked
<1> QED BY <1>2, <1>3, FlowStays DEF IInv

LEMMA DialIInv ==
  ASSUME IInv,
         CreatePath \/ SendRequest \/ ReadResponse \/ NoResponse \/ ActivateClient
  PROVE  IInv'
<1>1. ASSUME Goes("client", "begun", "connected"), link' = "up",
             UNCHANGED <<state, flow, toServer, toClient, listener>>
      PROVE  IInv'
  <2>1. at["client"] = "begun" /\ at'["client"] = "connected" /\ at'["server"] = at["server"]
    BY <1>1, GoesEffect DEF IInv, Ends
  <2>2. TypeOK'
    BY <1>1 DEF IInv, TypeOK, Goes, flow
  <2>3. MutexFollows' /\ WindowsFollowCalls'
    BY <1>1, OutsideFlow, Positions DEF Ends
  <2> QED
    BY <1>1, <2>1, <2>2, <2>3
    DEF IInv, ClientFollows, ServerFollows, StreamFollows, HandshakeInOrder, IsAuthenticationComplete,
        Unanswered, AddingPath, Locked
<1>2. ASSUME Goes("client", "connected", "waiting"), SetState("client", "authenticating"),
             toServer' = Append(toServer, "request"),
             UNCHANGED <<flow, link, toClient, listener>>
      PROVE  IInv'
  <2>1. at["client"] = "connected" /\ at'["client"] = "waiting" /\ at'["server"] = at["server"]
    BY <1>2, GoesEffect DEF IInv, Ends
  <2>2. state'["client"] = "authenticating" /\ state'["server"] = state["server"]
    BY <1>2, SetStateEffect DEF IInv, Ends
  <2>6. toServer' \in Seq({"request", "window"})
    BY <1>2, Frames, Zenon DEF IInv, TypeOK
  <2>3. TypeOK'
    BY <1>2, <2>6 DEF IInv, TypeOK, Goes, SetState, flow
  <2>4. MutexFollows' /\ WindowsFollowCalls'
    BY <1>2, OutsideFlow, Positions DEF Ends
  <2> QED
    BY <1>2, <2>1, <2>2, <2>3, <2>4
    DEF IInv, ClientFollows, ServerFollows, StreamFollows, HandshakeInOrder, IsAuthenticationComplete,
        Unanswered, AddingPath, Locked
<1>3. ASSUME Goes("client", "waiting", "authenticated"), SetState("client", "authenticated"),
             toClient # <<>>, NEW n \in 1 .. Len(toClient),
             toClient' = SubSeq(toClient, n + 1, Len(toClient)),
             UNCHANGED <<flow, link, toServer, listener>>
      PROVE  IInv'
  <2>1. at["client"] = "waiting" /\ at'["client"] = "authenticated" /\ at'["server"] = at["server"]
    BY <1>3, GoesEffect DEF IInv, Ends
  <2>2. state'["client"] = "authenticated" /\ state'["server"] = state["server"]
    BY <1>3, SetStateEffect DEF IInv, Ends
  <2>3. toClient' \in Seq({"response", "window"})
    BY <1>3 DEF IInv, TypeOK
  <2>4. TypeOK'
    BY <1>3, <2>3 DEF IInv, TypeOK, Goes, SetState, flow
  <2>5. MutexFollows' /\ WindowsFollowCalls'
    BY <1>3, OutsideFlow, Positions DEF Ends
  <2> QED
    BY <1>3, <2>1, <2>2, <2>4, <2>5
    DEF IInv, ClientFollows, ServerFollows, StreamFollows, HandshakeInOrder, IsAuthenticationComplete,
        Unanswered, AddingPath, Locked
<1>4. CASE ActivateClient
  <2>1. at["client"] = "authenticated" /\ at'["client"] = "starting" /\ at'["server"] = at["server"]
    BY <1>4, GoesEffect DEF IInv, Ends, ActivateClient
  <2>2. state'["client"] = "active" /\ state'["server"] = state["server"]
    BY <1>4, SetStateEffect DEF IInv, Ends, ActivateClient
  <2>3. UNCHANGED <<flow, wire, listener>>
    BY <1>4 DEF ActivateClient
  <2>4. TypeOK'
    BY <1>4, <2>3 DEF IInv, TypeOK, ActivateClient, Goes, SetState, flow, wire
  <2>5. MutexFollows' /\ WindowsFollowCalls'
    BY <1>4, OutsideFlow, Positions DEF Ends, ActivateClient
  <2> QED
    BY <2>1, <2>2, <2>3, <2>4, <2>5
    DEF IInv, ClientFollows, ServerFollows, StreamFollows, HandshakeInOrder, IsAuthenticationComplete,
        Unanswered, AddingPath, Locked, wire
<1>5. \A from \in {"begun", "connected", "waiting"} : Fail("client", from) => IInv'
  BY FailIInv DEF Ends
<1> QED
  BY <1>1, <1>2, <1>3, <1>4, <1>5 DEF CreatePath, SendRequest, ReadResponse, NoResponse

LEMMA AcceptIInv ==
  ASSUME IInv,
         \/ AcceptConnection \/ AcceptControlStream \/ ReadRequest \/ NoRequest \/ SendResponse
         \/ Register \/ AwaitAuthentication \/ ActivateServer
  PROVE  IInv'
<1>1. \A from \in {"accepted", "reading", "requested", "activating"} : Fail("server", from) => IInv'
  BY FailIInv DEF Ends
<1>2. CASE AcceptConnection
  <2>1. at["server"] = "begun" /\ at'["server"] = "accepted" /\ at'["client"] = at["client"]
    BY <1>2, GoesEffect DEF IInv, Ends, AcceptConnection
  <2>2. UNCHANGED <<state, flow, wire, listener>>
    BY <1>2 DEF AcceptConnection
  <2>3. TypeOK'
    BY <1>2, <2>2 DEF IInv, TypeOK, AcceptConnection, Goes, flow, wire
  <2>4. MutexFollows' /\ WindowsFollowCalls'
    BY <1>2, OutsideFlow, Positions DEF Ends, AcceptConnection
  <2> QED
    BY <2>1, <2>2, <2>3, <2>4
    DEF IInv, ClientFollows, ServerFollows, StreamFollows, HandshakeInOrder, IsAuthenticationComplete,
        Unanswered, AddingPath, Locked, wire
<1>3. ASSUME toServer # <<>>, Goes("server", "accepted", "reading"),
             SetState("server", "authenticating"), UNCHANGED <<flow, wire, listener>>
      PROVE  IInv'
  <2>1. at["server"] = "accepted" /\ at'["server"] = "reading" /\ at'["client"] = at["client"]
    BY <1>3, GoesEffect DEF IInv, Ends
  <2>2. state'["server"] = "authenticating" /\ state'["client"] = state["client"]
    BY <1>3, SetStateEffect DEF IInv, Ends
  <2>3. TypeOK'
    BY <1>3 DEF IInv, TypeOK, Goes, SetState, flow, wire
  <2>4. MutexFollows' /\ WindowsFollowCalls'
    BY <1>3, OutsideFlow, Positions DEF Ends
  <2> QED
    BY <1>3, <2>1, <2>2, <2>3, <2>4
    DEF IInv, ClientFollows, ServerFollows, StreamFollows, HandshakeInOrder, IsAuthenticationComplete,
        Unanswered, AddingPath, Locked, wire
<1>4. CASE ReadRequest
  <2>1. at["server"] = "reading" /\ at'["server"] = "requested" /\ at'["client"] = at["client"]
    BY <1>4, GoesEffect DEF IInv, Ends, ReadRequest
  <2>2. UNCHANGED <<state, flow, link, toClient, listener>> /\ toServer' = <<>>
    BY <1>4 DEF ReadRequest
  <2>3. TypeOK'
    <3>1. toServer' \in Seq({"request", "window"})
      BY <2>2, Frames, Zenon DEF IInv, TypeOK
    <3> QED BY <1>4, <2>2, <3>1 DEF IInv, TypeOK, ReadRequest, Goes, flow
  <2>4. MutexFollows' /\ WindowsFollowCalls'
    BY <1>4, OutsideFlow, Positions DEF Ends, ReadRequest
  <2> QED
    BY <2>1, <2>2, <2>3, <2>4
    DEF IInv, ClientFollows, ServerFollows, StreamFollows, HandshakeInOrder, IsAuthenticationComplete,
        Unanswered, AddingPath, Locked
<1>5. ASSUME Goes("server", "requested", "responded"), toClient' = Append(toClient, "response"),
             UNCHANGED <<state, flow, link, toServer, listener>>
      PROVE  IInv'
  <2>1. at["server"] = "requested" /\ at'["server"] = "responded" /\ at'["client"] = at["client"]
    BY <1>5, GoesEffect DEF IInv, Ends
  <2>2. TypeOK'
    <3>1. toClient' \in Seq({"response", "window"})
      BY <1>5, Frames, Zenon DEF IInv, TypeOK
    <3> QED BY <1>5, <3>1 DEF IInv, TypeOK, Goes, flow
  <2>3. MutexFollows' /\ WindowsFollowCalls'
    BY <1>5, OutsideFlow, Positions DEF Ends
  <2> QED
    BY <1>5, <2>1, <2>2, <2>3
    DEF IInv, ClientFollows, ServerFollows, StreamFollows, HandshakeInOrder, IsAuthenticationComplete,
        Unanswered, AddingPath, Locked
<1>6. CASE Register
  <2>1. at["server"] = "responded" /\ at'["server"] = "registered" /\ at'["client"] = at["client"]
    BY <1>6, GoesEffect DEF IInv, Ends, Register
  <2>2. state'["server"] = "authenticated" /\ state'["client"] = state["client"]
    BY <1>6, SetStateEffect DEF IInv, Ends, Register
  <2>3. UNCHANGED <<flow, wire, listener>>
    BY <1>6 DEF Register
  <2>4. TypeOK'
    BY <1>6, <2>3 DEF IInv, TypeOK, Register, Goes, SetState, flow, wire
  <2>5. MutexFollows' /\ WindowsFollowCalls'
    BY <1>6, OutsideFlow, Positions DEF Ends, Register
  <2> QED
    BY <2>1, <2>2, <2>3, <2>4, <2>5
    DEF IInv, ClientFollows, ServerFollows, StreamFollows, HandshakeInOrder, IsAuthenticationComplete,
        Unanswered, AddingPath, Locked, wire
<1>7. CASE AwaitAuthentication
  <2>1. at["server"] = "registered" /\ at'["server"] = "activating" /\ at'["client"] = at["client"]
    BY <1>7, GoesEffect DEF IInv, Ends, AwaitAuthentication
  <2>2. UNCHANGED <<state, flow, wire, listener>>
    BY <1>7 DEF AwaitAuthentication
  <2>3. TypeOK'
    BY <1>7, <2>2 DEF IInv, TypeOK, AwaitAuthentication, Goes, flow, wire
  <2>4. MutexFollows' /\ WindowsFollowCalls'
    BY <1>7, OutsideFlow, Positions DEF Ends, AwaitAuthentication
  <2> QED
    BY <2>1, <2>2, <2>3, <2>4
    DEF IInv, ClientFollows, ServerFollows, StreamFollows, HandshakeInOrder, IsAuthenticationComplete,
        Unanswered, AddingPath, Locked, wire
<1>8. ASSUME Goes("server", "activating", "starting"), SetState("server", "active"),
             UNCHANGED <<flow, wire, listener>>
      PROVE  IInv'
  <2>1. at["server"] = "activating" /\ at'["server"] = "starting" /\ at'["client"] = at["client"]
    BY <1>8, GoesEffect DEF IInv, Ends
  <2>2. state'["server"] = "active" /\ state'["client"] = state["client"]
    BY <1>8, SetStateEffect DEF IInv, Ends
  <2>3. TypeOK'
    BY <1>8 DEF IInv, TypeOK, Goes, SetState, flow, wire
  <2>4. MutexFollows' /\ WindowsFollowCalls'
    BY <1>8, OutsideFlow, Positions DEF Ends
  <2> QED
    BY <1>8, <2>1, <2>2, <2>3, <2>4
    DEF IInv, ClientFollows, ServerFollows, StreamFollows, HandshakeInOrder, IsAuthenticationComplete,
        Unanswered, AddingPath, Locked, wire
<1> QED
  BY <1>1, <1>2, <1>3, <1>4, <1>5, <1>6, <1>7, <1>8
  DEF AcceptControlStream, NoRequest, SendResponse, ActivateServer

-----------------------------------------------------------------------------
(* A call that goes from one manager to the next, with nothing sent. *)
LEMMA CallFollows ==
  ASSUME IInv, NEW e \in Ends, UNCHANGED <<state, wire, listener>>,
         at[e] \in {"starting", "adding"} \cup AddingPath,
         at'[e] \in {"adding", "established"} \cup AddingPath,
         \A f \in Ends \ {e} : at'[f] = at[f],
         TypeOK', MutexFollows', WindowsFollowCalls'
  PROVE  IInv'
<1>1. ClientFollows' /\ ServerFollows' /\ HandshakeInOrder'
  BY Positions
  DEF IInv, ClientFollows, ServerFollows, HandshakeInOrder, IsAuthenticationComplete, Ends
<1>2. StreamFollows'
  BY Positions DEF IInv, StreamFollows, Unanswered, Ends, wire
<1> QED BY <1>1, <1>2 DEF IInv

(* The managers of an end; both ends start them the same way. *)
LEMMA StartIInv ==
  ASSUME IInv, NEW e \in Ends, Start(e)
  PROVE  IInv'
<1>1. CASE Goes(e, "starting", "adding") /\ UNCHANGED <<state, flow, wire, listener>>
  <2>1. at[e] = "starting" /\ at'[e] = "adding" /\ \A f \in Ends \ {e} : at'[f] = at[f]
    BY <1>1, GoesEffect DEF IInv
  <2>2. TypeOK'
    BY <1>1 DEF IInv, TypeOK, Goes, flow, wire
  <2>3. MutexFollows' /\ WindowsFollowCalls'
    BY <1>1, OutsideFlow, Positions
  <2> QED BY <1>1, <2>1, <2>2, <2>3, CallFollows, Positions
<1>2. CASE Fail(e, "starting")
  BY <1>2, FailIInv
<1>3. CASE LockPathWindows(e)
  <2>1. at[e] = "adding" /\ at'[e] = "locked" /\ \A f \in Ends \ {e} : at'[f] = at[f]
    BY <1>3, GoesEffect DEF IInv, LockPathWindows
  <2>2. /\ UNCHANGED <<state, pathWindows, windows, wire, listener>>
        /\ pathWindowsMutex' = [pathWindowsMutex EXCEPT ![e] = "held"]
    BY <1>3 DEF LockPathWindows
  <2>3. TypeOK'
    BY <1>3, <2>2, Positions DEF IInv, TypeOK, LockPathWindows, Goes, wire
  <2>4. MutexFollows' /\ WindowsFollowCalls'
    BY <2>1, <2>2, Positions DEF IInv, TypeOK, MutexFollows, WindowsFollowCalls, flow
  <2> QED BY <2>1, <2>2, <2>3, <2>4, CallFollows, Positions
<1>4. CASE CalculateInitialPathWindow(e)
  <2>1. at[e] = "locked" /\ at'[e] = "sized" /\ \A f \in Ends \ {e} : at'[f] = at[f]
    BY <1>4, GoesEffect DEF IInv, CalculateInitialPathWindow
  <2>2. /\ UNCHANGED <<state, flow, wire, listener>>
        /\ ~pathWindows
    BY <1>4, <2>1, Positions DEF CalculateInitialPathWindow, IInv, MutexFollows
  <2>3. TypeOK'
    BY <1>4, <2>2, Positions DEF IInv, TypeOK, CalculateInitialPathWindow, Goes, flow, wire
  <2>4. MutexFollows' /\ WindowsFollowCalls'
    BY <2>1, <2>2, Positions DEF IInv, TypeOK, MutexFollows, WindowsFollowCalls, flow
  <2> QED BY <2>1, <2>2, <2>3, <2>4, CallFollows, Positions
<1>5. CASE EnterPath(e)
  <2>1. at[e] = "sized" /\ at'[e] = "entered" /\ \A f \in Ends \ {e} : at'[f] = at[f]
    BY <1>5, GoesEffect DEF IInv, EnterPath
  <2>2. /\ UNCHANGED <<state, pathWindows, pathWindowsMutex, wire, listener>>
        /\ windows' = windows \cup {e}
    BY <1>5 DEF EnterPath
  <2>3. TypeOK'
    BY <1>5, <2>2, Positions DEF IInv, TypeOK, EnterPath, Goes, wire
  <2>4. MutexFollows' /\ WindowsFollowCalls'
    BY <2>1, <2>2, Positions DEF IInv, TypeOK, MutexFollows, WindowsFollowCalls, flow
  <2> QED BY <2>1, <2>2, <2>3, <2>4, CallFollows, Positions
<1>6. CASE SendWindowUpdate(e)
  <2>1. at[e] = "entered" /\ at'[e] = "announced" /\ \A f \in Ends \ {e} : at'[f] = at[f]
    BY <1>6, GoesEffect DEF IInv, SendWindowUpdate
  <2>2. /\ UNCHANGED <<state, flow, link, listener>>
        /\ toServer' = toServer \/ (e = "client" /\ toServer' = Append(toServer, "window"))
        /\ toClient' = toClient \/ (e = "server" /\ toClient' = Append(toClient, "window"))
    BY <1>6 DEF SendWindowUpdate, Ends
  <2>3. toServer' \in Seq({"request", "window"}) /\ toClient' \in Seq({"response", "window"})
    BY <2>2, Frames, Zenon DEF IInv, TypeOK
  <2>4. TypeOK'
    BY <1>6, <2>2, <2>3, Positions DEF IInv, TypeOK, SendWindowUpdate, Goes, flow
  <2>5. MutexFollows' /\ WindowsFollowCalls'
    BY <2>1, <2>2, Positions DEF IInv, TypeOK, MutexFollows, WindowsFollowCalls, flow
  <2>6. ClientFollows' /\ ServerFollows' /\ HandshakeInOrder'
    BY <2>1, <2>2, Positions
    DEF IInv, ClientFollows, ServerFollows, HandshakeInOrder, IsAuthenticationComplete, Ends
  <2>7. StreamFollows'
    <3>1. CASE e = "client"
      BY <3>1, <2>1, <2>2, Positions DEF IInv, StreamFollows, ClientFollows, Ends
    <3>2. CASE e = "server"
      <4>1. toClient' = toClient \/ toClient' = Append(toClient, "window")
        BY <2>2
      <4>2. toClient # <<>> => toClient' # <<>> /\ toClient'[1] = toClient[1]
        BY <4>1 DEF IInv, TypeOK
      <4> QED
        BY <3>2, <2>1, <2>2, <4>2 DEF IInv, StreamFollows, Unanswered, Ends
    <3> QED BY <3>1, <3>2 DEF Ends
  <2> QED BY <2>4, <2>5, <2>6, <2>7 DEF IInv
<1>7. CASE UnlockPathWindows(e)
  <2>1. at[e] = "announced" /\ at'[e] = "unlocked" /\ \A f \in Ends \ {e} : at'[f] = at[f]
    BY <1>7, GoesEffect DEF IInv, UnlockPathWindows
  <2>2. /\ UNCHANGED <<state, pathWindows, windows, wire, listener>>
        /\ pathWindowsMutex' = [pathWindowsMutex EXCEPT ![e] = "free"]
    BY <1>7 DEF UnlockPathWindows
  <2>3. TypeOK'
    BY <1>7, <2>2, Positions DEF IInv, TypeOK, UnlockPathWindows, Goes, wire
  <2>4. MutexFollows' /\ WindowsFollowCalls'
    BY <2>1, <2>2, Positions DEF IInv, TypeOK, MutexFollows, WindowsFollowCalls, flow
  <2> QED BY <2>1, <2>2, <2>3, <2>4, CallFollows, Positions
<1>8. CASE Return(e)
  <2>1. at[e] = "unlocked" /\ at'[e] = "established" /\ \A f \in Ends \ {e} : at'[f] = at[f]
    BY <1>8, GoesEffect DEF IInv, Return
  <2>2. UNCHANGED <<state, flow, wire, listener>>
    BY <1>8 DEF Return
  <2>3. TypeOK'
    BY <1>8, <2>2, Positions DEF IInv, TypeOK, Return, Goes, flow, wire
  <2>4. MutexFollows' /\ WindowsFollowCalls'
    BY <2>1, <2>2, Positions DEF IInv, TypeOK, MutexFollows, WindowsFollowCalls, flow
  <2> QED BY <2>1, <2>2, <2>3, <2>4, CallFollows, Positions
<1> QED BY <1>1, <1>2, <1>3, <1>4, <1>5, <1>6, <1>7, <1>8 DEF Start, StartManagers

(* The listener's Close and the loss of the connection move no call. *)
LEMMA OutsideIInv ==
  ASSUME IInv, CloseListener \/ LoseConnection
  PROVE  IInv'
<1>1. /\ UNCHANGED <<at, flow, toServer, toClient>>
      /\ link' \in {"none", "up", "down"} /\ listener' \in {"open", "closed"}
  BY DEF CloseListener, LoseConnection, Disconnect, IInv, TypeOK
<1>2. \/ state' = state
      \/ /\ at["server"] \in {"registered", "activating", "starting", "adding", "established"}
                           \cup AddingPath
         /\ state' = [state EXCEPT !["server"] = "closed"]
  BY Zenon DEF CloseListener, LoseConnection, Registered
<1>3. TypeOK'
  BY <1>1, <1>2 DEF IInv, TypeOK, flow
<1>4. ClientFollows' /\ ServerFollows' /\ HandshakeInOrder'
  BY <1>1, <1>2 DEF IInv, TypeOK, ClientFollows, ServerFollows, HandshakeInOrder,
     IsAuthenticationComplete, Ends
<1>5. StreamFollows' /\ MutexFollows' /\ WindowsFollowCalls'
  BY <1>1, <1>2 DEF IInv, TypeOK, StreamFollows, MutexFollows, WindowsFollowCalls, flow, Ends
<1> QED BY <1>3, <1>4, <1>5 DEF IInv

LEMMA NextIInv == IInv /\ [Next]_vars => IInv'
<1> SUFFICES ASSUME IInv, [Next]_vars PROVE IInv'
  OBVIOUS
<1>1. CASE UNCHANGED vars
  BY <1>1 DEF vars, IInv, TypeOK, ClientFollows, ServerFollows, StreamFollows, MutexFollows,
     HandshakeInOrder, WindowsFollowCalls, IsAuthenticationComplete
<1>2. "client" \in Ends /\ "server" \in Ends
  BY DEF Ends
<1> QED
  BY <1>1, <1>2, DialIInv, AcceptIInv, StartIInv, OutsideIInv DEF Next, Dial, Accept

-----------------------------------------------------------------------------
(* What the theorems below are parts of. *)
THEOREM Invariance == Spec => []IInv
BY InitIInv, NextIInv, PTL DEF Spec

(* Every reachable state has its declared shape. *)
THEOREM TypeCorrect == Spec => []TypeOK
BY Invariance, PTL DEF IInv

(* However the calls, the merged Reads, the timeouts and the listener's    *)
(* Close interleave, no session but the one ActivateServer looks at is     *)
(* asked for a transition it refuses.                                      *)
THEOREM EveryTransitionIsValid == Spec => []TransitionsAreValid
<1>1. IInv => TransitionsAreValid
  BY DEF IInv, ClientFollows, ServerFollows, TransitionsAreValid, CanSetState, ValidTransition
<1> QED BY <1>1, Invariance, PTL

(* No session of the server gets ahead of the client's request, and no     *)
(* session of the client ahead of the server's answer.                     *)
THEOREM HandshakeKeepsOrder == Spec => []HandshakeInOrder
BY Invariance, PTL DEF IInv

(* The wait of 200 ms that is to let a client read the answer alone does   *)
(* not matter for the order: whatever the server sends meanwhile is behind *)
(* the answer of a client that has not read it yet.                        *)
THEOREM AnswerIsFirst == Spec => []AnswerComesFirst
<1>1. IInv => AnswerComesFirst
  BY DEF IInv, TypeOK, StreamFollows, AnswerComesFirst
<1> QED BY <1>1, Invariance, PTL

(* With EnablePathWindows neither Dial nor Accept ever makes a session:    *)
(* what the counterexample to DialEnds shows of one schedule holds of all  *)
(* of them.                                                                *)
THEOREM NoSessionIsEstablished == Spec => []NobodyIsEstablished
<1>1. IInv => NobodyIsEstablished
  BY DEF IInv, MutexFollows, NobodyIsEstablished
<1> QED BY <1>1, Invariance, PTL
=============================================================================
