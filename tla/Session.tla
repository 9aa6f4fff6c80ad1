------------------------------ MODULE Session ------------------------------
(***************************************************************************)
(* AddPath between the two ends of an established session: the goroutines  *)
(* that call it on the server and the server's reader of control frames    *)
(* (pkg/session/server.go), the client's reader, which makes the path      *)
(* (pkg/session/client.go), and the client's path manager.                 *)
(*                                                                         *)
(* Control frames carry no length: one Read returns whatever has arrived,  *)
(* and what it parses is the last frame of it, or nothing when the bytes   *)
(* end inside a frame or hold frames of several types.  A Read therefore   *)
(* takes some frames off the stream and handles the last one or none.      *)
(*                                                                         *)
(* A call of AddPath is named by the path id it generates; a response is   *)
(* its id, or none, and whether it reports success.                        *)
(***************************************************************************)
EXTENDS PathManager, Sequences

CONSTANTS Addresses,
          AddressOf,        \* the address each call asks for
          None,             \* no call
          PathWindows       \* EnablePathWindows of flow control (see Establishment)

ASSUME SessionAssumption ==
  /\ AddressOf \in [Calls -> Addresses]
  /\ None \notin Objects
  /\ PathWindows \in BOOLEAN
  /\ Calls \cap {"reading", "ended", "panicked"} = {}

VARIABLES
  (* server *)
  call,                     \* per call: where AddPath stands
  pendingPathIDs,           \* per address: the call whose id is registered, or None
  responseChan,             \* per call: "none", "empty", "closed", or what it holds
  reader,                   \* "reading", "ended", "panicked", or the call it routes to
  routed,                   \* the success that the routed response reports
  serverOpen,
  (* control stream of the primary path *)
  requests, responses,
  (* client *)
  handler,                  \* where the reader of control frames stands
  handled,                  \* the request it handles, or None
  authenticated, integrated,
  closer,                   \* where the client's Close stands: "none", "cancelled", "closing"
  closing                   \* the paths it has yet to close

readerVars == <<reader, routed>>
serverVars == <<call, pendingPathIDs, responseChan, readerVars, serverOpen>>
wireVars   == <<requests, responses>>
clientVars == <<handler, handled, authenticated, integrated, closer, closing>>
vars == <<managerVars, serverVars, wireVars, clientVars>>

Returned == {"confirmed", "failed"}

(* What a channel of one slot can hold. *)
Held == {"accepted", "refused"}

Init ==
  /\ ManagerInit
  /\ call = [c \in Calls |-> "idle"]
  /\ pendingPathIDs = [a \in Addresses |-> None]
  /\ responseChan = [c \in Calls |-> "none"]
  /\ reader = "reading" /\ routed = FALSE /\ serverOpen = TRUE
  /\ requests = <<>> /\ responses = <<>>
  /\ handler = "reading" /\ handled = None
  /\ authenticated = {} /\ integrated = {}
  /\ closer = "none" /\ closing = {}

PrimaryUp == Primary \in connected
ClientOpen == closer = "none"
ControlStreamUp == PrimaryUp /\ ClientOpen

-----------------------------------------------------------------------------
(* The server: AddPath.                                                     *)

CallGoes(c, from, to) == call[c] = from /\ call' = [call EXCEPT ![c] = to]

(* The request is written before anything is recorded about it. *)
SendRequest(c) ==
  /\ CallGoes(c, "idle", "sent")
  /\ serverOpen /\ PrimaryUp
  /\ requests' = Append(requests, c)
  /\ UNCHANGED <<managerVars, clientVars, pendingPathIDs, responseChan, readerVars, serverOpen, responses>>

(* The session is closed, or the write fails. *)
RejectCall(c) ==
  /\ CallGoes(c, "idle", "failed")
  /\ ~(serverOpen /\ PrimaryUp)
  /\ UNCHANGED <<managerVars, wireVars, clientVars, pendingPathIDs, responseChan, readerVars, serverOpen>>

RecordPending(c) ==
  /\ CallGoes(c, "sent", "recorded")
  /\ pendingPathIDs' = [pendingPathIDs EXCEPT ![AddressOf[c]] = c]
  /\ UNCHANGED <<managerVars, wireVars, clientVars, responseChan, readerVars, serverOpen>>

RegisterChannel(c) ==
  /\ CallGoes(c, "recorded", "waiting")
  /\ responseChan' = [responseChan EXCEPT ![c] = "empty"]
  /\ UNCHANGED <<managerVars, wireVars, clientVars, pendingPathIDs, readerVars, serverOpen>>

(* An answer that reports no success fails the call. *)
AfterAnswer(answer) == IF answer = "accepted" THEN "answered" ELSE "failing"

ReceiveAnswer(c) ==
  /\ responseChan[c] \in Held
  /\ CallGoes(c, "waiting", AfterAnswer(responseChan[c]))
  /\ responseChan' = [responseChan EXCEPT ![c] = "empty"]
  /\ UNCHANGED <<managerVars, wireVars, clientVars, pendingPathIDs, readerVars, serverOpen>>

(* Mutant: the wait has no timeout of its own, it ends with the reader. *)
WaitEndsWithReader(c) ==
  /\ CallGoes(c, "waiting", "failing") /\ reader = "ended"
  /\ UNCHANGED <<managerVars, wireVars, clientVars, pendingPathIDs, responseChan, readerVars, serverOpen>>

TimeOut(c) ==
  /\ CallGoes(c, "waiting", "failing")
  /\ UNCHANGED <<managerVars, wireVars, clientVars, pendingPathIDs, responseChan, readerVars, serverOpen>>

(* The deferred function: the channel is deleted from the map and closed. *)
UnregisterChannel(c) ==
  /\ \/ CallGoes(c, "answered", "confirmed")
     \/ CallGoes(c, "failing", "cleaning")
  /\ responseChan' = [responseChan EXCEPT ![c] = "closed"]
  /\ UNCHANGED <<managerVars, wireVars, clientVars, pendingPathIDs, readerVars, serverOpen>>

(* Mutant: a failed call leaves the entry to the next call for the address. *)
KeepPending(c) == CallGoes(c, "cleaning", "failed") /\ UNCHANGED pendingPathIDs

(* The address's entry goes, whichever call put it there. *)
DropPending(c) ==
  /\ CallGoes(c, "cleaning", "failed")
  /\ pendingPathIDs' = [pendingPathIDs EXCEPT ![AddressOf[c]] = None]

CleanUp(c) ==
  /\ DropPending(c)
  /\ UNCHANGED <<managerVars, wireVars, clientVars, responseChan, readerVars, serverOpen>>

AddPath(c) ==
  \/ SendRequest(c) \/ RejectCall(c) \/ RecordPending(c) \/ RegisterChannel(c)
  \/ ReceiveAnswer(c) \/ TimeOut(c) \/ UnregisterChannel(c) \/ CleanUp(c)

(* handleControlFrames: the channel is looked up under the mutex ...        *)
ReadResponse ==
  /\ reader = "reading" /\ serverOpen /\ PrimaryUp
  /\ \E n \in 1 .. Len(responses) :
       /\ responses' = SubSeq(responses, n + 1, Len(responses))
       /\ LET id == responses[n][1]
              known == id \in Calls /\ responseChan[id] \in {"empty"} \cup Held
          IN  \/ reader' = "reading" /\ UNCHANGED routed
              \/ known /\ reader' = id /\ routed' = responses[n][2]
  /\ UNCHANGED <<managerVars, clientVars, call, pendingPathIDs, responseChan, serverOpen, requests>>

(* ... and sent to after it is let go.  A full channel drops the response,  *)
(* a closed one makes the send panic, and the reader is gone.               *)
RouteResponse ==
  /\ reader \in Calls
  /\ LET state == responseChan[reader]
     IN  /\ reader' = IF state = "closed" THEN "panicked" ELSE "reading"
         /\ responseChan' =
              IF state = "empty"
              THEN [responseChan EXCEPT ![reader] = IF routed THEN "accepted" ELSE "refused"]
              ELSE responseChan
         /\ routed' = FALSE
  /\ UNCHANGED <<managerVars, wireVars, clientVars, call, pendingPathIDs, serverOpen>>

EndReader ==
  /\ reader = "reading" /\ ~(serverOpen /\ PrimaryUp)
  /\ reader' = "ended"
  /\ UNCHANGED <<managerVars, wireVars, clientVars, call, pendingPathIDs, responseChan>>
  /\ UNCHANGED <<routed, serverOpen>>

(* A connection goes; what was in flight on the primary's goes with it.     *)
Disconnect(gone) ==
  /\ connected' = connected \ gone
  /\ IF Primary \in gone THEN requests' = <<>> /\ responses' = <<>> ELSE UNCHANGED wireVars

(* Close wants the session's mutex, which every AddPath holds for reading.  *)
CloseServer ==
  /\ serverOpen /\ \A c \in Calls : call[c] \in Returned \cup {"idle"}
  /\ serverOpen' = FALSE
  /\ Disconnect({Primary})
  /\ UNCHANGED <<clientVars, call, pendingPathIDs, responseChan, readerVars>>
  /\ UNCHANGED <<paths, activePaths, isPrimary, stateDead, renamed, old, verdict, sweep>>

-----------------------------------------------------------------------------
(* The client: handleAddPathRequest, one request at a time.                 *)

HandlerGoes(from, to) == handler = from /\ handler' = to

ReadRequest ==
  /\ ControlStreamUp
  /\ \E n \in 1 .. Len(requests) :
       /\ requests' = SubSeq(requests, n + 1, Len(requests))
       /\ \/ HandlerGoes("reading", "dialing") /\ handled' = requests[n]
          \/ HandlerGoes("reading", "reading") /\ UNCHANGED handled
  /\ UNCHANGED <<managerVars, serverVars, responses, authenticated, integrated, closer, closing>>

Dial ==
  /\ \/ HandlerGoes("dialing", "created") /\ CreatePath(handled)
     \/ HandlerGoes("dialing", "refusing") /\ UNCHANGED managerVars
  /\ UNCHANGED <<serverVars, wireVars, handled, authenticated, integrated, closer, closing>>

(* From here on the object answers to the id the server chose. *)
SetID ==
  /\ HandlerGoes("created", "opening")
  /\ renamed' = renamed \cup {handled}
  /\ UNCHANGED <<paths, activePaths, isPrimary, stateDead, old, connected, verdict, sweep>>
  /\ UNCHANGED <<serverVars, wireVars, handled, authenticated, integrated, closer, closing>>

(* The path is to be removed under the id it now has, and then refused. *)
GiveUp(from) == HandlerGoes(from, "refusing") /\ RemovePath(handled, ID(handled))

OpenControlStream ==
  /\ \/ /\ HandlerGoes("opening", "authenticating") /\ handled \in connected
        /\ UNCHANGED managerVars
     \/ GiveUp("opening")
  /\ UNCHANGED <<serverVars, wireVars, handled, authenticated, integrated, closer, closing>>

Authenticate ==
  /\ \/ /\ HandlerGoes("authenticating", "integrating") /\ handled \in connected
        /\ authenticated' = authenticated \cup {handled}
        /\ UNCHANGED managerVars
     \/ GiveUp("authenticating") /\ UNCHANGED authenticated
  /\ UNCHANGED <<serverVars, wireVars, handled, integrated, closer, closing>>

(* Mutant: the primary flag is not looked at. *)
IsKnownAndActive(o) == IsActive(o) /\ o \in paths

CanIntegrate(o) == IsActive(o) /\ o \notin isPrimary /\ o \in paths

(* With PathWindows the authentication does not return: at its end the path *)
(* goes to flow control, whose AddPath waits for its own mutex.             *)
Integrate ==
  /\ ~PathWindows
  /\ IF CanIntegrate(handled)
     THEN /\ HandlerGoes("integrating", "accepting")
          /\ integrated' = integrated \cup {handled}
          /\ UNCHANGED managerVars
     ELSE /\ HandlerGoes("integrating", "refusing")
          /\ RemovePath(handled, "key")
          /\ UNCHANGED integrated
  /\ UNCHANGED <<serverVars, wireVars, handled, authenticated, closer, closing>>

(* Mutant: a refusal is sent like a success. *)
ResponseNamed(accepted) == <<handled, TRUE>>

(* A refusal names no path. *)
Response(accepted) == <<IF accepted THEN handled ELSE None, accepted>>

(* The answer goes out on the primary path; a write that fails is ignored.  *)
Respond ==
  /\ \E accepted \in BOOLEAN :
       /\ HandlerGoes(IF accepted THEN "accepting" ELSE "refusing", "reading")
       /\ responses' = IF PrimaryUp THEN Append(responses, Response(accepted)) ELSE responses
  /\ handled' = None
  /\ UNCHANGED <<managerVars, serverVars, requests, authenticated, integrated, closer, closing>>

HandleAddPathRequest ==
  ReadRequest \/ Dial \/ SetID \/ OpenControlStream \/ Authenticate \/ Integrate \/ Respond

(* Close: the context is cancelled, the active paths are listed, and then   *)
(* their objects are closed one by one, without a mutex and without a       *)
(* change to the maps.                                                      *)
CloseClient ==
  /\ closer = "none" /\ closer' = "cancelled"
  /\ UNCHANGED <<managerVars, serverVars, wireVars, handler, handled>>
  /\ UNCHANGED <<authenticated, integrated, closing>>

ListPaths ==
  /\ closer = "cancelled" /\ closer' = "closing"
  /\ closing' = activePaths
  /\ UNCHANGED <<managerVars, serverVars, wireVars, handler, handled>>
  /\ UNCHANGED <<authenticated, integrated>>

ClosePath(o) ==
  /\ o \in closing /\ closing' = closing \ {o}
  /\ stateDead' = stateDead \cup {o}
  /\ Disconnect({o})
  /\ UNCHANGED <<paths, activePaths, isPrimary, renamed, old, verdict, sweep>>
  /\ UNCHANGED <<serverVars, handler, handled, authenticated, integrated, closer>>

(* The network or the far end takes a connection down. *)
LoseConnection(o) ==
  /\ o \in connected /\ Cardinality(Faulty) < MaxFaults
  /\ Disconnect({o})
  /\ UNCHANGED <<paths, activePaths, isPrimary, stateDead, renamed, old, verdict, sweep, serverVars, clientVars>>

CheckHealth == ManagerStep /\ UNCHANGED <<serverVars, wireVars, clientVars>>

Next ==
  \/ \E c \in Calls : AddPath(c)
  \/ ReadResponse \/ RouteResponse \/ EndReader \/ CloseServer
  \/ HandleAddPathRequest \/ CloseClient \/ ListPaths
  \/ \E o \in Objects : ClosePath(o) \/ LoseConnection(o)
  \/ CheckHealth

Spec == Init /\ [][Next]_vars

(* A call that was made goes on, its timer runs, and the health monitor     *)
(* comes round to every active path.                                        *)
LiveSpec ==
  /\ Spec
  /\ \A c \in Calls : WF_vars(AddPath(c) /\ call[c] # "idle")
  /\ SF_vars(CheckPath(Primary) /\ CheckHealth)
  /\ WF_vars(MarkChecked /\ CheckHealth)

-----------------------------------------------------------------------------
CallStates == {"idle", "sent", "recorded", "waiting", "answered", "failing", "cleaning"} \cup Returned
HandlerStates == {"reading", "dialing", "created", "opening", "authenticating", "integrating",
                  "accepting", "refusing"}

Responses == (Calls \cup {None}) \X BOOLEAN

(* The shape of the state; a request is handled at most once. *)
TypeOK ==
  /\ ManagerTypeOK
  /\ call \in [Calls -> CallStates]
  /\ pendingPathIDs \in [Addresses -> Calls \cup {None}]
  /\ responseChan \in [Calls -> {"none", "empty", "closed"} \cup Held]
  /\ reader \in Calls \cup {"reading", "ended", "panicked"}
  /\ routed \in BOOLEAN /\ serverOpen \in BOOLEAN
  /\ requests \in Seq(Calls)
  /\ responses \in Seq(Responses)
  /\ handler \in HandlerStates
  /\ handled \in Calls \cup {None}
  /\ authenticated \subseteq Calls /\ integrated \subseteq Calls
  /\ closer \in {"none", "cancelled", "closing"} /\ closing \subseteq paths

(* A path that data of secondary servers is accepted on never counts as     *)
(* the primary one, though the primary may die at any point of the          *)
(* handshake.                                                               *)
SecondaryIsNotPrimary == integrated \cap isPrimary = {}

(* GetPendingPathID never hands out the id of a call that has failed, even  *)
(* when calls for one address overlap.                                      *)
PendingIsNotFailed ==
  \A a \in Addresses : pendingPathIDs[a] # None => call[pendingPathIDs[a]] # "failed"

(* The server's calls and the client's handshake implement PathSetup: in    *)
(* particular a call is confirmed only when the client integrated its path. *)
Outcome(state) ==
  CASE state \in Returned -> state
    [] state = "idle"     -> "idle"
    [] OTHER              -> "pending"

Setup == INSTANCE PathSetup WITH
           outcome <- [c \in Calls |-> Outcome(call[c])], established <- integrated

ImplementsPathSetup == Setup!Spec

(* AddPath returns, whatever becomes of the answer, the reader and the      *)
(* connection.                                                              *)
EveryCallReturns == \A c \in Calls : call[c] = "sent" ~> call[c] \in Returned

(* The loss of the primary path's connection is noticed: the path manager   *)
(* stops listing the path, unless the client closed the session before.     *)
LossIsNoticed ==
  Primary \in activePaths /\ Primary \notin connected ~>
    Primary \notin activePaths \/ ~ClientOpen

-----------------------------------------------------------------------------
(* Claims of comments in the code, which it does not keep.                  *)

(* server.go:886, "Log panic and continue". *)
ReaderSurvives == reader # "panicked"

(* client.go:1054, "remove the path and send failure response". *)
RefusedIsRemoved == handler = "refusing" => handled \notin activePaths

(* manager.go:605, "no activity for too long": the health monitor spares a  *)
(* path whose connection is up and may have carried traffic all the time.   *)
UsedPathStays ==
  [][\A o \in activePaths \ activePaths' : o \in old => o \notin connected']_vars
=============================================================================
