---------------------------- MODULE ServerStreams ----------------------------
(***************************************************************************)
(* The streams of a server's session: AcceptStream and Close of            *)
(* pkg/session/server.go, and Read, Write, the flush timer and Close of    *)
(* pkg/stream/server_stream.go as users of locks.  A stream is known by    *)
(* the number that the client gave it.                                     *)
(*                                                                         *)
(* Read holds the stream's mutex, for reading, until the QUIC stream gives *)
(* it something; Write holds it, for writing, when it asks the session for *)
(* its role, which takes the session's mutex; Close of the session holds   *)
(* that one when it closes the streams.                                    *)
(***************************************************************************)
EXTENDS Naturals

CONSTANT Quic  \* streams that the client may open

VARIABLES
  wire,           \* the connection as the server sees it: "up" or "down"
  offered,        \* streams with data that the server has not accepted
  unread,         \* streams with data to read
  acceptor,       \* AcceptStream: a stream accepted and not yet numbered, or 0
  serverStreams,  \* s.streams
  reading,        \* streams whose mutex a Read holds
  writing,        \* streams whose mutex a Write holds
  buffered,       \* streams with frames in packetFrameRaw
  scheduled,      \* packetFlushScheduled
  serverCloser,   \* Close: "none", "asked", "streams", "closed"
  serverLeft      \* streams that Close has yet to close

arrivals == <<wire, offered, unread>>
users == <<reading, writing, buffered, scheduled>>
serverClosing == <<serverCloser, serverLeft>>
serverVars == <<arrivals, acceptor, serverStreams, users, serverClosing>>

ServerInit ==
  /\ offered = {} /\ unread = {} /\ acceptor = 0 /\ serverStreams = {}
  /\ reading = {} /\ writing = {} /\ buffered = {} /\ scheduled = {}
  /\ serverCloser = "none" /\ serverLeft = {}

(* The session's mutex is not held for writing; streamsMutex is free with  *)
(* it.                                                                     *)
ServerMutexFree == serverCloser # "streams"

(* The mutex of a stream is free for writing. *)
StreamFree(q) == q \notin reading \cup writing

---------------------------------------------------------------------------
(* AcceptStream *)
AcceptQuicStream ==
  /\ acceptor = 0 /\ wire = "up"
  /\ \E q \in offered : acceptor' = q /\ offered' = offered \ {q}
  /\ UNCHANGED <<wire, unread, serverStreams, users, serverClosing>>

RegisterAccepted ==
  /\ acceptor # 0 /\ ServerMutexFree
  /\ serverStreams' = serverStreams \cup {acceptor} /\ acceptor' = 0
  /\ UNCHANGED <<arrivals, users, serverClosing>>

---------------------------------------------------------------------------
(* Read *)
BeginRead(q) ==
  /\ q \in serverStreams \ writing
  /\ reading' = reading \cup {q}
  /\ UNCHANGED <<arrivals, acceptor, serverStreams, writing, buffered, scheduled, serverClosing>>

(* Mutant: only data ends a Read. *)
EndReadOnData(q) ==
  /\ q \in reading \cap unread
  /\ reading' = reading \ {q} /\ unread' = unread \ {q}
  /\ UNCHANGED <<wire, offered, acceptor, serverStreams, writing, buffered, scheduled, serverClosing>>

(* A Read that got a frame lets the mutex go, takes it again for writing   *)
(* to set remoteStreamID, and once more for reading before it returns.     *)
(* Both times it waits for nothing while it holds the mutex, so this       *)
(* delays nobody but itself; for the others the Read is over.              *)
EndRead(q) ==
  /\ q \in reading /\ (q \in unread \/ wire = "down")
  /\ reading' = reading \ {q} /\ unread' = unread \ {q}
  /\ UNCHANGED <<wire, offered, acceptor, serverStreams, writing, buffered, scheduled, serverClosing>>

(* Write: the stream's mutex, then the session's for GetServerRole, then   *)
(* the frame goes into the packet and the timer is set.                    *)
BeginWrite(q) ==
  /\ q \in serverStreams /\ StreamFree(q)
  /\ writing' = writing \cup {q}
  /\ UNCHANGED <<arrivals, acceptor, serverStreams, reading, buffered, scheduled, serverClosing>>

(* Mutant: the timer is not set. *)
FinishWithoutTimer(q) ==
  /\ q \in writing /\ ServerMutexFree
  /\ writing' = writing \ {q} /\ buffered' = buffered \cup {q}
  /\ UNCHANGED <<arrivals, acceptor, serverStreams, reading, scheduled, serverClosing>>

FinishWrite(q) ==
  /\ q \in writing /\ ServerMutexFree
  /\ writing' = writing \ {q}
  /\ buffered' = buffered \cup {q} /\ scheduled' = scheduled \cup {q}
  /\ UNCHANGED <<arrivals, acceptor, serverStreams, reading, serverClosing>>

(* The timer's flush; one that fails leaves the frames.                    *)
Flush(q) ==
  /\ q \in scheduled /\ StreamFree(q)
  /\ scheduled' = scheduled \ {q}
  /\ buffered' = IF wire = "up" THEN buffered \ {q} ELSE buffered
  /\ UNCHANGED <<arrivals, acceptor, serverStreams, reading, writing, serverClosing>>

---------------------------------------------------------------------------
(* Close of the session *)
AskServerClose ==
  /\ serverCloser = "none" /\ serverCloser' = "asked"
  /\ UNCHANGED <<arrivals, acceptor, serverStreams, users, serverLeft>>

LockServer ==
  /\ serverCloser = "asked" /\ serverCloser' = "streams"
  /\ serverLeft' = serverStreams
  /\ UNCHANGED <<arrivals, acceptor, serverStreams, users>>

CloseServerStream ==
  /\ serverCloser = "streams"
  /\ \E q \in serverLeft : StreamFree(q) /\ serverLeft' = serverLeft \ {q}
  /\ UNCHANGED <<arrivals, acceptor, serverStreams, users, serverCloser>>

CloseServerPaths ==
  /\ serverCloser = "streams" /\ serverLeft = {}
  /\ serverCloser' = "closed" /\ wire' = "down"
  /\ UNCHANGED <<offered, unread, acceptor, serverStreams, users, serverLeft>>

CloseServer == LockServer \/ CloseServerStream \/ CloseServerPaths

ServerNext ==
  \/ AcceptQuicStream \/ RegisterAccepted \/ AskServerClose \/ CloseServer
  \/ \E q \in Quic : BeginRead(q) \/ EndRead(q) \/ BeginWrite(q) \/ FinishWrite(q) \/ Flush(q)

---------------------------------------------------------------------------
ServerTypeOK ==
  /\ wire \in {"up", "down"} /\ offered \subseteq Quic /\ unread \subseteq Quic
  /\ acceptor \in Quic \cup {0} /\ serverStreams \subseteq Quic
  /\ reading \subseteq Quic /\ writing \subseteq Quic
  /\ buffered \subseteq Quic /\ scheduled \subseteq Quic
  /\ serverCloser \in {"none", "asked", "streams", "closed"} /\ serverLeft \subseteq Quic
=============================================================================
