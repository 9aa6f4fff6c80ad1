--------------------------- MODULE SessionStreams ---------------------------
(***************************************************************************)
(* The streams of a session at both ends of its primary connection.  What  *)
(* couples them is the connection: the client's Close and the server's     *)
(* take it down, which ends the waits of the other end, and nothing else   *)
(* does, for the server never raises the client's stream limit (neither    *)
(* end closes a QUIC stream) and Reads of the server wait for the client.  *)
(***************************************************************************)
EXTENDS ClientStreams

CONSTANT Limit  \* streams that the server lets the client open

ASSUME LimitAssumption == Limit \in Nat

VARIABLES offered, unread, acceptor, serverStreams, reading, writing, buffered,
          scheduled, serverCloser, serverLeft

Server == INSTANCE ServerStreams WITH Quic <- Ids, wire <- link

serverVars ==
  <<offered, unread, acceptor, serverStreams, reading, writing, buffered, scheduled,
    serverCloser, serverLeft>>
vars == <<clientVars, serverVars>>

Init == ClientInit /\ credit = Limit /\ Server!ServerInit

(* Write of a stream that the client opened: its first one makes the       *)
(* stream known to the server.  What is written to a stream that the       *)
(* server opened meets nothing that is modelled.                           *)
ClientWrites(q) ==
  /\ ~crashed /\ link = "up" /\ status[q] = "open" /\ q \notin accepted
  /\ unread' = unread \cup {q}
  /\ offered' = IF acceptor = q \/ q \in serverStreams THEN offered ELSE offered \cup {q}
  /\ UNCHANGED <<clientVars, acceptor, serverStreams, reading, writing, buffered, scheduled,
                 serverCloser, serverLeft>>

LoseConnection ==
  /\ link = "up" /\ link' = "down"
  /\ UNCHANGED <<credit, opens, status, streams, held, closing, serverVars>>

ClientStep == ClientNext /\ UNCHANGED serverVars

ServerStep ==
  /\ Server!ServerNext
  /\ UNCHANGED <<credit, opens, status, streams, held, closing>>

Next ==
  \/ ClientStep \/ ServerStep \/ LoseConnection
  \/ \E q \in Ids : ClientWrites(q)

(* A call that has begun goes on.  A Lock that waits for readers goes      *)
(* first when they have gone, and the worker of the resource manager sees  *)
(* that it is to stop at one of its rounds.                                *)
Going(A) == ~crashed /\ A /\ UNCHANGED serverVars
GoingAtServer(A) == A /\ UNCHANGED <<credit, opens, status, streams, held, closing>>

Fairness ==
  /\ WF_vars(Going(OpenStreamSync)) /\ WF_vars(Going(Collect \/ DropEntry))
  /\ SF_vars(Going(CloseSession))
  /\ SF_vars(GoingAtServer(Server!CloseServer))
  /\ \A q \in Ids : /\ WF_vars(GoingAtServer(Server!EndRead(q) \/ Server!FinishWrite(q)))
                    /\ SF_vars(GoingAtServer(Server!Flush(q)))

Spec == Init /\ [][Next]_vars
LiveSpec == Spec /\ Fairness

---------------------------------------------------------------------------
TypeOK == ClientTypeOK /\ Server!ServerTypeOK

(* The server knows a stream at one place, and only streams that the       *)
(* client opened: the two kinds take their numbers from one counter        *)
(* (OpenStreamSync and AcceptStream of client.go, AcceptStream of          *)
(* server.go).                                                             *)
AtServer == offered \cup serverStreams \cup ({acceptor} \ {0})
AcceptedOnce ==
  /\ offered \cap serverStreams = {} /\ acceptor \notin offered \cup serverStreams
  /\ \A q \in AtServer : status[q] # "none" /\ q \notin accepted

(* They are no more than the server lets the client open, however many end *)
(* or fail: none gives its credit back (OpenStreamSync of client.go).      *)
WithinLimit == Cardinality(AtServer) <= Limit

(* The mutex of a stream is a writer's or the readers', and only streams   *)
(* that were accepted have one (Read and Write of server_stream.go).       *)
MutexIsKept == reading \cap writing = {} /\ reading \cup writing \subseteq serverStreams

(* What a Write left in the packet has its timer as long as the connection *)
(* stands, whoever had the mutex in between (server_stream.go:208-218).    *)
BufferedIsScheduled ==
  /\ buffered \cup scheduled \subseteq serverStreams
  /\ link = "up" => buffered \subseteq scheduled

(* A server that has closed took the connection down, and closed every     *)
(* stream that it had when it began (Close of server.go).                  *)
ClosedInOrder ==
  /\ serverLeft \subseteq serverStreams
  /\ serverCloser # "streams" => serverLeft = {}
  /\ serverCloser = "closed" => link = "down"

(* Close returns, unless it comes to wait for good: the client's for an    *)
(* OpenStream that the stream limit holds up, the server's for a Read of a *)
(* stream that it has yet to close, in both cases as long as the           *)
(* connection stands, or for a Write of such a stream, which waits for the *)
(* mutex that Close holds.  A call under way that does go on holds up no   *)
(* Close, and the Close of one end frees the other's.                      *)
HeldUpByOpen == link = "up" /\ opener = "credit"
HeldUpByRead == link = "up" /\ serverCloser = "streams" /\ reading \cap serverLeft # {}
HeldUpByWrite == serverCloser = "streams" /\ writing \cap serverLeft # {}
CloseEnds ==
  /\ closer = "asked" ~> (closer = "closed" \/ crashed \/ []HeldUpByOpen)
  /\ serverCloser = "asked" ~>
       (serverCloser = "closed" \/ HeldUpByWrite \/ []HeldUpByRead)

(* What was written goes out by the timer, unless a Read or the Close of   *)
(* the session has the stream's mutex for good.                            *)
FlushedUnlessRead ==
  \A q \in Ids :
    q \in buffered ~> (q \notin buffered \/ q \in reading \cup writing \/ link = "down")

(* "Close closes the session and all its resources" (session/client.go:756 *)
(* and server.go:1687): refuted at both ends.                              *)
CloseIsNotStuck ==
  /\ closer = "asked" ~> (closer = "closed" \/ crashed)
  /\ serverCloser = "asked" ~> serverCloser = "closed"

(* "Schedule timed flush if not already scheduled"                         *)
(* (stream/server_stream.go:208): refuted.  A server that reads on after   *)
(* its answer holds the answer back until the client sends something more. *)
WrittenIsSent == \A q \in Ids : q \in buffered ~> (q \notin buffered \/ link = "down")
=============================================================================
