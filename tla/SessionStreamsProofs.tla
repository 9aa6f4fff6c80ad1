------------------------ MODULE SessionStreamsProofs ------------------------
(***************************************************************************)
(* Theorems about the streams of a client's session, for any number of     *)
(* opens and any limit of the resource manager and of the peer.  The       *)
(* server's steps leave the client's state alone but for the connection.   *)
(***************************************************************************)
EXTENDS SessionStreams, FiniteSetTheorems, TLAPS

(* A stream's number was given out by OpenStreamSync, and what an open     *)
(* works on is known to nobody else.                                       *)
Numbered ==
  /\ \A q \in Ids : status[q] # "none" => q < nextStreamID
  /\ \A q \in allocated \cup buffers \cup accepted : q < nextStreamID
  /\ opener # "idle" => /\ nextStreamID > 1 /\ status[nextStreamID - 1] = "none"
                        /\ nextStreamID - 1 \notin accepted
  /\ opener \in {"path", "credit", "buffer"} => nextStreamID - 1 \notin buffers

(* The tables hold streams that were registered.                           *)
Known == \A q \in streams \cup left : status[q] # "none"

(* A stream that was closed has given everything back, and AcceptStream    *)
(* allocates nothing.                                                      *)
HoldsNothing ==
  \A q \in Ids : status[q] = "closed" \/ q \in accepted => q \notin allocated \cup buffers

(* Close takes the table over when no open is under way, and none begins   *)
(* behind it; only an AcceptStream may still add to the table.             *)
ClosingInOrder ==
  /\ closer \in {"none", "asked", "paths", "stopping", "closed"} => left = {}
  /\ closer \notin {"none", "asked"} => streams \subseteq accepted /\ opener = "idle"

IInv ==
  /\ ClientTypeOK /\ Numbered /\ Known /\ HoldsNothing
  /\ ClosingInOrder /\ NothingIsLeaked

---------------------------------------------------------------------------
LEMMA InitInv == Init => IInv
  <1> SUFFICES ASSUME Init PROVE IInv
    OBVIOUS
  <1> USE StreamsAssumption, LimitAssumption DEF Init, ClientInit
  <1>0. nextStreamID \in 1..(MaxOpens + 1)
    OBVIOUS
  <1>1. ClientTypeOK
    BY <1>0 DEF ClientTypeOK
  <1>2. Numbered /\ Known /\ HoldsNothing /\ ClosingInOrder
    BY DEF Numbered, Known, HoldsNothing, ClosingInOrder
  <1>3. NothingIsLeaked
    BY DEF NothingIsLeaked
  <1> QED
    BY <1>1, <1>2, <1>3 DEF IInv

(* Whoever else moves, the client's state stays, but for the connection.   *)
LEMMA KeptInv ==
  ASSUME IInv, UNCHANGED <<credit, opens, status, streams, held, closing>>,
         link' \in {"up", "down"}
  PROVE  IInv'
  <1> USE DEF IInv, opens, accepts, held, closing
  <1>1. ClientTypeOK'
    BY DEF ClientTypeOK
  <1>2. Numbered' /\ Known' /\ HoldsNothing' /\ ClosingInOrder'
    BY DEF Numbered, Known, HoldsNothing, ClosingInOrder
  <1>3. NothingIsLeaked'
    BY DEF NothingIsLeaked, Opening, Cancelled
  <1> QED
    BY <1>1, <1>2, <1>3

---------------------------------------------------------------------------
(* The opens.                                                              *)
LEMMA OpenStreamInv == IInv /\ OpenStream => IInv'
  <1> SUFFICES ASSUME IInv, OpenStream PROVE IInv'
    OBVIOUS
  <1> USE StreamsAssumption
      DEF IInv, OpenStream, MutexFree, AllocateStreamResources, accepts, net, closing
  <1>1. crashed' \in BOOLEAN
    BY DEF ClientTypeOK, Race
  <1>0. nextStreamID' \in 1..(MaxOpens + 1) /\ nextStreamID \in Ids
    BY DEF ClientTypeOK, Ids
  <1>2. ClientTypeOK'
    BY <1>0, <1>1 DEF ClientTypeOK
  <1>3. Numbered'
    <2>1. allocated' \subseteq allocated \cup {nextStreamID} /\ nextStreamID' = nextStreamID + 1
      OBVIOUS
    <2>2. \A q \in allocated' \cup buffers \cup accepted : q < nextStreamID'
      BY <2>1 DEF ClientTypeOK, Numbered, Ids
    <2>3. status[nextStreamID] = "none" /\ nextStreamID \notin buffers \cup accepted
      BY <1>0 DEF ClientTypeOK, Numbered, Ids
    <2>4. nextStreamID' - 1 = nextStreamID /\ nextStreamID' > 1
      BY <1>0 DEF Ids
    <2>5. \A q \in Ids : status[q] # "none" => q < nextStreamID'
      BY <1>0 DEF ClientTypeOK, Numbered, Ids
    <2> QED
      BY <2>2, <2>3, <2>4, <2>5 DEF Numbered
  <1>4. Known' /\ ClosingInOrder'
    BY DEF Known, ClosingInOrder
  <1>5. HoldsNothing'
    BY DEF HoldsNothing, Numbered, ClientTypeOK
  <1>6. NothingIsLeaked'
    BY DEF NothingIsLeaked, Opening, Cancelled, ClientTypeOK
  <1> QED
    BY <1>2, <1>3, <1>4, <1>5, <1>6

(* A release takes nothing but the streams it is for.                      *)
LEMMA ReleaseEffect ==
  ASSUME ClientTypeOK, NEW S, ReleaseStreamResources(S)
  PROVE  /\ allocated' = allocated \ S
         /\ collector' \in {"idle", "picked", "emptied"} /\ crashed' \in BOOLEAN
  BY DEF ClientTypeOK, ReleaseStreamResources, Race

LEMMA GiveUpInv ==
  ASSUME IInv, GiveUp, opener \in {"path", "credit", "buffer"}
  PROVE  IInv'
  <1> USE DEF IInv, GiveUp, accepts, net, closing
  <1>1. /\ allocated' = allocated \ Opening
        /\ collector' \in {"idle", "picked", "emptied"} /\ crashed' \in BOOLEAN
    BY ReleaseEffect
  <1>2. ClientTypeOK'
    BY <1>1 DEF ClientTypeOK
  <1>3. Numbered' /\ Known' /\ ClosingInOrder'
    BY <1>1 DEF Numbered, Known, ClosingInOrder
  <1>4. HoldsNothing'
    BY <1>1 DEF HoldsNothing
  <1>5. NothingIsLeaked'
    BY <1>1 DEF NothingIsLeaked, Opening, Cancelled, Numbered
  <1> QED
    BY <1>2, <1>3, <1>4, <1>5

LEMMA OpenStreamSyncInv == IInv /\ (OpenStreamSync \/ CancelOpen) => IInv'
  <1> SUFFICES ASSUME IInv, OpenStreamSync \/ CancelOpen PROVE IInv'
    OBVIOUS
  <1> USE DEF IInv, accepts, net, held, closing
  <1>1. CASE CheckPath
    <2>1. CASE GiveUp
      BY <1>1, <2>1, GiveUpInv DEF CheckPath
    <2>2. CASE /\ opener = "path" /\ opener' = "credit"
               /\ UNCHANGED <<net, accepts, nextStreamID, status, streams, held, closing>>
      <3>1. ClientTypeOK' /\ Numbered' /\ Known' /\ HoldsNothing' /\ ClosingInOrder'
        BY <2>2 DEF ClientTypeOK, Numbered, Known, HoldsNothing, ClosingInOrder
      <3>2. NothingIsLeaked'
        BY <2>2 DEF NothingIsLeaked, Opening, Cancelled
      <3> QED
        BY <3>1, <3>2
    <2> QED
      BY <1>1, <2>1, <2>2 DEF CheckPath
  <1>2. CASE OpenQuicStream
    <2>1. CASE GiveUp
      BY <1>2, <2>1, GiveUpInv DEF OpenQuicStream
    <2>2. CASE /\ opener = "credit" /\ credit > 0
               /\ credit' = credit - 1 /\ opener' = "buffer"
               /\ UNCHANGED <<link, accepts, nextStreamID, status, streams, held, closing>>
      <3>1. ClientTypeOK'
        BY <2>2 DEF ClientTypeOK
      <3>2. Numbered' /\ Known' /\ HoldsNothing' /\ ClosingInOrder'
        BY <2>2 DEF Numbered, Known, HoldsNothing, ClosingInOrder
      <3>3. NothingIsLeaked'
        BY <2>2 DEF NothingIsLeaked, Opening, Cancelled
      <3> QED
        BY <3>1, <3>2, <3>3
    <2> QED
      BY <1>2, <2>1, <2>2 DEF OpenQuicStream
  <1>3. CASE CreateBuffer
    <2>1. CASE GiveUp
      BY <1>3, <2>1, GiveUpInv DEF CreateBuffer
    <2>2. CASE /\ opener = "buffer" /\ opener' = "register" /\ buffers' = buffers \cup Opening
               /\ UNCHANGED <<net, accepts, nextStreamID, status, streams, allocated, collector,
                              crashed, closing>>
      <3>1. Opening = {nextStreamID - 1} /\ Opening' = Opening /\ nextStreamID - 1 \in Ids
        BY <2>2, StreamsAssumption DEF Opening, Numbered, ClientTypeOK, Ids
      <3>2. ClientTypeOK'
        BY <2>2, <3>1 DEF ClientTypeOK
      <3>3. Numbered'
        BY <2>2, <3>1 DEF Numbered, ClientTypeOK
      <3>4. Known' /\ HoldsNothing' /\ ClosingInOrder'
        BY <2>2, <3>1 DEF Numbered, Known, HoldsNothing, ClosingInOrder
      <3>5. NothingIsLeaked'
        BY <2>2, <3>1 DEF NothingIsLeaked, Cancelled
      <3> QED
        BY <3>2, <3>3, <3>4, <3>5
    <2> QED
      BY <1>3, <2>1, <2>2 DEF CreateBuffer
  <1>4. CASE RegisterStream
    <2>1. Opening = {nextStreamID - 1} /\ Opening' = {} /\ nextStreamID - 1 \in Ids
      BY <1>4, StreamsAssumption DEF RegisterStream, Opening, Numbered, ClientTypeOK, Ids
    <2> USE DEF RegisterStream
    <2>2. ClientTypeOK'
      BY <1>4, <2>1 DEF ClientTypeOK
    <2>3. Numbered'
      BY <1>4, <2>1 DEF Numbered, ClientTypeOK, Ids
    <2>4. Known' /\ HoldsNothing'
      BY <1>4, <2>1 DEF Known, HoldsNothing, ClientTypeOK
    <2>5. ClosingInOrder'
      BY <1>4 DEF ClosingInOrder
    <2>6. NothingIsLeaked'
      BY <1>4, <2>1 DEF NothingIsLeaked, Cancelled, ClientTypeOK
    <2> QED
      BY <2>2, <2>3, <2>4, <2>5, <2>6
  <1> QED
    BY <1>1, <1>2, <1>3, <1>4, GiveUpInv DEF OpenStreamSync, CancelOpen

---------------------------------------------------------------------------
(* An accepted stream has a number that nothing was held for.              *)
LEMMA AcceptStreamInv == IInv /\ AcceptStream => IInv'
  <1> SUFFICES ASSUME IInv, AcceptStream PROVE IInv'
    OBVIOUS
  <1> USE DEF IInv, net, held, closing
  <1>1. CASE ClientAccepts
    <2> USE <1>1 DEF ClientAccepts
    <2>1. ClientTypeOK' /\ Numbered'
      BY DEF ClientTypeOK, Numbered
    <2>2. Known' /\ HoldsNothing' /\ ClosingInOrder'
      BY DEF Known, HoldsNothing, ClosingInOrder
    <2>3. NothingIsLeaked'
      BY DEF NothingIsLeaked, Opening, Cancelled
    <2> QED
      BY <2>1, <2>2, <2>3
  <1>2. CASE NumberAccepted
    <2> USE <1>2, StreamsAssumption DEF NumberAccepted, MutexFree
    <2>1. nextStreamID' \in 1..(MaxOpens + 1) /\ nextStreamID \in Ids
      BY DEF ClientTypeOK, Ids
    <2>2. ClientTypeOK'
      BY <2>1 DEF ClientTypeOK
    <2>3. Numbered'
      BY DEF ClientTypeOK, Numbered, Ids
    <2>4. Known' /\ ClosingInOrder'
      BY DEF Known, ClosingInOrder
    <2>5. HoldsNothing'
      BY DEF HoldsNothing, Numbered, ClientTypeOK
    <2>6. NothingIsLeaked'
      BY DEF NothingIsLeaked, Opening, Cancelled
    <2> QED
      BY <2>2, <2>3, <2>4, <2>5, <2>6
  <1>3. CASE KeepAccepted
    <2> USE <1>3 DEF KeepAccepted, InHand
    <2>1. /\ InHand \subseteq Ids /\ InHand \subseteq accepted
          /\ \A q \in Ids : status'[q] = IF q \in InHand THEN "open" ELSE status[q]
      BY DEF ClientTypeOK
    <2>2. ClientTypeOK'
      BY DEF ClientTypeOK
    <2>3. Numbered'
      BY <2>1, StreamsAssumption DEF ClientTypeOK, Numbered, Ids
    <2>4. Known'
      BY <2>1 DEF Known, ClientTypeOK
    <2>5. HoldsNothing' /\ ClosingInOrder'
      BY <2>1 DEF HoldsNothing, ClosingInOrder
    <2>6. NothingIsLeaked'
      BY <2>1 DEF NothingIsLeaked, Opening, Cancelled
    <2> QED
      BY <2>2, <2>3, <2>4, <2>5, <2>6
  <1> QED
    BY <1>1, <1>2, <1>3 DEF AcceptStream

---------------------------------------------------------------------------
(* The collector only takes away.                                          *)
LEMMA CollectionInv == IInv /\ Collection => IInv'
  <1> SUFFICES ASSUME IInv, Collection PROVE IInv'
    OBVIOUS
  <1> USE DEF IInv, net, opens, accepts, closing
  <1>1. /\ allocated' \subseteq allocated
        /\ collector' \in {"idle", "picked", "emptied"}
        /\ UNCHANGED <<net, opens, status, streams, buffers, crashed, closing>>
    BY DEF Collection, PickEntry, Collect, DropEntry
  <1>2. ClientTypeOK'
    BY <1>1 DEF ClientTypeOK
  <1>3. Numbered' /\ Known' /\ HoldsNothing' /\ ClosingInOrder'
    BY <1>1 DEF Numbered, Known, HoldsNothing, ClosingInOrder
  <1>4. NothingIsLeaked'
    BY <1>1 DEF NothingIsLeaked, Opening, Cancelled
  <1> QED
    BY <1>2, <1>3, <1>4

---------------------------------------------------------------------------
(* The end of a stream: it is forgotten wherever it held something, unless *)
(* both its halves were cancelled.                                         *)
LEMMA CloseStreamInv ==
  ASSUME IInv, NEW q \in Ids, CloseStream(q), UNCHANGED <<net, opens, closer>>,
         \/ left' = left
         \/ left' = left \ {q} /\ status[q] # "none" /\ closer = "streams"
  PROVE  IInv'
  <1> USE DEF IInv, net, opens, accepts, held
  <1>1. /\ allocated' \subseteq allocated /\ buffers' \subseteq buffers
        /\ streams' \subseteq streams
        /\ collector' \in {"idle", "picked", "emptied"} /\ crashed' \in BOOLEAN
    BY ReleaseEffect DEF CloseStream, RemoveStream, ClientTypeOK
  <1>2. CASE status[q] = "open"
    <2>1. /\ status' = [status EXCEPT ![q] = "closed"]
          /\ streams' = streams \ {q} /\ buffers' = buffers \ {q} /\ allocated' = allocated \ {q}
      BY <1>2, ReleaseEffect DEF CloseStream, RemoveStream
    <2>2. ClientTypeOK'
      BY <1>1, <2>1 DEF ClientTypeOK
    <2>3. Numbered'
      BY <1>2, <2>1 DEF Numbered, ClientTypeOK
    <2>4. Known' /\ HoldsNothing' /\ ClosingInOrder'
      BY <2>1 DEF Known, HoldsNothing, ClosingInOrder, ClientTypeOK
    <2>5. NothingIsLeaked'
      BY <1>2, <2>1 DEF NothingIsLeaked, Opening, Cancelled, ClientTypeOK
    <2> QED
      BY <2>2, <2>3, <2>4, <2>5
  <1>3. CASE status[q] # "open"
    <2>1. UNCHANGED <<status, streams, held>>
      BY <1>3 DEF CloseStream
    <2>2. ClientTypeOK' /\ Numbered'
      BY <2>1 DEF ClientTypeOK, Numbered
    <2>3. Known' /\ HoldsNothing' /\ ClosingInOrder'
      BY <2>1 DEF Known, HoldsNothing, ClosingInOrder
    <2>4. NothingIsLeaked'
      BY <1>3, <2>1 DEF NothingIsLeaked, Opening, Cancelled, HoldsNothing, ClientTypeOK
    <2> QED
      BY <2>2, <2>3, <2>4
  <1> QED
    BY <1>2, <1>3

LEMMA CancelStreamInv == ASSUME IInv, NEW q \in Ids, CancelStream(q) PROVE IInv'
  <1> USE DEF IInv, CancelStream, net, opens, accepts, held, closing
  <1>1. ClientTypeOK'
    BY DEF ClientTypeOK
  <1>2. Numbered' /\ Known' /\ HoldsNothing' /\ ClosingInOrder'
    BY DEF Numbered, Known, HoldsNothing, ClosingInOrder, ClientTypeOK
  <1>3. NothingIsLeaked'
    BY DEF NothingIsLeaked, Opening, Cancelled, ClientTypeOK
  <1> QED
    BY <1>1, <1>2, <1>3

LEMMA CloseSessionInv == IInv /\ (AskClose \/ CloseSession) => IInv'
  <1> SUFFICES ASSUME IInv, AskClose \/ CloseSession PROVE IInv'
    OBVIOUS
  <1> USE DEF IInv, net, opens, accepts, held
  <1>1. CASE AskClose \/ LockAndClear \/ ClosePaths \/ StopManagers
    <2> USE <1>1 DEF AskClose, LockAndClear, ClosePaths, StopManagers, MutexFree
    <2>1. ClientTypeOK'
      BY DEF ClientTypeOK
    <2>2. Numbered' /\ Known' /\ HoldsNothing'
      BY DEF Numbered, Known, HoldsNothing
    <2>3. ClosingInOrder'
      BY DEF ClosingInOrder, ClientTypeOK
    <2>4. NothingIsLeaked'
      BY DEF NothingIsLeaked, Opening, Cancelled, ClosingInOrder
    <2> QED
      BY <2>1, <2>2, <2>3, <2>4
  <1>2. CASE CloseEach
    <2>1. CASE /\ closer = "streams" /\ left = {} /\ closer' = "paths"
               /\ UNCHANGED <<left, status, streams, held, net, opens>>
      <3>1. ClientTypeOK' /\ Numbered' /\ Known' /\ HoldsNothing' /\ ClosingInOrder'
        BY <2>1 DEF ClientTypeOK, Numbered, Known, HoldsNothing, ClosingInOrder
      <3>2. NothingIsLeaked'
        BY <2>1 DEF NothingIsLeaked, Opening, Cancelled
      <3> QED
        BY <3>1, <3>2
    <2>2. ASSUME NEW q \in left, CloseStream(q), left' = left \ {q}, closer = "streams",
                 UNCHANGED <<net, opens, closer>>
          PROVE  IInv'
      <3>1. q \in Ids /\ status[q] # "none"
        BY DEF Known, ClientTypeOK
      <3> QED
        BY <2>2, <3>1, CloseStreamInv
    <2> QED
      BY <1>2, <2>1, <2>2 DEF CloseEach
  <1> QED
    BY <1>1, <1>2 DEF CloseSession

---------------------------------------------------------------------------
(* All that a server does to its client is to take the connection down.    *)
LEMMA ServerLink ==
  ASSUME link \in {"up", "down"}, Server!ServerNext
  PROVE  link' \in {"up", "down"}
  BY DEF Server!ServerNext, Server!AcceptQuicStream, Server!RegisterAccepted,
         Server!AskServerClose, Server!CloseServer, Server!LockServer,
         Server!CloseServerStream, Server!CloseServerPaths, Server!BeginRead,
         Server!EndRead, Server!BeginWrite, Server!FinishWrite, Server!Flush,
         Server!arrivals

LEMMA StepInv == IInv /\ [Next]_vars => IInv'
  <1> SUFFICES ASSUME IInv, [Next]_vars PROVE IInv'
    OBVIOUS
  <1>1. CASE ClientNext
    <2>1. ASSUME NEW q \in Ids, ApplicationCloses(q) PROVE IInv'
      BY <2>1, CloseStreamInv DEF ApplicationCloses, closing
    <2> QED
      BY <1>1, <2>1, OpenStreamInv, OpenStreamSyncInv, AcceptStreamInv, CollectionInv,
         CloseSessionInv, CancelStreamInv DEF ClientNext
  <1>2. CASE ServerStep
    BY <1>2, ServerLink, KeptInv DEF ServerStep, IInv, ClientTypeOK
  <1>3. CASE LoseConnection
    BY <1>3, KeptInv DEF LoseConnection
  <1>4. ASSUME NEW q \in Ids, ClientWrites(q) PROVE IInv'
    BY <1>4, KeptInv DEF ClientWrites, clientVars, net, IInv, ClientTypeOK
  <1>5. CASE UNCHANGED vars
    BY <1>5, KeptInv DEF vars, clientVars, net, IInv, ClientTypeOK
  <1> QED
    BY <1>1, <1>2, <1>3, <1>4, <1>5 DEF Next, ClientStep

LEMMA Invariance == Spec => []IInv
  <1>1. Init => IInv
    BY InitInv
  <1>2. IInv /\ [Next]_vars => IInv'
    BY StepInv
  <1> QED
    BY <1>1, <1>2, PTL DEF Spec

---------------------------------------------------------------------------
(* Whichever step of an open fails and however the collector, the closes   *)
(* of streams and the Close of the session interleave, what is buffered or *)
(* allocated belongs to a stream that someone will still close, or to one  *)
(* that was cancelled (OpenStreamSync, RemoveStream and Close of           *)
(* session/client.go).                                                     *)
THEOREM NothingLeaks == Spec => []NothingIsLeaked
  <1>1. IInv => NothingIsLeaked
    BY DEF IInv
  <1> QED
    BY <1>1, Invariance, PTL

(* A session that has closed has no stream that it opened, not even one    *)
(* whose open was under way when Close was called, and holds nothing but   *)
(* what the cancelled streams left (Close of session/client.go).           *)
THEOREM ClosedHoldsNothingElse == Spec => []ClosedHoldsCancelled
  <1>1. IInv => ClosedHoldsCancelled
    BY DEF IInv, ClosedHoldsCancelled, ClosingInOrder, HoldsNothing, NothingIsLeaked, Opening,
           ClientTypeOK
  <1> QED
    BY <1>1, Invariance, PTL

---------------------------------------------------------------------------
(* Both ends.  The credit that is left and the streams that the client     *)
(* opened, the one that is not registered yet included, are the limit.     *)
Opened ==
  {q \in Ids : status[q] # "none" /\ q \notin accepted}
    \cup IF opener \in {"buffer", "register"} THEN {nextStreamID - 1} ELSE {}
CreditCounts == credit + Cardinality(Opened) <= Limit

SInv ==
  /\ Server!ServerTypeOK /\ AcceptedOnce /\ CreditCounts
  /\ MutexIsKept /\ BufferedIsScheduled /\ ClosedInOrder

LEMMA OpenedFinite ==
  ASSUME IInv
  PROVE  Opened \subseteq Ids /\ IsFiniteSet(Opened) /\ Cardinality(Opened) \in Nat
  <1>1. Opened \subseteq Ids
    BY StreamsAssumption DEF IInv, Opened, Numbered, ClientTypeOK, Ids
  <1>2. IsFiniteSet(Ids)
    BY FS_Interval, StreamsAssumption DEF Ids
  <1> QED
    BY <1>1, <1>2, FS_Subset, FS_CardinalityType

(* What a step of the client does that the server's end may notice.        *)
Spends ==
  \/ credit' = credit /\ Opened' \subseteq Opened
  \/ credit > 0 /\ credit' = credit - 1 /\ Opened' \subseteq Opened \cup {nextStreamID - 1}
Remembers ==
  \A q \in Ids : status[q] # "none" /\ q \notin accepted => status'[q] # "none" /\ q \notin accepted'

LEMMA CreditKept ==
  ASSUME IInv, CreditCounts, Spends
  PROVE  CreditCounts'
  <1>1. IsFiniteSet(Opened) /\ Cardinality(Opened) \in Nat /\ Cardinality(Opened') \in Nat
    <2>1. IsFiniteSet(Opened) /\ Cardinality(Opened) \in Nat
      BY OpenedFinite
    <2>2. IsFiniteSet(Opened \cup {nextStreamID - 1})
      BY <2>1, FS_AddElement
    <2>3. Opened' \subseteq Opened \cup {nextStreamID - 1}
      BY DEF Spends
    <2> QED
      BY <2>1, <2>2, <2>3, FS_Subset, FS_CardinalityType
  <1>2. credit \in Nat /\ Limit \in Nat
    BY LimitAssumption DEF IInv, ClientTypeOK
  <1>3. CASE credit' = credit /\ Opened' \subseteq Opened
    <2>1. Cardinality(Opened') <= Cardinality(Opened)
      BY <1>1, <1>3, FS_Subset
    <2> QED
      BY <1>1, <1>2, <1>3, <2>1 DEF CreditCounts
  <1>4. CASE credit > 0 /\ credit' = credit - 1 /\ Opened' \subseteq Opened \cup {nextStreamID - 1}
    <2> DEFINE More == Opened \cup {nextStreamID - 1}
    <2>1. IsFiniteSet(More) /\ Cardinality(More) <= Cardinality(Opened) + 1
      <3>1. /\ IsFiniteSet(More)
            /\ \/ Cardinality(More) = Cardinality(Opened)
               \/ Cardinality(More) = Cardinality(Opened) + 1
        BY <1>1, FS_AddElement
      <3> HIDE DEF More
      <3> QED
        BY <1>1, <3>1
    <2>2. Cardinality(Opened') <= Cardinality(More) /\ Cardinality(More) \in Nat
      BY <1>4, <2>1, FS_Subset, FS_CardinalityType
    <2> HIDE DEF More
    <2> QED
      BY <1>1, <1>2, <1>4, <2>1, <2>2 DEF CreditCounts
  <1> QED
    BY <1>3, <1>4 DEF Spends

(* No step of the client makes the server's end forget a stream, and only  *)
(* one gives credit away.                                                  *)
LEMMA ClientMoves ==
  ASSUME IInv, ClientNext
  PROVE  Spends /\ Remembers /\ (link' = link \/ link' = "down")
  <1> USE DEF IInv, net, opens, accepts, held, closing
  <1>1. CASE OpenStream
    <2>1. nextStreamID \in Ids /\ opener = "idle"
      BY <1>1 DEF OpenStream, MutexFree, ClientTypeOK, Ids
    <2> QED
      BY <1>1, <2>1 DEF OpenStream, Spends, Remembers, Opened
  <1>2. CASE OpenStreamSync \/ CancelOpen
    <2>1. CASE GiveUp
      BY <2>1 DEF GiveUp, Spends, Remembers, Opened
    <2>2. CASE CheckPath
      BY <2>1, <2>2 DEF CheckPath, Spends, Remembers, Opened
    <2>3. CASE OpenQuicStream
      BY <2>1, <2>3 DEF OpenQuicStream, Spends, Remembers, Opened
    <2>4. CASE CreateBuffer
      BY <2>1, <2>4 DEF CreateBuffer, Spends, Remembers, Opened
    <2>5. CASE RegisterStream
      BY <2>5 DEF RegisterStream, Spends, Remembers, Opened, ClientTypeOK
    <2> QED
      BY <1>2, <2>1, <2>2, <2>3, <2>4, <2>5 DEF OpenStreamSync, CancelOpen
  <1>3. CASE AcceptStream
    <2>1. CASE ClientAccepts
      BY <2>1 DEF ClientAccepts, Spends, Remembers, Opened
    <2>2. CASE NumberAccepted
      BY <2>2 DEF NumberAccepted, MutexFree, Spends, Remembers, Opened, Numbered, ClientTypeOK
    <2>3. CASE KeepAccepted
      BY <2>3 DEF KeepAccepted, InHand, Spends, Remembers, Opened
    <2> QED
      BY <1>3, <2>1, <2>2, <2>3 DEF AcceptStream
  <1>4. CASE Collection
    BY <1>4 DEF Collection, PickEntry, Collect, DropEntry, Spends, Remembers, Opened
  <1>5. CASE AskClose \/ LockAndClear \/ ClosePaths \/ StopManagers
    BY <1>5 DEF AskClose, LockAndClear, ClosePaths, StopManagers, Spends, Remembers, Opened
  <1>6. ASSUME NEW q \in Ids, CloseStream(q), UNCHANGED <<net, opens>>
        PROVE  Spends /\ Remembers /\ link' = link
    BY <1>6 DEF CloseStream, Spends, Remembers, Opened, ClientTypeOK
  <1>7. CASE CloseEach
    <2>1. CASE left = {}
      BY <1>7, <2>1 DEF CloseEach, Spends, Remembers, Opened
    <2>2. CASE left # {}
      BY <1>6, <1>7, <2>2 DEF CloseEach, ClientTypeOK
    <2> QED
      BY <2>1, <2>2
  <1>8. ASSUME NEW q \in Ids, CancelStream(q) PROVE Spends /\ Remembers /\ link' = link
    BY <1>8 DEF CancelStream, Spends, Remembers, Opened, ClientTypeOK
  <1>9. ASSUME NEW q \in Ids, ApplicationCloses(q) PROVE Spends /\ Remembers /\ link' = link
    BY <1>6, <1>9 DEF ApplicationCloses
  <1> QED
    BY <1>1, <1>2, <1>3, <1>4, <1>5, <1>7, <1>8, <1>9 DEF ClientNext, CloseSession

---------------------------------------------------------------------------
(* The server's end does not move.                                         *)
LEMMA ServerKept ==
  ASSUME IInv, IInv', SInv, UNCHANGED serverVars, Spends, Remembers,
         link' = link \/ link' = "down"
  PROVE  SInv'
  <1> USE DEF SInv, serverVars
  <1>1. Server!ServerTypeOK'
    BY DEF Server!ServerTypeOK, IInv, ClientTypeOK
  <1>2. AcceptedOnce'
    BY DEF AcceptedOnce, AtServer, Remembers, Server!ServerTypeOK
  <1>3. MutexIsKept' /\ BufferedIsScheduled' /\ ClosedInOrder'
    BY DEF MutexIsKept, BufferedIsScheduled, ClosedInOrder
  <1> QED
    BY <1>1, <1>2, <1>3, CreditKept

(* The client stands still, and the tables and locks of the server move.   *)
LEMMA ServerStepInv ==
  ASSUME IInv, IInv', SInv, ServerStep
  PROVE  SInv'
  <1> USE DEF SInv, ServerStep, Server!arrivals, Server!users, Server!serverClosing
  <1>1. CreditCounts'
    BY DEF CreditCounts, Opened, opens, accepts
  <1>2. UNCHANGED <<status, accepted>>
    BY DEF opens, accepts
  <1>3. CASE Server!AcceptQuicStream \/ Server!RegisterAccepted
    <2> USE <1>3 DEF Server!AcceptQuicStream, Server!RegisterAccepted, Server!ServerMutexFree
    <2>1. Server!ServerTypeOK'
      BY DEF Server!ServerTypeOK
    <2>2. AtServer' \subseteq AtServer
      BY DEF AtServer
    <2>3. offered' \cap serverStreams' = {} /\ acceptor' \notin offered' \cup serverStreams'
      <3>1. 0 \notin Ids
        BY DEF Ids
      <3>2. offered \subseteq Ids /\ serverStreams \subseteq Ids
        BY DEF Server!ServerTypeOK
      <3> QED
        BY <3>1, <3>2 DEF AcceptedOnce
    <2>4. AcceptedOnce'
      BY <1>2, <2>2, <2>3 DEF AcceptedOnce
    <2>5. MutexIsKept' /\ BufferedIsScheduled' /\ ClosedInOrder'
      BY DEF MutexIsKept, BufferedIsScheduled, ClosedInOrder
    <2> QED
      BY <1>1, <2>1, <2>4, <2>5
  <1>4. CASE Server!AskServerClose \/ Server!CloseServer
    <2> USE <1>4 DEF Server!AskServerClose, Server!CloseServer, Server!LockServer,
                     Server!CloseServerStream, Server!CloseServerPaths
    <2>1. Server!ServerTypeOK'
      BY DEF Server!ServerTypeOK
    <2>2. AcceptedOnce'
      BY <1>2 DEF AcceptedOnce, AtServer
    <2>3. MutexIsKept' /\ BufferedIsScheduled'
      BY DEF MutexIsKept, BufferedIsScheduled
    <2>4. ClosedInOrder'
      BY DEF ClosedInOrder
    <2> QED
      BY <1>1, <2>1, <2>2, <2>3, <2>4
  <1>5. ASSUME NEW q \in Ids,
               \/ Server!BeginRead(q) \/ Server!EndRead(q) \/ Server!BeginWrite(q)
               \/ Server!FinishWrite(q) \/ Server!Flush(q)
        PROVE  SInv'
    <2> USE <1>5 DEF Server!BeginRead, Server!EndRead, Server!BeginWrite, Server!FinishWrite,
                     Server!Flush, Server!StreamFree, Server!ServerMutexFree
    <2>1. Server!ServerTypeOK'
      BY DEF Server!ServerTypeOK
    <2>2. AcceptedOnce' /\ ClosedInOrder'
      BY <1>2 DEF AcceptedOnce, AtServer, ClosedInOrder
    <2>3. MutexIsKept'
      BY DEF MutexIsKept
    <2>4. BufferedIsScheduled'
      BY DEF BufferedIsScheduled, MutexIsKept
    <2> QED
      BY <1>1, <2>1, <2>2, <2>3, <2>4
  <1> QED
    BY <1>3, <1>4, <1>5 DEF Server!ServerNext

(* A first write makes a stream known that the client opened.              *)
LEMMA ClientWritesInv ==
  ASSUME IInv, SInv, NEW q \in Ids, ClientWrites(q)
  PROVE  SInv'
  <1> USE DEF SInv, ClientWrites, clientVars, net, opens, accepts
  <1>1. Server!ServerTypeOK'
    BY DEF Server!ServerTypeOK
  <1>2. AcceptedOnce'
    BY StreamsAssumption DEF AcceptedOnce, AtServer, Ids
  <1>3. MutexIsKept' /\ BufferedIsScheduled' /\ ClosedInOrder' /\ CreditCounts'
    BY DEF MutexIsKept, BufferedIsScheduled, ClosedInOrder, CreditCounts, Opened
  <1> QED
    BY <1>1, <1>2, <1>3

LEMMA BothInit == Init => SInv
  <1> SUFFICES ASSUME Init PROVE SInv
    OBVIOUS
  <1> USE LimitAssumption DEF Init, ClientInit, Server!ServerInit
  <1>1. Server!ServerTypeOK
    BY DEF Server!ServerTypeOK
  <1>2. AcceptedOnce /\ MutexIsKept /\ BufferedIsScheduled /\ ClosedInOrder
    BY DEF AcceptedOnce, AtServer, MutexIsKept, BufferedIsScheduled, ClosedInOrder
  <1>3. Opened = {}
    BY DEF Opened
  <1>4. CreditCounts
    BY <1>3, FS_EmptySet DEF CreditCounts
  <1> QED
    BY <1>1, <1>2, <1>4 DEF SInv

LEMMA BothStep == IInv /\ IInv' /\ SInv /\ [Next]_vars => SInv'
  <1> SUFFICES ASSUME IInv, IInv', SInv, [Next]_vars PROVE SInv'
    OBVIOUS
  <1>1. CASE ClientStep
    BY <1>1, ClientMoves, ServerKept DEF ClientStep
  <1>2. CASE ServerStep
    BY <1>2, ServerStepInv
  <1>3. CASE LoseConnection
    BY <1>3, ServerKept DEF LoseConnection, opens, accepts, Spends, Remembers, Opened
  <1>4. ASSUME NEW q \in Ids, ClientWrites(q) PROVE SInv'
    BY <1>4, ClientWritesInv
  <1>5. CASE UNCHANGED vars
    BY <1>5, ServerKept DEF vars, clientVars, net, opens, accepts, Spends, Remembers, Opened
  <1> QED
    BY <1>1, <1>2, <1>3, <1>4, <1>5 DEF Next

LEMMA BothInvariance == Spec => [](IInv /\ SInv)
  <1>1. Init => IInv /\ SInv
    BY InitInv, BothInit
  <1>2. (IInv /\ SInv) /\ [Next]_vars => (IInv /\ SInv)'
    BY StepInv, BothStep
  <1> QED
    BY <1>1, <1>2, PTL DEF Spec

(* Both ends stay in their types: the state of every stream, table, lock   *)
(* and Close of client.go, server.go and server_stream.go.                 *)
THEOREM TypeCorrect == Spec => []TypeOK
  <1>1. IInv /\ SInv => TypeOK
    BY DEF IInv, SInv, TypeOK
  <1> QED
    BY <1>1, BothInvariance, PTL

(* A stream is offered, in the hand of AcceptStream or in the table, and   *)
(* never at two of these; and it is one that the client opened and never   *)
(* one of the server's own, for the two kinds take their numbers from one  *)
(* counter (OpenStreamSync and AcceptStream of session/client.go,          *)
(* AcceptStream of session/server.go).                                     *)
THEOREM EachIsAcceptedOnce == Spec => []AcceptedOnce
  <1>1. SInv => AcceptedOnce
    BY DEF SInv
  <1> QED
    BY <1>1, BothInvariance, PTL

(* The server never has more streams than its limit lets the client open,  *)
(* whatever opens fail after they took credit and whatever streams are     *)
(* closed or cancelled (OpenStreamSync of session/client.go).              *)
THEOREM LimitHolds == Spec => []WithinLimit
  <1>1. IInv /\ SInv => WithinLimit
    <2> SUFFICES ASSUME IInv, SInv PROVE WithinLimit
      OBVIOUS
    <2>1. AtServer \subseteq Opened
      BY DEF SInv, AcceptedOnce, AtServer, Opened, Server!ServerTypeOK
    <2>2. IsFiniteSet(Opened) /\ Cardinality(Opened) \in Nat
      BY OpenedFinite
    <2>3. Cardinality(AtServer) <= Cardinality(Opened) /\ Cardinality(AtServer) \in Nat
      BY <2>1, <2>2, FS_Subset, FS_CardinalityType
    <2>4. credit \in Nat /\ Limit \in Nat /\ credit + Cardinality(Opened) <= Limit
      BY LimitAssumption DEF SInv, CreditCounts, IInv, ClientTypeOK
    <2> QED
      BY <2>2, <2>3, <2>4 DEF WithinLimit
  <1> QED
    BY <1>1, BothInvariance, PTL

(* A stream's mutex is never with a writer and a reader at once, and what  *)
(* a Write left in the packet has a timer as long as the connection        *)
(* stands, whatever Reads, Writes and flushes had the mutex in between     *)
(* (Read, Write and the flush timer of stream/server_stream.go).           *)
THEOREM TimersAreSet == Spec => [](MutexIsKept /\ BufferedIsScheduled)
  <1>1. SInv => MutexIsKept /\ BufferedIsScheduled
    BY DEF SInv
  <1> QED
    BY <1>1, BothInvariance, PTL

(* A server closes only streams of its table, one pass over them, and is   *)
(* closed only when the connection is down (Close of session/server.go).   *)
THEOREM ServerClosesInOrder == Spec => []ClosedInOrder
  <1>1. SInv => ClosedInOrder
    BY DEF SInv
  <1> QED
    BY <1>1, BothInvariance, PTL
=============================================================================
