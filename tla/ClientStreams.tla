---------------------------- MODULE ClientStreams ----------------------------
(***************************************************************************)
(* The streams of a client's session (pkg/session/client.go), what the     *)
(* resource manager accounts for them (pkg/session/resource_manager.go)    *)
(* and the session's Close.                                                *)
(*                                                                         *)
(* s.mutex has two long holders: OpenStreamSync, from its first step to    *)
(* its last, with the wait for the peer's stream limit in between, and     *)
(* Close while it closes the streams.  AcceptStream only passes through    *)
(* it for a number, with a QUIC stream of the primary path in its hand.  A *)
(* stream's Close, RemoveStream included, is under the stream's mutex and  *)
(* streamsMutex and is one step.  A Read holds the stream's mutex for some *)
(* seconds at most and delays only its own stream; it is left out.         *)
(***************************************************************************)
EXTENDS Integers, FiniteSets

CONSTANTS
  MaxOpens,              \* bound: streams that the client numbers
  MaxConcurrentStreams   \* of the resource manager

ASSUME StreamsAssumption == MaxOpens \in Nat /\ MaxConcurrentStreams \in Nat \ {0}

VARIABLES
  link,          \* the connection of the primary path: "up" or "down"
  credit,        \* streams that the server still lets the client open
  nextStreamID,  \* the client's next number
  opener,        \* OpenStreamSync: "idle", "path", "credit", "buffer", "register"
  accepting,     \* AcceptStream: "idle", "number", "register"
  accepted,      \* numbers given to streams that the server opened
  status,        \* a stream's state; a stream with both halves cancelled is "cancelled"
  streams,       \* s.streams
  buffers,       \* streams with a buffer in the DataPresentationManager
  allocated,     \* StreamBuffers of the session's entry in allocatedResources
  collector,     \* the pass of performGarbageCollection: "idle", "picked", "emptied"
  closer,        \* Close: "none", "asked", "streams", "paths", "stopping", "closed"
  left,          \* streams that Close has yet to close
  crashed        \* the Go runtime ended the client's process

net == <<link, credit>>
accepts == <<accepting, accepted>>
opens == <<nextStreamID, opener, accepts>>
held == <<buffers, allocated, collector, crashed>>
closing == <<closer, left>>
clientVars == <<net, opens, status, streams, held, closing>>

Ids == 1..MaxOpens

ClientInit ==
  /\ link = "up" /\ nextStreamID = 1 /\ opener = "idle"
  /\ accepting = "idle" /\ accepted = {}
  /\ status = [q \in Ids |-> "none"]
  /\ streams = {} /\ buffers = {} /\ allocated = {}
  /\ collector = "idle" /\ closer = "none" /\ left = {} /\ crashed = FALSE

(* Mutant: Close does not wait for the open that holds s.mutex. *)
IgnoreOpener == closer # "streams"

(* s.mutex is free. *)
MutexFree == opener = "idle" /\ closer # "streams"

(* The number that OpenStreamSync works on.                                *)
Opening == IF opener = "idle" THEN {} ELSE {nextStreamID - 1}

---------------------------------------------------------------------------
(* The resource manager.  The collector ranges over allocatedResources     *)
(* without resourcesMutex: the runtime may end a process that writes the   *)
(* map meanwhile.                                                          *)
Race(writes) == crashed' \in IF writes /\ collector # "idle" THEN BOOLEAN ELSE {crashed}

AllocateStreamResources(q) ==
  /\ allocated' = allocated \cup {q}
  /\ Race(allocated = {})
  /\ UNCHANGED collector

(* The last stream of a session takes the session's entry with it; a       *)
(* collector that has picked the entry finds it empty.                     *)
ReleaseStreamResources(S) ==
  LET last == allocated # {} /\ allocated \subseteq S IN
  /\ allocated' = allocated \ S
  /\ collector' = IF last /\ collector = "picked" THEN "emptied" ELSE collector
  /\ Race(last)

(* performGarbageCollection: the streams opened ResourceTimeout ago, for   *)
(* nothing refreshes LastActivity.                                         *)
PickEntry ==
  /\ collector = "idle" /\ allocated # {} /\ closer # "closed"
  /\ collector' = "picked"
  /\ UNCHANGED <<net, opens, status, streams, buffers, allocated, crashed, closing>>

Collect ==
  /\ collector = "picked"
  /\ \E aged \in SUBSET allocated :
       /\ allocated' = allocated \ aged
       /\ collector' = IF aged = allocated THEN "emptied" ELSE "idle"
  /\ UNCHANGED <<net, opens, status, streams, buffers, crashed, closing>>

(* It deletes the entry after it let the entry's mutex go, whatever has    *)
(* been allocated since.                                                   *)
DropEntry ==
  /\ collector = "emptied"
  /\ collector' = "idle" /\ allocated' = {}
  /\ UNCHANGED <<net, opens, status, streams, buffers, crashed, closing>>

Collection == PickEntry \/ Collect \/ DropEntry

---------------------------------------------------------------------------
(* OpenStreamSync *)
OpenStream ==
  /\ MutexFree /\ closer \in {"none", "asked"}
  /\ nextStreamID <= MaxOpens
  /\ nextStreamID' = nextStreamID + 1
  /\ IF Cardinality(allocated) < MaxConcurrentStreams
     THEN opener' = "path" /\ AllocateStreamResources(nextStreamID)
     ELSE UNCHANGED <<opener, allocated, collector, crashed>>
  /\ UNCHANGED <<net, accepts, status, streams, buffers, closing>>

(* An open that fails. *)
GiveUp ==
  /\ opener' = "idle"
  /\ ReleaseStreamResources(Opening)
  /\ UNCHANGED <<net, accepts, nextStreamID, status, streams, buffers, closing>>

CheckPath ==
  /\ opener = "path"
  /\ \/ /\ link = "up" /\ opener' = "credit"
        /\ UNCHANGED <<net, accepts, nextStreamID, status, streams, held, closing>>
     \/ link = "down" /\ GiveUp

(* conn.OpenStreamSync *)
OpenQuicStream ==
  /\ opener = "credit"
  /\ \/ /\ link = "up" /\ credit > 0
        /\ credit' = credit - 1 /\ opener' = "buffer"
        /\ UNCHANGED <<link, accepts, nextStreamID, status, streams, held, closing>>
     \/ link = "down" /\ GiveUp

(* The caller's context ends the wait.                                     *)
CancelOpen == opener = "credit" /\ GiveUp

(* Mutant: the resources stay with the stream that got no buffer. *)
KeepResources ==
  /\ opener = "buffer"
  /\ \/ /\ opener' = "register" /\ buffers' = buffers \cup Opening
     \/ opener' = "idle" /\ UNCHANGED buffers
  /\ UNCHANGED <<net, accepts, nextStreamID, status, streams, allocated, collector, crashed,
                 closing>>

(* The window may have no room for a buffer.                               *)
CreateBuffer ==
  /\ opener = "buffer"
  /\ \/ /\ opener' = "register" /\ buffers' = buffers \cup Opening
        /\ UNCHANGED <<net, accepts, nextStreamID, status, streams, allocated, collector, crashed,
                       closing>>
     \/ GiveUp

RegisterStream ==
  /\ opener = "register" /\ opener' = "idle"
  /\ streams' = streams \cup Opening
  /\ status' = [status EXCEPT ![nextStreamID - 1] = "open"]
  /\ UNCHANGED <<net, accepts, nextStreamID, held, closing>>

OpenStreamSync == CheckPath \/ OpenQuicStream \/ CreateBuffer \/ RegisterStream

---------------------------------------------------------------------------
(* AcceptStream: the stream gets a number, and neither an allocation nor a *)
(* buffer.  The state of the session is not looked at.                     *)
ClientAccepts ==
  /\ accepting = "idle" /\ link = "up"
  /\ accepting' = "number"
  /\ UNCHANGED <<net, nextStreamID, opener, accepted, status, streams, held, closing>>

NumberAccepted ==
  /\ accepting = "number" /\ MutexFree /\ nextStreamID <= MaxOpens
  /\ accepting' = "register"
  /\ nextStreamID' = nextStreamID + 1 /\ accepted' = accepted \cup {nextStreamID}
  /\ UNCHANGED <<net, opener, status, streams, held, closing>>

(* The one that is accepted and not registered yet.                        *)
InHand == {q \in accepted : status[q] = "none"}

KeepAccepted ==
  /\ accepting = "register" /\ accepting' = "idle"
  /\ streams' = streams \cup InHand
  /\ status' = [q \in Ids |-> IF q \in InHand THEN "open" ELSE status[q]]
  /\ UNCHANGED <<net, nextStreamID, opener, accepted, held, closing>>

AcceptStream == ClientAccepts \/ NumberAccepted \/ KeepAccepted

---------------------------------------------------------------------------
(* CancelRead or CancelWrite, whichever is the second of the two: it takes *)
(* a half-closed stream to the closed state.  The first one changes        *)
(* nothing here, so a half-closed stream is an open one; that it may also  *)
(* write when it was the write half only adds behaviours.                  *)
CancelStream(q) ==
  /\ status[q] = "open"
  /\ status' = [status EXCEPT ![q] = "cancelled"]
  /\ UNCHANGED <<net, opens, streams, held, closing>>

RemoveStream(q) ==
  /\ streams' = streams \ {q}
  /\ buffers' = buffers \ {q}
  /\ ReleaseStreamResources({q})

(* Close of a stream does nothing for one whose state is closed; it does   *)
(* not close the QUIC stream, whose credit is gone.                        *)
CloseStream(q) ==
  IF status[q] = "open"
  THEN status' = [status EXCEPT ![q] = "closed"] /\ RemoveStream(q)
  ELSE UNCHANGED <<status, streams, held>>

ApplicationCloses(q) ==
  /\ status[q] = "open"
  /\ CloseStream(q)
  /\ UNCHANGED <<net, opens, closing>>

---------------------------------------------------------------------------
(* Close of the session *)
AskClose ==
  /\ closer = "none" /\ closer' = "asked"
  /\ UNCHANGED <<net, opens, status, streams, held, left>>

LockAndClear ==
  /\ closer = "asked" /\ MutexFree
  /\ closer' = "streams"
  /\ left' = streams /\ streams' = {}
  /\ UNCHANGED <<net, opens, status, held>>

CloseEach ==
  /\ closer = "streams"
  /\ IF left = {} THEN closer' = "paths" /\ UNCHANGED <<left, status, streams, held>>
     ELSE \E q \in left : CloseStream(q) /\ left' = left \ {q} /\ UNCHANGED closer
  /\ UNCHANGED <<net, opens>>

ClosePaths ==
  /\ closer = "paths" /\ closer' = "stopping"
  /\ link' = "down"
  /\ UNCHANGED <<credit, opens, status, streams, held, left>>

(* The resource manager's Stop waits for its worker.                       *)
StopManagers ==
  /\ closer = "stopping" /\ collector = "idle"
  /\ closer' = "closed"
  /\ UNCHANGED <<net, opens, status, streams, held, left>>

CloseSession == LockAndClear \/ CloseEach \/ ClosePaths \/ StopManagers

ClientNext ==
  /\ ~crashed
  /\ \/ OpenStream \/ OpenStreamSync \/ CancelOpen \/ AcceptStream
     \/ Collection \/ AskClose \/ CloseSession
     \/ \E q \in Ids : CancelStream(q) \/ ApplicationCloses(q)

---------------------------------------------------------------------------
ClientTypeOK ==
  /\ link \in {"up", "down"} /\ credit \in Nat
  /\ nextStreamID \in 1..(MaxOpens + 1)
  /\ opener \in {"idle", "path", "credit", "buffer", "register"}
  /\ accepting \in {"idle", "number", "register"} /\ accepted \subseteq Ids
  /\ status \in [Ids -> {"none", "open", "cancelled", "closed"}]
  /\ streams \subseteq Ids /\ buffers \subseteq Ids /\ allocated \subseteq Ids
  /\ collector \in {"idle", "picked", "emptied"}
  /\ closer \in {"none", "asked", "streams", "paths", "stopping", "closed"}
  /\ left \subseteq Ids /\ crashed \in BOOLEAN

(* Nothing is leaked: a buffer or an allocation belongs to a stream of the *)
(* session, to the stream being opened, to one that Close has yet to close *)
(* or to one whose both halves were cancelled, whichever step of an open   *)
(* fails and whatever the collector, the application's Close and the       *)
(* session's do meanwhile.                                                 *)
Cancelled == {q \in Ids : status[q] = "cancelled"}
NothingIsLeaked ==
  allocated \cup buffers \subseteq streams \cup left \cup Opening \cup Cancelled

(* A session that has closed holds nothing for a stream that it opened,    *)
(* but for the cancelled ones: their Close finds them closed and frees     *)
(* nothing.  An AcceptStream that Close overtakes still registers its      *)
(* stream, which then stays in the table.                                  *)
ClosedHoldsCancelled ==
  closer = "closed" => streams \subseteq accepted /\ allocated \cup buffers \subseteq Cancelled

(* "Close closes the session and all its resources" (client.go:756):       *)
(* refuted, for the same AcceptStream.                                     *)
ClosedHasNoStreams == closer = "closed" => streams = {}

(* The resources of a stream in use are accounted: refuted, for the        *)
(* collector takes old streams, and drops the entry of a session with the  *)
(* streams that were opened since it found the entry empty.                *)
OpenIsAccounted == \A q \in Ids : status[q] = "open" => q \in allocated
=============================================================================
