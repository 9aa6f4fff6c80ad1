---------------------------- MODULE PacketStream ----------------------------
(***************************************************************************)
(* One stream of a secondary server to the client, end to end: the server  *)
(* application's writes, their offsets, their packing                      *)
(* (pkg/stream/server_stream.go), the byte stream of the path, the client  *)
(* that takes packets apart and acknowledges them                          *)
(* (pkg/session/client.go), and the server's table of packets that wait    *)
(* for their acknowledgement.                                              *)
(*                                                                         *)
(* Neither the data stream nor the control stream is framed: a Read takes  *)
(* what has arrived.  The data stream is a sequence of units, the header   *)
(* of a packet, <<p, 0>>, and its frames, <<p, 1>>, <<p, 2>>, ...; a Read  *)
(* takes some of them and may cut a header.  Only the packet at the front  *)
(* of a Read is parsed, and only from its header on.                       *)
(*                                                                         *)
(* The server stream's methods and its flush timer run under the stream's  *)
(* mutex: each is one action.  So does a pass of the retransmission loop,  *)
(* an action per packet: the client reads while it writes.                 *)
(***************************************************************************)
EXTENDS OffsetCoordinator, FiniteSets

CONSTANTS Lengths,      \* lengths the application writes
          Offsets,      \* offsets it sets
          MTU,          \* what a packet holds, a frame of n bytes taking n + 1
          MaxRetries,   \* retransmissions of a packet
          MaxWrites     \* bound on the application's writes

ASSUME PacketAssumption ==
  /\ Lengths \subseteq Nat /\ Offsets \subseteq Nat
  /\ MTU \in Nat /\ MaxRetries \in Nat /\ MaxWrites \in Nat

VARIABLES
  remoteStreamID,         \* whether the target stream was set
  offset,                 \* the server stream's own offset
  frames,                 \* the accepted frames, in order
  packetFrameRaw,         \* those that wait for a packet, by index
  packetFlushScheduled,
  packets,                \* the packets sent, each a sequence of frames
  pendingSegments,        \* packets that wait for their acknowledgement
  retries,
  pass,                   \* packets the loop has yet to come to; it holds the
                          \* mutex as long as there are some
  lookup,                 \* the packet an acknowledgement is looked up for
  crashed,                \* the server died of a concurrent map access
  up,                     \* the connection
  stream,                 \* units on their way to the client
  acks,                   \* acknowledgements on their way to the server
  acking,                 \* the packet the client is about to acknowledge
  delivered,              \* frames in the client's stream buffer
  writes, acked, cut      \* history: calls of Write, packets acknowledged,
                          \* packets a Read ended in

server  == <<remoteStreamID, offset, frames, packetFrameRaw, packetFlushScheduled,
             writes, coordinator>>
table   == <<packets, pendingSegments, retries, pass>>
client  == <<acking, delivered, acked, cut>>
vars    == <<server, table, lookup, crashed, up, stream, acks, client>>

Frame   == [offset : Nat, len : Nat, reserved : BOOLEAN]
Junk    == <<0, 0>>      \* what is left of a unit that was cut
Unknown == 0             \* the packet id junk is read as

TypeOK ==
  /\ CoordinatorTypeOK
  /\ remoteStreamID \in BOOLEAN /\ offset \in Nat
  /\ frames \in Seq(Frame)
  /\ packetFrameRaw \in Seq(Nat) /\ packetFlushScheduled \in BOOLEAN
  /\ packets \in Seq(Seq(Nat))
  /\ pendingSegments \subseteq DOMAIN packets
  /\ retries \in Seq(0 .. MaxRetries) /\ DOMAIN retries = DOMAIN packets
  /\ pass \subseteq pendingSegments
  /\ lookup \in Seq(Nat) /\ crashed \in BOOLEAN /\ up \in BOOLEAN
  /\ stream \in Seq(Nat \X Nat)
  /\ acks \in Seq(Nat) /\ acking \in Seq(Nat)
  /\ delivered \subseteq DOMAIN frames
  /\ writes \in Nat /\ acked \subseteq Nat /\ cut \subseteq DOMAIN packets

Init ==
  /\ CoordinatorInit
  /\ remoteStreamID = FALSE /\ offset = 0
  /\ frames = <<>> /\ packetFrameRaw = <<>> /\ packetFlushScheduled = FALSE
  /\ packets = <<>> /\ pendingSegments = {} /\ retries = <<>> /\ pass = {}
  /\ lookup = <<>> /\ crashed = FALSE /\ up = TRUE
  /\ stream = <<>> /\ acks = <<>> /\ acking = <<>>
  /\ delivered = {} /\ writes = 0 /\ acked = {} /\ cut = {}

-----------------------------------------------------------------------------
(* The server stream.                                                      *)

(* Mutant: the mutex is not waited for. *)
Alive == ~crashed

(* The server is alive and the stream's mutex is free. *)
MutexFree == ~crashed /\ pass = {}

SetRemoteStreamID ==
  /\ MutexFree /\ ~remoteStreamID
  /\ remoteStreamID' = TRUE
  /\ UNCHANGED <<offset, frames, packetFrameRaw, packetFlushScheduled, writes, coordinator,
                 table, lookup, crashed, up, stream, acks, client>>

SetOffset(n) ==
  /\ MutexFree
  /\ offset' = n
  /\ UNCHANGED <<remoteStreamID, frames, packetFrameRaw, packetFlushScheduled, writes,
                 coordinator, table, lookup, crashed, up, stream, acks, client>>

(* The table is a plain map: written while an acknowledgement reads it     *)
(* without the mutex, the Go runtime may end the process.                  *)
WriteTable == crashed' \in {FALSE} \cup (IF lookup = <<>> THEN {} ELSE {TRUE})

Units(p, fs) == [i \in 1 .. Len(fs) + 1 |-> <<p, i - 1>>]

(* Mutant: the frames stay in the buffer after they were sent. *)
AfterFlushKept == packetFrameRaw

AfterFlush == <<>>

(* flushPacketLocked, on a connection that takes the packet. *)
SendPacket ==
  LET p == Len(packets) + 1
  IN  /\ packets' = Append(packets, packetFrameRaw)
      /\ stream' = stream \o Units(p, packetFrameRaw)
      /\ pendingSegments' = pendingSegments \cup {p}
      /\ retries' = Append(retries, 0)
      /\ WriteTable
      /\ UNCHANGED pass

(* What the buffered frames and one more of n bytes take. *)
Full(n) ==
  LET weigh(w, f) == w + frames[f].len + 1
  IN  FoldLeft(weigh, n + 1, packetFrameRaw) > MTU /\ packetFrameRaw # <<>>

(* Where a frame goes: the coordinator's answer, or the stream's own       *)
(* offset when it refuses.  A reservation that Stop overtakes, behind its  *)
(* check, begins at 0 on a new state.                                      *)
OffsetsOf(n) ==
  IF CanReserve(n) THEN {StartFor(n)}
  ELSE IF n > 0 THEN {offset, 0} ELSE {offset}

(* Write: the frame joins the buffer, behind a flush if it does not fit.   *)
Write(n) ==
  LET f == Len(frames) + 1
  IN  /\ MutexFree /\ writes < MaxWrites
      /\ remoteStreamID
      /\ IF Full(n) THEN up /\ SendPacket /\ packetFrameRaw' = Append(AfterFlush, f)
                    ELSE /\ packetFrameRaw' = Append(packetFrameRaw, f)
                         /\ UNCHANGED <<table, stream, crashed>>
      /\ \E start \in OffsetsOf(n) :
           /\ frames' = Append(frames, [offset |-> start, len |-> n, reserved |-> CanReserve(n)])
           /\ ReserveAndCommit(start, n)
      /\ packetFlushScheduled' = TRUE
      /\ offset' = offset + n
      /\ writes' = writes + 1
      /\ UNCHANGED <<remoteStreamID, lookup, up, acks, client>>

(* Write fails, because no target stream was set or because the flush did  *)
(* not go out.  The reservation stays.                                     *)
WriteFails(n) ==
  /\ MutexFree /\ writes < MaxWrites
  /\ ~remoteStreamID \/ (Full(n) /\ ~up)
  /\ ReserveOnly(n)
  /\ writes' = writes + 1
  /\ UNCHANGED <<remoteStreamID, offset, frames, packetFrameRaw, packetFlushScheduled,
                 table, lookup, crashed, up, stream, acks, client>>

(* Mutant: the timer sends full packets only. *)
CanSendFull == up /\ Full(0)

CanSend == up /\ packetFrameRaw # <<>>

(* The flush timer; a flush that fails leaves the frames where they are.   *)
TimedFlush ==
  /\ MutexFree /\ packetFlushScheduled
  /\ packetFlushScheduled' = FALSE
  /\ IF CanSend THEN SendPacket /\ packetFrameRaw' = AfterFlush
                ELSE UNCHANGED <<packetFrameRaw, table, stream, crashed>>
  /\ UNCHANGED <<remoteStreamID, offset, frames, writes, coordinator, lookup, up, acks, client>>

(* Mutant: the loop waits for one retransmission more than it makes. *)
ExhaustedLate(p) == retries[p] > MaxRetries

(* Mutant: a packet is given up one retransmission early. *)
ExhaustedEarly(p) == retries[p] + 1 >= MaxRetries

Exhausted(p) == retries[p] >= MaxRetries

(* The ticker of the retransmission loop: it goes over the table. *)
Tick ==
  /\ MutexFree /\ pendingSegments # {}
  /\ pass' = pendingSegments
  /\ UNCHANGED <<server, packets, pendingSegments, retries, lookup, crashed, up, stream, acks, client>>

(* The loop comes to packet p.  It is sent again when it is old, that is   *)
(* when its last transmission was long enough ago, and given up after its  *)
(* last retransmission.                                                    *)
Retransmit(p, old) ==
  /\ ~crashed /\ p \in pass
  /\ pass' = pass \ {p}
  /\ IF old /\ retries[p] < MaxRetries
     THEN /\ stream' = IF up THEN stream \o Units(p, packets[p]) ELSE stream
          /\ retries' = [retries EXCEPT ![p] = @ + 1]
          /\ UNCHANGED <<pendingSegments, crashed>>
     ELSE /\ Exhausted(p)
          /\ pendingSegments' = pendingSegments \ {p}
          /\ WriteTable
          /\ UNCHANGED <<retries, stream>>
  /\ UNCHANGED <<server, packets, lookup, up, acks, client>>

(* The packet is neither old nor given up. *)
Pass(p) ==
  /\ ~crashed /\ p \in pass /\ ~Exhausted(p)
  /\ pass' = pass \ {p}
  /\ UNCHANGED <<server, packets, pendingSegments, retries, lookup, crashed, up, stream, acks,
                 client>>

(* The server's reader of control frames takes some acknowledgements; what *)
(* parses is the last one, or none.  It has the table now, not its mutex.  *)
ReadAck(k, parsed) ==
  /\ MutexFree /\ up /\ lookup = <<>>
  /\ acks' = SubSeq(acks, k + 1, Len(acks))
  /\ lookup' = IF parsed THEN <<acks[k]>> ELSE <<>>
  /\ UNCHANGED <<server, table, crashed, up, stream, client>>

(* handlePacketAck looks the packet up and deletes it under the mutex. *)
DeletePendingSegment ==
  /\ MutexFree /\ lookup # <<>>
  /\ pendingSegments' = pendingSegments \ {lookup[1]}
  /\ lookup' = <<>>
  /\ UNCHANGED <<server, packets, retries, pass, crashed, up, stream, acks, client>>

(* The session's Close stops the coordinator, while streams still write.   *)
StopSession ==
  /\ ~crashed /\ StopCoordinator
  /\ UNCHANGED <<remoteStreamID, offset, frames, packetFrameRaw, packetFlushScheduled, writes,
                 table, lookup, crashed, up, stream, acks, client>>

CleanUpReservations ==
  /\ ~crashed /\ DropReservations
  /\ UNCHANGED <<remoteStreamID, offset, frames, packetFrameRaw, packetFlushScheduled, writes,
                 table, lookup, crashed, up, stream, acks, client>>

-----------------------------------------------------------------------------
(* The client.                                                             *)

(* Mutant: a frame the aggregator refuses does not end the packet, as in   *)
(* startPrimaryIngestion.                                                  *)
AckAnyway(p, done, whole) == <<p>>

(* processDataPacket acknowledges the packet unless a frame failed. *)
AckOf(p, done, whole) == IF done = whole THEN <<p>> ELSE <<>>

(* The frames of packet p in the n units behind its header.  They go to    *)
(* the aggregator in order, up to the first it refuses: an empty one, or   *)
(* any under backpressure, in a full buffer or after a timeout, whose      *)
(* write may still go through.                                             *)
ProcessDataPacket(p, n) ==
  LET whole == IF n < Len(packets[p]) THEN n ELSE Len(packets[p])
      empty(i) == frames[packets[p][i]].len = 0
  IN  /\ cut' = IF n < Len(packets[p]) THEN cut \cup {p} ELSE cut
      /\ \E done \in 0 .. whole :
           /\ \A i \in 1 .. done : ~empty(i)
           /\ acking' = AckOf(p, done, whole)
           /\ \E late \in SUBSET {i \in {done + 1} : i <= whole /\ ~empty(i)} :
                delivered' = delivered \cup {packets[p][i] : i \in (1 .. done) \cup late}

(* What does not begin with a header parses as a packet of an unknown id   *)
(* without frames, or not at all.                                          *)
ProcessJunk ==
  /\ acking' \in {<<>>, <<Unknown>>}
  /\ UNCHANGED <<delivered, cut>>

IsHeader(u) == u[2] = 0 /\ u # Junk

(* One Read of k whole units, and a part of the header behind them. *)
ReadPacket(k, part) ==
  LET taken == IF part THEN k + 1 ELSE k
      rest  == SubSeq(stream, taken + 1, Len(stream))
  IN  /\ up /\ acking = <<>>
      /\ taken \in 1 .. Len(stream)
      /\ part => IsHeader(stream[taken])
      /\ stream' = IF part THEN <<Junk>> \o rest ELSE rest
      /\ IF k = 0 THEN UNCHANGED <<acking, delivered, cut>>
         ELSE IF IsHeader(stream[1]) THEN ProcessDataPacket(stream[1][1], k - 1)
         ELSE ProcessJunk
      /\ UNCHANGED <<server, table, lookup, crashed, up, acks, acked>>

(* The acknowledgement goes to the control stream, unless the path is no   *)
(* longer active.                                                          *)
Acknowledge ==
  /\ acking # <<>>
  /\ \/ up /\ acks' = acks \o acking /\ acked' = acked \cup {acking[1]}
     \/ UNCHANGED <<acks, acked>>
  /\ acking' = <<>>
  /\ UNCHANGED <<server, table, lookup, crashed, up, stream, delivered, cut>>

(* The connection ends, and with it what was on its way. *)
LoseConnection ==
  /\ up
  /\ up' = FALSE
  /\ stream' = <<>> /\ acks' = <<>>
  /\ UNCHANGED <<server, table, lookup, crashed, client>>

-----------------------------------------------------------------------------
Next ==
  \/ SetRemoteStreamID
  \/ \E n \in Offsets : SetOffset(n)
  \/ \E n \in Lengths : Write(n) \/ WriteFails(n)
  \/ TimedFlush
  \/ Tick
  \/ \E p \in pass : Pass(p) \/ \E old \in BOOLEAN : Retransmit(p, old)
  \/ \E k \in 1 .. Len(acks), parsed \in BOOLEAN : ReadAck(k, parsed)
  \/ DeletePendingSegment
  \/ StopSession
  \/ CleanUpReservations
  \/ \E k \in 0 .. Len(stream), part \in BOOLEAN : ReadPacket(k, part)
  \/ Acknowledge
  \/ LoseConnection

Spec == Init /\ [][Next]_vars

(* The timer fires; the loop ticks, and every packet grows old in time. *)
Fairness ==
  /\ SF_vars(TimedFlush)
  /\ SF_vars(Tick)
  /\ \A p \in 1 .. MaxWrites :
       /\ SF_vars(p \in pass /\ Retransmit(p, TRUE))
       /\ WF_vars(p \in pass /\ Pass(p))

LiveSpec == Spec /\ Fairness

-----------------------------------------------------------------------------
(* Accepted frames that got their place from the coordinator do not        *)
(* overlap and lie in the order they were written, whatever failed writes, *)
(* cleanups and SetOffset do in between.                                   *)
FramesDisjoint ==
  \A i, j \in DOMAIN frames :
    i < j /\ frames[i].reserved /\ frames[j].reserved
      => frames[i].offset + frames[i].len <= frames[j].offset

(* Every accepted frame is in exactly one packet or in the buffer, in the  *)
(* order of the writes: whichever of the timer and a Write flushes, none   *)
(* is packed twice, skipped or overtaken.                                  *)
Follows(s, t) == Len(s) > 0 => (t # <<>> /\ t[Len(t)] + 1 = s[1])

PackedInOrder ==
  /\ \A p \in DOMAIN packets :
       /\ packets[p] # <<>>
       /\ \A i \in 1 .. Len(packets[p]) - 1 : packets[p][i + 1] = packets[p][i] + 1
       /\ p = 1 => packets[p][1] = 1
       /\ p > 1 => Follows(packets[p], packets[p - 1])
  /\ \A i \in 1 .. Len(packetFrameRaw) - 1 : packetFrameRaw[i + 1] = packetFrameRaw[i] + 1
  /\ packetFrameRaw # <<>> =>
       /\ packetFrameRaw[Len(packetFrameRaw)] = Len(frames)
       /\ IF packets = <<>> THEN packetFrameRaw[1] = 1
                            ELSE Follows(packetFrameRaw, packets[Len(packets)])
  /\ packetFrameRaw = <<>> /\ packets # <<>> =>
       LET last == packets[Len(packets)] IN last[Len(last)] = Len(frames)
  /\ packetFrameRaw = <<>> /\ packets = <<>> => frames = <<>>

(* A packet leaves the table only when the client acknowledged it or after *)
(* its last retransmission.                                                *)
PendingUntilSettled ==
  \A p \in DOMAIN packets :
    p \in pendingSegments \/ p \in acked \/ retries[p] = MaxRetries

(* The client acknowledges a packet only when all its frames are in the    *)
(* stream buffer, or when a Read ended inside the packet: no refusal of a  *)
(* frame is ever acknowledged.                                             *)
AckedIsDeliveredOrCut ==
  \A p \in acked \ {Unknown} :
    p \in cut \/ \A i \in DOMAIN packets[p] : packets[p][i] \in delivered

(* "Ack after all frames processed" (client.go:2205). *)
AckedIsDelivered ==
  \A p \in acked \ {Unknown} : \A i \in DOMAIN packets[p] : packets[p][i] \in delivered

(* What was written does not stay in the buffer while the connection       *)
(* lives.                                                                  *)
BufferedIsFlushed ==
  packetFrameRaw # <<>> ~> (packetFrameRaw = <<>> \/ ~up \/ crashed)

(* Every packet leaves the table, acknowledged or given up. *)
PendingSettles ==
  \A p \in 1 .. MaxWrites : p \in pendingSegments ~> (p \notin pendingSegments \/ crashed)
=============================================================================
