------------------------- MODULE PacketStreamProofs -------------------------
(***************************************************************************)
(* Proofs about PacketStream for every set of lengths and offsets, every   *)
(* packet size, number of retransmissions and of writes.  IInv adds to the *)
(* checked invariants that no reservation ends behind the next offset, so  *)
(* that none is ever in the way of a new one, and that whatever stands for *)
(* an acknowledgement between the client and the table stands for a packet *)
(* that was delivered or cut.                                              *)
(***************************************************************************)
EXTENDS PacketStream, SequenceTheorems, TLAPS

(* No reservation ends behind the next offset. *)
RangesOK ==
  \A i \in DOMAIN reservedRanges :
    /\ reservedRanges[i].start <= reservedRanges[i].end
    /\ reservedRanges[i].end <= nextOffset

(* Nor does a frame that has a reservation, while the coordinator runs. *)
FramesBelow ==
  coordinating => \A i \in DOMAIN frames :
    frames[i].reserved => frames[i].offset + frames[i].len <= nextOffset

(* Only accepted frames are packed. *)
FramesKnown ==
  /\ \A i \in DOMAIN packetFrameRaw : packetFrameRaw[i] \in DOMAIN frames
  /\ \A p \in DOMAIN packets : \A i \in DOMAIN packets[p] : packets[p][i] \in DOMAIN frames

(* What is on its way belongs to a packet, unless it is junk. *)
UnitsOK == \A i \in DOMAIN stream : stream[i] = Junk \/ stream[i][1] \in DOMAIN packets

DeliveredOrCut(p) ==
  p \in cut \/ \A i \in DOMAIN packets[p] : packets[p][i] \in delivered

(* The client only acknowledges what is delivered or cut. *)
AckingOK ==
  /\ Len(acking) <= 1
  /\ \A i \in DOMAIN acking : acking[i] # Unknown => acking[i] \in DOMAIN packets
  /\ \A i \in DOMAIN acking : acking[i] # Unknown => DeliveredOrCut(acking[i])

(* And so does whoever holds an acknowledgement. *)
AcksOK ==
  /\ \A p \in acked \ {Unknown} : p \in DOMAIN packets
  /\ \A i \in DOMAIN acks : acks[i] \in acked
  /\ \A i \in DOMAIN lookup : lookup[i] \in acked

IInv ==
  /\ TypeOK
  /\ RangesOK
  /\ FramesBelow
  /\ FramesDisjoint
  /\ PackedInOrder
  /\ FramesKnown
  /\ UnitsOK
  /\ AckingOK
  /\ AcksOK
  /\ AckedIsDeliveredOrCut
  /\ PendingUntilSettled

-----------------------------------------------------------------------------
(* The place an element had before n others were taken. *)
LEMMA PastTaken ==
  ASSUME NEW l \in Nat, NEW n \in Nat, NEW i \in 1 .. l - (n + 1) + 1
  PROVE  n + 1 + i - 1 = i + n /\ i + n \in 1 .. l
  OBVIOUS

(* What is left of a sequence once its first n elements are taken. *)
LEMMA TakenSeq ==
  ASSUME NEW S, NEW s \in Seq(S), NEW n \in Nat
  PROVE  /\ SubSeq(s, n + 1, Len(s)) \in Seq(S)
         /\ \A i \in DOMAIN SubSeq(s, n + 1, Len(s)) :
              \E j \in DOMAIN s : SubSeq(s, n + 1, Len(s))[i] = s[j]
<1> DEFINE t == SubSeq(s, n + 1, Len(s))
<1>1. /\ Len(s) \in Nat /\ DOMAIN s = 1 .. Len(s)
      /\ \A i \in (n + 1) .. Len(s) : s[i] \in S
  BY ElementOfSeq, LenProperties
<1>2. /\ t \in Seq(S)
      /\ Len(t) = IF n + 1 <= Len(s) THEN Len(s) - (n + 1) + 1 ELSE 0
      /\ \A i \in 1 .. Len(s) - (n + 1) + 1 : t[i] = s[n + 1 + i - 1]
  BY <1>1, SubSeqProperties
<1>3. DOMAIN t = 1 .. Len(t)
  BY <1>2, LenProperties
<1> HIDE DEF t
<1>4. ASSUME NEW i \in 1 .. Len(t)
      PROVE  i + n \in 1 .. Len(s) /\ t[i] = s[i + n]
  <2>0. Len(t) = (IF n + 1 <= Len(s) THEN Len(s) - (n + 1) + 1 ELSE 0) /\ Len(s) \in Nat
    BY <1>1, <1>2
  <2>1. n + 1 <= Len(s) /\ Len(t) = Len(s) - (n + 1) + 1
    BY <2>0
  <2>2. i \in 1 .. Len(s) - (n + 1) + 1
    BY <2>1
  <2>3. n + 1 + i - 1 = i + n /\ i + n \in 1 .. Len(s)
    BY <1>1, <2>2, PastTaken
  <2> QED
    BY <1>2, <2>2, <2>3
<1>5. \A i \in DOMAIN t : \E j \in DOMAIN s : t[i] = s[j]
  BY <1>1, <1>3, <1>4
<1> QED
  BY <1>2, <1>5 DEF t

(* One acknowledgement behind the others. *)
LEMMA AppendAck ==
  ASSUME NEW s \in Seq(Nat), NEW t \in Seq(Nat), Len(t) = 1
  PROVE  /\ s \o t \in Seq(Nat) /\ Len(s \o t) = Len(s) + 1
         /\ \A i \in 1 .. Len(s) + 1 : (s \o t)[i] = IF i <= Len(s) THEN s[i] ELSE t[i - Len(s)]
<1>1. /\ s \o t \in Seq(Nat) /\ Len(s \o t) = Len(s) + Len(t)
      /\ \A i \in 1 .. Len(s) + Len(t) : (s \o t)[i] = IF i <= Len(s) THEN s[i] ELSE t[i - Len(s)]
  BY ConcatProperties, Zenon
<1> QED
  BY <1>1

(* The units of a packet are its own. *)
LEMMA UnitsOfPacket ==
  ASSUME NEW p \in Nat, NEW fs \in Seq(Nat)
  PROVE  /\ Units(p, fs) \in Seq(Nat \X Nat)
         /\ \A i \in DOMAIN Units(p, fs) : Units(p, fs)[i][1] = p
<1>1. Len(fs) + 1 \in Nat
  BY LenProperties
<1>2. \A i \in 1 .. Len(fs) + 1 : <<p, i - 1>> \in Nat \X Nat
  BY <1>1
<1>3. Units(p, fs) \in Seq(Nat \X Nat)
  BY <1>1, <1>2, IsASeq DEF Units
<1> QED
  BY <1>1, <1>3 DEF Units

(* What a packet's units add to those on their way. *)
LEMMA UnitsAdded ==
  ASSUME NEW p \in Nat, NEW fs \in Seq(Nat), stream \in Seq(Nat \X Nat)
  PROVE  /\ stream \o Units(p, fs) \in Seq(Nat \X Nat)
         /\ \A i \in DOMAIN (stream \o Units(p, fs)) :
              \/ (stream \o Units(p, fs))[i][1] = p
              \/ \E j \in DOMAIN stream : (stream \o Units(p, fs))[i] = stream[j]
<1> DEFINE u == Units(p, fs)
           t == stream \o u
<1>1. u \in Seq(Nat \X Nat) /\ \A i \in DOMAIN u : u[i][1] = p
  BY UnitsOfPacket
<1> HIDE DEF u
<1>2. /\ t \in Seq(Nat \X Nat)
      /\ Len(t) = Len(stream) + Len(u)
      /\ \A i \in 1 .. Len(stream) + Len(u) :
           t[i] = IF i <= Len(stream) THEN stream[i] ELSE u[i - Len(stream)]
  BY <1>1, ConcatProperties
<1>3. /\ DOMAIN t = 1 .. Len(t) /\ DOMAIN stream = 1 .. Len(stream) /\ DOMAIN u = 1 .. Len(u)
      /\ Len(stream) \in Nat /\ Len(u) \in Nat
  BY <1>1, <1>2, LenProperties
<1>5. ASSUME NEW l \in Nat, NEW m \in Nat, NEW i \in 1 .. l + m, ~(i <= l)
      PROVE  i - l \in 1 .. m
  BY <1>5
<1>4. ASSUME NEW i \in DOMAIN t
      PROVE  t[i][1] = p \/ \E j \in DOMAIN stream : t[i] = stream[j]
  <2> HIDE DEF t
  <2>1. CASE i <= Len(stream)
    BY <1>2, <1>3, <2>1
  <2>2. CASE ~(i <= Len(stream))
    <3>1. i \in 1 .. Len(stream) + Len(u)
      BY <1>2, <1>3
    <3>2. i - Len(stream) \in DOMAIN u
      BY <1>3, <1>5, <2>2, <3>1
    <3>3. t[i] = u[i - Len(stream)]
      BY <1>2, <2>2, <3>1
    <3> QED
      BY <1>1, <3>2, <3>3
  <2> QED
    BY <2>1, <2>2
<1> QED
  BY <1>2, <1>4 DEF u

-----------------------------------------------------------------------------
(* Nothing is in the way of a reservation at the next offset. *)
LEMMA StartIsNext ==
  ASSUME CoordinatorTypeOK, RangesOK, NEW n \in Nat
  PROVE  StartFor(n) = nextOffset
<1>1. \A i \in DOMAIN reservedRanges : ~Conflicts(reservedRanges[i], nextOffset, n)
  BY DEF CoordinatorTypeOK, RangesOK, Conflicts, OffsetRange
<1> QED
  BY <1>1 DEF StartFor

(* A reservation takes the n bytes from the next offset on. *)
LEMMA ReserveStep ==
  ASSUME CoordinatorTypeOK, RangesOK, NEW n \in Nat, Reserve(n)
  PROVE  /\ nextOffset' = IF CanReserve(n) THEN nextOffset + n ELSE nextOffset
         /\ reservations' = IF CanReserve(n) THEN reservations + 1 ELSE reservations
         /\ CanReserve(n) =>
              /\ WithReservation(StartFor(n), n) \in
                   [DOMAIN reservedRanges \cup {reservations + 1} -> OffsetRange]
              /\ \A i \in DOMAIN reservedRanges \cup {reservations + 1} :
                   /\ WithReservation(StartFor(n), n)[i].start
                        <= WithReservation(StartFor(n), n)[i].end
                   /\ WithReservation(StartFor(n), n)[i].end <= nextOffset + n
<1>1. StartFor(n) = nextOffset
  BY StartIsNext
<1>2. nextOffset \in Nat /\ reservations \in Nat
  BY DEF CoordinatorTypeOK
<1> HIDE DEF StartFor
<1>3. \A i \in DOMAIN reservedRanges :
        /\ reservedRanges[i] \in OffsetRange
        /\ reservedRanges[i].start <= reservedRanges[i].end
        /\ reservedRanges[i].end <= nextOffset
  BY DEF CoordinatorTypeOK, RangesOK
<1>4. [start |-> nextOffset, end |-> nextOffset + n, reserved |-> TRUE] \in OffsetRange
  BY <1>2 DEF OffsetRange
<1>5. WithReservation(StartFor(n), n) \in [DOMAIN reservedRanges \cup {reservations + 1} -> OffsetRange]
  BY <1>1, <1>3, <1>4 DEF WithReservation
<1>6. ASSUME NEW i \in DOMAIN reservedRanges \cup {reservations + 1}
      PROVE  /\ WithReservation(StartFor(n), n)[i].start <= WithReservation(StartFor(n), n)[i].end
             /\ WithReservation(StartFor(n), n)[i].end <= nextOffset + n
  <2>1. CASE i = reservations + 1
    BY <1>1, <1>2, <2>1 DEF WithReservation
  <2>2. CASE i # reservations + 1
    BY <1>2, <1>3, <2>2 DEF WithReservation, OffsetRange
  <2> QED
    BY <2>1, <2>2
<1> QED
  BY <1>1, <1>2, <1>5, <1>6 DEF Reserve, NextAfter

(* A commit keeps the shape of the ranges. *)
LEMMA CommitStep ==
  ASSUME NEW D, NEW ranges \in [D -> OffsetRange], NEW start \in Nat, NEW n \in Nat,
         NEW last \in Nat, committedOffset \in Nat,
         \A i \in D : ranges[i].start <= ranges[i].end /\ ranges[i].end <= last,
         start + n <= last \/ n = 0,
         Commit(ranges, start, n)
  PROVE  /\ reservedRanges' \in [D -> OffsetRange] /\ DOMAIN reservedRanges' = D
         /\ \A i \in D : /\ reservedRanges'[i].start <= reservedRanges'[i].end
                         /\ reservedRanges'[i].end <= last
         /\ committedOffset' \in Nat
<1> DEFINE found == {i \in DOMAIN ranges : ranges[i].reserved /\ ranges[i].start = start}
           committed == [start |-> start, end |-> start + n, reserved |-> FALSE]
<1>1. CASE coordinating /\ found # {}
  <2>1. PICK k \in found :
          /\ reservedRanges' = [ranges EXCEPT ![k] = committed]
          /\ committedOffset' = IF start + n > committedOffset THEN start + n ELSE committedOffset
    BY <1>1 DEF Commit
  <2>2. k \in D /\ ranges[k].start = start /\ start <= last
    BY <2>1 DEF OffsetRange
  <2>3. committed \in OffsetRange /\ committed.start <= committed.end /\ committed.end <= last
    BY <2>2 DEF OffsetRange
  <2> HIDE DEF committed, found
  <2>4. /\ reservedRanges' \in [D -> OffsetRange] /\ DOMAIN reservedRanges' = D
        /\ \A i \in D : reservedRanges'[i] = IF i = k THEN committed ELSE ranges[i]
    BY <2>1, <2>2, <2>3
  <2>5. committedOffset' \in Nat
    BY <2>1
  <2> QED
    BY <2>3, <2>4, <2>5
<1>2. CASE ~(coordinating /\ found # {})
  <2>1. reservedRanges' = ranges /\ committedOffset' = committedOffset
    BY <1>2 DEF Commit
  <2> QED
    BY <2>1
<1> QED
  BY <1>1, <1>2

(* A reservation and its commit, or the commit at an offset of the writer. *)
LEMMA ReserveAndCommitStep ==
  ASSUME CoordinatorTypeOK, RangesOK, NEW n \in Nat, NEW start \in Nat,
         CanReserve(n) => start = StartFor(n),
         ReserveAndCommit(start, n)
  PROVE  CoordinatorTypeOK' /\ RangesOK'
<1> DEFINE ranges == IF CanReserve(n) THEN WithReservation(StartFor(n), n) ELSE reservedRanges
           D      == IF CanReserve(n) THEN DOMAIN reservedRanges \cup {reservations + 1}
                                      ELSE DOMAIN reservedRanges
<1>1. Reserve(n) /\ Commit(ranges, start, n) /\ coordinating' = coordinating
  BY DEF ReserveAndCommit
<1>2. /\ nextOffset' = IF CanReserve(n) THEN nextOffset + n ELSE nextOffset
      /\ reservations' = IF CanReserve(n) THEN reservations + 1 ELSE reservations
  BY <1>1, ReserveStep
<1>3. /\ nextOffset \in Nat /\ committedOffset \in Nat /\ reservations \in Nat
      /\ coordinating \in BOOLEAN /\ DOMAIN reservedRanges \subseteq 1 .. reservations
  BY DEF CoordinatorTypeOK
<1>4. /\ ranges \in [D -> OffsetRange]
      /\ \A i \in D : ranges[i].start <= ranges[i].end /\ ranges[i].end <= nextOffset'
  <2>1. CASE CanReserve(n)
    BY <1>1, <1>2, <2>1, ReserveStep
  <2>2. CASE ~CanReserve(n)
    BY <1>2, <2>2 DEF CoordinatorTypeOK, RangesOK
  <2> QED
    BY <2>1, <2>2
<1>5. coordinating /\ n # 0 => CanReserve(n) /\ start = nextOffset
  BY StartIsNext DEF CanReserve
<1>6. nextOffset' \in Nat /\ DOMAIN ranges = D
  BY <1>2, <1>3, <1>4
<1>7. /\ reservedRanges' \in [D -> OffsetRange] /\ DOMAIN reservedRanges' = D
      /\ \A i \in D : /\ reservedRanges'[i].start <= reservedRanges'[i].end
                      /\ reservedRanges'[i].end <= nextOffset'
      /\ committedOffset' \in Nat
  <2> HIDE DEF ranges, D
  <2>1. CASE coordinating \/ n = 0
    <3>1. start + n <= nextOffset' \/ n = 0
      BY <1>2, <1>3, <1>5, <2>1
    <3> QED
      BY <1>1, <1>3, <1>4, <1>6, <3>1, CommitStep
  <2>2. CASE ~coordinating
    <3>1. reservedRanges' = ranges /\ committedOffset' = committedOffset
      BY <1>1, <2>2 DEF Commit
    <3> QED
      BY <1>3, <1>4, <1>6, <3>1
  <2> QED
    BY <2>1, <2>2
<1>8. D \subseteq 1 .. reservations'
  BY <1>2, <1>3
<1> QED
  BY <1>1, <1>2, <1>3, <1>6, <1>7, <1>8 DEF CoordinatorTypeOK, RangesOK

(* Every step of the coordinator. *)
LEMMA CoordinatorStep ==
  ASSUME CoordinatorTypeOK, RangesOK,
         \/ UNCHANGED coordinator
         \/ \E n \in Nat : ReserveOnly(n)
         \/ StopCoordinator
         \/ DropReservations
  PROVE  CoordinatorTypeOK' /\ RangesOK'
<1>1. CASE UNCHANGED coordinator
  BY <1>1 DEF coordinator, CoordinatorTypeOK, RangesOK
<1>2. CASE \E n \in Nat : ReserveOnly(n)
  <2>1. PICK n \in Nat : ReserveOnly(n)
    BY <1>2
  <2>2. Reserve(n) /\ coordinating' = coordinating /\ committedOffset' = committedOffset
    BY <2>1 DEF ReserveOnly
  <2>3. CASE CanReserve(n)
    <3>1. reservedRanges' = WithReservation(StartFor(n), n)
      BY <2>1, <2>3 DEF ReserveOnly
    <3> HIDE DEF WithReservation, StartFor
    <3>2. /\ DOMAIN reservedRanges' = DOMAIN reservedRanges \cup {reservations + 1}
          /\ reservedRanges' \in [DOMAIN reservedRanges' -> OffsetRange]
          /\ \A i \in DOMAIN reservedRanges' :
               /\ reservedRanges'[i].start <= reservedRanges'[i].end
               /\ reservedRanges'[i].end <= nextOffset'
          /\ nextOffset' = nextOffset + n /\ reservations' = reservations + 1
      BY <2>2, <2>3, <3>1, ReserveStep
    <3> QED
      BY <2>2, <3>2 DEF CoordinatorTypeOK, RangesOK
  <2>4. CASE ~CanReserve(n)
    BY <2>1, <2>2, <2>4 DEF ReserveOnly, Reserve, CoordinatorTypeOK, RangesOK
  <2> QED
    BY <2>3, <2>4
<1>3. CASE StopCoordinator
  <2>1. /\ reservedRanges' = <<>> /\ coordinating' = FALSE
        /\ nextOffset' = 0 /\ committedOffset' = 0 /\ reservations' = 0
    BY <1>3 DEF StopCoordinator
  <2>2. DOMAIN <<>> = {} /\ <<>> \in [{} -> OffsetRange]
    OBVIOUS
  <2>3. DOMAIN reservedRanges' = {} /\ reservedRanges' \in [{} -> OffsetRange]
    BY <2>1, <2>2
  <2> QED
    BY <2>1, <2>3 DEF CoordinatorTypeOK, RangesOK
<1>4. CASE DropReservations
  <2>1. PICK old : reservedRanges' = [i \in {i \in DOMAIN reservedRanges :
                                            i > old \/ ~reservedRanges[i].reserved} |->
                                       reservedRanges[i]]
    BY <1>4 DEF DropReservations
  <2>2. UNCHANGED <<coordinating, nextOffset, committedOffset, reservations>>
    BY <1>4 DEF DropReservations
  <2>3. /\ DOMAIN reservedRanges' \subseteq DOMAIN reservedRanges
        /\ \A i \in DOMAIN reservedRanges' : reservedRanges'[i] = reservedRanges[i]
        /\ reservedRanges' = [i \in DOMAIN reservedRanges' |-> reservedRanges'[i]]
    BY <2>1
  <2> QED
    BY <2>2, <2>3 DEF CoordinatorTypeOK, RangesOK
<1> QED
  BY <1>1, <1>2, <1>3, <1>4

-----------------------------------------------------------------------------
(* A packet that is sent joins the packets, the stream and the table.      *)
LEMMA SendPacketStep ==
  ASSUME TypeOK, SendPacket
  PROVE  LET q == Len(packets) + 1
         IN  /\ packets' \in Seq(Seq(Nat)) /\ Len(packets') = q
             /\ DOMAIN packets' = DOMAIN packets \cup {q} /\ q \notin DOMAIN packets
             /\ packets'[q] = packetFrameRaw
             /\ \A p \in DOMAIN packets : packets'[p] = packets[p]
             /\ stream' \in Seq(Nat \X Nat)
             /\ \A i \in DOMAIN stream' : \/ stream'[i][1] = q
                                         \/ \E j \in DOMAIN stream : stream'[i] = stream[j]
             /\ pendingSegments' = pendingSegments \cup {q}
             /\ retries' \in Seq(0 .. MaxRetries) /\ DOMAIN retries' = DOMAIN packets'
             /\ \A p \in DOMAIN packets : retries'[p] = retries[p]
             /\ crashed' \in BOOLEAN /\ pass' = pass
<1> DEFINE q == Len(packets) + 1
<1>1. /\ packets \in Seq(Seq(Nat)) /\ packetFrameRaw \in Seq(Nat)
      /\ retries \in Seq(0 .. MaxRetries) /\ DOMAIN retries = DOMAIN packets
      /\ stream \in Seq(Nat \X Nat) /\ 0 \in 0 .. MaxRetries
  BY PacketAssumption DEF TypeOK
<1>2. /\ packets' = Append(packets, packetFrameRaw) /\ retries' = Append(retries, 0)
      /\ stream' = stream \o Units(q, packetFrameRaw)
      /\ pendingSegments' = pendingSegments \cup {q}
      /\ crashed' \in BOOLEAN /\ pass' = pass
  BY DEF SendPacket, WriteTable
<1>3. /\ Len(packets) \in Nat /\ DOMAIN packets = 1 .. Len(packets)
      /\ Len(retries) \in Nat /\ DOMAIN retries = 1 .. Len(retries)
  BY <1>1, LenProperties
<1>4. Len(retries) = Len(packets)
  BY <1>1, <1>3
<1>5. /\ packets' \in Seq(Seq(Nat)) /\ Len(packets') = q
      /\ packets'[q] = packetFrameRaw
      /\ \A p \in DOMAIN packets : packets'[p] = packets[p]
  BY <1>1, <1>2, <1>3, AppendProperties
<1>6. /\ retries' \in Seq(0 .. MaxRetries) /\ Len(retries') = q
      /\ \A p \in DOMAIN packets : retries'[p] = retries[p]
  BY <1>1, <1>2, <1>3, <1>4, AppendProperties
<1>7. DOMAIN packets' = 1 .. q /\ DOMAIN retries' = 1 .. q
  BY <1>5, <1>6, LenProperties
<1>8. /\ stream' \in Seq(Nat \X Nat)
      /\ \A i \in DOMAIN stream' : \/ stream'[i][1] = q
                                  \/ \E j \in DOMAIN stream : stream'[i] = stream[j]
  <2> DEFINE t == stream \o Units(q, packetFrameRaw)
  <2>1. q \in Nat
    BY <1>3
  <2> HIDE DEF q
  <2>2. /\ t \in Seq(Nat \X Nat)
        /\ \A i \in DOMAIN t : t[i][1] = q \/ \E j \in DOMAIN stream : t[i] = stream[j]
    BY <1>1, <2>1, UnitsAdded
  <2> HIDE DEF t
  <2>3. stream' = t
    BY <1>2 DEF t
  <2> QED
    BY <2>2, <2>3
<1>9. q \notin 1 .. Len(packets) /\ 1 .. q = (1 .. Len(packets)) \cup {q}
  BY <1>3
<1> HIDE DEF q
<1>10. /\ DOMAIN packets' = DOMAIN packets \cup {q} /\ q \notin DOMAIN packets
       /\ DOMAIN retries' = DOMAIN packets'
  BY <1>3, <1>7, <1>9
<1> QED
  BY <1>2, <1>5, <1>6, <1>8, <1>10 DEF q

(* What a Write does to the packets: it sends one or leaves them alone. *)
LEMMA WriteStep ==
  ASSUME TypeOK, RangesOK, NEW n \in Nat, Write(n)
  PROVE  LET f == Len(frames) + 1
         IN  /\ frames' \in Seq(Frame) /\ Len(frames') = f
             /\ DOMAIN frames' = DOMAIN frames \cup {f} /\ f \notin DOMAIN frames
             /\ \A i \in DOMAIN frames : frames'[i] = frames[i]
             /\ \E start \in OffsetsOf(n) :
                  /\ frames'[f] = [offset |-> start, len |-> n, reserved |-> CanReserve(n)]
                  /\ ReserveAndCommit(start, n)
             /\ \/ SendPacket /\ packetFrameRaw # <<>> /\ packetFrameRaw' = Append(<<>>, f)
                \/ /\ UNCHANGED <<table, stream, crashed>>
                   /\ packetFrameRaw' = Append(packetFrameRaw, f)
<1> DEFINE f == Len(frames) + 1
           F(start) == [offset |-> start, len |-> n, reserved |-> CanReserve(n)]
<1>1. PICK start \in OffsetsOf(n) : frames' = Append(frames, F(start)) /\ ReserveAndCommit(start, n)
  BY DEF Write
<1>2. frames \in Seq(Frame) /\ start \in Nat /\ CanReserve(n) \in BOOLEAN
  <2>1. /\ offset \in Nat /\ nextOffset \in Nat /\ frames \in Seq(Frame)
        /\ coordinating \in BOOLEAN /\ CoordinatorTypeOK
    BY DEF TypeOK, CoordinatorTypeOK
  <2>2. StartFor(n) \in Nat
    BY <2>1, StartIsNext
  <2>3. start \in Nat
    BY <2>1, <2>2, <1>1 DEF OffsetsOf
  <2> QED
    BY <2>1, <2>3 DEF CanReserve
<1>3. F(start) \in Frame
  BY <1>2 DEF Frame
<1>4. /\ Len(frames) \in Nat /\ DOMAIN frames = 1 .. Len(frames)
      /\ frames' \in Seq(Frame) /\ Len(frames') = f
      /\ \A i \in 1 .. Len(frames) : frames'[i] = frames[i]
      /\ frames'[f] = F(start)
  <2> HIDE DEF F
  <2> QED
    BY <1>1, <1>2, <1>3, LenProperties, AppendProperties
<1>5. DOMAIN frames' = 1 .. f
  BY <1>4, LenProperties
<1>6. \/ SendPacket /\ packetFrameRaw # <<>> /\ packetFrameRaw' = Append(<<>>, f)
      \/ UNCHANGED <<table, stream, crashed>> /\ packetFrameRaw' = Append(packetFrameRaw, f)
  <2>1. CASE Full(n)
    BY <2>1 DEF Write, AfterFlush, Full
  <2>2. CASE ~Full(n)
    BY <2>2 DEF Write
  <2> QED
    BY <2>1, <2>2
<1> QED
  BY <1>1, <1>4, <1>5, <1>6

-----------------------------------------------------------------------------
(* What processing a packet leaves: an acknowledgement stands for a packet *)
(* that is delivered or cut.                                               *)
LEMMA ProcessStep ==
  ASSUME TypeOK, FramesKnown, NEW p \in DOMAIN packets, NEW n \in Nat,
         ProcessDataPacket(p, n)
  PROVE  /\ delivered \subseteq delivered' /\ delivered' \subseteq DOMAIN frames
         /\ cut \subseteq cut' /\ cut' \subseteq DOMAIN packets
         /\ \/ acking' = <<>>
            \/ /\ acking' = <<p>>
               /\ p \in cut' \/ \A i \in DOMAIN packets[p] : packets[p][i] \in delivered'
<1> DEFINE whole == IF n < Len(packets[p]) THEN n ELSE Len(packets[p])
           empty(i) == frames[packets[p][i]].len = 0
<1>1. /\ packets[p] \in Seq(Nat) /\ Len(packets[p]) \in Nat
      /\ DOMAIN packets[p] = 1 .. Len(packets[p])
  <2>1. packets[p] \in Seq(Nat)
    BY ElementOfSeq, LenProperties DEF TypeOK
  <2> QED
    BY <2>1, LenProperties
<1>2. whole \in Nat /\ whole <= Len(packets[p])
  BY <1>1
<1>2a. PICK done \in 0 .. whole :
        /\ acking' = AckOf(p, done, whole)
        /\ \E late \in SUBSET {i \in {done + 1} : i <= whole /\ ~empty(i)} :
             delivered' = delivered \cup {packets[p][i] : i \in (1 .. done) \cup late}
  BY DEF ProcessDataPacket
<1>3. PICK late \in SUBSET {i \in {done + 1} : i <= whole /\ ~empty(i)} :
        /\ acking' = AckOf(p, done, whole)
        /\ delivered' = delivered \cup {packets[p][i] : i \in (1 .. done) \cup late}
  BY <1>2a
<1>4. cut' = IF n < Len(packets[p]) THEN cut \cup {p} ELSE cut
  BY DEF ProcessDataPacket
<1>5. (1 .. done) \cup late \subseteq DOMAIN packets[p]
  <2>1. late \subseteq {done + 1} /\ \A i \in late : i <= whole
    OBVIOUS
  <2> HIDE DEF whole, empty
  <2>2. \A i \in late : i \in 1 .. Len(packets[p])
    BY <1>1, <1>2, <2>1
  <2>3. 1 .. done \subseteq 1 .. Len(packets[p])
    BY <1>1, <1>2
  <2> QED
    BY <1>1, <2>2, <2>3
<1>6. \A i \in DOMAIN packets[p] : packets[p][i] \in DOMAIN frames
  BY DEF FramesKnown
<1>7. delivered \subseteq delivered' /\ delivered' \subseteq DOMAIN frames
  BY <1>3, <1>5, <1>6 DEF TypeOK
<1>8. cut \subseteq cut' /\ cut' \subseteq DOMAIN packets
  BY <1>4 DEF TypeOK
<1>9. CASE done # whole
  BY <1>3, <1>7, <1>8, <1>9 DEF AckOf
<1>10. CASE done = whole /\ n < Len(packets[p])
  BY <1>3, <1>4, <1>7, <1>8, <1>10 DEF AckOf
<1>11. CASE done = whole /\ ~(n < Len(packets[p]))
  <2>1. done = Len(packets[p])
    BY <1>1, <1>11
  <2>2. \A i \in DOMAIN packets[p] : packets[p][i] \in delivered'
    BY <1>1, <1>3, <2>1
  <2> QED
    BY <1>3, <1>7, <1>8, <1>11, <2>2 DEF AckOf
<1> QED
  BY <1>9, <1>10, <1>11

(* A Read takes from the front of the stream, and processes a packet that  *)
(* was sent, or junk, or nothing.                                          *)
LEMMA ReadStep ==
  ASSUME TypeOK, UnitsOK, NEW k \in 0 .. Len(stream), NEW part \in BOOLEAN,
         ReadPacket(k, part)
  PROVE  /\ acking = <<>>
         /\ stream' \in Seq(Nat \X Nat)
         /\ \A i \in DOMAIN stream' : stream'[i] = Junk \/ \E j \in DOMAIN stream : stream'[i] = stream[j]
         /\ \/ UNCHANGED <<acking, delivered, cut>>
            \/ acking' \in {<<>>, <<Unknown>>} /\ UNCHANGED <<delivered, cut>>
            \/ \E p \in DOMAIN packets, n \in Nat : ProcessDataPacket(p, n)
<1> DEFINE taken == IF part THEN k + 1 ELSE k
           rest  == SubSeq(stream, taken + 1, Len(stream))
<1>1. stream \in Seq(Nat \X Nat) /\ Len(stream) \in Nat /\ DOMAIN stream = 1 .. Len(stream)
  BY LenProperties DEF TypeOK
<1>2. taken \in Nat /\ taken \in 1 .. Len(stream)
  BY <1>1 DEF ReadPacket
<1>3. /\ rest \in Seq(Nat \X Nat)
      /\ \A i \in DOMAIN rest : \E j \in DOMAIN stream : rest[i] = stream[j]
  <2> HIDE DEF taken
  <2> QED
    BY <1>1, <1>2, TakenSeq
<1>4. /\ acking = <<>>
      /\ stream' = IF part THEN <<Junk>> \o rest ELSE rest
  BY DEF ReadPacket
<1>5. /\ stream' \in Seq(Nat \X Nat)
      /\ \A i \in DOMAIN stream' : stream'[i] = Junk \/ \E j \in DOMAIN stream : stream'[i] = stream[j]
  <2> HIDE DEF rest
  <2>1. CASE ~part
    BY <1>3, <1>4, <2>1
  <2>2. CASE part
    <3> DEFINE t == <<Junk>> \o rest
    <3>1. <<Junk>> \in Seq(Nat \X Nat) /\ Len(<<Junk>>) = 1 /\ <<Junk>>[1] = Junk
      BY DEF Junk
    <3>2. /\ t \in Seq(Nat \X Nat) /\ Len(t) = 1 + Len(rest)
          /\ \A i \in 1 .. 1 + Len(rest) : t[i] = IF i <= 1 THEN <<Junk>>[i] ELSE rest[i - 1]
      BY <1>3, <3>1, ConcatProperties
    <3>3. /\ Len(rest) \in Nat /\ DOMAIN rest = 1 .. Len(rest)
      BY <1>3, LenProperties
    <3> HIDE DEF t
    <3>4. DOMAIN t = 1 .. 1 + Len(rest)
      BY <3>2, LenProperties
    <3>5. \A i \in DOMAIN t : t[i] = Junk \/ \E j \in DOMAIN rest : t[i] = rest[j]
      <4> SUFFICES ASSUME NEW i \in DOMAIN t PROVE t[i] = Junk \/ \E j \in DOMAIN rest : t[i] = rest[j]
        OBVIOUS
      <4>1. CASE i = 1
        BY <3>1, <3>2, <3>3, <3>4, <4>1
      <4>2. CASE i # 1
        <5>1. i \in 1 .. 1 + Len(rest)
          BY <3>4
        <5>2. i - 1 \in 1 .. Len(rest) /\ ~(i <= 1)
          BY <3>3, <4>2, <5>1
        <5>3. i - 1 \in DOMAIN rest /\ t[i] = rest[i - 1]
          BY <3>2, <3>3, <5>1, <5>2
        <5> QED
          BY <5>3
      <4> QED
        BY <4>1, <4>2
    <3>6. stream' = t
      BY <1>4, <2>2 DEF t
    <3> QED
      BY <1>3, <3>2, <3>5, <3>6
  <2> QED
    BY <2>1, <2>2
<1>6. CASE k = 0
  BY <1>4, <1>5, <1>6 DEF ReadPacket
<1>7. CASE k # 0 /\ IsHeader(stream[1])
  <2>1. ProcessDataPacket(stream[1][1], k - 1) /\ k - 1 \in Nat
    BY <1>1, <1>7 DEF ReadPacket
  <2>2. stream[1][1] \in DOMAIN packets
    BY <1>1, <1>2, <1>7 DEF IsHeader, UnitsOK
  <2> QED
    BY <1>4, <1>5, <2>1, <2>2
<1>8. CASE k # 0 /\ ~IsHeader(stream[1])
  BY <1>4, <1>5, <1>8 DEF ReadPacket, ProcessJunk
<1> QED
  BY <1>6, <1>7, <1>8

-----------------------------------------------------------------------------
LEMMA Initially == Init => IInv
<1> SUFFICES ASSUME Init PROVE IInv
  OBVIOUS
<1>1. DOMAIN <<>> = {} /\ <<>> \in [{} -> OffsetRange] /\ Len(<<>>) = 0
  OBVIOUS
<1>2. /\ reservedRanges = <<>> /\ frames = <<>> /\ packetFrameRaw = <<>> /\ packets = <<>>
      /\ retries = <<>> /\ lookup = <<>> /\ stream = <<>> /\ acks = <<>> /\ acking = <<>>
      /\ pendingSegments = {} /\ pass = {} /\ delivered = {} /\ acked = {} /\ cut = {}
  BY DEF Init, CoordinatorInit
<1>3. CoordinatorTypeOK /\ RangesOK
  BY <1>1 DEF Init, CoordinatorInit, CoordinatorTypeOK, RangesOK
<1>4. TypeOK
  <2>1. \A S : <<>> \in Seq(S)
    BY EmptySeq
  <2> QED
    BY <1>1, <1>2, <1>3, <2>1 DEF Init, TypeOK
<1>5. FramesBelow /\ FramesDisjoint /\ FramesKnown /\ UnitsOK
  BY <1>1, <1>2 DEF FramesBelow, FramesDisjoint, FramesKnown, UnitsOK
<1>6. PackedInOrder
  BY <1>1, <1>2 DEF PackedInOrder
<1>7. AckingOK /\ AcksOK /\ AckedIsDeliveredOrCut /\ PendingUntilSettled
  BY <1>1, <1>2 DEF AckingOK, AcksOK, AckedIsDeliveredOrCut, PendingUntilSettled
<1> QED
  BY <1>3, <1>4, <1>5, <1>6, <1>7 DEF IInv

-----------------------------------------------------------------------------
(* Every step keeps the coordinator in shape. *)
LEMMA CoordinatorKept ==
  ASSUME TypeOK, RangesOK, [Next]_vars
  PROVE  CoordinatorTypeOK' /\ RangesOK'
<1>1. CoordinatorTypeOK
  BY DEF TypeOK
<1>2. CASE \E n \in Lengths : Write(n)
  <2>1. PICK n \in Lengths : Write(n)
    BY <1>2
  <2>2. n \in Nat
    BY PacketAssumption
  <2>3. PICK start \in OffsetsOf(n) : ReserveAndCommit(start, n)
    BY <2>1 DEF Write
  <2>4. (CanReserve(n) => start = StartFor(n)) /\ start \in Nat
    <3>1. StartFor(n) \in Nat /\ offset \in Nat
      BY <1>1, <2>2, StartIsNext DEF CoordinatorTypeOK, TypeOK
    <3> QED
      BY <2>3, <3>1 DEF OffsetsOf
  <2> QED
    BY <1>1, <2>2, <2>3, <2>4, ReserveAndCommitStep
<1>3. CASE \E n \in Lengths : WriteFails(n)
  <2>1. \E n \in Nat : ReserveOnly(n)
    BY <1>3, PacketAssumption DEF WriteFails
  <2> QED
    BY <1>1, <2>1, CoordinatorStep
<1>4. CASE StopSession \/ CleanUpReservations
  BY <1>1, <1>4, CoordinatorStep DEF StopSession, CleanUpReservations
<1>5. ASSUME UNCHANGED coordinator
      PROVE  CoordinatorTypeOK' /\ RangesOK'
  BY <1>1, <1>5, CoordinatorStep
<1>6. CASE \/ SetRemoteStreamID
           \/ \E n \in Offsets : SetOffset(n)
           \/ TimedFlush \/ Tick
           \/ \E p \in pass : Pass(p) \/ \E old \in BOOLEAN : Retransmit(p, old)
           \/ \E k \in 1 .. Len(acks), parsed \in BOOLEAN : ReadAck(k, parsed)
           \/ DeletePendingSegment
           \/ \E k \in 0 .. Len(stream), part \in BOOLEAN : ReadPacket(k, part)
           \/ Acknowledge \/ LoseConnection
           \/ UNCHANGED vars
  <2>1. UNCHANGED coordinator
    BY <1>6 DEF SetRemoteStreamID, SetOffset, TimedFlush, Tick, Pass, Retransmit, ReadAck,
                DeletePendingSegment, ReadPacket, Acknowledge, LoseConnection, server, vars
  <2> QED
    BY <1>5, <2>1
<1> QED
  BY <1>2, <1>3, <1>4, <1>6 DEF Next

(* What a sent packet leaves has its type. *)
LEMMA SentType ==
  ASSUME TypeOK, SendPacket
  PROVE  /\ packets' \in Seq(Seq(Nat)) /\ stream' \in Seq(Nat \X Nat)
         /\ pendingSegments' \subseteq DOMAIN packets'
         /\ retries' \in Seq(0 .. MaxRetries) /\ DOMAIN retries' = DOMAIN packets'
         /\ pass' \subseteq pendingSegments' /\ crashed' \in BOOLEAN
         /\ DOMAIN packets \subseteq DOMAIN packets'
<1>1. /\ packets' \in Seq(Seq(Nat)) /\ stream' \in Seq(Nat \X Nat)
      /\ DOMAIN packets' = DOMAIN packets \cup {Len(packets) + 1}
      /\ pendingSegments' = pendingSegments \cup {Len(packets) + 1}
      /\ retries' \in Seq(0 .. MaxRetries) /\ DOMAIN retries' = DOMAIN packets'
      /\ crashed' \in BOOLEAN /\ pass' = pass
  BY SendPacketStep
<1>2. pendingSegments \subseteq DOMAIN packets /\ pass \subseteq pendingSegments
  BY DEF TypeOK
<1> QED
  BY <1>1, <1>2

(* Every step keeps the types. *)
LEMMA TypeKept ==
  ASSUME TypeOK, RangesOK, FramesKnown, UnitsOK, [Next]_vars
  PROVE  TypeOK'
<1> USE DEF server, table, client
<1>1. CoordinatorTypeOK'
  BY CoordinatorKept
<1>2. CASE SetRemoteStreamID
  BY <1>1, <1>2 DEF SetRemoteStreamID, TypeOK
<1>3. ASSUME NEW n \in Offsets, SetOffset(n) PROVE TypeOK'
  BY <1>1, <1>3, PacketAssumption DEF SetOffset, TypeOK
<1>4. ASSUME NEW n \in Lengths, Write(n) PROVE TypeOK'
  <2>1. n \in Nat
    BY PacketAssumption
  <2>2. /\ packetFrameRaw' \in Seq(Nat) /\ frames' \in Seq(Frame)
        /\ DOMAIN frames \subseteq DOMAIN frames'
    <3>1. Len(frames) + 1 \in Nat
      BY LenProperties DEF TypeOK
    <3>2. /\ packetFrameRaw \in Seq(Nat) /\ <<>> \in Seq(Nat)
      BY EmptySeq DEF TypeOK
    <3>3. /\ frames' \in Seq(Frame) /\ DOMAIN frames \subseteq DOMAIN frames'
          /\ \/ packetFrameRaw' = Append(<<>>, Len(frames) + 1)
             \/ packetFrameRaw' = Append(packetFrameRaw, Len(frames) + 1)
      BY <1>4, <2>1, WriteStep
    <3>4. /\ Append(<<>>, Len(frames) + 1) \in Seq(Nat)
          /\ Append(packetFrameRaw, Len(frames) + 1) \in Seq(Nat)
      BY <3>1, <3>2, AppendProperties
    <3> QED
      BY <3>3, <3>4
  <2>3. /\ packets' \in Seq(Seq(Nat)) /\ stream' \in Seq(Nat \X Nat)
        /\ pendingSegments' \subseteq DOMAIN packets'
        /\ retries' \in Seq(0 .. MaxRetries) /\ DOMAIN retries' = DOMAIN packets'
        /\ pass' \subseteq pendingSegments' /\ crashed' \in BOOLEAN
        /\ DOMAIN packets \subseteq DOMAIN packets'
    <3>1. CASE SendPacket
      BY <3>1, SentType
    <3>2. CASE UNCHANGED <<table, stream, crashed>>
      BY <3>2 DEF TypeOK
    <3> QED
      BY <1>4, <2>1, <3>1, <3>2, WriteStep
  <2>4. /\ UNCHANGED <<remoteStreamID, lookup, up, acks, client>>
        /\ packetFlushScheduled' = TRUE /\ offset' = offset + n /\ writes' = writes + 1
    BY <1>4 DEF Write
  <2> QED
    BY <1>1, <2>1, <2>2, <2>3, <2>4 DEF TypeOK
<1>5. ASSUME NEW n \in Lengths, WriteFails(n) PROVE TypeOK'
  BY <1>1, <1>5 DEF WriteFails, TypeOK
<1>6. CASE TimedFlush
  <2>1. CASE SendPacket /\ packetFrameRaw' = <<>>
    <3>1. UNCHANGED <<remoteStreamID, offset, frames, writes, lookup, up, acks, client>>
          /\ packetFlushScheduled' = FALSE
      BY <1>6 DEF TimedFlush
    <3> QED
      BY <1>1, <2>1, <3>1, SentType, EmptySeq DEF TypeOK
  <2>2. CASE UNCHANGED <<packetFrameRaw, table, stream, crashed>>
    BY <1>1, <1>6, <2>2 DEF TimedFlush, TypeOK
  <2> QED
    BY <1>6, <2>1, <2>2 DEF TimedFlush, AfterFlush
<1>7. CASE Tick
  BY <1>1, <1>7 DEF Tick, TypeOK
<1>8. ASSUME NEW p \in pass, Pass(p) PROVE TypeOK'
  BY <1>1, <1>8 DEF Pass, TypeOK
<1>9. ASSUME NEW p \in pass, NEW old \in BOOLEAN, Retransmit(p, old) PROVE TypeOK'
  <2>1. p \in DOMAIN packets /\ pass' = pass \ {p}
        /\ UNCHANGED <<server, packets, lookup, up, acks, client>>
    BY <1>9 DEF Retransmit, TypeOK
  <2>2. CASE old /\ retries[p] < MaxRetries
    <3>1. /\ stream' = IF up THEN stream \o Units(p, packets[p]) ELSE stream
          /\ retries' = [retries EXCEPT ![p] = @ + 1]
          /\ UNCHANGED <<pendingSegments, crashed>>
      BY <1>9, <2>2 DEF Retransmit
    <3>2. p \in Nat /\ packets[p] \in Seq(Nat) /\ retries[p] \in 0 .. MaxRetries
      <4>1. /\ packets \in Seq(Seq(Nat)) /\ DOMAIN packets = 1 .. Len(packets) /\ Len(packets) \in Nat
        BY LenProperties DEF TypeOK
      <4>2. /\ retries \in Seq(0 .. MaxRetries) /\ DOMAIN retries = 1 .. Len(retries)
            /\ DOMAIN retries = DOMAIN packets
        BY LenProperties DEF TypeOK
      <4>3. packets[p] \in Seq(Nat)
        BY <2>1, <4>1, ElementOfSeq
      <4>4. retries[p] \in 0 .. MaxRetries
        BY <2>1, <4>2, ElementOfSeq
      <4> QED
        BY <2>1, <4>1, <4>3, <4>4
    <3>3. stream' \in Seq(Nat \X Nat)
      BY <3>1, <3>2, UnitsAdded DEF TypeOK
    <3>4. retries[p] + 1 \in 0 .. MaxRetries
      BY <2>2, <3>2, PacketAssumption
    <3>5. retries' \in Seq(0 .. MaxRetries) /\ DOMAIN retries' = DOMAIN retries
      BY <2>1, <3>1, <3>4, ExceptSeq, LenProperties DEF TypeOK
    <3> QED
      BY <1>1, <2>1, <3>1, <3>3, <3>5 DEF TypeOK
  <2>3. CASE ~(old /\ retries[p] < MaxRetries)
    <3>1. /\ pendingSegments' = pendingSegments \ {p} /\ crashed' \in BOOLEAN
          /\ UNCHANGED <<retries, stream>>
      BY <1>9, <2>3 DEF Retransmit, WriteTable
    <3> QED
      BY <1>1, <2>1, <3>1 DEF TypeOK
  <2> QED
    BY <2>2, <2>3
<1>10. ASSUME NEW k \in 1 .. Len(acks), NEW parsed \in BOOLEAN, ReadAck(k, parsed) PROVE TypeOK'
  <2>1. acks' \in Seq(Nat) /\ acks[k] \in Nat
    <3>1. acks \in Seq(Nat) /\ k \in Nat /\ acks' = SubSeq(acks, k + 1, Len(acks))
      BY <1>10 DEF ReadAck, TypeOK
    <3> QED
      BY <3>1, TakenSeq, ElementOfSeq
  <2>2. lookup' \in Seq(Nat)
    BY <1>10, <2>1 DEF ReadAck
  <2> QED
    BY <1>1, <1>10, <2>1, <2>2 DEF ReadAck, TypeOK
<1>11. CASE DeletePendingSegment
  <2>1. lookup' = <<>> /\ pass = {}
    BY <1>11 DEF DeletePendingSegment, MutexFree
  <2> QED
    BY <1>1, <1>11, <2>1 DEF DeletePendingSegment, TypeOK
<1>12. CASE StopSession
  BY <1>1, <1>12 DEF StopSession, TypeOK
<1>13. CASE CleanUpReservations
  BY <1>1, <1>13 DEF CleanUpReservations, TypeOK
<1>14. ASSUME NEW k \in 0 .. Len(stream), NEW part \in BOOLEAN, ReadPacket(k, part) PROVE TypeOK'
  <2>1. UNCHANGED <<server, table, lookup, crashed, up, acks, acked>>
    BY <1>14 DEF ReadPacket
  <2>2. stream' \in Seq(Nat \X Nat)
    BY <1>14, ReadStep
  <2>3. acking' \in Seq(Nat) /\ delivered' \subseteq DOMAIN frames /\ cut' \subseteq DOMAIN packets
    <3>1. CASE UNCHANGED <<acking, delivered, cut>>
      BY <3>1 DEF TypeOK
    <3>2. CASE acking' \in {<<>>, <<Unknown>>} /\ UNCHANGED <<delivered, cut>>
      <4>1. <<>> \in Seq(Nat) /\ <<Unknown>> \in Seq(Nat)
        BY DEF Unknown
      <4> QED
        BY <3>2, <4>1 DEF TypeOK
    <3>3. CASE \E p \in DOMAIN packets, n \in Nat : ProcessDataPacket(p, n)
      <4>1. PICK p \in DOMAIN packets, n \in Nat : ProcessDataPacket(p, n)
        BY <3>3
      <4>2. p \in Nat
        BY LenProperties DEF TypeOK
      <4>3. <<p>> \in Seq(Nat) /\ <<>> \in Seq(Nat)
        BY <4>2
      <4> QED
        BY <4>1, <4>3, ProcessStep
    <3> QED
      BY <1>14, <3>1, <3>2, <3>3, ReadStep
  <2> QED
    BY <1>1, <2>1, <2>2, <2>3 DEF TypeOK
<1>15. CASE Acknowledge
  <2>1. acks' \in Seq(Nat) /\ acked' \subseteq Nat
    <3>1. acking \in Seq(Nat) /\ acking # <<>> /\ acks \in Seq(Nat) /\ acked \subseteq Nat
      BY <1>15 DEF Acknowledge, TypeOK
    <3>2. acking[1] \in Nat
      BY <3>1
    <3>3. acks \o acking \in Seq(Nat)
      BY <3>1, ConcatProperties
    <3>4. /\ acks' \in {acks, acks \o acking}
          /\ acked' \in {acked, acked \cup {acking[1]}}
      BY <1>15 DEF Acknowledge
    <3> QED
      BY <3>1, <3>2, <3>3, <3>4
  <2> QED
    BY <1>1, <1>15, <2>1 DEF Acknowledge, TypeOK
<1>16. CASE LoseConnection
  <2>1. stream' \in Seq(Nat \X Nat) /\ acks' \in Seq(Nat)
    BY <1>16 DEF LoseConnection
  <2> QED
    BY <1>1, <1>16, <2>1 DEF LoseConnection, TypeOK
<1>17. CASE UNCHANGED vars
  BY <1>1, <1>17 DEF vars, TypeOK
<1> QED
  BY <1>2, <1>3, <1>4, <1>5, <1>6, <1>7, <1>8, <1>9, <1>10, <1>11, <1>12, <1>13, <1>14,
     <1>15, <1>16, <1>17 DEF Next

-----------------------------------------------------------------------------
(* Only a Write accepts a frame. *)
LEMMA FramesUnmoved ==
  ASSUME [Next]_vars, \A n \in Lengths : ~Write(n)
  PROVE  UNCHANGED frames
  BY DEF Next, SetRemoteStreamID, SetOffset, WriteFails, TimedFlush, Tick, Pass, Retransmit, ReadAck,
         DeletePendingSegment, StopSession, CleanUpReservations, ReadPacket, Acknowledge,
         LoseConnection, server, vars

(* A new frame with a reservation begins where all earlier ones have ended. *)
LEMMA FramesKept ==
  ASSUME TypeOK, RangesOK, FramesBelow, FramesDisjoint, [Next]_vars
  PROVE  FramesBelow' /\ FramesDisjoint'
<1>1. CoordinatorTypeOK /\ nextOffset \in Nat /\ coordinating \in BOOLEAN
      /\ Len(frames) \in Nat /\ DOMAIN frames = 1 .. Len(frames)
      /\ \A i \in DOMAIN frames : frames[i] \in Frame
  BY ElementOfSeq, LenProperties DEF TypeOK, CoordinatorTypeOK
<1>2. ASSUME NEW n \in Lengths, Write(n)
      PROVE  FramesBelow' /\ FramesDisjoint'
  <2> DEFINE f == Len(frames) + 1
  <2>1. n \in Nat
    BY PacketAssumption
  <2>2. /\ DOMAIN frames' = DOMAIN frames \cup {f} /\ f \notin DOMAIN frames
        /\ \A i \in DOMAIN frames : frames'[i] = frames[i]
    BY <1>2, <2>1, WriteStep
  <2>3. PICK start \in OffsetsOf(n) :
          /\ frames'[f] = [offset |-> start, len |-> n, reserved |-> CanReserve(n)]
          /\ ReserveAndCommit(start, n)
    BY <1>2, <2>1, WriteStep
  <2>4. Reserve(n) /\ coordinating' = coordinating
    BY <2>3 DEF ReserveAndCommit
  <2>5. nextOffset' = IF CanReserve(n) THEN nextOffset + n ELSE nextOffset
    BY <1>1, <2>1, <2>4, ReserveStep
  <2> HIDE DEF f
  <2>6. CASE CanReserve(n)
    <3>1. /\ frames'[f] = [offset |-> nextOffset, len |-> n, reserved |-> TRUE]
          /\ coordinating /\ nextOffset' = nextOffset + n
      BY <1>1, <2>1, <2>3, <2>5, <2>6, StartIsNext DEF OffsetsOf, CanReserve
    <3>2. \A i \in DOMAIN frames : frames[i].reserved => frames[i].offset + frames[i].len <= nextOffset
      BY <3>1 DEF FramesBelow
    <3>3. FramesBelow'
      <4> SUFFICES ASSUME NEW i \in DOMAIN frames', frames'[i].reserved
                   PROVE  frames'[i].offset + frames'[i].len <= nextOffset'
        BY DEF FramesBelow
      <4>1. CASE i = f
        BY <1>1, <2>1, <3>1, <4>1
      <4>2. CASE i # f
        <5>1. i \in DOMAIN frames /\ frames'[i] = frames[i] /\ frames[i] \in Frame
          BY <1>1, <2>2, <4>2
        <5> QED
          BY <1>1, <2>1, <3>1, <3>2, <5>1 DEF Frame
      <4> QED
        BY <4>1, <4>2
    <3>4. FramesDisjoint'
      <4> SUFFICES ASSUME NEW i \in DOMAIN frames', NEW j \in DOMAIN frames', i < j,
                          frames'[i].reserved, frames'[j].reserved
                   PROVE  frames'[i].offset + frames'[i].len <= frames'[j].offset
        BY DEF FramesDisjoint
      <4>1. i \in DOMAIN frames /\ frames'[i] = frames[i]
        BY <1>1, <2>2 DEF f
      <4>2. CASE j = f
        BY <3>1, <3>2, <4>1, <4>2
      <4>3. CASE j # f
        BY <2>2, <4>1, <4>3 DEF FramesDisjoint
      <4> QED
        BY <4>2, <4>3
    <3> QED
      BY <3>3, <3>4
  <2>7. CASE ~CanReserve(n)
    <3>1. frames'[f].reserved = FALSE /\ nextOffset' = nextOffset
      BY <2>3, <2>5, <2>7
    <3> QED
      BY <2>2, <2>4, <3>1 DEF FramesBelow, FramesDisjoint
  <2> QED
    BY <2>6, <2>7
<1>3. ASSUME UNCHANGED frames, nextOffset' \in Nat, nextOffset <= nextOffset',
             coordinating' => coordinating
      PROVE  FramesBelow' /\ FramesDisjoint'
  BY <1>1, <1>3 DEF FramesBelow, FramesDisjoint, Frame
<1>4. ASSUME NEW n \in Lengths, WriteFails(n)
      PROVE  FramesBelow' /\ FramesDisjoint'
  <2>1. n \in Nat /\ Reserve(n) /\ UNCHANGED <<coordinating, frames>>
    BY <1>4, PacketAssumption DEF WriteFails, ReserveOnly
  <2>2. nextOffset' \in Nat /\ nextOffset <= nextOffset'
    BY <1>1, <2>1, ReserveStep
  <2> QED
    BY <1>3, <2>1, <2>2
<1>5. CASE StopSession
  BY <1>5 DEF StopSession, StopCoordinator, FramesBelow, FramesDisjoint
<1>6. CASE CleanUpReservations
  BY <1>1, <1>3, <1>6 DEF CleanUpReservations, DropReservations
<1>7. CASE \/ SetRemoteStreamID
           \/ \E n \in Offsets : SetOffset(n)
           \/ TimedFlush \/ Tick
           \/ \E p \in pass : Pass(p) \/ \E old \in BOOLEAN : Retransmit(p, old)
           \/ \E k \in 1 .. Len(acks), parsed \in BOOLEAN : ReadAck(k, parsed)
           \/ DeletePendingSegment
           \/ \E k \in 0 .. Len(stream), part \in BOOLEAN : ReadPacket(k, part)
           \/ Acknowledge \/ LoseConnection
           \/ UNCHANGED vars
  <2>1. UNCHANGED <<coordinating, nextOffset, frames>>
    BY <1>7 DEF SetRemoteStreamID, SetOffset, TimedFlush, Tick, Pass, Retransmit, ReadAck,
                DeletePendingSegment, ReadPacket, Acknowledge, LoseConnection, server, vars,
                coordinator
  <2> QED
    BY <1>1, <1>3, <2>1
<1> QED
  BY <1>2, <1>4, <1>5, <1>6, <1>7 DEF Next

-----------------------------------------------------------------------------
(* Only a Write and the timer change the buffer and the packets.           *)
LEMMA PackedUnmoved ==
  ASSUME [Next]_vars, \A n \in Lengths : ~Write(n), ~TimedFlush
  PROVE  UNCHANGED <<frames, packetFrameRaw, packets>>
  BY DEF Next, SetRemoteStreamID, SetOffset, WriteFails, Tick, Pass, Retransmit, ReadAck,
         DeletePendingSegment, StopSession, CleanUpReservations, ReadPacket, Acknowledge,
         LoseConnection, server, table, vars

(* The packets that are sent are in order. *)
PacketsInOrder ==
  \A p \in DOMAIN packets :
    /\ packets[p] # <<>>
    /\ \A i \in 1 .. Len(packets[p]) - 1 : packets[p][i + 1] = packets[p][i] + 1
    /\ p = 1 => packets[p][1] = 1
    /\ p > 1 => Follows(packets[p], packets[p - 1])

(* A packet that is sent follows the others and ends with the last frame.  *)
LEMMA SentInOrder ==
  ASSUME TypeOK, PackedInOrder, packetFrameRaw # <<>>, SendPacket
  PROVE  /\ PacketsInOrder'
         /\ packets' # <<>> /\ packets'[Len(packets')] = packetFrameRaw
         /\ packetFrameRaw[Len(packetFrameRaw)] = Len(frames)
<1> DEFINE q == Len(packets) + 1
<1>1. /\ packets' \in Seq(Seq(Nat)) /\ Len(packets') = q
      /\ DOMAIN packets' = DOMAIN packets \cup {q} /\ q \notin DOMAIN packets
      /\ packets'[q] = packetFrameRaw
      /\ \A p \in DOMAIN packets : packets'[p] = packets[p]
  BY SendPacketStep
<1>2. Len(packets) \in Nat /\ DOMAIN packets = 1 .. Len(packets) /\ packets \in Seq(Seq(Nat))
  BY LenProperties DEF TypeOK
<1>3. /\ \A i \in 1 .. Len(packetFrameRaw) - 1 : packetFrameRaw[i + 1] = packetFrameRaw[i] + 1
      /\ packetFrameRaw[Len(packetFrameRaw)] = Len(frames)
      /\ IF packets = <<>> THEN packetFrameRaw[1] = 1
                           ELSE Follows(packetFrameRaw, packets[Len(packets)])
      /\ PacketsInOrder
  BY DEF PackedInOrder, PacketsInOrder
<1> HIDE DEF Follows
<1>4. ASSUME NEW p \in DOMAIN packets'
      PROVE  /\ packets'[p] # <<>>
             /\ \A i \in 1 .. Len(packets'[p]) - 1 : packets'[p][i + 1] = packets'[p][i] + 1
             /\ p = 1 => packets'[p][1] = 1
             /\ p > 1 => Follows(packets'[p], packets'[p - 1])
  <2>1. CASE p \in DOMAIN packets
    <3>0. p \in 1 .. Len(packets) /\ (p > 1 => p - 1 \in DOMAIN packets)
      BY <1>2, <2>1
    <3>1. packets'[p] = packets[p] /\ (p > 1 => packets'[p - 1] = packets[p - 1])
      BY <1>1, <2>1, <3>0
    <3> QED
      BY <1>3, <2>1, <3>1 DEF PacketsInOrder
  <2>2. CASE p = q
    <3>1. packets'[p] = packetFrameRaw
      BY <1>1, <2>2
    <3>2. p = 1 => packets = <<>>
      BY <1>2, <2>2
    <3>3. ASSUME p > 1
          PROVE  packets # <<>> /\ packets'[p - 1] = packets[Len(packets)]
      <4>1. p - 1 = Len(packets) /\ Len(packets) \in DOMAIN packets
        BY <1>2, <2>2, <3>3
      <4> QED
        BY <1>1, <1>2, <4>1
    <3> QED
      BY <1>3, <3>1, <3>2, <3>3
  <2> QED
    BY <1>1, <1>4, <2>1, <2>2
<1>5. packets' # <<>>
  BY <1>1, <1>2
<1> QED
  BY <1>1, <1>3, <1>4, <1>5 DEF PacketsInOrder, Follows

(* Whichever of a Write and the timer flushes, the order of the frames is  *)
(* kept.                                                                   *)
LEMMA PackedKept ==
  ASSUME TypeOK, RangesOK, PackedInOrder, FramesKnown, [Next]_vars
  PROVE  PackedInOrder' /\ FramesKnown'
<1> DEFINE f == Len(frames) + 1
<1>1. /\ Len(frames) \in Nat /\ DOMAIN frames = 1 .. Len(frames)
      /\ packetFrameRaw \in Seq(Nat) /\ Len(packetFrameRaw) \in Nat
      /\ DOMAIN packetFrameRaw = 1 .. Len(packetFrameRaw)
  BY LenProperties DEF TypeOK
<1>2. PacketsInOrder
  BY DEF PackedInOrder, PacketsInOrder
<1>3. ASSUME packetFrameRaw # <<>>, SendPacket, DOMAIN frames \subseteq DOMAIN frames'
      PROVE  \A p \in DOMAIN packets' : \A i \in DOMAIN packets'[p] : packets'[p][i] \in DOMAIN frames'
  <2>1. /\ DOMAIN packets' = DOMAIN packets \cup {Len(packets) + 1}
        /\ packets'[Len(packets) + 1] = packetFrameRaw
        /\ \A p \in DOMAIN packets : packets'[p] = packets[p]
    BY <1>3, SendPacketStep
  <2> QED
    BY <1>3, <2>1 DEF FramesKnown
<1>4. ASSUME NEW n \in Lengths, Write(n)
      PROVE  PackedInOrder' /\ FramesKnown'
  <2>1. n \in Nat
    BY PacketAssumption
  <2>2. /\ Len(frames') = f /\ DOMAIN frames' = DOMAIN frames \cup {f}
        /\ \/ SendPacket /\ packetFrameRaw # <<>> /\ packetFrameRaw' = Append(<<>>, f)
           \/ UNCHANGED <<table, stream, crashed>> /\ packetFrameRaw' = Append(packetFrameRaw, f)
    BY <1>4, <2>1, WriteStep
  <2>3. CASE SendPacket /\ packetFrameRaw # <<>> /\ packetFrameRaw' = Append(<<>>, f)
    <3>1. packetFrameRaw' = <<f>>
      BY <2>3
    <3>2. Len(packetFrameRaw') = 1 /\ packetFrameRaw'[1] = f /\ packetFrameRaw' # <<>>
          /\ DOMAIN packetFrameRaw' = {1}
      BY <3>1
    <3>3. /\ PacketsInOrder'
          /\ packets' # <<>> /\ packets'[Len(packets')] = packetFrameRaw
          /\ packetFrameRaw[Len(packetFrameRaw)] = Len(frames)
      BY <2>3, SentInOrder
    <3>4. Follows(packetFrameRaw', packets'[Len(packets')])
      BY <2>3, <3>2, <3>3 DEF Follows
    <3>5. PackedInOrder'
      <4> HIDE DEF Follows
      <4> QED
        BY <2>2, <3>2, <3>3, <3>4 DEF PackedInOrder, PacketsInOrder
    <3>6. FramesKnown'
      BY <1>3, <2>2, <2>3, <3>2 DEF FramesKnown
    <3> QED
      BY <3>5, <3>6
  <2>4. CASE UNCHANGED <<table, stream, crashed>> /\ packetFrameRaw' = Append(packetFrameRaw, f)
    <3>1. packets' = packets
      BY <2>4 DEF table
    <3>2. /\ packetFrameRaw' \in Seq(Nat) /\ packetFrameRaw' # <<>>
          /\ Len(packetFrameRaw') = Len(packetFrameRaw) + 1
          /\ \A i \in 1 .. Len(packetFrameRaw) : packetFrameRaw'[i] = packetFrameRaw[i]
          /\ packetFrameRaw'[Len(packetFrameRaw) + 1] = f
      BY <1>1, <2>4, AppendProperties
    <3>3. DOMAIN packetFrameRaw' = 1 .. Len(packetFrameRaw) + 1
      BY <3>2, LenProperties
    <3>4. \A i \in 1 .. Len(packetFrameRaw') - 1 : packetFrameRaw'[i + 1] = packetFrameRaw'[i] + 1
      <4> SUFFICES ASSUME NEW i \in 1 .. Len(packetFrameRaw)
                   PROVE  packetFrameRaw'[i + 1] = packetFrameRaw'[i] + 1
        BY <1>1, <3>2
      <4>1. CASE i = Len(packetFrameRaw)
        <5>1. packetFrameRaw # <<>>
          BY <1>1, <4>1
        <5>2. packetFrameRaw[i] = Len(frames)
          BY <4>1, <5>1 DEF PackedInOrder
        <5> QED
          BY <1>1, <3>2, <4>1, <5>2
      <4>2. CASE i # Len(packetFrameRaw)
        <5> DEFINE l == Len(packetFrameRaw)
        <5>1. l \in Nat /\ i \in 1 .. l /\ i # l
          BY <1>1, <4>2
        <5> HIDE DEF l
        <5>2. i \in 1 .. l - 1 /\ i + 1 \in 1 .. l
          BY <5>1
        <5> QED
          BY <3>2, <5>1, <5>2 DEF PackedInOrder, l
      <4> QED
        BY <4>1, <4>2
    <3>5. IF packets' = <<>> THEN packetFrameRaw'[1] = 1
                             ELSE Follows(packetFrameRaw', packets'[Len(packets')])
      <4>1. CASE packetFrameRaw = <<>>
        <5>1. packetFrameRaw'[1] = f
          BY <1>1, <3>2, <4>1
        <5>2. CASE packets = <<>>
          <6>1. frames = <<>>
            BY <4>1, <5>2 DEF PackedInOrder
          <6> QED
            BY <3>1, <5>1, <5>2, <6>1
        <5>3. CASE packets # <<>>
          <6>1. LET last == packets[Len(packets)]
                IN  last[Len(last)] = Len(frames) /\ last # <<>>
            <7>1. Len(packets) \in DOMAIN packets
              BY <5>3, LenProperties, EmptySeq DEF TypeOK
            <7> QED
              BY <1>2, <4>1, <5>3, <7>1 DEF PackedInOrder, PacketsInOrder
          <6> QED
            BY <3>1, <5>1, <5>3, <6>1 DEF Follows
        <5> QED
          BY <5>2, <5>3
      <4>2. CASE packetFrameRaw # <<>>
        <5>1. 1 \in 1 .. Len(packetFrameRaw) /\ packetFrameRaw'[1] = packetFrameRaw[1]
          BY <1>1, <3>2, <4>2, EmptySeq
        <5>2. Len(packetFrameRaw) > 0 /\ Len(packetFrameRaw') > 0
          BY <1>1, <3>2, <5>1
        <5> QED
          BY <3>1, <4>2, <5>1, <5>2 DEF PackedInOrder, Follows
      <4> QED
        BY <4>1, <4>2
    <3>6. PackedInOrder'
      <4> HIDE DEF Follows
      <4> QED
        BY <1>2, <2>2, <3>1, <3>2, <3>4, <3>5 DEF PackedInOrder, PacketsInOrder
    <3>7. FramesKnown'
      <4>1. \A i \in DOMAIN packetFrameRaw' : packetFrameRaw'[i] \in DOMAIN frames'
        <5> SUFFICES ASSUME NEW i \in DOMAIN packetFrameRaw' PROVE packetFrameRaw'[i] \in DOMAIN frames'
          OBVIOUS
        <5>1. CASE i = Len(packetFrameRaw) + 1
          BY <2>2, <3>2, <5>1
        <5>2. CASE i # Len(packetFrameRaw) + 1
          <6>1. i \in DOMAIN packetFrameRaw /\ packetFrameRaw'[i] = packetFrameRaw[i]
            BY <1>1, <3>2, <3>3, <5>2
          <6> QED
            BY <2>2, <6>1 DEF FramesKnown
        <5> QED
          BY <5>1, <5>2
      <4> QED
        BY <2>2, <3>1, <4>1 DEF FramesKnown
    <3> QED
      BY <3>6, <3>7
  <2> QED
    BY <2>2, <2>3, <2>4
<1>5. CASE TimedFlush
  <2>1. UNCHANGED frames
    BY <1>5 DEF TimedFlush
  <2>2. CASE CanSend
    <3>1. SendPacket /\ packetFrameRaw' = <<>> /\ packetFrameRaw # <<>>
      BY <1>5, <2>2 DEF TimedFlush, AfterFlush, CanSend
    <3>2. /\ PacketsInOrder'
          /\ packets' # <<>> /\ packets'[Len(packets')] = packetFrameRaw
          /\ packetFrameRaw[Len(packetFrameRaw)] = Len(frames)
      BY <3>1, SentInOrder
    <3>3. Len(packetFrameRaw') = 0 /\ DOMAIN packetFrameRaw' = {}
      BY <3>1
    <3>4. PackedInOrder'
      <4> HIDE DEF Follows
      <4> QED
        BY <2>1, <3>1, <3>2, <3>3 DEF PackedInOrder, PacketsInOrder
    <3>5. FramesKnown'
      BY <1>3, <2>1, <3>1, <3>3 DEF FramesKnown
    <3> QED
      BY <3>4, <3>5
  <2>3. CASE ~CanSend
    BY <1>5, <2>1, <2>3 DEF TimedFlush, table, PackedInOrder, Follows, FramesKnown
  <2> QED
    BY <2>2, <2>3
<1>6. CASE ~TimedFlush /\ \A n \in Lengths : ~Write(n)
  <2>1. UNCHANGED <<frames, packetFrameRaw, packets>>
    BY <1>6, PackedUnmoved
  <2> QED
    BY <2>1 DEF PackedInOrder, Follows, FramesKnown
<1> QED
  BY <1>4, <1>5, <1>6

-----------------------------------------------------------------------------
(* Packets never change once they are sent, and stay known. *)
LEMMA PacketsKept ==
  ASSUME TypeOK, RangesOK, [Next]_vars
  PROVE  /\ DOMAIN packets \subseteq DOMAIN packets'
         /\ \A p \in DOMAIN packets : packets'[p] = packets[p]
<1>1. ASSUME SendPacket
      PROVE  /\ DOMAIN packets \subseteq DOMAIN packets'
             /\ \A p \in DOMAIN packets : packets'[p] = packets[p]
  BY <1>1, SendPacketStep
<1>2. CASE UNCHANGED packets
  BY <1>2
<1>3. CASE \E n \in Lengths : Write(n)
  BY <1>1, <1>2, <1>3 DEF Write, table
<1>4. CASE TimedFlush
  BY <1>1, <1>2, <1>4 DEF TimedFlush, table
<1>5. CASE ~TimedFlush /\ \A n \in Lengths : ~Write(n)
  BY <1>2, <1>5, PackedUnmoved
<1> QED
  BY <1>3, <1>4, <1>5

(* Only junk and the units of packets that were sent are on their way. *)
LEMMA UnitsKept ==
  ASSUME TypeOK, RangesOK, UnitsOK, [Next]_vars
  PROVE  UnitsOK'
<1>1. DOMAIN packets \subseteq DOMAIN packets'
  BY PacketsKept
<1>2. CASE UNCHANGED stream
  BY <1>1, <1>2 DEF UnitsOK
<1>3. ASSUME SendPacket
      PROVE  UnitsOK'
  <2>1. /\ DOMAIN packets' = DOMAIN packets \cup {Len(packets) + 1}
        /\ \A i \in DOMAIN stream' : \/ stream'[i][1] = Len(packets) + 1
                                    \/ \E j \in DOMAIN stream : stream'[i] = stream[j]
    BY <1>3, SendPacketStep
  <2> QED
    BY <2>1 DEF UnitsOK
<1>4. CASE \E n \in Lengths : Write(n)
  BY <1>2, <1>3, <1>4 DEF Write
<1>5. CASE TimedFlush
  BY <1>2, <1>3, <1>5 DEF TimedFlush
<1>6. ASSUME NEW p \in pass, NEW old \in BOOLEAN, Retransmit(p, old)
      PROVE  UnitsOK'
  <2>1. CASE UNCHANGED stream
    BY <1>2, <2>1
  <2>2. CASE stream' = stream \o Units(p, packets[p])
    <3>1. /\ packets \in Seq(Seq(Nat)) /\ DOMAIN packets = 1 .. Len(packets) /\ Len(packets) \in Nat
          /\ p \in DOMAIN packets /\ stream \in Seq(Nat \X Nat)
      BY LenProperties DEF TypeOK
    <3>2. p \in Nat /\ packets[p] \in Seq(Nat)
      BY <3>1, ElementOfSeq
    <3>3. \A i \in DOMAIN stream' : \/ stream'[i][1] = p
                                  \/ \E j \in DOMAIN stream : stream'[i] = stream[j]
      BY <2>2, <3>1, <3>2, UnitsAdded
    <3> QED
      BY <1>1, <3>1, <3>3 DEF UnitsOK
  <2> QED
    BY <1>6, <2>1, <2>2 DEF Retransmit
<1>7. ASSUME NEW k \in 0 .. Len(stream), NEW part \in BOOLEAN, ReadPacket(k, part)
      PROVE  UnitsOK'
  <2>1. \A i \in DOMAIN stream' : stream'[i] = Junk \/ \E j \in DOMAIN stream : stream'[i] = stream[j]
    BY <1>7, ReadStep
  <2> QED
    BY <1>1, <2>1 DEF UnitsOK
<1>8. CASE LoseConnection
  <2>1. DOMAIN stream' = {}
    BY <1>8 DEF LoseConnection
  <2> QED
    BY <2>1 DEF UnitsOK
<1>9. CASE \/ SetRemoteStreamID
           \/ \E n \in Offsets : SetOffset(n)
           \/ \E n \in Lengths : WriteFails(n)
           \/ Tick
           \/ \E p \in pass : Pass(p)
           \/ \E k \in 1 .. Len(acks), parsed \in BOOLEAN : ReadAck(k, parsed)
           \/ DeletePendingSegment \/ StopSession \/ CleanUpReservations
           \/ Acknowledge
           \/ UNCHANGED vars
  <2>1. UNCHANGED stream
    BY <1>9 DEF SetRemoteStreamID, SetOffset, WriteFails, Tick, Pass, ReadAck, DeletePendingSegment,
                StopSession, CleanUpReservations, Acknowledge, vars
  <2> QED
    BY <1>2, <2>1
<1> QED
  BY <1>4, <1>5, <1>6, <1>7, <1>8, <1>9 DEF Next

-----------------------------------------------------------------------------
(* What is delivered or cut stays so. *)
LEMMA SettledStays ==
  ASSUME TypeOK, RangesOK, FramesKnown, [Next]_vars,
         delivered \subseteq delivered', cut \subseteq cut',
         NEW p \in DOMAIN packets, DeliveredOrCut(p)
  PROVE  DeliveredOrCut(p)' /\ p \in DOMAIN packets'
  BY PacketsKept DEF DeliveredOrCut

(* Every acknowledgement, from the client's hand to the server's, is of a  *)
(* packet that is delivered or cut, or of none.                            *)
LEMMA AcksKept ==
  ASSUME TypeOK, RangesOK, FramesKnown, UnitsOK, AckingOK, AcksOK, AckedIsDeliveredOrCut, [Next]_vars
  PROVE  AckingOK' /\ AcksOK' /\ AckedIsDeliveredOrCut'
<1> DEFINE Settled == AckingOK' /\ AcksOK' /\ AckedIsDeliveredOrCut'
<1>1. \A p \in acked \ {Unknown} : p \in DOMAIN packets /\ DeliveredOrCut(p)
  BY DEF AcksOK, AckedIsDeliveredOrCut, DeliveredOrCut
<1>2. ASSUME UNCHANGED <<acked, delivered, cut>>
      PROVE  AckedIsDeliveredOrCut' /\ \A p \in acked' \ {Unknown} : p \in DOMAIN packets'
  <2>1. \A p \in acked \ {Unknown} : DeliveredOrCut(p)' /\ p \in DOMAIN packets'
    BY <1>1, <1>2, SettledStays
  <2> QED
    BY <1>2, <2>1 DEF AckedIsDeliveredOrCut, DeliveredOrCut
<1>3. ASSUME UNCHANGED <<acking, delivered, cut>>
      PROVE  AckingOK'
  <2>1. \A i \in DOMAIN acking : acking[i] # Unknown =>
           DeliveredOrCut(acking[i])' /\ acking[i] \in DOMAIN packets'
    BY <1>3, SettledStays DEF AckingOK
  <2> QED
    BY <1>3, <2>1 DEF AckingOK
<1>4. ASSUME UNCHANGED <<client, acks, lookup>>
      PROVE  Settled
  BY <1>2, <1>3, <1>4 DEF client, AcksOK
<1>5. ASSUME NEW k \in 1 .. Len(acks), NEW parsed \in BOOLEAN, ReadAck(k, parsed)
      PROVE  Settled
  <2>1. UNCHANGED client
    BY <1>5 DEF ReadAck
  <2>2. acks \in Seq(Nat) /\ k \in Nat /\ k \in DOMAIN acks
    BY LenProperties DEF TypeOK
  <2>3. \A i \in DOMAIN acks' : acks'[i] \in acked
    BY <1>5, <2>2, TakenSeq DEF ReadAck, AcksOK
  <2>4. \A i \in DOMAIN lookup' : lookup'[i] \in acked
    BY <1>5, <2>2 DEF ReadAck, AcksOK
  <2> QED
    BY <1>2, <1>3, <2>1, <2>3, <2>4 DEF client, AcksOK
<1>6. CASE DeletePendingSegment
  <2>1. UNCHANGED <<client, acks>> /\ DOMAIN lookup' = {}
    BY <1>6 DEF DeletePendingSegment
  <2> QED
    BY <1>2, <1>3, <2>1 DEF client, AcksOK
<1>7. ASSUME NEW k \in 0 .. Len(stream), NEW part \in BOOLEAN, ReadPacket(k, part)
      PROVE  Settled
  <2>1. UNCHANGED <<acks, acked, lookup, packets>>
    BY <1>7 DEF ReadPacket, table
  <2>2. /\ delivered \subseteq delivered' /\ cut \subseteq cut'
        /\ AckingOK'
    <3>1. CASE UNCHANGED <<acking, delivered, cut>>
      BY <1>3, <3>1
    <3>2. CASE acking' \in {<<>>, <<Unknown>>} /\ UNCHANGED <<delivered, cut>>
      BY <3>2 DEF AckingOK
    <3>3. ASSUME NEW p \in DOMAIN packets, NEW n \in Nat, ProcessDataPacket(p, n)
          PROVE  delivered \subseteq delivered' /\ cut \subseteq cut' /\ AckingOK'
      <4>1. /\ delivered \subseteq delivered' /\ cut \subseteq cut'
            /\ \/ acking' = <<>>
               \/ /\ acking' = <<p>>
                  /\ p \in cut' \/ \A i \in DOMAIN packets[p] : packets[p][i] \in delivered'
        BY <3>3, ProcessStep
      <4>2. CASE acking' = <<>>
        BY <4>1, <4>2 DEF AckingOK
      <4>3. CASE /\ acking' = <<p>>
                 /\ p \in cut' \/ \A i \in DOMAIN packets[p] : packets[p][i] \in delivered'
        <5>1. Len(acking') = 1 /\ DOMAIN acking' = {1} /\ acking'[1] = p
          BY <4>3
        <5>2. DeliveredOrCut(p)' /\ p \in DOMAIN packets'
          BY <2>1, <4>3 DEF DeliveredOrCut
        <5>3. AckingOK'
          BY <5>1, <5>2 DEF AckingOK, DeliveredOrCut
        <5> QED
          BY <4>1, <5>3
      <4> QED
        BY <4>1, <4>2, <4>3
    <3> QED
      BY <1>7, <3>1, <3>2, <3>3, ReadStep
  <2>3. \A p \in acked \ {Unknown} : DeliveredOrCut(p)' /\ p \in DOMAIN packets'
    BY <1>1, <2>2, SettledStays
  <2> QED
    BY <2>1, <2>2, <2>3 DEF AcksOK, AckedIsDeliveredOrCut, DeliveredOrCut
<1>8. CASE Acknowledge
  <2>1. /\ acking' = <<>> /\ acking # <<>> /\ UNCHANGED <<packets, lookup, delivered, cut>>
        /\ \/ acks' = acks \o acking /\ acked' = acked \cup {acking[1]}
           \/ UNCHANGED <<acks, acked>>
    BY <1>8 DEF Acknowledge, table
  <2>2. AckingOK'
    BY <2>1 DEF AckingOK
  <2>3. CASE UNCHANGED <<acks, acked>>
    BY <1>2, <2>1, <2>2, <2>3 DEF AcksOK
  <2>4. CASE acks' = acks \o acking /\ acked' = acked \cup {acking[1]}
    <3>1. /\ acking \in Seq(Nat) /\ acks \in Seq(Nat)
          /\ Len(acks) \in Nat /\ DOMAIN acks = 1 .. Len(acks)
          /\ Len(acking) = 1 /\ DOMAIN acking = {1}
      <4>1. acking \in Seq(Nat) /\ acks \in Seq(Nat) /\ Len(acking) <= 1
        BY DEF TypeOK, AckingOK
      <4>2. Len(acking) \in Nat \ {0}
        BY <2>1, <4>1, EmptySeq
      <4>3. \A l \in Nat \ {0} : l <= 1 => l = 1
        OBVIOUS
      <4>4. Len(acking) = 1
        BY <4>1, <4>2, <4>3, Zenon
      <4> QED
        BY <4>1, <4>4, LenProperties
    <3> DEFINE t == acks \o acking
    <3>2. /\ t \in Seq(Nat) /\ Len(t) = Len(acks) + 1
          /\ \A i \in 1 .. Len(acks) + 1 :
               t[i] = IF i <= Len(acks) THEN acks[i] ELSE acking[i - Len(acks)]
      BY <3>1, AppendAck
    <3>3. DOMAIN t = 1 .. Len(acks) + 1
      BY <3>2, LenProperties
    <3>4. /\ DOMAIN acks' = 1 .. Len(acks) + 1
          /\ \A i \in 1 .. Len(acks) + 1 :
               acks'[i] = IF i <= Len(acks) THEN acks[i] ELSE acking[i - Len(acks)]
      BY <2>4, <3>2, <3>3
    <3>5. \A i \in DOMAIN acks' : acks'[i] \in acked'
      <4> SUFFICES ASSUME NEW i \in 1 .. Len(acks) + 1 PROVE acks'[i] \in acked'
        BY <3>4
      <4>1. CASE i <= Len(acks)
        <5>1. i \in DOMAIN acks /\ acks'[i] = acks[i]
          BY <3>1, <3>4, <4>1
        <5> QED
          BY <2>4, <5>1 DEF AcksOK
      <4>2. CASE ~(i <= Len(acks))
        <5>1. i - Len(acks) = 1 /\ acks'[i] = acking[1]
          BY <3>1, <3>4, <4>2
        <5> QED
          BY <2>4, <5>1
      <4> QED
        BY <4>1, <4>2
    <3>6. acking[1] # Unknown => acking[1] \in DOMAIN packets /\ DeliveredOrCut(acking[1])
      BY <3>1 DEF AckingOK
    <3>7. \A p \in acked' \ {Unknown} : p \in DOMAIN packets /\ DeliveredOrCut(p)
      BY <1>1, <2>4, <3>6
    <3> QED
      BY <2>1, <2>2, <2>4, <3>5, <3>7 DEF AcksOK, AckedIsDeliveredOrCut, DeliveredOrCut
  <2> QED
    BY <2>1, <2>3, <2>4
<1>9. CASE LoseConnection
  <2>1. UNCHANGED <<client, lookup>> /\ DOMAIN acks' = {}
    BY <1>9 DEF LoseConnection
  <2> QED
    BY <1>2, <1>3, <2>1 DEF client, AcksOK
<1>10. CASE \/ SetRemoteStreamID
            \/ \E n \in Offsets : SetOffset(n)
            \/ \E n \in Lengths : Write(n) \/ WriteFails(n)
            \/ TimedFlush \/ Tick
            \/ \E p \in pass : Pass(p) \/ \E old \in BOOLEAN : Retransmit(p, old)
            \/ StopSession \/ CleanUpReservations
            \/ UNCHANGED vars
  <2>1. UNCHANGED <<client, acks, lookup>>
    BY <1>10 DEF SetRemoteStreamID, SetOffset, Write, WriteFails, TimedFlush, Tick, Pass, Retransmit,
                 StopSession, CleanUpReservations, vars
  <2> QED
    BY <1>4, <2>1
<1> QED
  BY <1>5, <1>6, <1>7, <1>8, <1>9, <1>10 DEF Next

-----------------------------------------------------------------------------
(* A packet leaves the table acknowledged or given up. *)
LEMMA PendingKept ==
  ASSUME TypeOK, RangesOK, AcksOK, PendingUntilSettled, [Next]_vars
  PROVE  PendingUntilSettled'
<1>1. \A p \in DOMAIN packets : retries[p] \in 0 .. MaxRetries
  BY ElementOfSeq, LenProperties DEF TypeOK
<1>2. ASSUME SendPacket, UNCHANGED acked
      PROVE  PendingUntilSettled'
  <2>1. /\ DOMAIN packets' = DOMAIN packets \cup {Len(packets) + 1}
        /\ pendingSegments' = pendingSegments \cup {Len(packets) + 1}
        /\ \A p \in DOMAIN packets : retries'[p] = retries[p]
    BY <1>2, SendPacketStep
  <2> QED
    BY <1>2, <2>1 DEF PendingUntilSettled
<1>3. ASSUME UNCHANGED <<table>>, acked \subseteq acked'
      PROVE  PendingUntilSettled'
  BY <1>3 DEF table, PendingUntilSettled
<1>4. CASE \E n \in Lengths : Write(n)
  BY <1>2, <1>3, <1>4 DEF Write, client
<1>5. CASE TimedFlush
  BY <1>2, <1>3, <1>5 DEF TimedFlush, client
<1>6. ASSUME NEW p \in pass, NEW old \in BOOLEAN, Retransmit(p, old)
      PROVE  PendingUntilSettled'
  <2>1. p \in pendingSegments /\ p \in DOMAIN packets /\ UNCHANGED <<packets, acked>>
        /\ DOMAIN retries = DOMAIN packets
    BY <1>6 DEF Retransmit, TypeOK, client
  <2>2. CASE old /\ retries[p] < MaxRetries
    <3>1. retries' = [retries EXCEPT ![p] = @ + 1] /\ UNCHANGED pendingSegments
      BY <1>6, <2>2 DEF Retransmit
    <3> QED
      BY <2>1, <3>1 DEF PendingUntilSettled
  <2>3. CASE ~(old /\ retries[p] < MaxRetries)
    <3>1. Exhausted(p) /\ pendingSegments' = pendingSegments \ {p} /\ UNCHANGED retries
      BY <1>6, <2>3 DEF Retransmit
    <3>2. retries[p] = MaxRetries
      BY <1>1, <2>1, <3>1, PacketAssumption DEF Exhausted
    <3> QED
      BY <2>1, <3>1, <3>2 DEF PendingUntilSettled
  <2> QED
    BY <2>2, <2>3
<1>7. CASE DeletePendingSegment
  <2>1. /\ pendingSegments' = pendingSegments \ {lookup[1]} /\ lookup # <<>>
        /\ UNCHANGED <<packets, retries, acked>>
    BY <1>7 DEF DeletePendingSegment, client
  <2>2. lookup[1] \in acked
    <3>1. 1 \in DOMAIN lookup
      BY <2>1, LenProperties, EmptySeq DEF TypeOK
    <3> QED
      BY <3>1 DEF AcksOK
  <2> QED
    BY <2>1, <2>2 DEF PendingUntilSettled
<1>8. CASE Tick \/ \E p \in pass : Pass(p)
  BY <1>8 DEF Tick, Pass, PendingUntilSettled, client
<1>9. CASE \/ SetRemoteStreamID
           \/ \E n \in Offsets : SetOffset(n)
           \/ \E n \in Lengths : WriteFails(n)
           \/ \E k \in 1 .. Len(acks), parsed \in BOOLEAN : ReadAck(k, parsed)
           \/ StopSession \/ CleanUpReservations
           \/ \E k \in 0 .. Len(stream), part \in BOOLEAN : ReadPacket(k, part)
           \/ Acknowledge \/ LoseConnection
           \/ UNCHANGED vars
  <2>1. UNCHANGED table /\ acked \subseteq acked'
    BY <1>9 DEF SetRemoteStreamID, SetOffset, WriteFails, ReadAck, StopSession, CleanUpReservations,
                ReadPacket, Acknowledge, LoseConnection, vars, client
  <2> QED
    BY <1>3, <2>1
<1> QED
  BY <1>4, <1>5, <1>6, <1>7, <1>8, <1>9 DEF Next

-----------------------------------------------------------------------------
LEMMA Inductive == Spec => []IInv
<1>1. ASSUME IInv, [Next]_vars PROVE IInv'
  <2>1. TypeOK' /\ RangesOK'
    BY <1>1, TypeKept, CoordinatorKept DEF IInv
  <2>2. FramesBelow' /\ FramesDisjoint'
    BY <1>1, FramesKept DEF IInv
  <2>3. PackedInOrder' /\ FramesKnown'
    BY <1>1, PackedKept DEF IInv
  <2>4. UnitsOK'
    BY <1>1, UnitsKept DEF IInv
  <2>5. AckingOK' /\ AcksOK' /\ AckedIsDeliveredOrCut'
    BY <1>1, AcksKept DEF IInv
  <2>6. PendingUntilSettled'
    BY <1>1, PendingKept DEF IInv
  <2> QED
    BY <2>1, <2>2, <2>3, <2>4, <2>5, <2>6 DEF IInv
<1> QED
  BY <1>1, Initially, PTL DEF Spec

(* The server stream, the packets and the client keep their shape. *)
THEOREM TypeCorrect == Spec => []TypeOK
<1>1. IInv => TypeOK
  BY DEF IInv
<1> QED
  BY <1>1, Inductive, PTL

(* Frames placed by the coordinator (ReserveOffsetRange) never overlap and *)
(* lie in the order they were written, through failed writes, clean-ups of *)
(* reservations and SetOffset.                                             *)
THEOREM FramesNeverOverlap == Spec => []FramesDisjoint
<1>1. IInv => FramesDisjoint
  BY DEF IInv
<1> QED
  BY <1>1, Inductive, PTL

(* Every frame a Write accepted is in one packet or in the buffer, in      *)
(* order, whoever flushes (flushPacketLocked).                             *)
THEOREM FramesPackedOnce == Spec => []PackedInOrder
<1>1. IInv => PackedInOrder
  BY DEF IInv
<1> QED
  BY <1>1, Inductive, PTL

(* A packet leaves pendingSegments only acknowledged by the client or      *)
(* after its last retransmission, for any number of retransmissions.       *)
THEOREM PendingSettled == Spec => []PendingUntilSettled
<1>1. IInv => PendingUntilSettled
  BY DEF IInv
<1> QED
  BY <1>1, Inductive, PTL

(* The client never acknowledges a packet with a frame that the aggregator *)
(* refused (processDataPacket).                                            *)
THEOREM NoRefusalAcked == Spec => []AckedIsDeliveredOrCut
<1>1. IInv => AckedIsDeliveredOrCut
  BY DEF IInv
<1> QED
  BY <1>1, Inductive, PTL
=============================================================================
