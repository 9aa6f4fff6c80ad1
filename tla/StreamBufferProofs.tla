------------------------- MODULE StreamBufferProofs -------------------------
(***************************************************************************)
(* Proofs about StreamBuffer for every set of writers and cleaners, every  *)
(* segmentation of the stream, capacity and read size.  IInv strengthens   *)
(* the invariants to an inductive one: what a Read and a Cleanup know of   *)
(* the read position while they stand between two critical sections, and   *)
(* that a chunk stored at key k holds the bytes from k on.  GInv adds what  *)
(* the gap map needs: the write position is never ahead of the chunks.     *)
(***************************************************************************)
EXTENDS StreamBuffer, FiniteSetTheorems, WellFoundedInduction, TLAPS

(* A chunk stored at key k starts with byte k. *)
KeyIsBase == \A k \in DOMAIN streamDdata : streamDdata[k].base = k

(* A chunk ends where a packet ends: splitting only cuts heads. *)
Segmented ==
  \A k \in DOMAIN streamDdata :
    \E p \in Packets : p.off <= k /\ End(streamDdata, k) = p.off + p.len

(* What the reader knows: nobody else moves the read position. *)
ReaderOK ==
  /\ reader.pc \in {"fetch", "advance"} => reader.pos = readPosition
  /\ reader.pc = "advance" => /\ reader.got.base = reader.pos
                              /\ reader.got.len > 0
  /\ reader.pc = "fetch" => reader.len > 0
  /\ reader.pc = "mark" => reader.pos + reader.got.len = readPosition

(* The bytes a Read is about to hand out are bytes of the stream. *)
InHand ==
  reader.pc = "advance" =>
    \A b \in reader.pos .. (reader.pos + reader.got.len - 1) : b \in Bytes

(* The snapshot of a Cleanup is never ahead of the reader. *)
CleanerOK ==
  \A c \in Cleaners : cleaner[c].pos <= readPosition

(* The channel and its flag differ only between a receive and the reset. *)
SignalOK ==
  /\ hasReadySignal <=> (readyCh \/ reader.pc = "reset")
  /\ reader.pc = "reset" => ~readyCh

IInv ==
  /\ TypeOK
  /\ IsFiniteSet(DOMAIN streamDdata)
  /\ KeyIsBase
  /\ Segmented
  /\ ReaderOK
  /\ InHand
  /\ CleanerOK
  /\ SignalOK
  /\ UsedWithinTotal
  /\ ConsumedIsRead
  /\ NoLostWakeup

-----------------------------------------------------------------------------
(* Counting the bytes of a finite chunk map gives a natural number. *)
LEMMA CountIsNat ==
  ASSUME NEW D, IsFiniteSet(D), NEW S \in SUBSET (D \X (0 .. MaxLen))
  PROVE  Cardinality(S) \in Nat
<1>1. IsFiniteSet(0 .. MaxLen)
  BY FS_Interval, PacketsAssumption
<1>2. IsFiniteSet(D \X (0 .. MaxLen))
  BY <1>1, FS_Product
<1>3. IsFiniteSet(S)
  BY <1>2, FS_Subset
<1> QED BY <1>3, FS_CardinalityType

LEMMA SpaceIsNat ==
  ASSUME NEW ch, IsFiniteSet(DOMAIN ch)
  PROVE  /\ ConsumedSpace(ch) \in Nat
         /\ \A pos : BytesBelow(ch, pos) \in Nat
<1>1. ConsumedSpace(ch) \in Nat
  BY CountIsNat DEF ConsumedSpace
<1>2. ASSUME NEW pos PROVE BytesBelow(ch, pos) \in Nat
  BY CountIsNat DEF BytesBelow
<1> QED BY <1>1, <1>2

(* A charge that fits keeps usedSize within the capacity. *)
LEMMA ChargeFits ==
  ASSUME NEW used \in Nat, NEW cons \in Nat, NEW len \in Nat, NEW total \in Nat,
         used <= total, Sub(used, cons) + len <= total
  PROVE  /\ used + Sub(len, cons) \in Nat
         /\ used + Sub(len, cons) <= total
BY DEF Sub

LEMMA SubIsNat ==
  ASSUME NEW a \in Nat, NEW b \in Nat
  PROVE  Sub(a, b) \in Nat /\ Sub(a, b) <= a
BY DEF Sub

(* Holding is empty exactly when no chunk covers the position. *)
LEMMA HoldingCovers ==
  ASSUME NEW ch, \A k \in DOMAIN ch : k \in Nat /\ ch[k].len \in Nat \ {0}, NEW pos \in Nat
  PROVE  (Holding(ch, pos) # {}) <=> \E k \in DOMAIN ch : k <= pos /\ pos < End(ch, k)
BY DEF Holding, End

LEMMA BytesOfPackets ==
  /\ Bytes \subseteq Nat
  /\ \A p \in Packets : \A b \in p.off .. (p.off + p.len - 1) : b \in Bytes
<1>1. \A p \in Packets : p.off \in Nat /\ p.len \in Nat
  BY PacketsAssumption
<1>2. ASSUME NEW p \in Packets PROVE p.off .. (p.off + p.len - 1) \subseteq Nat
  BY <1>1
<1>3. Bytes \subseteq Nat
  BY <1>2, Zenon DEF Bytes
<1>4. ASSUME NEW p \in Packets, NEW b \in p.off .. (p.off + p.len - 1)
      PROVE  b \in Bytes
  BY Zenon DEF Bytes
<1> QED BY <1>3, <1>4

(* A position covered by a chunk is a byte the peer sends. *)
LEMMA CoveredBytes ==
  ASSUME IInv, NEW k \in DOMAIN streamDdata, NEW b \in Nat, k <= b, b < End(streamDdata, k)
  PROVE  b \in Bytes
<1>1. PICK p \in Packets : p.off <= k /\ End(streamDdata, k) = p.off + p.len
  BY DEF IInv, Segmented
<1>2. p.off \in Nat /\ p.len \in Nat /\ k \in Nat
  BY PacketsAssumption DEF IInv, TypeOK
<1>3. b \in p.off .. (p.off + p.len - 1)
  BY <1>1, <1>2
<1> QED BY <1>3, BytesOfPackets

-----------------------------------------------------------------------------
LEMMA InitIInv == Init => IInv
<1> SUFFICES ASSUME Init PROVE IInv
  OBVIOUS
<1>1. DOMAIN streamDdata = {}
  BY DEF Init, NoChunks
<1>2. TypeOK
  BY <1>1 DEF Init, TypeOK, NoChunks, IdleWriter, IdleReader, IdleCleaner, NoBytes,
     WriterPC, CloserPC, ReaderPC, CleanerPC
<1>3. IsFiniteSet(DOMAIN streamDdata)
  BY <1>1, FS_EmptySet
<1>4. UsedWithinTotal
  BY SizesAssumption DEF Init, UsedWithinTotal
<1> QED
  BY <1>1, <1>2, <1>3, <1>4
  DEF Init, IInv, KeyIsBase, Segmented, ReaderOK, InHand, CleanerOK, SignalOK, ConsumedIsRead,
      NoLostWakeup, IdleReader, IdleCleaner

-----------------------------------------------------------------------------
(* One lemma per process: each of its steps preserves IInv. *)

LEMMA WriterIInv ==
  ASSUME IInv, NEW w \in Writers, WriteBegin(w) \/ WriteStep(w)
  PROVE  IInv'
<1> USE DEF IInv
<1>a. /\ writer[w] \in [pc : WriterPC, pkt : Packets \cup {IdleWriter.pkt}, pos : Nat]
      /\ writer[w].pc # "idle" => writer[w].pkt \in Packets
      /\ writer[w].pc # "idle" => writer[w].pkt \in [off : Nat, len : 1 .. MaxLen]
  BY PacketsAssumption DEF TypeOK
<1>1. CASE WriteBegin(w)
  BY <1>1, <1>a DEF WriteBegin, WriterAt, IdleWriter, WriterPC, TypeOK, data, signal, KeyIsBase, Segmented,
     ReaderOK, InHand, CleanerOK, SignalOK, UsedWithinTotal, ConsumedIsRead, NoLostWakeup, WillWake, End, Holding
<1>2. CASE WriteCharge(w)
  <2>1. /\ usedSize' \in Nat
        /\ usedSize' <= TotalSize
    BY <1>2, <1>a, SpaceIsNat, ChargeFits, SizesAssumption, PacketsAssumption
    DEF WriteCharge, WriterAt, Fits, TypeOK, UsedWithinTotal
  <2> QED
    BY <1>2, <1>a, <2>1 DEF WriteCharge, WriterAt, IdleWriter, WriterPC, TypeOK, signal, KeyIsBase, Segmented,
       ReaderOK, InHand, CleanerOK, SignalOK, UsedWithinTotal, ConsumedIsRead, NoLostWakeup, WillWake, End, Holding
<1>3. CASE WriteFull(w)
  BY <1>3, <1>a DEF WriteFull, WriterAt, IdleWriter, WriterPC, TypeOK, data, signal, KeyIsBase, Segmented,
     ReaderOK, InHand, CleanerOK, SignalOK, UsedWithinTotal, ConsumedIsRead, NoLostWakeup, WillWake, End, Holding
<1>4. CASE WriteRejected(w)
  BY <1>4, <1>a DEF WriteRejected, WriterAt, IdleWriter, WriterPC, TypeOK, data, signal, KeyIsBase, Segmented,
     ReaderOK, InHand, CleanerOK, SignalOK, UsedWithinTotal, ConsumedIsRead, NoLostWakeup, WillWake, End, Holding
<1>5. CASE WriteDuplicate(w)
  BY <1>5, <1>a DEF WriteDuplicate, WriterAt, IdleWriter, WriterPC, TypeOK, data, signal, KeyIsBase, Segmented,
     ReaderOK, InHand, CleanerOK, SignalOK, UsedWithinTotal, ConsumedIsRead, NoLostWakeup, WillWake, End, Holding
<1>6. CASE WriteStore(w)
  <2> DEFINE p == writer[w].pkt
  <2>1. /\ p \in [off : Nat, len : 1 .. MaxLen]
        /\ p.off \notin DOMAIN streamDdata
        /\ DOMAIN streamDdata' = DOMAIN streamDdata \cup {p.off}
        /\ \A k \in DOMAIN streamDdata : streamDdata'[k] = streamDdata[k]
        /\ streamDdata'[p.off] = [base |-> p.off, len |-> p.len, consumed |-> FALSE]
    BY <1>6, <1>a DEF WriteStore, WriterAt, Stored
  <2>2. /\ IsFiniteSet(DOMAIN streamDdata')
        /\ streamDdata' = [k \in DOMAIN streamDdata' |-> streamDdata'[k]]
    BY <1>6, <2>1, FS_AddElement DEF WriteStore, Stored
  <2>a. /\ DOMAIN streamDdata' \subseteq Nat
        /\ streamDdata' \in [DOMAIN streamDdata' -> Chunk]
    <3>a. \A k \in DOMAIN streamDdata : streamDdata[k] \in Chunk
      BY DEF TypeOK
    <3>b. [base |-> p.off, len |-> p.len, consumed |-> FALSE] \in Chunk
      BY <2>1 DEF Chunk
    <3>1. \A k \in DOMAIN streamDdata' : streamDdata'[k] \in Chunk
      BY <2>1, <3>a, <3>b
    <3>2. DOMAIN streamDdata' \subseteq Nat
      BY <2>1 DEF TypeOK
    <3>3. streamDdata' \in [DOMAIN streamDdata' -> Chunk]
      BY <2>2, <3>1
    <3> QED BY <3>2, <3>3
  <2>b. /\ writer' \in [Writers -> [pc : WriterPC, pkt : Packets \cup {IdleWriter.pkt}, pos : Nat]]
        /\ \A v \in Writers : writer'[v].pc # "idle" => writer'[v].pkt \in Packets
    BY <1>6, <1>a DEF WriteStore, WriterAt, WriterPC, TypeOK
  <2>3. TypeOK'
    BY <1>6, <2>a, <2>b DEF WriteStore, TypeOK, signal
  <2>4. writer'[w].pc = "extend"
    BY <1>6, <1>a DEF WriteStore, WriterAt, TypeOK
  <2>5. Segmented'
    <3>1. p \in Packets
      BY <1>6, <1>a DEF WriteStore, WriterAt
    <3>2. p.off <= p.off /\ p.off + streamDdata'[p.off].len = p.off + p.len
      BY <2>1
    <3> HIDE DEF p
    <3> QED BY <2>1, <3>1, <3>2 DEF Segmented, End
  <2> QED
    BY <1>6, <2>1, <2>2, <2>3, <2>4, <2>5 DEF WriteStore, signal, KeyIsBase, ReaderOK, InHand, CleanerOK,
       SignalOK, UsedWithinTotal, ConsumedIsRead, NoLostWakeup, WillWake, End
<1>7. CASE WriteExtend(w)
  BY <1>7, <1>a DEF WriteExtend, WriterAt, IdleWriter, WriterPC, TypeOK, signal, KeyIsBase, Segmented,
     ReaderOK, InHand, CleanerOK, SignalOK, UsedWithinTotal, ConsumedIsRead, NoLostWakeup, WillWake, End, Holding
<1>8. CASE WriteLockGaps(w)
  BY <1>8, <1>a DEF WriteLockGaps, WriterAt, IdleWriter, WriterPC, TypeOK, data, signal, KeyIsBase, Segmented,
     ReaderOK, InHand, CleanerOK, SignalOK, UsedWithinTotal, ConsumedIsRead, NoLostWakeup, WillWake, End, Holding
<1>9. CASE WriteGaps(w)
  <2>1. RebuiltGaps(streamDdata) \subseteq [start : Nat, end : Nat]
    BY DEF RebuiltGaps, TypeOK, Chunk, End
  <2> QED
    BY <1>9, <1>a, <2>1 DEF WriteGaps, WriterAt, IdleWriter, WriterPC, TypeOK, signal, KeyIsBase, Segmented,
       ReaderOK, InHand, CleanerOK, SignalOK, UsedWithinTotal, ConsumedIsRead, NoLostWakeup, WillWake, End, Holding
<1>10. CASE WriteLook(w)
  <2>1. /\ writer' = [writer EXCEPT ![w] = [@ EXCEPT !.pc = "look", !.pos = readPosition]]
        /\ UNCHANGED <<data, signal, backpressure, reader, lastRead, cleaner>>
    BY <1>10 DEF WriteLook
  <2>2. TypeOK'
    <3>1. /\ DOMAIN writer = Writers /\ readPosition \in Nat
          /\ writer'[w] = [pc |-> "look", pkt |-> writer[w].pkt, pos |-> readPosition]
          /\ \A v \in Writers \ {w} : writer'[v] = writer[v]
      BY <2>1, <1>a DEF TypeOK
    <3>2. /\ writer' \in [Writers -> [pc : WriterPC, pkt : Packets \cup {IdleWriter.pkt}, pos : Nat]]
          /\ \A v \in Writers : writer'[v].pc # "idle" => writer'[v].pkt \in Packets
      BY <1>10, <2>1, <3>1, <1>a DEF WriteLook, WriterPC, TypeOK
    <3> QED BY <2>1, <3>2 DEF TypeOK, data, signal
  <2> QED
    BY <1>10, <1>a, <2>1, <2>2 DEF WriteLook, TypeOK, data, signal, KeyIsBase, Segmented, ReaderOK, InHand,
       CleanerOK, SignalOK, UsedWithinTotal, ConsumedIsRead, NoLostWakeup, WillWake, End, Holding
<1>11. CASE WriteProbe(w)
  <2>1. UNCHANGED <<data, signal, backpressure, reader, lastRead, cleaner>>
    BY <1>11 DEF WriteProbe
  <2>2. TypeOK'
    BY <1>11, <1>a, <2>1 DEF WriteProbe, WriterAt, IdleWriter, WriterPC, TypeOK, data, signal
  <2>3. /\ IsFiniteSet(DOMAIN streamDdata)' /\ KeyIsBase' /\ Segmented' /\ ReaderOK' /\ InHand'
        /\ CleanerOK' /\ UsedWithinTotal' /\ ConsumedIsRead'
    BY <2>1 DEF data, KeyIsBase, Segmented, ReaderOK, InHand, CleanerOK, UsedWithinTotal,
       ConsumedIsRead, End
  <2>4. SignalOK' /\ NoLostWakeup'
    BY <1>11, <1>a, <2>1 DEF WriteProbe, WriterAt, IdleWriter, data, signal, SignalOK, NoLostWakeup, WillWake,
       Holding, End
  <2> QED
    BY <2>2, <2>3, <2>4
<1>12. CASE WriteSignal(w)
  <2>1. UNCHANGED <<data, backpressure, reader, lastRead, cleaner>>
    BY <1>12 DEF WriteSignal
  <2>2. TypeOK'
    BY <1>12, <1>a, <2>1 DEF WriteSignal, WriterAt, IdleWriter, WriterPC, TypeOK, data, signal
  <2>3. /\ IsFiniteSet(DOMAIN streamDdata)' /\ KeyIsBase' /\ Segmented' /\ ReaderOK' /\ InHand'
        /\ CleanerOK' /\ UsedWithinTotal' /\ ConsumedIsRead'
    BY <2>1 DEF data, KeyIsBase, Segmented, ReaderOK, InHand, CleanerOK, UsedWithinTotal,
       ConsumedIsRead, End
  <2>4. SignalOK' /\ NoLostWakeup'
    BY <1>12, <1>a, <2>1 DEF WriteSignal, WriterAt, IdleWriter, data, signal, SignalOK, NoLostWakeup, WillWake,
       Holding, End
  <2> QED
    BY <2>2, <2>3, <2>4
<1> QED
  BY <1>1, <1>2, <1>3, <1>4, <1>5, <1>6, <1>7, <1>8, <1>9, <1>10, <1>11, <1>12 DEF WriteStep

LEMMA ReaderIInv ==
  ASSUME IInv, ReadStep \/ WaitTimeout
  PROVE  IInv'
<1> USE DEF IInv
<1>1. CASE WaitReady
  BY <1>1 DEF WaitReady, ReaderAt, IdleReader, NoBytes, ReaderPC, TypeOK, data, signal, KeyIsBase, Segmented,
     ReaderOK, InHand, CleanerOK, SignalOK, UsedWithinTotal, ConsumedIsRead, NoLostWakeup, WillWake, End, Holding
<1>2. CASE WaitReceive
  BY <1>2 DEF WaitReceive, ReaderAt, IdleReader, NoBytes, ReaderPC, TypeOK, data, signal, KeyIsBase, Segmented,
     ReaderOK, InHand, CleanerOK, SignalOK, UsedWithinTotal, ConsumedIsRead, NoLostWakeup, WillWake, End, Holding
<1>3. CASE WaitReset
  BY <1>3 DEF WaitReset, ReaderAt, IdleReader, NoBytes, ReaderPC, TypeOK, data, signal, KeyIsBase, Segmented,
     ReaderOK, InHand, CleanerOK, SignalOK, UsedWithinTotal, ConsumedIsRead, NoLostWakeup, WillWake, End, Holding
<1>4. CASE WaitTimeout
  BY <1>4 DEF WaitTimeout, ReaderAt, IdleReader, NoBytes, ReaderPC, TypeOK, data, signal, KeyIsBase, Segmented,
     ReaderOK, InHand, CleanerOK, SignalOK, UsedWithinTotal, ConsumedIsRead, NoLostWakeup, WillWake, End, Holding
<1>5. CASE ReadClosed
  BY <1>5 DEF ReadClosed, ReaderAt, IdleReader, NoBytes, ReaderPC, TypeOK, data, signal, KeyIsBase, Segmented,
     ReaderOK, InHand, CleanerOK, SignalOK, UsedWithinTotal, ConsumedIsRead, NoLostWakeup, WillWake, End, Holding
<1>6. CASE ReadBegin
  <2>1. PICK n \in Nat \ {0} :
          reader' = [reader EXCEPT !.pc = "fetch", !.pos = readPosition, !.len = n]
    BY <1>6, SizesAssumption DEF ReadBegin
  <2>2. /\ reader' \in [pc : ReaderPC, pos : Nat, len : Nat, got : [base : Nat, len : Nat]]
        /\ reader'.pc = "fetch" /\ reader'.pos = readPosition /\ reader'.len > 0
    <3>1. reader \in [pc : ReaderPC, pos : Nat, len : Nat, got : [base : Nat, len : Nat]]
      BY DEF TypeOK
    <3>2. readPosition \in Nat
      BY DEF TypeOK
    <3>3. reader' = [pc |-> "fetch", pos |-> readPosition, len |-> n, got |-> reader.got]
      BY <2>1, <3>1
    <3> QED BY <3>1, <3>2, <3>3 DEF ReaderPC
  <2> QED
    <3>1. TypeOK'
      BY <1>6, <2>2 DEF ReadBegin, TypeOK, data, signal
    <3> QED
      BY <1>6, <2>2, <3>1 DEF ReadBegin, data, signal, KeyIsBase, Segmented, ReaderOK, InHand, CleanerOK, SignalOK,
         UsedWithinTotal, ConsumedIsRead, NoLostWakeup, WillWake, End, Holding
<1>7. CASE ReadNothing
  BY <1>7 DEF ReadNothing, ReaderAt, IdleReader, NoBytes, ReaderPC, TypeOK, data, signal, KeyIsBase, Segmented,
     ReaderOK, InHand, CleanerOK, SignalOK, UsedWithinTotal, ConsumedIsRead, NoLostWakeup, WillWake, End, Holding
<1>8. CASE ReadFetch
  <2>1. PICK k \in Holding(streamDdata, reader.pos) :
          reader' = [reader EXCEPT !.pc = "advance",
                       !.got = [base |-> streamDdata[k].base + (reader.pos - k),
                                len  |-> IF reader.len < End(streamDdata, k) - reader.pos
                                         THEN reader.len ELSE End(streamDdata, k) - reader.pos]]
    BY <1>8 DEF ReadFetch
  <2>2. /\ k \in DOMAIN streamDdata /\ k <= reader.pos /\ reader.pos < End(streamDdata, k)
        /\ streamDdata[k] \in Chunk /\ streamDdata[k].base = k
    BY <2>1, PacketsAssumption DEF Holding, TypeOK, KeyIsBase, Chunk, End
  <2>3. reader.len > 0
    BY <1>8 DEF ReadFetch, ReaderOK
  <2> DEFINE left == End(streamDdata, k) - reader.pos
             got == [base |-> streamDdata[k].base + (reader.pos - k),
                     len  |-> IF reader.len < left THEN reader.len ELSE left]
  <2>a. reader.pos \in Nat /\ reader.len \in Nat /\ k \in Nat
    BY <2>2 DEF TypeOK
  <2>b. left \in Nat /\ left > 0
    BY <2>2, <2>a DEF Chunk, End
  <2>c. /\ got.base = reader.pos /\ got.len \in Nat /\ got.len > 0
        /\ got \in [base : Nat, len : Nat]
    BY <2>2, <2>3, <2>a, <2>b
  <2>d. reader' = [reader EXCEPT !.pc = "advance", !.got = got]
    BY <2>1
  <2> HIDE DEF got
  <2>4. /\ reader'.got.base = reader.pos
        /\ reader'.got.len > 0
        /\ reader'.pc = "advance" /\ reader'.pos = reader.pos
        /\ reader' \in [pc : ReaderPC, pos : Nat, len : Nat, got : [base : Nat, len : Nat]]
    BY <2>c, <2>d DEF TypeOK, ReaderPC
  <2>5. InHand'
    <3> SUFFICES ASSUME NEW b \in reader'.pos .. (reader'.pos + reader'.got.len - 1)
                 PROVE  b \in Bytes
      BY DEF InHand
    <3>1. reader'.pos = reader.pos /\ reader'.got.len \in Nat /\ reader'.got.len <= left
      BY <2>c, <2>d, <2>4, <2>a, <2>b DEF got
    <3>2. b \in Nat /\ k <= b /\ b < reader.pos + left
      BY <3>1, <2>a, <2>b, <2>2
    <3>3. b < End(streamDdata, k)
      BY <3>2, <2>a, <2>2 DEF Chunk, End
    <3> QED BY <3>2, <3>3, <2>2, CoveredBytes
  <2> QED
    BY <1>8, <2>4, <2>5 DEF ReadFetch, TypeOK, data, signal, KeyIsBase, Segmented, ReaderOK, CleanerOK, SignalOK,
       UsedWithinTotal, ConsumedIsRead, NoLostWakeup, WillWake, End, Holding
<1>9. CASE ReadAdvance
  <2>1. /\ reader'.pc = "mark" /\ reader'.pos = reader.pos /\ reader'.got = reader.got
        /\ reader' \in [pc : ReaderPC, pos : Nat, len : Nat, got : [base : Nat, len : Nat]]
    BY <1>9 DEF ReadAdvance, ReaderAt, ReaderPC, TypeOK
  <2>2. /\ readPosition' \in Nat
        /\ readPosition' = readPosition + reader.got.len
        /\ readPosition' >= readPosition
        /\ reader'.pos + reader'.got.len = readPosition'
    BY <1>9, <2>1 DEF ReadAdvance, ReaderAt, ReaderOK, TypeOK
  <2>3. TypeOK'
    BY <1>9, <2>1, <2>2 DEF ReadAdvance, TypeOK, signal
  <2>4. CleanerOK'
    BY <1>9, <2>2 DEF ReadAdvance, CleanerOK, TypeOK
  <2>5. ConsumedIsRead'
    <3> SUFFICES ASSUME NEW k \in DOMAIN streamDdata, streamDdata[k].consumed
                 PROVE  End(streamDdata, k) <= readPosition'
      BY <1>9 DEF ReadAdvance, ConsumedIsRead, End
    <3>1. End(streamDdata, k) <= readPosition /\ End(streamDdata, k) \in Nat
      BY DEF ConsumedIsRead, TypeOK, Chunk, End
    <3>2. readPosition \in Nat
      BY DEF TypeOK
    <3> QED BY <2>2, <3>1, <3>2
  <2> QED
    BY <1>9, <2>1, <2>2, <2>3, <2>4, <2>5
    DEF ReadAdvance, ReaderAt, signal, KeyIsBase, Segmented, ReaderOK, InHand, SignalOK,
        UsedWithinTotal, NoLostWakeup, WillWake, End
<1>10. CASE ReadMark
  <2> DEFINE pos == reader.pos + reader.got.len
  <2>1. /\ pos = readPosition
        /\ DOMAIN streamDdata' = DOMAIN streamDdata
        /\ streamDdata' = [k \in DOMAIN streamDdata |-> streamDdata'[k]]
        /\ \A k \in DOMAIN streamDdata :
             streamDdata'[k] = [streamDdata[k] EXCEPT !.consumed = @ \/ End(streamDdata, k) <= pos]
    BY <1>10 DEF ReadMark, ReaderAt, Marked, ReaderOK
  <2>2. \A k \in DOMAIN streamDdata :
          /\ streamDdata'[k] \in Chunk
          /\ streamDdata'[k].base = streamDdata[k].base
          /\ streamDdata'[k].len = streamDdata[k].len
          /\ streamDdata'[k].consumed => streamDdata[k].consumed \/ End(streamDdata, k) <= pos
    <3> SUFFICES ASSUME NEW k \in DOMAIN streamDdata
                 PROVE  /\ streamDdata'[k] \in Chunk
                        /\ streamDdata'[k].base = streamDdata[k].base
                        /\ streamDdata'[k].len = streamDdata[k].len
                        /\ streamDdata'[k].consumed =>
                             streamDdata[k].consumed \/ End(streamDdata, k) <= pos
      OBVIOUS
    <3>1. streamDdata[k] \in Chunk
      BY DEF TypeOK
    <3>2. streamDdata'[k] = [streamDdata[k] EXCEPT
                               !.consumed = streamDdata[k].consumed \/ End(streamDdata, k) <= pos]
      BY <2>1
    <3> QED BY <3>1, <3>2 DEF Chunk
  <2>3. /\ reader'.pc \in {"idle", "release"}
        /\ reader' \in [pc : ReaderPC, pos : Nat, len : Nat, got : [base : Nat, len : Nat]]
    BY <1>10 DEF ReadMark, ReaderAt, IdleReader, NoBytes, ReaderPC, TypeOK
  <2>4. streamDdata' \in [DOMAIN streamDdata' -> Chunk]
    BY <2>1, <2>2
  <2>5. TypeOK'
    BY <1>10, <2>1, <2>3, <2>4 DEF ReadMark, TypeOK, signal
  <2> QED
    BY <1>10, <2>1, <2>2, <2>3, <2>5 DEF ReadMark, ReaderAt, signal, KeyIsBase, Segmented, ReaderOK, InHand, CleanerOK,
       SignalOK, UsedWithinTotal, ConsumedIsRead, NoLostWakeup, WillWake, End
<1>11. CASE ReadRelease
  BY <1>11 DEF ReadRelease, ReaderAt, IdleReader, NoBytes, ReaderPC, TypeOK, data, signal, KeyIsBase, Segmented,
     ReaderOK, InHand, CleanerOK, SignalOK, UsedWithinTotal, ConsumedIsRead, NoLostWakeup, WillWake, End, Holding
<1> QED
  BY <1>1, <1>2, <1>3, <1>4, <1>5, <1>6, <1>7, <1>8, <1>9, <1>10, <1>11 DEF ReadStep

(* Dropping chunks, or the head of a chunk, below the read position.       *)
LEMMA ShrinkIInv ==
  ASSUME IInv,
         IsFiniteSet(DOMAIN streamDdata'),
         streamDdata' = [k \in DOMAIN streamDdata' |-> streamDdata'[k]],
         DOMAIN streamDdata' \subseteq Nat,
         \A k \in DOMAIN streamDdata' :
           /\ streamDdata'[k] \in Chunk
           /\ streamDdata'[k].base = k
           /\ \E q \in DOMAIN streamDdata :
                /\ q <= k
                /\ k + streamDdata'[k].len = End(streamDdata, q)
                /\ streamDdata'[k].consumed => streamDdata[q].consumed,
         UNCHANGED <<readPosition, writePosition, usedSize, gaps, closer,
                     signal, backpressure, writer, reader, lastRead>>,
         cleaner' \in [Cleaners -> [pc : CleanerPC, pos : Nat, freed : Nat, needed : BOOLEAN]],
         \A c \in Cleaners : cleaner'[c].pos <= readPosition
  PROVE  IInv'
<1> USE DEF IInv
<1>1. TypeOK'
  BY DEF TypeOK, signal
<1>2. KeyIsBase' /\ Segmented' /\ ReaderOK' /\ InHand' /\ CleanerOK' /\ SignalOK' /\ UsedWithinTotal'
  <2>1. Segmented'
    <3> SUFFICES ASSUME NEW k \in DOMAIN streamDdata'
                 PROVE  \E p \in Packets : p.off <= k /\ k + streamDdata'[k].len = p.off + p.len
      BY DEF Segmented, End
    <3>1. PICK q \in DOMAIN streamDdata :
            q <= k /\ k + streamDdata'[k].len = End(streamDdata, q)
      OBVIOUS
    <3>2. PICK p \in Packets : p.off <= q /\ End(streamDdata, q) = p.off + p.len
      BY DEF Segmented
    <3>3. p.off \in Nat /\ q \in Nat /\ k \in Nat
      BY PacketsAssumption DEF TypeOK
    <3> QED BY <3>1, <3>2, <3>3
  <2> QED BY <2>1 DEF KeyIsBase, ReaderOK, InHand, CleanerOK, SignalOK, UsedWithinTotal, signal
<1>3. ConsumedIsRead'
  BY DEF ConsumedIsRead, End
<1>4. (Holding(streamDdata, readPosition) # {})' => Holding(streamDdata, readPosition) # {}
  <2>1. readPosition \in Nat /\ readPosition' = readPosition
    BY DEF TypeOK
  <2>2. \A k \in DOMAIN streamDdata : k \in Nat /\ streamDdata[k].len \in Nat \ {0}
    BY PacketsAssumption DEF TypeOK, Chunk
  <2>3. \A k \in DOMAIN streamDdata' : k \in Nat /\ streamDdata'[k].len \in Nat \ {0}
    BY PacketsAssumption DEF Chunk
  <2>4. (Holding(streamDdata, readPosition) # {})' <=>
          \E k \in DOMAIN streamDdata' : k <= readPosition /\ readPosition < k + streamDdata'[k].len
    BY <2>1, <2>3, HoldingCovers DEF End
  <2>5. Holding(streamDdata, readPosition) # {} <=>
          \E k \in DOMAIN streamDdata : k <= readPosition /\ readPosition < End(streamDdata, k)
    BY <2>1, <2>2, HoldingCovers
  <2> QED BY <2>1, <2>2, <2>3, <2>4, <2>5 DEF End
<1>5. NoLostWakeup'
  BY <1>4 DEF NoLostWakeup, WillWake, signal
<1> QED BY <1>1, <1>2, <1>3, <1>5

LEMMA CleanerIInv ==
  ASSUME IInv, NEW c \in Cleaners, CleanStep(c)
  PROVE  IInv'
<1> USE DEF IInv
<1>a. /\ cleaner[c] \in [pc : CleanerPC, pos : Nat, freed : Nat, needed : BOOLEAN]
      /\ cleaner[c].pos <= readPosition
      /\ readPosition \in Nat
      /\ DOMAIN streamDdata \subseteq Nat
      /\ \A k \in DOMAIN streamDdata : streamDdata[k] \in Chunk /\ streamDdata[k].base = k
  BY DEF TypeOK, CleanerOK, KeyIsBase
<1>1. CASE CleanBegin(c)
  <2>1. cleaner' = [cleaner EXCEPT ![c] = [@ EXCEPT !.pc = "chunks", !.pos = readPosition]]
    BY <1>1 DEF CleanBegin
  <2>2. /\ cleaner' \in [Cleaners -> [pc : CleanerPC, pos : Nat, freed : Nat, needed : BOOLEAN]]
        /\ \A d \in Cleaners : cleaner'[d].pos \in {cleaner[d].pos, readPosition}
    BY <1>1, <2>1, <1>a DEF CleanBegin, TypeOK, CleanerPC
  <2> QED
    BY <1>1, <1>a, <2>2 DEF CleanBegin, TypeOK, data, signal, KeyIsBase, Segmented,
       ReaderOK, InHand, CleanerOK, SignalOK, UsedWithinTotal, ConsumedIsRead, NoLostWakeup, WillWake, End, Holding
<1>2. CASE CleanChunks(c)
  <2> DEFINE pos == cleaner[c].pos
             ch  == streamDdata
  <2>1. BytesBelow(ch, pos) \in Nat
    BY SpaceIsNat
  <2>2. /\ cleaner' \in [Cleaners -> [pc : CleanerPC, pos : Nat, freed : Nat, needed : BOOLEAN]]
        /\ \A d \in Cleaners : cleaner'[d].pos = cleaner[d].pos
    BY <1>2, <2>1, <1>a DEF CleanChunks, TypeOK, CleanerPC
  <2>3. IsFiniteSet(Kept(ch, pos)) /\ IsFiniteSet(Kept(ch, pos) \cup {pos})
    <3>1. Kept(ch, pos) \in SUBSET DOMAIN ch
      BY DEF Kept
    <3> QED BY <3>1, FS_Subset, FS_AddElement
  <2>4. CASE streamDdata' = [k \in Kept(ch, pos) |-> ch[k]]
    <3>1. /\ DOMAIN streamDdata' = Kept(ch, pos)
          /\ \A k \in Kept(ch, pos) : streamDdata'[k] = ch[k] /\ k \in DOMAIN ch
      BY <2>4 DEF Kept
    <3>2. \A k \in DOMAIN streamDdata' :
            /\ streamDdata'[k] \in Chunk
            /\ streamDdata'[k].base = k
            /\ \E q \in DOMAIN streamDdata :
                 /\ q <= k
                 /\ k + streamDdata'[k].len = End(streamDdata, q)
                 /\ streamDdata'[k].consumed => streamDdata[q].consumed
      BY <3>1, <1>a DEF End
    <3> QED
      BY <1>2, <1>a, <2>2, <2>3, <2>4, <3>1, <3>2, ShrinkIInv DEF CleanChunks, CleanerOK
  <2>5. ASSUME NEW q \in Partial(ch, pos),
               streamDdata' = [k \in Kept(ch, pos) \cup {pos} |->
                                 IF k = pos THEN Split(ch, q, pos) ELSE ch[k]]
        PROVE  IInv'
    <3>1. /\ DOMAIN streamDdata' = Kept(ch, pos) \cup {pos}
          /\ streamDdata' = [k \in DOMAIN streamDdata' |-> streamDdata'[k]]
          /\ \A k \in Kept(ch, pos) : k # pos => streamDdata'[k] = ch[k] /\ k \in DOMAIN ch
          /\ streamDdata'[pos] = Split(ch, q, pos)
      BY <2>5 DEF Kept
    <3>2. /\ q \in DOMAIN ch /\ q \in Nat /\ q < pos /\ pos < End(ch, q)
          /\ ch[q] \in Chunk /\ ch[q].base = q /\ pos \in Nat
      BY <1>a DEF Partial
    <3>3. /\ Split(ch, q, pos) \in Chunk
          /\ Split(ch, q, pos).base = pos
          /\ pos + Split(ch, q, pos).len = End(ch, q)
          /\ Split(ch, q, pos).consumed = ch[q].consumed
      BY <3>2, PacketsAssumption DEF Split, Chunk, End
    <3>4. \A k \in DOMAIN streamDdata' :
            /\ streamDdata'[k] \in Chunk
            /\ streamDdata'[k].base = k
            /\ \E r \in DOMAIN streamDdata :
                 /\ r <= k
                 /\ k + streamDdata'[k].len = End(streamDdata, r)
                 /\ streamDdata'[k].consumed => streamDdata[r].consumed
      BY <3>1, <3>2, <3>3, <1>a DEF End
    <3>5. DOMAIN streamDdata' \subseteq Nat
      BY <3>1, <3>2, <1>a DEF Kept
    <3> QED
      BY <1>2, <1>a, <2>2, <2>3, <3>1, <3>4, <3>5, ShrinkIInv DEF CleanChunks, CleanerOK
  <2> QED BY <1>2, <2>4, <2>5 DEF CleanChunks
<1>3. CASE CleanSize(c)
  <2>1. usedSize' \in Nat /\ usedSize' <= TotalSize
    BY <1>3, <1>a, SubIsNat, SizesAssumption DEF CleanSize, TypeOK, UsedWithinTotal
  <2>2. /\ cleaner' \in [Cleaners -> [pc : CleanerPC, pos : Nat, freed : Nat, needed : BOOLEAN]]
        /\ \A d \in Cleaners : cleaner'[d].pos = cleaner[d].pos
    BY <1>3, <1>a DEF CleanSize, TypeOK, CleanerPC
  <2>3. TypeOK'
    BY <1>3, <2>1, <2>2 DEF CleanSize, TypeOK, signal
  <2> QED
    BY <1>3, <2>1, <2>2, <2>3 DEF CleanSize, signal, KeyIsBase, Segmented, ReaderOK, InHand, CleanerOK, SignalOK,
       UsedWithinTotal, ConsumedIsRead, NoLostWakeup, WillWake, End, Holding
<1>4. CASE CleanGaps(c)
  <2>1. TrimmedGaps(gaps, cleaner[c].pos) \subseteq [start : Nat, end : Nat]
    BY <1>a DEF TrimmedGaps, TypeOK
  <2> QED
    BY <1>4, <1>a, <2>1 DEF CleanGaps, CleanerAt, IdleCleaner, CleanerPC, TypeOK, signal, KeyIsBase, Segmented,
       ReaderOK, InHand, CleanerOK, SignalOK, UsedWithinTotal, ConsumedIsRead, NoLostWakeup, WillWake, End, Holding
<1>5. CASE CleanOld(c)
  <2>1. PICK S \in SUBSET {k \in DOMAIN streamDdata : End(streamDdata, k) <= readPosition} :
          /\ streamDdata' = [k \in (DOMAIN streamDdata) \ S |-> streamDdata[k]]
          /\ cleaner' = [cleaner EXCEPT ![c].pc = "oldsize",
                            ![c].freed = BytesBelow([k \in S |-> streamDdata[k]], readPosition)]
    BY <1>5 DEF CleanOld
  <2>2. /\ IsFiniteSet(S)
        /\ IsFiniteSet((DOMAIN streamDdata) \ S)
    <3>1. S \in SUBSET DOMAIN streamDdata /\ (DOMAIN streamDdata) \ S \in SUBSET DOMAIN streamDdata
      OBVIOUS
    <3> QED BY <3>1, FS_Subset
  <2>3. BytesBelow([k \in S |-> streamDdata[k]], readPosition) \in Nat
    BY <2>2, SpaceIsNat
  <2>4. /\ cleaner' \in [Cleaners -> [pc : CleanerPC, pos : Nat, freed : Nat, needed : BOOLEAN]]
        /\ \A d \in Cleaners : cleaner'[d].pos = cleaner[d].pos
    BY <2>1, <2>3, <1>a DEF TypeOK, CleanerPC
  <2>5. /\ DOMAIN streamDdata' = (DOMAIN streamDdata) \ S
        /\ \A k \in DOMAIN streamDdata' :
            /\ streamDdata'[k] \in Chunk
            /\ streamDdata'[k].base = k
            /\ \E q \in DOMAIN streamDdata :
                 /\ q <= k
                 /\ k + streamDdata'[k].len = End(streamDdata, q)
                 /\ streamDdata'[k].consumed => streamDdata[q].consumed
    BY <2>1, <1>a DEF End
  <2> QED
    BY <1>5, <1>a, <2>1, <2>2, <2>4, <2>5, ShrinkIInv DEF CleanOld, CleanerOK
<1>6. CASE CleanOldSize(c)
  <2>1. usedSize' \in Nat /\ usedSize' <= TotalSize
    BY <1>6, <1>a, SubIsNat, SizesAssumption DEF CleanOldSize, TypeOK, UsedWithinTotal
  <2>2. /\ cleaner' \in [Cleaners -> [pc : CleanerPC, pos : Nat, freed : Nat, needed : BOOLEAN]]
        /\ \A d \in Cleaners : cleaner'[d].pos = cleaner[d].pos
    BY <1>6, <1>a DEF CleanOldSize, TypeOK, CleanerPC
  <2>3. TypeOK'
    BY <1>6, <2>1, <2>2 DEF CleanOldSize, TypeOK, signal
  <2> QED
    BY <1>6, <2>1, <2>2, <2>3 DEF CleanOldSize, signal, KeyIsBase, Segmented, ReaderOK, InHand, CleanerOK, SignalOK,
       UsedWithinTotal, ConsumedIsRead, NoLostWakeup, WillWake, End, Holding
<1>7. CASE CleanLockChunks(c)
  BY <1>7, <1>a DEF CleanLockChunks, CleanerAt, IdleCleaner, CleanerPC, TypeOK, data, signal, KeyIsBase, Segmented,
     ReaderOK, InHand, CleanerOK, SignalOK, UsedWithinTotal, ConsumedIsRead, NoLostWakeup, WillWake, End, Holding
<1>8. CASE CleanOptimize(c)
  BY <1>8, <1>a DEF CleanOptimize, CleanerAt, IdleCleaner, CleanerPC, TypeOK, data, signal, KeyIsBase, Segmented,
     ReaderOK, InHand, CleanerOK, SignalOK, UsedWithinTotal, ConsumedIsRead, NoLostWakeup, WillWake, End, Holding
<1>9. CASE CleanProbe(c)
  <2>1. /\ cleaner' \in [Cleaners -> [pc : CleanerPC, pos : Nat, freed : Nat, needed : BOOLEAN]]
        /\ \A d \in Cleaners : cleaner'[d].pos = cleaner[d].pos
    <3>1. (usedSize >= Threshold) \in BOOLEAN
      OBVIOUS
    <3> QED BY <1>9, <3>1, <1>a DEF CleanProbe, TypeOK, CleanerPC
  <2> QED
    BY <1>9, <1>a, <2>1 DEF CleanProbe, TypeOK, data, signal, KeyIsBase, Segmented,
       ReaderOK, InHand, CleanerOK, SignalOK, UsedWithinTotal, ConsumedIsRead, NoLostWakeup, WillWake, End, Holding
<1>10. CASE CleanCallback(c)
  BY <1>10, <1>a DEF CleanCallback, CleanerAt, IdleCleaner, CleanerPC, TypeOK, data, signal, KeyIsBase, Segmented,
     ReaderOK, InHand, CleanerOK, SignalOK, UsedWithinTotal, ConsumedIsRead, NoLostWakeup, WillWake, End, Holding
<1> QED
  BY <1>1, <1>2, <1>3, <1>4, <1>5, <1>6, <1>7, <1>8, <1>9, <1>10 DEF CleanStep

LEMMA CloseIInv ==
  ASSUME IInv, CloseStep
  PROVE  IInv'
<1>1. CASE Close
  BY <1>1 DEF IInv, Close, CloserPC, TypeOK, signal, KeyIsBase, Segmented, ReaderOK, InHand, CleanerOK,
     SignalOK, UsedWithinTotal, ConsumedIsRead, NoLostWakeup, WillWake, Holding, End
<1>2. CASE CloseChunks
  <2>1. DOMAIN streamDdata' = {} /\ streamDdata' = [k \in {} |-> {}]
    BY <1>2 DEF CloseChunks, NoChunks
  <2>2. TypeOK'
    BY <1>2, <2>1 DEF IInv, CloseChunks, CloserPC, TypeOK, signal
  <2> QED
    BY <1>2, <2>1, <2>2, FS_EmptySet
    DEF IInv, CloseChunks, signal, KeyIsBase, Segmented, ReaderOK, InHand, CleanerOK, SignalOK,
        UsedWithinTotal, ConsumedIsRead, NoLostWakeup, Holding
<1>3. CASE CloseGaps \/ CloseSize
  BY <1>3, SizesAssumption
  DEF IInv, CloseGaps, CloseSize, CloserPC, TypeOK, signal, KeyIsBase, Segmented, ReaderOK, InHand,
      CleanerOK, SignalOK, UsedWithinTotal, ConsumedIsRead, NoLostWakeup, WillWake, Holding, End
<1> QED BY <1>1, <1>2, <1>3 DEF CloseStep

LEMMA NextIInv == IInv /\ [Next]_vars => IInv'
<1> SUFFICES ASSUME IInv, [Next]_vars PROVE IInv'
  OBVIOUS
<1>1. CASE UNCHANGED vars
  BY <1>1 DEF IInv, vars, data, signal, TypeOK, KeyIsBase, Segmented, ReaderOK, InHand, CleanerOK, SignalOK,
     UsedWithinTotal, ConsumedIsRead, NoLostWakeup, WillWake, End, Holding
<1> QED
  BY <1>1, WriterIInv, ReaderIInv, CleanerIInv, CloseIInv DEF Next, OpenNext

-----------------------------------------------------------------------------
(* What the theorems below are parts of. *)
THEOREM Invariance == Spec => []IInv
BY InitIInv, NextIInv, PTL DEF Spec

(* Every reachable state has its declared shape. *)
THEOREM TypeCorrect == Spec => []TypeOK
BY Invariance, PTL DEF IInv

(* However writes, duplicates, reads and cleanups interleave between the    *)
(* space check and the charge, usedSize stays within the capacity.         *)
THEOREM UsedBounded == Spec => []UsedWithinTotal
BY Invariance, PTL DEF IInv

(* WriteWithMetadata never counts an unread byte as room. *)
THEOREM RoomIsRead == Spec => []ConsumedIsRead
BY Invariance, PTL DEF IInv

(* The two-step receive of WaitReady loses no wake-up. *)
THEOREM NoWakeupIsLost == Spec => []NoLostWakeup
BY Invariance, PTL DEF IInv

-----------------------------------------------------------------------------
(* Refinement of InOrderStream.                                            *)

LEMMA InitRefines == Init => InOrder!Init
<1> SUFFICES ASSUME Init PROVE InOrder!Init
  OBVIOUS
<1>1. DOMAIN streamDdata = {} /\ readPosition = 0 /\ reader.pc = "idle"
  BY DEF Init, NoChunks, IdleReader
<1>2. Received = {}
  <2>1. ASSUME NEW b \in Bytes
        PROVE  ~(\/ b < readPosition
                 \/ \E k \in DOMAIN streamDdata : k <= b /\ b < End(streamDdata, k)
                 \/ /\ reader.pc = "advance"
                    /\ reader.pos <= b /\ b < reader.pos + reader.got.len)
    <3>1. b \in Nat
      BY BytesOfPackets
    <3> QED BY <1>1, <3>1
  <2> QED BY <2>1 DEF Received
<1> QED BY <1>1, <1>2 DEF Init, InOrder!Init, NoBytes, closed

(* Steps that move neither chunks, position, output nor the bytes in the   *)
(* hands of a Read are invisible.                                          *)
LEMMA SilentRefines ==
  ASSUME UNCHANGED <<streamDdata, readPosition, lastRead, closer>>,
         \/ UNCHANGED reader
         \/ reader.pc # "advance" /\ reader'.pc # "advance"
  PROVE  UNCHANGED InOrder!vars
<1>1. Received' = Received
  BY DEF Received, End
<1> QED BY <1>1 DEF InOrder!vars, closed

LEMMA StoreRefines ==
  ASSUME IInv, NEW w \in Writers, WriteStore(w)
  PROVE  InOrder!Arrive
<1> DEFINE p == writer[w].pkt
<1>1. /\ p \in Packets
      /\ p.off \notin DOMAIN streamDdata
      /\ DOMAIN streamDdata' = DOMAIN streamDdata \cup {p.off}
      /\ \A k \in DOMAIN streamDdata : streamDdata'[k] = streamDdata[k]
      /\ streamDdata'[p.off].len = p.len
      /\ UNCHANGED <<readPosition, reader, lastRead, closer>>
  BY DEF WriteStore, WriterAt, Stored, IInv, TypeOK
<1> HIDE DEF p
<1>2. Received \subseteq Received'
  BY <1>1 DEF Received, End
<1>3. Received' \subseteq Received \cup Bytes
  BY DEF Received
<1> QED BY <1>1, <1>2, <1>3 DEF InOrder!Arrive, closed

LEMMA FetchRefines ==
  ASSUME IInv, ReadFetch
  PROVE  UNCHANGED InOrder!vars
<1>1. PICK k \in Holding(streamDdata, reader.pos) :
        reader' = [reader EXCEPT !.pc = "advance",
                     !.got = [base |-> streamDdata[k].base + (reader.pos - k),
                              len  |-> IF reader.len < End(streamDdata, k) - reader.pos
                                       THEN reader.len ELSE End(streamDdata, k) - reader.pos]]
  BY DEF ReadFetch
<1>2. /\ k \in DOMAIN streamDdata /\ k \in Nat /\ reader.pos \in Nat /\ reader.len \in Nat
      /\ k <= reader.pos /\ streamDdata[k].len \in Nat
      /\ reader \in [pc : ReaderPC, pos : Nat, len : Nat, got : [base : Nat, len : Nat]]
  BY <1>1, PacketsAssumption DEF Holding, IInv, TypeOK, Chunk
<1>3. /\ reader'.pos = reader.pos
      /\ reader'.got.len <= End(streamDdata, k) - reader.pos
      /\ reader'.got.len \in Int
  BY <1>1, <1>2 DEF End
<1>4. UNCHANGED <<streamDdata, readPosition, lastRead, closer>> /\ reader.pc # "advance"
  BY DEF ReadFetch, data
<1>5. Received' = Received
  <2>1. ASSUME NEW b \in Bytes, reader'.pos <= b, b < reader'.pos + reader'.got.len
        PROVE  k <= b /\ b < End(streamDdata, k)
    BY <2>1, <1>2, <1>3, BytesOfPackets DEF End
  <2> QED BY <2>1, <1>2, <1>4 DEF Received, End
<1> QED BY <1>4, <1>5 DEF InOrder!vars, closed

LEMMA AdvanceRefines ==
  ASSUME IInv, ReadAdvance
  PROVE  InOrder!Deliver
<1>1. /\ reader.pos = readPosition /\ reader.got.base = readPosition
      /\ reader.got.len \in Nat /\ reader.got.len > 0 /\ readPosition \in Nat
      /\ reader.got \in [base : Nat, len : Nat]
      /\ reader.pc = "advance" /\ reader'.pc = "mark"
  BY DEF IInv, ReaderOK, TypeOK, ReadAdvance, ReaderAt
<1>2. /\ readPosition' = readPosition + reader.got.len
      /\ lastRead' = reader.got
      /\ UNCHANGED <<streamDdata, closer>>
  BY DEF ReadAdvance
<1>3. readPosition .. (readPosition' - 1) \subseteq Received
  <2> SUFFICES ASSUME NEW b \in readPosition .. (readPosition' - 1) PROVE b \in Received
    OBVIOUS
  <2>1. b \in Bytes
    BY <1>1, <1>2 DEF IInv, InHand
  <2> QED BY <2>1, <1>1, <1>2 DEF Received
<1>4. Received' = Received
  <2>1. \A b \in Bytes :
          b < readPosition' <=> \/ b < readPosition
                                \/ reader.pos <= b /\ b < reader.pos + reader.got.len
    BY <1>1, <1>2, BytesOfPackets
  <2> QED BY <1>1, <1>2, <2>1 DEF Received, End
<1>5. lastRead' = [base |-> readPosition, len |-> readPosition' - readPosition]
  BY <1>1, <1>2
<1> QED BY <1>1, <1>2, <1>3, <1>4, <1>5 DEF InOrder!Deliver, closed

LEMMA MarkRefines ==
  ASSUME IInv, ReadMark
  PROVE  UNCHANGED InOrder!vars
<1>1. /\ DOMAIN streamDdata' = DOMAIN streamDdata
      /\ \A k \in DOMAIN streamDdata :
           streamDdata'[k] = [streamDdata[k] EXCEPT
                                !.consumed = @ \/ End(streamDdata, k) <= reader.pos + reader.got.len]
      /\ UNCHANGED <<readPosition, lastRead, closer>>
      /\ reader.pc # "advance" /\ reader'.pc # "advance"
  BY DEF ReadMark, ReaderAt, Marked, IdleReader, IInv, TypeOK
<1>2. \A k \in DOMAIN streamDdata : End(streamDdata', k) = End(streamDdata, k)
  <2> SUFFICES ASSUME NEW k \in DOMAIN streamDdata
               PROVE  streamDdata'[k].len = streamDdata[k].len
    BY DEF End
  <2>1. streamDdata[k] \in Chunk
    BY DEF IInv, TypeOK
  <2> QED BY <1>1, <2>1 DEF Chunk
<1>3. Received' = Received
  BY <1>1, <1>2 DEF Received
<1> QED BY <1>1, <1>3 DEF InOrder!vars, closed

(* A cleanup forgets nothing but bytes below the read position. *)
LEMMA ShrinkRefines ==
  ASSUME IInv,
         UNCHANGED <<readPosition, reader, lastRead, closer>>,
         \A k \in DOMAIN streamDdata' :
           \E q \in DOMAIN streamDdata : q <= k /\ k + streamDdata'[k].len = End(streamDdata, q),
         DOMAIN streamDdata' \subseteq Nat,
         \A q \in DOMAIN streamDdata :
           \/ End(streamDdata, q) <= readPosition
           \/ \E k \in DOMAIN streamDdata' :
                /\ k <= q \/ k <= readPosition
                /\ k + streamDdata'[k].len = End(streamDdata, q)
  PROVE  UNCHANGED InOrder!vars
<1>1. readPosition \in Nat /\ \A q \in DOMAIN streamDdata : q \in Nat /\ End(streamDdata, q) \in Nat
  BY DEF IInv, TypeOK, Chunk, End
<1>2. ASSUME NEW k \in DOMAIN streamDdata', NEW b \in Nat, k <= b, b < k + streamDdata'[k].len
      PROVE  \E q \in DOMAIN streamDdata : q <= b /\ b < End(streamDdata, q)
  <2>1. PICK q \in DOMAIN streamDdata : q <= k /\ k + streamDdata'[k].len = End(streamDdata, q)
    OBVIOUS
  <2>2. k \in Nat /\ q \in Nat
    BY <1>1
  <2> QED BY <1>2, <2>1, <2>2
<1>3. ASSUME NEW q \in DOMAIN streamDdata, NEW b \in Nat, q <= b, b < End(streamDdata, q)
      PROVE  \/ b < readPosition
             \/ \E k \in DOMAIN streamDdata' : k <= b /\ b < k + streamDdata'[k].len
  <2>1. CASE b >= readPosition
    <3>1. PICK k \in DOMAIN streamDdata' :
            /\ k <= q \/ k <= readPosition
            /\ k + streamDdata'[k].len = End(streamDdata, q)
      BY <2>1, <1>1, <1>3
    <3>2. k \in Nat
      OBVIOUS
    <3> QED BY <3>1, <3>2, <2>1, <1>1, <1>3
  <2> QED BY <2>1, <1>1
<1>4. Received' = Received
  <2>1. ASSUME NEW b \in Bytes
        PROVE  b \in Received' <=> b \in Received
    <3>1. b \in Nat
      BY BytesOfPackets
    <3>2. b \in Received <=> \/ b < readPosition
                             \/ \E k \in DOMAIN streamDdata : k <= b /\ b < End(streamDdata, k)
                             \/ /\ reader.pc = "advance"
                                /\ reader.pos <= b /\ b < reader.pos + reader.got.len
      BY DEF Received
    <3>3. b \in Received' <=> \/ b < readPosition
                              \/ \E k \in DOMAIN streamDdata' : k <= b /\ b < k + streamDdata'[k].len
                              \/ /\ reader.pc = "advance"
                                 /\ reader.pos <= b /\ b < reader.pos + reader.got.len
      BY DEF Received, End
    <3> QED BY <3>1, <3>2, <3>3, <1>2, <1>3
  <2>2. Received \subseteq Bytes /\ Received' \subseteq Bytes
    BY DEF Received
  <2> QED BY <2>1, <2>2
<1> QED BY <1>4 DEF InOrder!vars, closed

(* Chunks that hold the same byte are pieces of the same packet. *)
LEMMA SameEnd ==
  ASSUME IInv, NEW k \in DOMAIN streamDdata, NEW q \in DOMAIN streamDdata, NEW b \in Nat,
         k <= b, b < End(streamDdata, k), q <= b, b < End(streamDdata, q)
  PROVE  End(streamDdata, k) = End(streamDdata, q)
<1>1. PICK r \in Packets : r.off <= k /\ End(streamDdata, k) = r.off + r.len
  BY DEF IInv, Segmented
<1>2. PICK s \in Packets : s.off <= q /\ End(streamDdata, q) = s.off + s.len
  BY DEF IInv, Segmented
<1>3. /\ r.off \in Nat /\ r.len \in Nat /\ s.off \in Nat /\ s.len \in Nat
      /\ k \in Nat /\ q \in Nat
  BY PacketsAssumption DEF IInv, TypeOK
<1>4. r = s
  BY <1>1, <1>2, <1>3, PacketsAssumption
<1> QED BY <1>1, <1>2, <1>4

LEMMA CleanChunksRefines ==
  ASSUME IInv, NEW c \in Cleaners, CleanChunks(c)
  PROVE  UNCHANGED InOrder!vars
<1> DEFINE pos == cleaner[c].pos
<1>1. /\ pos \in Nat /\ pos <= readPosition /\ readPosition \in Nat
      /\ UNCHANGED <<readPosition, reader, lastRead, closer>>
      /\ \A k \in DOMAIN streamDdata : k \in Nat /\ streamDdata[k].len \in Nat \ {0}
  BY PacketsAssumption DEF IInv, TypeOK, CleanerOK, CleanChunks, Chunk
<1>2. CASE Partial(streamDdata, pos) = {}
  <2>1. /\ DOMAIN streamDdata' = Kept(streamDdata, pos)
        /\ \A k \in Kept(streamDdata, pos) : streamDdata'[k] = streamDdata[k]
    BY <1>2 DEF CleanChunks
  <2>2. \A k \in DOMAIN streamDdata :
           k \in Kept(streamDdata, pos) \/ End(streamDdata, k) <= pos
    BY <1>1, <1>2 DEF Kept, Partial, End
  <2> HIDE DEF pos
  <2>3. \A k \in DOMAIN streamDdata' :
          k \in DOMAIN streamDdata /\ k + streamDdata'[k].len = End(streamDdata, k)
    BY <2>1 DEF Kept, End
  <2>4. \A q \in DOMAIN streamDdata :
          \/ End(streamDdata, q) <= readPosition
          \/ q \in DOMAIN streamDdata' /\ q + streamDdata'[q].len = End(streamDdata, q)
    BY <1>1, <2>1, <2>2 DEF Kept, End
  <2>5. /\ DOMAIN streamDdata' \subseteq Nat
        /\ \A k \in DOMAIN streamDdata : k <= k
    BY <1>1, <2>3
  <2> QED BY <1>1, <2>3, <2>4, <2>5, ShrinkRefines
<1>3. ASSUME NEW q \in Partial(streamDdata, pos),
             streamDdata' = [k \in Kept(streamDdata, pos) \cup {pos} |->
                               IF k = pos THEN Split(streamDdata, q, pos) ELSE streamDdata[k]]
      PROVE  UNCHANGED InOrder!vars
  <2>1. /\ q \in DOMAIN streamDdata /\ q < pos /\ pos < End(streamDdata, q)
        /\ DOMAIN streamDdata' = Kept(streamDdata, pos) \cup {pos}
        /\ \A k \in Kept(streamDdata, pos) : k # pos => streamDdata'[k] = streamDdata[k]
        /\ streamDdata'[pos].len = End(streamDdata, q) - pos
    BY <1>3 DEF Partial, Split
  (* The other chunks that hold byte pos are pieces of the same packet. *)
  <2>2. ASSUME NEW k \in DOMAIN streamDdata, k <= pos, pos < End(streamDdata, k)
        PROVE  End(streamDdata, k) = End(streamDdata, q)
    BY <1>1, <2>1, <2>2, SameEnd
  <2> HIDE DEF pos
  <2>3. pos + streamDdata'[pos].len = End(streamDdata, q)
    BY <1>1, <2>1 DEF End
  <2>4. ASSUME NEW k \in DOMAIN streamDdata'
        PROVE  \E r \in DOMAIN streamDdata : r <= k /\ k + streamDdata'[k].len = End(streamDdata, r)
    <3>1. CASE k = pos
      BY <3>1, <2>1, <2>3, <1>1
    <3>2. CASE k # pos
      BY <3>2, <2>1, <1>1 DEF Kept, End
    <3> QED BY <3>1, <3>2
  <2>5. ASSUME NEW r \in DOMAIN streamDdata
        PROVE  \/ End(streamDdata, r) <= readPosition
               \/ \E k \in DOMAIN streamDdata' :
                    /\ k <= r \/ k <= readPosition
                    /\ k + streamDdata'[k].len = End(streamDdata, r)
    <3>1. CASE r > pos
      BY <3>1, <2>1, <1>1 DEF Kept, End
    <3>2. CASE r <= pos /\ pos < End(streamDdata, r)
      BY <3>2, <2>1, <2>2, <2>3, <1>1
    <3>3. CASE End(streamDdata, r) <= pos
      BY <3>3, <1>1 DEF End
    <3> QED BY <3>1, <3>2, <3>3, <1>1 DEF End
  <2>6. DOMAIN streamDdata' \subseteq Nat
    BY <1>1, <2>1 DEF Kept
  <2> QED BY <1>1, <2>4, <2>5, <2>6, ShrinkRefines
<1> QED BY <1>2, <1>3 DEF CleanChunks

LEMMA CleanOldRefines ==
  ASSUME IInv, NEW c \in Cleaners, CleanOld(c)
  PROVE  UNCHANGED InOrder!vars
<1>1. PICK S \in SUBSET {k \in DOMAIN streamDdata : End(streamDdata, k) <= readPosition} :
        streamDdata' = [k \in (DOMAIN streamDdata) \ S |-> streamDdata[k]]
  BY DEF CleanOld
<1>2. /\ UNCHANGED <<readPosition, reader, lastRead, closer>>
      /\ \A k \in DOMAIN streamDdata : k \in Nat
  BY DEF IInv, TypeOK, CleanOld
<1>3. \A k \in DOMAIN streamDdata' :
        k \in DOMAIN streamDdata /\ k + streamDdata'[k].len = End(streamDdata, k)
  BY <1>1 DEF End
<1>4. \A q \in DOMAIN streamDdata :
        \/ End(streamDdata, q) <= readPosition
        \/ q \in DOMAIN streamDdata' /\ q + streamDdata'[q].len = End(streamDdata, q)
  BY <1>1 DEF End
<1>5. DOMAIN streamDdata' \subseteq Nat /\ \A k \in DOMAIN streamDdata : k <= k
  BY <1>2, <1>3
<1> QED BY <1>2, <1>3, <1>4, <1>5, ShrinkRefines

(* The stream closes when Close sets the flag, and loses its bytes when    *)
(* the chunks go.                                                          *)
LEMMA CloseRefines ==
  ASSUME IInv, CloseStep
  PROVE  [InOrder!Next]_(InOrder!vars)
<1>1. CASE Close
  <2>1. Received' = Received
    BY <1>1 DEF Close, Received, End
  <2> QED BY <1>1, <2>1 DEF Close, closed, InOrder!Close, InOrder!Next
<1>2. CASE CloseChunks
  <2>1. DOMAIN streamDdata' = {} /\ UNCHANGED <<readPosition, reader, lastRead>>
    BY <1>2 DEF CloseChunks, NoChunks
  <2>2. Received' \subseteq Received
    BY <2>1 DEF Received, End
  <2> QED BY <1>2, <2>1, <2>2 DEF CloseChunks, closed, InOrder!Forget, InOrder!Next
<1>3. CASE CloseGaps \/ CloseSize
  <2>1. Received' = Received
    BY <1>3 DEF CloseGaps, CloseSize, Received, End
  <2> QED BY <1>3, <2>1 DEF CloseGaps, CloseSize, closed, InOrder!vars
<1> QED BY <1>1, <1>2, <1>3 DEF CloseStep

LEMMA WriteRefines ==
  ASSUME IInv, NEW w \in Writers, WriteBegin(w) \/ WriteStep(w)
  PROVE  [InOrder!Next]_(InOrder!vars)
<1>1. CASE WriteStore(w)
  BY <1>1, StoreRefines DEF InOrder!Next
<1>2. CASE ~WriteStore(w)
  <2>1. UNCHANGED <<streamDdata, readPosition, lastRead, closer, reader>>
    BY <1>2 DEF WriteBegin, WriteStep, WriteCharge, WriteFull, WriteRejected, WriteDuplicate, WriteExtend,
       WriteLockGaps, WriteGaps, WriteLook, WriteProbe, WriteSignal, data
  <2> QED BY <2>1, SilentRefines
<1> QED BY <1>1, <1>2

LEMMA ReadRefines ==
  ASSUME IInv, ReadStep \/ WaitTimeout
  PROVE  [InOrder!Next]_(InOrder!vars)
<1>1. CASE ReadFetch
  BY <1>1, FetchRefines
<1>2. CASE ReadAdvance
  BY <1>2, AdvanceRefines DEF InOrder!Next
<1>3. CASE ReadMark
  BY <1>3, MarkRefines
<1>4. CASE ~(ReadFetch \/ ReadAdvance \/ ReadMark)
  <2>1. UNCHANGED <<streamDdata, readPosition, lastRead, closer>>
    BY <1>4 DEF ReadStep, WaitReady, WaitReceive, WaitReset, WaitTimeout, ReadClosed, ReadBegin, ReadNothing,
       ReadRelease, data
  <2>2. reader \in [pc : ReaderPC, pos : Nat, len : Nat, got : [base : Nat, len : Nat]]
    BY DEF IInv, TypeOK
  <2>3. reader.pc # "advance" /\ reader'.pc # "advance"
    <3>1. ASSUME NEW here, NEW there, ReaderAt(here, there), here # "advance", there # "advance"
          PROVE  reader.pc # "advance" /\ reader'.pc # "advance"
      BY <2>2, <3>1 DEF ReaderAt, IdleReader
    <3>2. CASE ReadBegin
      BY <3>2, <2>2 DEF ReadBegin
    <3>3. CASE ~ReadBegin
      BY <1>4, <3>1, <3>3 DEF ReadStep, WaitReady, WaitReceive, WaitReset, WaitTimeout, ReadClosed, ReadNothing,
         ReadRelease
    <3> QED BY <3>2, <3>3
  <2> QED BY <2>1, <2>3, SilentRefines
<1> QED BY <1>1, <1>2, <1>3, <1>4

LEMMA CleanRefines ==
  ASSUME IInv, NEW c \in Cleaners, CleanStep(c)
  PROVE  UNCHANGED InOrder!vars
<1>1. CASE CleanChunks(c)
  BY <1>1, CleanChunksRefines
<1>2. CASE CleanOld(c)
  BY <1>2, CleanOldRefines
<1>3. CASE ~(CleanChunks(c) \/ CleanOld(c))
  <2>1. UNCHANGED <<streamDdata, readPosition, lastRead, closer, reader>>
    BY <1>3 DEF CleanStep, CleanBegin, CleanSize, CleanGaps, CleanOldSize, CleanLockChunks, CleanOptimize,
       CleanProbe, CleanCallback, data
  <2> QED BY <2>1, SilentRefines
<1> QED BY <1>1, <1>2, <1>3

LEMMA NextRefines == IInv /\ [Next]_vars => [InOrder!Next]_(InOrder!vars)
<1> SUFFICES ASSUME IInv, [Next]_vars PROVE [InOrder!Next]_(InOrder!vars)
  OBVIOUS
<1>1. CASE UNCHANGED vars
  BY <1>1, SilentRefines DEF vars, data
<1> QED
  BY <1>1, CloseRefines, WriteRefines, ReadRefines, CleanRefines DEF Next, OpenNext

(* The buffer hands every byte out once, in order, at the offset the peer   *)
(* wrote it at, and forgets none it has stored until the stream is closed:  *)
(* for any number of writers and cleaners, any packets and any capacity.    *)
THEOREM Refinement == Spec => ImplementsInOrderStream
<1>1. Spec => []IInv
  BY Invariance
<1> QED
  BY <1>1, InitRefines, NextRefines, PTL DEF Spec, ImplementsInOrderStream, InOrder!Spec
-----------------------------------------------------------------------------
(* The gap map.                                                            *)

(* The reader or the end of a stored chunk is at e or beyond. *)
Reached(e) ==
  \/ closed
  \/ e <= readPosition
  \/ \E k \in DOMAIN streamDdata : End(streamDdata, k) >= e

(* The write position is not ahead of the chunks, nor will WriteExtend     *)
(* move it there: the byte before it is stored or was read.                *)
TopReached ==
  /\ Reached(writePosition)
  /\ \A w \in Writers : writer[w].pc = "extend" => Reached(writer[w].pkt.off + writer[w].pkt.len)

GInv == IInv /\ GapsExact /\ TopReached

Covered(b) == \E k \in DOMAIN streamDdata : k <= b /\ b < End(streamDdata, k)

(* A write stands between its chunk and its gaps. *)
Behind(w) == writer[w].pc \in {"extend", "gaps", "rebuild"}

(* A set of naturals has a least element, and a bounded one a greatest.    *)
LEMMA MinimalElement ==
  ASSUME NEW S, NEW T, T \subseteq S, T # {}, NEW R, IsWellFoundedOn(R, S)
  PROVE  \E n \in T : \A m \in T : ~(<<m, n>> \in R)
BY WFMin

LEMMA LeastBelow ==
  ASSUME NEW T \in SUBSET Nat, T # {}, NEW R, IsWellFoundedOn(R, Nat),
         \A m, n \in Nat : m < n => <<m, n>> \in R
  PROVE  \E n \in T : \A m \in T : n <= m
<1>1. T \subseteq Nat
  OBVIOUS
<1>2. \E n \in T : \A m \in T : ~(<<m, n>> \in R)
  BY <1>1, MinimalElement, Zenon
<1>3. \A m, n \in T : ~(<<m, n>> \in R) => n <= m
  OBVIOUS
<1> QED BY <1>2, <1>3

LEMMA LeastOf ==
  ASSUME NEW T \in SUBSET Nat, T # {}
  PROVE  \E n \in T : \A m \in T : n <= m
<1> DEFINE R == OpToRel(<, Nat)
<1>1. IsWellFoundedOn(R, Nat)
  BY NatLessThanWellFounded
<1>2. \A m, n \in Nat : m < n => <<m, n>> \in R
  BY DEF OpToRel
<1> HIDE DEF R
<1> QED BY <1>1, <1>2, LeastBelow

LEMMA GreatestOf ==
  ASSUME NEW T \in SUBSET Nat, T # {}, NEW b \in Nat, \A m \in T : m <= b
  PROVE  \E n \in T : \A m \in T : m <= n
<1> DEFINE U == {b - m : m \in T}
<1>1. U \in SUBSET Nat
  <2>1. \A m \in T : b - m \in Nat
    OBVIOUS
  <2> QED BY <2>1
<1>2. U # {}
  <2>1. PICK m \in T : TRUE
    OBVIOUS
  <2> QED BY <2>1
<1> HIDE DEF U
<1>3. PICK u \in U : \A v \in U : u <= v
  BY <1>1, <1>2, LeastOf
<1>4. PICK n \in T : u = b - n
  BY DEF U
<1>5. ASSUME NEW m \in T PROVE m <= n
  <2>1. b - m \in U
    BY DEF U
  <2> QED BY <2>1, <1>3, <1>4
<1> QED BY <1>5

(* Chunks end in the order of their keys. *)
LEMMA EndsAscend ==
  ASSUME IInv, NEW k \in DOMAIN streamDdata, NEW q \in DOMAIN streamDdata, k < q
  PROVE  End(streamDdata, k) <= End(streamDdata, q)
<1>1. PICK r \in Packets : r.off <= k /\ End(streamDdata, k) = r.off + r.len
  BY DEF IInv, Segmented
<1>2. PICK s \in Packets : s.off <= q /\ End(streamDdata, q) = s.off + s.len
  BY DEF IInv, Segmented
<1>3. /\ r.off \in Nat /\ r.len \in Nat /\ s.off \in Nat /\ s.len \in Nat
      /\ k \in Nat /\ q \in Nat
  BY PacketsAssumption DEF IInv, TypeOK
<1>4. /\ k < End(streamDdata, k) /\ q < End(streamDdata, q)
  BY <1>3 DEF IInv, TypeOK, Chunk, End
<1>5. r = s \/ r.off + r.len <= s.off \/ s.off + s.len <= r.off
  BY PacketsAssumption
<1> QED BY <1>1, <1>2, <1>3, <1>4, <1>5

(* Below the end of a chunk, the rebuilt gaps are the bytes no chunk holds. *)
LEMMA RebuiltExact ==
  ASSUME IInv, NEW b \in Nat, NEW top \in DOMAIN streamDdata, b < End(streamDdata, top)
  PROVE  (\E g \in RebuiltGaps(streamDdata) : g.start <= b /\ b < g.end) <=> ~Covered(b)
<1> DEFINE D == DOMAIN streamDdata
           E(k) == End(streamDdata, k)
<1>1. D \subseteq Nat /\ \A k \in D : E(k) \in Nat /\ k < E(k)
  BY DEF IInv, TypeOK, Chunk, End
<1>2. \A k, q \in D : k < q => E(k) <= E(q)
  BY EndsAscend
<1>3. ASSUME NEW g \in RebuiltGaps(streamDdata), g.start <= b, b < g.end, Covered(b)
      PROVE  FALSE
  <2>1. PICK q \in D : q <= b /\ b < E(q)
    BY <1>3 DEF Covered
  <2>2. CASE \E k, n \in D : /\ g = [start |-> E(k), end |-> n]
                             /\ \A x \in D : x <= k \/ n <= x
    <3>1. PICK k \in D, n \in D : /\ g = [start |-> E(k), end |-> n]
                                  /\ \A x \in D : x <= k \/ n <= x
      BY <2>2
    <3>2. E(k) <= b /\ b < n
      BY <1>3, <3>1
    <3>3. q <= k
      BY <3>1, <3>2, <2>1, <1>1
    <3>4. E(q) <= E(k)
      BY <3>3, <1>1, <1>2
    <3> QED BY <3>2, <3>4, <2>1, <1>1
  <2>3. CASE \E n \in D : g = [start |-> 0, end |-> n] /\ \A x \in D : n <= x
    BY <2>1, <2>3, <1>1, <1>3
  <2> QED BY <2>2, <2>3 DEF RebuiltGaps
<1>4. ASSUME ~Covered(b)
      PROVE  \E g \in RebuiltGaps(streamDdata) : g.start <= b /\ b < g.end
  <2> DEFINE A == {k \in D : b < k}
             B == {k \in D : k <= b}
  <2>1. A \in SUBSET Nat /\ A # {}
    BY <1>1, <1>4 DEF Covered
  <2>2. PICK n \in A : \A m \in A : n <= m
    BY <2>1, LeastOf
  <2>3. CASE B = {}
    <3>1. n \in D /\ n > 0 /\ \A q \in D : n <= q
      BY <2>2, <2>3, <1>1
    <3>2. [start |-> 0, end |-> n] \in RebuiltGaps(streamDdata)
      BY <3>1 DEF RebuiltGaps
    <3> QED BY <3>2, <2>2
  <2>4. CASE B # {}
    <3>1. B \in SUBSET Nat /\ \A m \in B : m <= b
      BY <1>1
    <3>2. PICK k \in B : \A m \in B : m <= k
      BY <3>1, <2>4, GreatestOf
    <3>3. E(k) <= b
      BY <3>2, <1>1, <1>4 DEF Covered
    <3>4. E(k) < n /\ \A q \in D : q <= k \/ n <= q
      BY <3>2, <3>3, <2>2, <1>1
    <3>5. [start |-> E(k), end |-> n] \in RebuiltGaps(streamDdata)
      <4> DEFINE apart == {p \in D \X D : /\ E(p[1]) < p[2]
                                         /\ \A q \in D : q <= p[1] \/ p[2] <= q}
      <4>1. <<k, n>> \in apart
        BY <3>2, <3>4, <2>2
      <4>2. [start |-> E(k), end |-> n] \in {[start |-> E(p[1]), end |-> p[2]] : p \in apart}
        BY <4>1
      <4> QED BY <4>2, Zenon DEF RebuiltGaps
    <3> QED BY <3>3, <3>5, <2>2
  <2> QED BY <2>3, <2>4
<1> QED BY <1>3, <1>4

LEMMA InitGInv == Init => GInv
<1> SUFFICES ASSUME Init PROVE GInv
  OBVIOUS
<1>1. GapsExact /\ TopReached
  BY DEF Init, GapsExact, TopReached, Reached, IdleWriter
<1> QED BY <1>1, InitIInv DEF GInv

(* A step after which the reader is not behind, the same bytes are stored  *)
(* from the reader on, the gaps agree there, and no write has stored or    *)
(* rebuilt anything.                                                       *)
LEMMA Steady ==
  ASSUME GInv, IInv',
         closer' = closer, writePosition' = writePosition, readPosition <= readPosition',
         \A k \in DOMAIN streamDdata :
           \/ End(streamDdata, k) <= readPosition
           \/ \E q \in DOMAIN streamDdata' : End(streamDdata, k) = End(streamDdata', q),
         \A b \in Nat : b >= readPosition' =>
           (InGap(b)' <=> InGap(b)) /\ (Covered(b)' <=> Covered(b)),
         \A w \in Writers :
           /\ Behind(w) => Behind(w)'
           /\ writer'[w].pc = "extend" => writer'[w] = writer[w]
  PROVE  GapsExact' /\ TopReached'
<1>1. /\ readPosition \in Nat /\ readPosition' \in Nat /\ writePosition \in Nat
      /\ \A k \in DOMAIN streamDdata : End(streamDdata, k) \in Nat
  BY DEF GInv, IInv, TypeOK, Chunk, End
<1>2. ASSUME NEW e \in Nat, Reached(e) PROVE Reached(e)'
  BY <1>1, <1>2 DEF Reached, closed
<1>3. \A w \in Writers : writer[w].pc = "extend" => writer[w].pkt.off + writer[w].pkt.len \in Nat
  BY PacketsAssumption DEF GInv, IInv, TypeOK
<1>4. TopReached'
  BY <1>1, <1>2, <1>3 DEF GInv, TopReached
<1>5. GapsExact'
  BY <1>1 DEF GInv, GapsExact, Covered, Behind, closed
<1> QED BY <1>4, <1>5

(* The step leaves the stored bytes, the positions and the gaps alone. *)
LEMMA Undisturbed ==
  ASSUME GInv, IInv',
         UNCHANGED <<streamDdata, readPosition, writePosition, gaps, closer>>,
         \A w \in Writers :
           /\ Behind(w) => Behind(w)'
           /\ writer'[w].pc = "extend" => writer'[w] = writer[w]
  PROVE  GapsExact' /\ TopReached'
<1>1. readPosition \in Nat
  BY DEF GInv, IInv, TypeOK
<1>2. /\ \A k \in DOMAIN streamDdata : End(streamDdata, k) = End(streamDdata', k)
      /\ \A b \in Nat : (InGap(b)' <=> InGap(b)) /\ (Covered(b)' <=> Covered(b))
  BY DEF InGap, Covered, End
<1> QED BY <1>1, <1>2, Steady

LEMMA WriteStoreGInv ==
  ASSUME GInv, IInv', NEW w \in Writers, WriteStore(w)
  PROVE  GapsExact' /\ TopReached'
<1> DEFINE p == writer[w].pkt
<1>1. /\ writer[w].pc = "store"
      /\ writer' = [writer EXCEPT ![w] = [writer[w] EXCEPT !.pc = "extend"]]
      /\ UNCHANGED <<readPosition, writePosition, closer>>
      /\ streamDdata' = Stored(streamDdata, p) /\ p.off \notin DOMAIN streamDdata
  BY DEF WriteStore, WriterAt
<1>2. DOMAIN writer = Writers /\ p.off \in Nat /\ p.len \in Nat
      /\ writer[w] \in [pc : WriterPC, pkt : Packets \cup {IdleWriter.pkt}, pos : Nat]
  BY <1>1, PacketsAssumption DEF GInv, IInv, TypeOK
<1>3. /\ writer'[w].pc = "extend" /\ writer'[w].pkt = p
      /\ \A v \in Writers \ {w} : writer'[v] = writer[v]
  BY <1>1, <1>2
<1>4. /\ \A k \in DOMAIN streamDdata : /\ k \in DOMAIN streamDdata'
                                       /\ End(streamDdata', k) = End(streamDdata, k)
      /\ p.off \in DOMAIN streamDdata' /\ End(streamDdata', p.off) = p.off + p.len
  BY <1>1 DEF Stored, End
<1>5. ASSUME NEW e, Reached(e) PROVE Reached(e)'
  BY <1>1, <1>4, <1>5 DEF Reached, closed
<1>6. Reached(p.off + p.len)'
  BY <1>2, <1>3, <1>4 DEF Reached, closed
<1>7. TopReached'
  <2>1. Reached(writePosition)'
    BY <1>1, <1>5 DEF GInv, TopReached, Reached, closed
  <2>2. ASSUME NEW v \in Writers, writer'[v].pc = "extend"
        PROVE  Reached(writer[v].pkt.off + writer[v].pkt.len)'
    <3>1. CASE v = w
      BY <3>1, <1>6, <1>3 DEF Reached, closed
    <3>2. CASE v # w
      BY <3>2, <2>2, <1>3, <1>5 DEF GInv, TopReached, Reached, closed
    <3> QED BY <3>1, <3>2
  <2> QED BY <2>1, <2>2 DEF TopReached
<1>8. GapsExact'
  BY <1>3 DEF GapsExact
<1> QED BY <1>7, <1>8

LEMMA WriteExtendGInv ==
  ASSUME GInv, IInv', NEW w \in Writers, WriteExtend(w)
  PROVE  GapsExact' /\ TopReached'
<1> DEFINE end == writer[w].pkt.off + writer[w].pkt.len
<1>1. /\ writer[w].pc = "extend"
      /\ writer' = [writer EXCEPT ![w] = [writer[w] EXCEPT !.pc = "gaps"]]
      /\ UNCHANGED <<streamDdata, readPosition, closer>>
      /\ writePosition' = end \/ writePosition' = writePosition
  BY DEF WriteExtend, WriterAt
<1>2. /\ DOMAIN writer = Writers
      /\ writer[w] \in [pc : WriterPC, pkt : Packets \cup {IdleWriter.pkt}, pos : Nat]
  BY DEF GInv, IInv, TypeOK
<1>3. /\ writer'[w].pc = "gaps"
      /\ \A v \in Writers \ {w} : writer'[v] = writer[v]
  BY <1>1, <1>2
<1>4. Reached(writePosition)'
  BY <1>1 DEF GInv, TopReached, Reached, closed, End
<1>5. ASSUME NEW v \in Writers, writer'[v].pc = "extend"
      PROVE  Reached(writer[v].pkt.off + writer[v].pkt.len)'
  <2>1. v # w /\ writer'[v] = writer[v]
    BY <1>3, <1>5
  <2>2. Reached(writer[v].pkt.off + writer[v].pkt.len)
    BY <2>1, <1>5 DEF GInv, TopReached
  <2> QED BY <2>1, <2>2, <1>1 DEF Reached, closed, End
<1>6. GapsExact'
  BY <1>3 DEF GapsExact
<1> QED BY <1>4, <1>5, <1>6 DEF TopReached

LEMMA WriteGapsGInv ==
  ASSUME GInv, IInv', NEW w \in Writers, WriteGaps(w)
  PROVE  GapsExact' /\ TopReached'
<1>1. /\ writer[w].pc = "rebuild"
      /\ writer' = [writer EXCEPT ![w] = [writer[w] EXCEPT !.pc = "ready"]]
      /\ UNCHANGED <<streamDdata, readPosition, writePosition, closer>>
      /\ gaps' = RebuiltGaps(streamDdata)
  BY DEF WriteGaps, WriterAt
<1>2. /\ DOMAIN writer = Writers
      /\ writer[w] \in [pc : WriterPC, pkt : Packets \cup {IdleWriter.pkt}, pos : Nat]
      /\ readPosition \in Nat /\ writePosition \in Nat
      /\ \A k \in DOMAIN streamDdata : End(streamDdata, k) \in Nat
  BY DEF GInv, IInv, TypeOK, Chunk, End
<1>3. \A v \in Writers : writer'[v].pc = "extend" => writer'[v] = writer[v]
  BY <1>1, <1>2
<1>4. TopReached'
  BY <1>1, <1>3 DEF GInv, TopReached, Reached, closed, End
<1>5. ASSUME ~closed, NEW b \in readPosition .. (writePosition - 1)
      PROVE  InGap(b)' <=> ~Covered(b)
  <2>1. b \in Nat /\ readPosition < writePosition /\ b < writePosition
    BY <1>2
  <2>2. PICK k \in DOMAIN streamDdata : End(streamDdata, k) >= writePosition
    BY <2>1, <1>2, <1>5 DEF GInv, TopReached, Reached, closed
  <2>3. b < End(streamDdata, k)
    BY <2>1, <2>2, <1>2
  <2>4. (\E g \in RebuiltGaps(streamDdata) : g.start <= b /\ b < g.end) <=> ~Covered(b)
    BY <2>1, <2>3, RebuiltExact DEF GInv
  <2> QED BY <2>4, <1>1 DEF InGap
<1>6. GapsExact'
  BY <1>1, <1>5 DEF GapsExact, Covered, End, closed
<1> QED BY <1>4, <1>6

LEMMA WriterGInv ==
  ASSUME GInv, IInv', NEW w \in Writers, WriteBegin(w) \/ WriteStep(w)
  PROVE  GapsExact' /\ TopReached'
<1>1. /\ DOMAIN writer = Writers
      /\ writer[w] \in [pc : WriterPC, pkt : Packets \cup {IdleWriter.pkt}, pos : Nat]
  BY DEF GInv, IInv, TypeOK
<1>2. ASSUME NEW here \in WriterPC \ {"extend", "rebuild"}, NEW there \in WriterPC \ {"extend"},
             here = "gaps" => there = "rebuild",
             WriterAt(w, here, there),
             UNCHANGED <<streamDdata, readPosition, writePosition, gaps, closer>>
      PROVE  GapsExact' /\ TopReached'
  <2>1. \A v \in Writers \ {w} : writer'[v] = writer[v]
    BY <1>1, <1>2 DEF WriterAt
  <2>2. writer[w].pc = here /\ writer'[w].pc = there
    BY <1>1, <1>2 DEF WriterAt, IdleWriter
  <2>3. \A v \in Writers :
          /\ Behind(v) => Behind(v)'
          /\ writer'[v].pc = "extend" => writer'[v] = writer[v]
    BY <2>1, <2>2, <1>2 DEF Behind, WriterPC
  <2> QED BY <2>3, <1>2, Undisturbed
<1>3. CASE WriteBegin(w)
  <2>1. /\ UNCHANGED <<streamDdata, readPosition, writePosition, gaps, closer>>
        /\ writer[w].pc = "idle" /\ writer'[w].pc = "space"
        /\ \A v \in Writers \ {w} : writer'[v] = writer[v]
    BY <1>1, <1>3 DEF WriteBegin, data
  <2>2. \A v \in Writers :
          /\ Behind(v) => Behind(v)'
          /\ writer'[v].pc = "extend" => writer'[v] = writer[v]
    BY <2>1 DEF Behind
  <2> QED BY <2>1, <2>2, Undisturbed
<1>4. CASE WriteCharge(w)
  BY <1>4, <1>2 DEF WriteCharge, WriterPC
<1>5. CASE WriteFull(w)
  BY <1>5, <1>2 DEF WriteFull, WriterPC, data
<1>6. CASE WriteRejected(w)
  BY <1>6, <1>2 DEF WriteRejected, WriterPC, data
<1>7. CASE WriteDuplicate(w)
  BY <1>7, <1>2 DEF WriteDuplicate, WriterPC, data
<1>8. CASE WriteLockGaps(w)
  BY <1>8, <1>2 DEF WriteLockGaps, WriterPC, data
<1>9. CASE WriteLook(w)
  <2>1. /\ UNCHANGED <<streamDdata, readPosition, writePosition, gaps, closer>>
        /\ writer[w].pc = "ready" /\ writer'[w].pc = "look"
        /\ \A v \in Writers \ {w} : writer'[v] = writer[v]
    BY <1>1, <1>9 DEF WriteLook, data
  <2>2. \A v \in Writers :
          /\ Behind(v) => Behind(v)'
          /\ writer'[v].pc = "extend" => writer'[v] = writer[v]
    BY <2>1 DEF Behind
  <2> QED BY <2>1, <2>2, Undisturbed
<1>10. CASE WriteProbe(w)
  <2>1. PICK there \in {"idle", "signal"} : WriterAt(w, "look", there)
    BY <1>10 DEF WriteProbe
  <2> QED BY <2>1, <1>10, <1>2 DEF WriteProbe, WriterPC, data
<1>11. CASE WriteSignal(w)
  BY <1>11, <1>2 DEF WriteSignal, WriterPC, data
<1> QED
  BY <1>3, <1>4, <1>5, <1>6, <1>7, <1>8, <1>9, <1>10, <1>11,
     WriteStoreGInv, WriteExtendGInv, WriteGapsGInv DEF WriteStep

LEMMA ReaderGInv ==
  ASSUME GInv, IInv', ReadStep \/ WaitTimeout
  PROVE  GapsExact' /\ TopReached'
<1>1. /\ readPosition \in Nat /\ reader.got.len \in Nat
      /\ DOMAIN streamDdata \subseteq Nat
      /\ \A k \in DOMAIN streamDdata : streamDdata[k] \in Chunk
  BY DEF GInv, IInv, TypeOK
<1>2. CASE UNCHANGED data /\ UNCHANGED writer
  BY <1>2, Undisturbed DEF Behind, data
<1>3. CASE ReadAdvance
  <2>1. /\ UNCHANGED <<streamDdata, writePosition, gaps, closer, writer>>
        /\ readPosition' = readPosition + reader.got.len
    BY <1>3 DEF ReadAdvance
  <2>2. /\ \A k \in DOMAIN streamDdata : End(streamDdata, k) = End(streamDdata, k)'
        /\ \A b \in Nat : (InGap(b)' <=> InGap(b)) /\ (Covered(b)' <=> Covered(b))
        /\ \A w \in Writers : Behind(w) => Behind(w)'
    BY <2>1 DEF InGap, Covered, End, Behind
  <2>3. readPosition <= readPosition'
    BY <2>1, <1>1
  <2>4. \A k \in DOMAIN streamDdata :
          \E q \in DOMAIN streamDdata' : End(streamDdata, k) = End(streamDdata', q)
    BY <2>1
  <2> QED BY <2>1, <2>2, <2>3, <2>4, Steady
<1>4. CASE ReadMark
  <2>1. /\ UNCHANGED <<readPosition, writePosition, gaps, closer, writer>>
        /\ streamDdata' = Marked(streamDdata, reader.pos + reader.got.len)
    BY <1>4 DEF ReadMark
  <2>2. /\ DOMAIN streamDdata' = DOMAIN streamDdata
        /\ \A k \in DOMAIN streamDdata : End(streamDdata', k) = End(streamDdata, k)
    BY <2>1, <1>1 DEF Marked, Chunk, End
  <2>3. \A b \in Nat : (InGap(b)' <=> InGap(b)) /\ (Covered(b)' <=> Covered(b))
    BY <2>1, <2>2 DEF InGap, Covered
  <2>4. /\ readPosition <= readPosition'
        /\ \A w \in Writers : Behind(w) => Behind(w)'
    BY <2>1, <1>1 DEF Behind
  <2>5. \A k \in DOMAIN streamDdata :
          \E q \in DOMAIN streamDdata' : End(streamDdata, k) = End(streamDdata', q)
    BY <2>2
  <2> QED BY <2>1, <2>3, <2>4, <2>5, Steady
<1> QED
  BY <1>2, <1>3, <1>4
  DEF ReadStep, WaitReady, WaitReceive, WaitReset, WaitTimeout, ReadClosed, ReadBegin, ReadNothing,
      ReadFetch, ReadRelease

(* Bytes below the snapshot of a Cleanup are behind the reader, and the    *)
(* pieces of a packet that straddle it end together.                       *)
LEMMA CleanChunksGInv ==
  ASSUME GInv, IInv', NEW c \in Cleaners, CleanChunks(c)
  PROVE  GapsExact' /\ TopReached'
<1> DEFINE pos == cleaner[c].pos
           D == DOMAIN streamDdata
           E(k) == End(streamDdata, k)
<1>1. /\ pos \in Nat /\ pos <= readPosition /\ readPosition \in Nat
      /\ D \subseteq Nat
      /\ \A k \in D : streamDdata[k].len \in Nat /\ E(k) \in Nat
  BY DEF GInv, IInv, TypeOK, CleanerOK, Chunk, End
<1>2. /\ UNCHANGED <<readPosition, writePosition, gaps, closer, writer>>
      /\ \/ /\ Partial(streamDdata, pos) = {}
            /\ streamDdata' = [k \in Kept(streamDdata, pos) |-> streamDdata[k]]
         \/ \E q \in Partial(streamDdata, pos) :
              streamDdata' = [k \in Kept(streamDdata, pos) \cup {pos} |->
                                IF k = pos THEN Split(streamDdata, q, pos) ELSE streamDdata[k]]
  BY DEF CleanChunks
<1>3. \A k, q \in D : k <= pos /\ pos < E(k) /\ q <= pos /\ pos < E(q) => E(k) = E(q)
  BY <1>1, SameEnd DEF GInv
<1> DEFINE tails ==
  \A k \in D : k <= pos /\ pos < E(k) => pos \in DOMAIN streamDdata' /\ End(streamDdata', pos) = E(k)
<1> DEFINE later == \A k \in D : k > pos => k \in DOMAIN streamDdata' /\ End(streamDdata', k) = E(k)
<1> DEFINE nothingNew ==
  \A q \in DOMAIN streamDdata' :
    \/ q > pos /\ q \in D /\ End(streamDdata', q) = E(q)
    \/ q = pos /\ \E k \in D : k <= pos /\ E(k) = End(streamDdata', q)
<1>4. tails /\ later /\ nothingNew
  <2>1. CASE /\ Partial(streamDdata, pos) = {}
             /\ streamDdata' = [k \in Kept(streamDdata, pos) |-> streamDdata[k]]
    BY <2>1, <1>1 DEF Partial, Kept, End
  <2>2. ASSUME NEW q \in Partial(streamDdata, pos),
               streamDdata' = [k \in Kept(streamDdata, pos) \cup {pos} |->
                                 IF k = pos THEN Split(streamDdata, q, pos) ELSE streamDdata[k]]
        PROVE  tails /\ later /\ nothingNew
    <3>1. q \in D /\ q < pos /\ pos < E(q)
      BY <2>2 DEF Partial
    <3>2. pos \in DOMAIN streamDdata' /\ End(streamDdata', pos) = E(q)
      BY <2>2, <3>1, <1>1 DEF Split, End
    <3>3. later
      BY <2>2, <1>1 DEF Kept, End
    <3>4. \A k \in DOMAIN streamDdata' : k = pos \/ (k > pos /\ k \in D)
      <4>1. DOMAIN streamDdata' = Kept(streamDdata, pos) \cup {pos}
        BY <2>2, Zenon
      <4>2. \A k \in Kept(streamDdata, pos) : k \in D /\ k >= pos
        BY DEF Kept
      <4>3. \A k \in D : k >= pos => k = pos \/ k > pos
        BY <1>1
      <4> QED BY <4>1, <4>2, <4>3
    <3>5. tails
      BY <3>1, <3>2, <1>1, <1>3
    <3>6. nothingNew
      BY <3>1, <3>2, <3>3, <3>4, <1>1
    <3> QED BY <3>3, <3>5, <3>6
  <2> QED BY <2>1, <2>2, <1>2
<1>5. ASSUME NEW b \in Nat, b >= readPosition PROVE Covered(b)' <=> Covered(b)
  <2>1. ASSUME NEW k \in D, k <= b, b < E(k) PROVE Covered(b)'
    <3>1. CASE k > pos
      BY <3>1, <2>1, <1>4 DEF Covered
    <3>2. CASE k <= pos
      BY <3>2, <2>1, <1>4, <1>1, <1>5 DEF Covered
    <3> QED BY <3>1, <3>2, <1>1
  <2>2. ASSUME NEW q \in DOMAIN streamDdata', q <= b, b < End(streamDdata', q) PROVE Covered(b)
    <3>1. \/ q > pos /\ q \in D /\ End(streamDdata', q) = E(q)
          \/ q = pos /\ \E k \in D : k <= pos /\ E(k) = End(streamDdata', q)
      BY <1>4, Zenon
    <3>2. CASE q \in D /\ End(streamDdata', q) = E(q)
      BY <3>2, <2>2 DEF Covered
    <3>3. CASE \E k \in D : k <= pos /\ E(k) = End(streamDdata', q)
      BY <3>3, <2>2, <1>1, <1>5 DEF Covered
    <3> QED BY <3>1, <3>2, <3>3
  <2> QED BY <2>1, <2>2 DEF Covered
<1>6. ASSUME NEW k \in D
      PROVE  E(k) <= readPosition \/ \E q \in DOMAIN streamDdata' : E(k) = End(streamDdata', q)
  BY <1>1, <1>4
<1>7. /\ readPosition <= readPosition'
      /\ \A b \in Nat : InGap(b)' <=> InGap(b)
      /\ \A w \in Writers : Behind(w) => Behind(w)'
  BY <1>1, <1>2 DEF InGap, Behind
<1>8. \A b \in Nat : b >= readPosition' => Covered(b)' <=> Covered(b)
  BY <1>2, <1>5
<1> HIDE DEF tails, later, nothingNew
<1> QED BY <1>2, <1>6, <1>7, <1>8, Steady

LEMMA CleanGapsGInv ==
  ASSUME GInv, IInv', NEW c \in Cleaners, CleanGaps(c)
  PROVE  GapsExact' /\ TopReached'
<1>1. /\ UNCHANGED <<streamDdata, readPosition, writePosition, closer, writer>>
      /\ gaps' = TrimmedGaps(gaps, cleaner[c].pos)
  BY DEF CleanGaps
<1>2. /\ cleaner[c].pos \in Nat /\ cleaner[c].pos <= readPosition /\ readPosition \in Nat
      /\ gaps \subseteq [start : Nat, end : Nat]
  BY DEF GInv, IInv, TypeOK, CleanerOK
<1>3. ASSUME NEW b \in Nat, b >= readPosition PROVE InGap(b)' <=> InGap(b)
  <2>1. ASSUME NEW g \in gaps, g.start <= b, b < g.end PROVE InGap(b)'
    <3> DEFINE h == [start |-> IF g.start < cleaner[c].pos THEN cleaner[c].pos ELSE g.start, end |-> g.end]
    <3>1. g.end \in Nat /\ g.start \in Nat /\ g.end > cleaner[c].pos
      BY <2>1, <1>2, <1>3
    <3>2. h \in gaps'
      BY <3>1, <1>1 DEF TrimmedGaps
    <3>3. h.start <= b /\ b < h.end
      BY <2>1, <3>1, <1>2, <1>3
    <3> QED BY <3>2, <3>3 DEF InGap
  <2>2. ASSUME NEW h \in gaps', h.start <= b, b < h.end PROVE InGap(b)
    <3>1. PICK g \in gaps : h = [start |-> IF g.start < cleaner[c].pos THEN cleaner[c].pos ELSE g.start,
                                  end |-> g.end]
      BY <1>1 DEF TrimmedGaps
    <3>2. g.start <= b /\ b < g.end
      BY <3>1, <2>2, <1>2
    <3> QED BY <3>2 DEF InGap
  <2> QED BY <2>1, <2>2 DEF InGap
<1>4. /\ readPosition <= readPosition'
      /\ \A b \in Nat : Covered(b)' <=> Covered(b)
      /\ \A w \in Writers : Behind(w) => Behind(w)'
      /\ \A k \in DOMAIN streamDdata :
           \E q \in DOMAIN streamDdata' : End(streamDdata, k) = End(streamDdata', q)
  BY <1>1, <1>2 DEF Covered, Behind, End
<1> QED BY <1>1, <1>3, <1>4, Steady

LEMMA CleanOldGInv ==
  ASSUME GInv, IInv', NEW c \in Cleaners, CleanOld(c)
  PROVE  GapsExact' /\ TopReached'
<1>1. /\ UNCHANGED <<readPosition, writePosition, gaps, closer, writer>>
      /\ \E S \in SUBSET {k \in DOMAIN streamDdata : End(streamDdata, k) <= readPosition} :
           streamDdata' = [k \in (DOMAIN streamDdata) \ S |-> streamDdata[k]]
  BY DEF CleanOld
<1>2. /\ DOMAIN streamDdata' \subseteq DOMAIN streamDdata
      /\ \A k \in DOMAIN streamDdata' : End(streamDdata', k) = End(streamDdata, k)
      /\ \A k \in DOMAIN streamDdata :
           End(streamDdata, k) <= readPosition \/ k \in DOMAIN streamDdata'
  BY <1>1 DEF End
<1>3. /\ readPosition \in Nat
      /\ \A k \in DOMAIN streamDdata : End(streamDdata, k) \in Nat
  BY DEF GInv, IInv, TypeOK, Chunk, End
<1>4. ASSUME NEW b \in Nat, b >= readPosition' PROVE Covered(b)' <=> Covered(b)
  BY <1>1, <1>2, <1>3, <1>4 DEF Covered
<1>5. /\ readPosition <= readPosition'
      /\ \A b \in Nat : InGap(b)' <=> InGap(b)
      /\ \A w \in Writers : Behind(w) => Behind(w)'
      /\ \A k \in DOMAIN streamDdata :
           \/ End(streamDdata, k) <= readPosition
           \/ \E q \in DOMAIN streamDdata' : End(streamDdata, k) = End(streamDdata', q)
  BY <1>1, <1>2, <1>3 DEF InGap, Behind
<1> QED BY <1>1, <1>4, <1>5, Steady

LEMMA CleanerGInv ==
  ASSUME GInv, IInv', NEW c \in Cleaners, CleanStep(c)
  PROVE  GapsExact' /\ TopReached'
<1>1. CASE UNCHANGED <<streamDdata, readPosition, writePosition, gaps, closer, writer>>
  BY <1>1, Undisturbed DEF Behind
<1> QED
  BY <1>1, CleanChunksGInv, CleanGapsGInv, CleanOldGInv
  DEF CleanStep, CleanBegin, CleanSize, CleanOldSize, CleanLockChunks, CleanOptimize, CleanProbe,
      CleanCallback, data

LEMMA NextGInv == GInv /\ [Next]_vars => GInv'
<1> SUFFICES ASSUME GInv, [Next]_vars PROVE GInv'
  OBVIOUS
<1>1. IInv'
  BY NextIInv DEF GInv
<1>2. CASE UNCHANGED vars
  BY <1>2, <1>1, Undisturbed DEF vars, data, GInv, Behind
<1>3. CASE CloseStep
  <2>1. closed'
    BY <1>3 DEF CloseStep, Close, CloseChunks, CloseGaps, CloseSize, closed
  <2> QED BY <1>1, <2>1 DEF GInv, GapsExact, TopReached, Reached
<1> QED
  BY <1>1, <1>2, <1>3, WriterGInv, ReaderGInv, CleanerGInv DEF Next, OpenNext, GInv

(* The write position stays covered by chunks or behind the reader. *)
THEOREM GapInvariance == Spec => []GInv
BY InitGInv, NextGInv, PTL DEF Spec

(* What HasGaps and GetNextGapPosition look at is right however writes,    *)
(* splits, trims and cleanups interleave: between the reader and the write *)
(* position the gaps are exactly the missing bytes, whenever no write      *)
(* stands between its chunk and its rebuild.                               *)
THEOREM GapsAreExact == Spec => []GapsExact
BY GapInvariance, PTL DEF GInv
=============================================================================
