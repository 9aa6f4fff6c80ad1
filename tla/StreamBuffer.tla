---------------------------- MODULE StreamBuffer ----------------------------
(***************************************************************************)
(* One receive buffer of the presentation layer                            *)
(* (pkg/presentation/stream_buffer.go), as the data path uses it: the      *)
(* workers of the data plane write packets in any order and more than      *)
(* once, one application goroutine loops over WaitReady and Read, and the  *)
(* maintenance tickers run PerformMaintenanceCleanup.                      *)
(*                                                                         *)
(* The buffer has a mutex per field, so an operation is a sequence of      *)
(* critical sections; each is one action here, and the pc variables hold   *)
(* where a goroutine stands between two of them.                           *)
(*                                                                         *)
(* A byte is named by the offset the peer wrote it at.  A chunk stored at  *)
(* key k holds the bytes base, base+1, ...: base = k is a property, not a  *)
(* definition.                                                             *)
(***************************************************************************)
EXTENDS Integers, FiniteSets

CONSTANTS Writers,        \* data-plane goroutines that call WriteWithMetadata
          Cleaners,       \* goroutines that call PerformMaintenanceCleanup
          Packets,        \* the segments [off, len] the peer cuts the stream in
          MaxLen,         \* the longest packet
          ReadSizes,      \* lengths of the caller's read buffer
          TotalSize,      \* capacity of the buffer
          Threshold       \* usedSize from which IsBackpressureNeeded holds

(* Retransmitted packets keep the segmentation of the first transmission.  *)
ASSUME PacketsAssumption ==
  /\ MaxLen \in Nat
  /\ Packets \subseteq [off : Nat, len : 1 .. MaxLen]
  /\ \A p, q \in Packets : p = q \/ p.off + p.len <= q.off \/ q.off + q.len <= p.off
ASSUME SizesAssumption ==
  /\ ReadSizes \subseteq Nat \ {0}
  /\ TotalSize \in Nat
  /\ Threshold \in Nat

VARIABLES
  streamDdata,     \* offset -> chunk, a function on the stored offsets
  readPosition, writePosition,
  usedSize,
  gaps,            \* set of [start, end]
  closer,          \* how far Close has come: the field it clears next
  readyCh,         \* TRUE when the one-slot channel holds its token
  hasReadySignal,
  backpressure,    \* what the last backpressureCallback asked for
  writer,          \* per writer: where it stands, the packet it writes,
                   \* its snapshot of the read position
  reader,          \* where it stands, its snapshot of the position, the
                   \* length of its buffer, the bytes it got
  lastRead,        \* the bytes the last Read returned: [base, len]
  cleaner          \* per cleaner: where it stands and its locals

data   == <<streamDdata, readPosition, writePosition, usedSize, gaps, closer>>
signal == <<readyCh, hasReadySignal>>
vars   == <<data, signal, backpressure, writer, reader, lastRead, cleaner>>

closed == closer # "open"

Bytes == UNION {p.off .. (p.off + p.len - 1) : p \in Packets}

Chunk == [base : Nat, len : 1 .. MaxLen, consumed : BOOLEAN]

-----------------------------------------------------------------------------
(* Helpers on the chunk map ch.                                            *)

End(ch, k) == k + ch[k].len

(* The chunks getContiguousDataFromPosition may pick: the one stored at    *)
(* pos, otherwise whichever containing chunk map iteration meets first.    *)
Holding(ch, pos) ==
  IF pos \in DOMAIN ch
  THEN {pos}
  ELSE {k \in DOMAIN ch : k <= pos /\ pos < End(ch, k)}

(* The sum of the lengths of the consumed chunks, counted byte by byte.    *)
ConsumedSpace(ch) ==
  Cardinality({b \in (DOMAIN ch) \X (0 .. MaxLen) :
                 ch[b[1]].consumed /\ b[2] < ch[b[1]].len})

(* The stored bytes below pos: what cleanupConsumedData reports as freed.  *)
BytesBelow(ch, pos) ==
  Cardinality({b \in (DOMAIN ch) \X (0 .. MaxLen) :
                 b[2] < ch[b[1]].len /\ b[1] + b[2] < pos})

(* Mutant: the gap before the first chunk is forgotten. *)
GapsAfterFirst(ch) ==
  {[start |-> End(ch, b[1]), end |-> b[2]] :
     b \in {b \in (DOMAIN ch) \X (DOMAIN ch) :
            End(ch, b[1]) < b[2] /\ \A q \in DOMAIN ch : q <= b[1] \/ b[2] <= q}}

(* Rebuilding the gaps from the sorted offsets: one between neighbours     *)
(* that do not touch, and one before the first chunk.                      *)
RebuiltGaps(ch) ==
  LET D == DOMAIN ch
      apart(k, n) == /\ End(ch, k) < n
                     /\ \A q \in D : q <= k \/ n <= q
  IN  {[start |-> End(ch, b[1]), end |-> b[2]] : b \in {b \in D \X D : apart(b[1], b[2])}}
        \cup {[start |-> 0, end |-> n] : n \in {n \in D : n > 0 /\ \A q \in D : n <= q}}

(* Gaps that lie before pos go, one that straddles it is cut. *)
TrimmedGaps(g, pos) ==
  {[start |-> IF h.start < pos THEN pos ELSE h.start, end |-> h.end] :
     h \in {h \in g : h.end > pos}}

(* Mutant: the subtraction without its clamp. *)
SubUnclamped(a, b) == a - b

Sub(a, b) == IF a >= b THEN a - b ELSE 0     \* uint64 "prevent underflow" clamp
-----------------------------------------------------------------------------
NoChunks == [k \in {} |-> {}]
NoBytes == [base |-> 0, len |-> 0]

IdleWriter  == [pc |-> "idle", pkt |-> [off |-> 0, len |-> 0], pos |-> 0]
IdleReader  == [pc |-> "idle", pos |-> 0, len |-> 0, got |-> NoBytes]
IdleCleaner == [pc |-> "idle", pos |-> 0, freed |-> 0, needed |-> FALSE]

-----------------------------------------------------------------------------
(* WriteWithMetadata.  A writer goes idle -> space -> store -> extend ->   *)
(* gaps -> rebuild -> ready -> look -> signal; a rejected write goes       *)
(* through full.                                                           *)

Init ==
  /\ streamDdata = NoChunks
  /\ readPosition = 0 /\ writePosition = 0 /\ usedSize = 0
  /\ gaps = {}
  /\ closer = "open"
  /\ readyCh = FALSE /\ hasReadySignal = FALSE
  /\ backpressure = FALSE
  /\ writer = [w \in Writers |-> IdleWriter]
  /\ reader = IdleReader
  /\ lastRead = NoBytes
  /\ cleaner = [c \in Cleaners |-> IdleCleaner]

(* The two mutexes that are held while another one is awaited: by a writer *)
(* that rebuilds the gaps, by a cleaner in OptimizeBuffer.                 *)
GapsFree   == \A w \in Writers : writer[w].pc # "rebuild"
ChunksFree == \A c \in Cleaners : cleaner[c].pc # "optimize"

(* Writer w moves on; a call that returns leaves nothing behind. *)
WriterAt(w, here, there) ==
  /\ writer[w].pc = here
  /\ writer' = [writer EXCEPT ![w] = IF there = "idle" THEN IdleWriter
                                     ELSE [@ EXCEPT !.pc = there]]

(* The closed check; a closed buffer refuses the write and nothing moves. *)
WriteBegin(w) ==
  /\ writer[w].pc = "idle"
  /\ ~closed
  /\ \E p \in Packets : writer' = [writer EXCEPT ![w] = [pc |-> "space", pkt |-> p, pos |-> 0]]
  /\ UNCHANGED <<data, signal, backpressure, reader, lastRead, cleaner>>

(* Mutant: any room left admits a whole packet. *)
FitsSomewhat(p) == Sub(usedSize, ConsumedSpace(streamDdata)) < TotalSize

Fits(p) == Sub(usedSize, ConsumedSpace(streamDdata)) + p.len <= TotalSize

(* sizeMutex: consumed bytes count as room, and only what they do not      *)
(* cover is charged.                                                       *)
WriteCharge(w) ==
  /\ WriterAt(w, "space", "store")
  /\ Fits(writer[w].pkt)
  /\ usedSize' = usedSize + Sub(writer[w].pkt.len, ConsumedSpace(streamDdata))
  /\ ChunksFree
  /\ UNCHANGED <<streamDdata, readPosition, writePosition, gaps, closer,
                 signal, backpressure, reader, lastRead, cleaner>>

WriteFull(w) ==
  /\ WriterAt(w, "space", "full")
  /\ ~Fits(writer[w].pkt)
  /\ ChunksFree
  /\ UNCHANGED <<data, signal, backpressure, reader, lastRead, cleaner>>

(* The callback of a rejected write runs after sizeMutex is released. *)
WriteRejected(w) ==
  /\ WriterAt(w, "full", "idle")
  /\ backpressure' = TRUE
  /\ UNCHANGED <<data, signal, reader, lastRead, cleaner>>

(* chunksMutex: a chunk already stored at this offset ends the call,       *)
(* identical or not, and the charge stays.                                 *)
WriteDuplicate(w) ==
  /\ WriterAt(w, "store", "idle")
  /\ writer[w].pkt.off \in DOMAIN streamDdata
  /\ ChunksFree
  /\ UNCHANGED <<data, signal, backpressure, reader, lastRead, cleaner>>

Stored(ch, p) ==
  [k \in DOMAIN ch \cup {p.off} |->
     IF k = p.off THEN [base |-> p.off, len |-> p.len, consumed |-> FALSE] ELSE ch[k]]

WriteStore(w) ==
  /\ WriterAt(w, "store", "extend")
  /\ writer[w].pkt.off \notin DOMAIN streamDdata
  /\ streamDdata' = Stored(streamDdata, writer[w].pkt)
  /\ ChunksFree
  /\ UNCHANGED <<readPosition, writePosition, usedSize, gaps, closer,
                 signal, backpressure, reader, lastRead, cleaner>>

WriteExtend(w) ==
  LET end == writer[w].pkt.off + writer[w].pkt.len
  IN  /\ WriterAt(w, "extend", "gaps")
      /\ writePosition' = IF end > writePosition THEN end ELSE writePosition
      /\ UNCHANGED <<streamDdata, readPosition, usedSize, gaps, closer,
                     signal, backpressure, reader, lastRead, cleaner>>

(* updateGapsAfterWrite takes gapsMutex, then rebuildGapsLocked waits for  *)
(* chunksMutex with gapsMutex held.                                        *)
WriteLockGaps(w) ==
  /\ WriterAt(w, "gaps", "rebuild")
  /\ GapsFree
  /\ UNCHANGED <<data, signal, backpressure, reader, lastRead, cleaner>>

WriteGaps(w) ==
  /\ WriterAt(w, "rebuild", "ready")
  /\ ChunksFree
  /\ gaps' = RebuiltGaps(streamDdata)
  /\ UNCHANGED <<streamDdata, readPosition, writePosition, usedSize, closer,
                 signal, backpressure, reader, lastRead, cleaner>>

(* maybeSignalReady takes the read position, which the reader may advance  *)
(* before ...                                                              *)
WriteLook(w) ==
  /\ writer[w].pc = "ready"
  /\ writer' = [writer EXCEPT ![w].pc = "look", ![w].pos = readPosition]
  /\ UNCHANGED <<data, signal, backpressure, reader, lastRead, cleaner>>

(* ... the chunks are searched for it ... *)
WriteProbe(w) ==
  /\ WriterAt(w, "look", IF Holding(streamDdata, writer[w].pos) = {} THEN "idle" ELSE "signal")
  /\ ChunksFree
  /\ UNCHANGED <<data, signal, backpressure, reader, lastRead, cleaner>>

(* ... and then, under readyMutex, sends without blocking unless a signal  *)
(* is pending already.                                                     *)
WriteSignal(w) ==
  /\ WriterAt(w, "signal", "idle")
  /\ readyCh' = (readyCh \/ ~hasReadySignal)
  /\ hasReadySignal' = TRUE
  /\ UNCHANGED <<data, backpressure, reader, lastRead, cleaner>>

-----------------------------------------------------------------------------
(* The application: WaitReady, then Read.  The reader goes idle -> [wait   *)
(* -> reset] -> open -> fetch -> advance -> mark -> [release].             *)

ReaderAt(here, there) ==
  /\ reader.pc = here
  /\ reader' = IF there = "idle" THEN IdleReader ELSE [reader EXCEPT !.pc = there]

(* The fast path of WaitReady.  Only the application moves the position    *)
(* its own call has read, so one step for the two is exact.                *)
WaitReady ==
  /\ ReaderAt("idle", IF Holding(streamDdata, readPosition) = {} THEN "wait" ELSE "open")
  /\ ChunksFree
  /\ UNCHANGED <<data, signal, backpressure, writer, lastRead, cleaner>>

WaitReceive ==
  /\ ReaderAt("wait", "reset")
  /\ readyCh
  /\ readyCh' = FALSE
  /\ UNCHANGED <<data, hasReadySignal, backpressure, writer, lastRead, cleaner>>

(* Mutant: the flag is not reset after the receive. *)
WaitKeepsFlag ==
  /\ ReaderAt("reset", "open")
  /\ UNCHANGED <<data, signal, backpressure, writer, lastRead, cleaner>>

WaitReset ==
  /\ ReaderAt("reset", "open")
  /\ hasReadySignal' = FALSE
  /\ UNCHANGED <<data, readyCh, backpressure, writer, lastRead, cleaner>>

WaitTimeout ==
  /\ ReaderAt("wait", "idle")
  /\ UNCHANGED <<data, signal, backpressure, writer, lastRead, cleaner>>

(* Close holds closeMutex to its end. *)
ReadClosed ==
  /\ ReaderAt("open", "idle")
  /\ closer = "done"
  /\ UNCHANGED <<data, signal, backpressure, writer, lastRead, cleaner>>

(* The snapshot of the read position. *)
ReadBegin ==
  /\ reader.pc = "open"
  /\ ~closed
  /\ \E n \in ReadSizes :
       reader' = [reader EXCEPT !.pc = "fetch", !.pos = readPosition, !.len = n]
  /\ UNCHANGED <<data, signal, backpressure, writer, lastRead, cleaner>>

(* Read returns (0, nil) when no chunk holds the position. *)
ReadNothing ==
  /\ ReaderAt("fetch", "idle")
  /\ Holding(streamDdata, reader.pos) = {}
  /\ ChunksFree
  /\ UNCHANGED <<data, signal, backpressure, writer, lastRead, cleaner>>

(* The bytes of one chunk only, from the snapshot position on. *)
ReadFetch ==
  /\ reader.pc = "fetch"
  /\ \E k \in Holding(streamDdata, reader.pos) :
       LET left == End(streamDdata, k) - reader.pos
           got  == [base |-> streamDdata[k].base + (reader.pos - k),
                    len  |-> IF reader.len < left THEN reader.len ELSE left]
       IN  reader' = [reader EXCEPT !.pc = "advance", !.got = got]
  /\ ChunksFree
  /\ UNCHANGED <<data, signal, backpressure, writer, lastRead, cleaner>>

ReadAdvance ==
  /\ ReaderAt("advance", "mark")
  /\ readPosition' = readPosition + reader.got.len
  /\ lastRead' = reader.got
  /\ UNCHANGED <<streamDdata, writePosition, usedSize, gaps, closer,
                 signal, backpressure, writer, cleaner>>

(* Mutant: a chunk is consumed as soon as its first byte is. *)
MarkedWhenBegun(ch, pos) ==
  [k \in DOMAIN ch |-> [ch[k] EXCEPT !.consumed = @ \/ k < pos]]

Marked(ch, pos) ==
  [k \in DOMAIN ch |-> [ch[k] EXCEPT !.consumed = @ \/ End(ch, k) <= pos]]

(* markDataAsConsumed keeps the chunks; the callback runs after the unlock *)
(* and only when some chunk was newly marked.                              *)
ReadMark ==
  /\ streamDdata' = Marked(streamDdata, reader.pos + reader.got.len)
  /\ ReaderAt("mark", IF streamDdata' = streamDdata THEN "idle" ELSE "release")
  /\ ChunksFree
  /\ UNCHANGED <<readPosition, writePosition, usedSize, gaps, closer,
                 signal, backpressure, writer, lastRead, cleaner>>

ReadRelease ==
  /\ ReaderAt("release", "idle")
  /\ backpressure' = FALSE
  /\ UNCHANGED <<data, signal, writer, lastRead, cleaner>>

-----------------------------------------------------------------------------
(* PerformMaintenanceCleanup: Cleanup, CleanupOldData, then the callback.  *)

CleanerAt(c, here, there) ==
  /\ cleaner[c].pc = here
  /\ cleaner' = [cleaner EXCEPT ![c] = IF there = "idle" THEN IdleCleaner
                                       ELSE [@ EXCEPT !.pc = there]]

CleanBegin(c) ==
  /\ cleaner[c].pc = "idle"
  /\ cleaner' = [cleaner EXCEPT ![c].pc = "chunks", ![c].pos = readPosition]
  /\ UNCHANGED <<data, signal, backpressure, writer, reader, lastRead>>

Kept(ch, pos) == {k \in DOMAIN ch : k >= pos}
Partial(ch, pos) == {k \in DOMAIN ch : k < pos /\ pos < End(ch, k)}

(* Mutant: the key moves and the bytes do not. *)
SplitKeyOnly(ch, k, pos) ==
  [base |-> ch[k].base, len |-> End(ch, k) - pos, consumed |-> ch[k].consumed]

(* The chunk at k loses its bytes below pos and moves to key pos. *)
Split(ch, k, pos) ==
  [base |-> ch[k].base + (pos - k), len |-> End(ch, k) - pos, consumed |-> ch[k].consumed]

(* cleanupConsumedData under chunksMutex.  When several chunks straddle    *)
(* pos they all move to key pos and the last one visited stays.            *)
CleanChunks(c) ==
  LET pos == cleaner[c].pos
      ch  == streamDdata
  IN  /\ cleaner[c].pc = "chunks" /\ ChunksFree
      /\ cleaner' = [cleaner EXCEPT ![c].pc = "size", ![c].freed = BytesBelow(ch, pos)]
      /\ \/ /\ Partial(ch, pos) = {}
            /\ streamDdata' = [k \in Kept(ch, pos) |-> ch[k]]
         \/ \E q \in Partial(ch, pos) :
              streamDdata' = [k \in Kept(ch, pos) \cup {pos} |->
                                IF k = pos THEN Split(ch, q, pos) ELSE ch[k]]
      /\ UNCHANGED <<readPosition, writePosition, usedSize, gaps, closer,
                     signal, backpressure, writer, reader, lastRead>>

CleanSize(c) ==
  /\ cleaner[c].pc = "size"
  /\ cleaner' = [cleaner EXCEPT ![c].pc = "gaps", ![c].freed = 0]
  /\ usedSize' = Sub(usedSize, cleaner[c].freed)
  /\ UNCHANGED <<streamDdata, readPosition, writePosition, gaps, closer,
                 signal, backpressure, writer, reader, lastRead>>

CleanGaps(c) ==
  /\ CleanerAt(c, "gaps", "old")
  /\ GapsFree
  /\ gaps' = TrimmedGaps(gaps, cleaner[c].pos)
  /\ UNCHANGED <<streamDdata, readPosition, writePosition, usedSize, closer,
                 signal, backpressure, writer, reader, lastRead>>

(* CleanupOldData drops the read chunks that are older than a minute:      *)
(* any of the read chunks, for the age is not modelled.                    *)
CleanOld(c) ==
  /\ cleaner[c].pc = "old" /\ ChunksFree
  /\ \E S \in SUBSET {k \in DOMAIN streamDdata : End(streamDdata, k) <= readPosition} :
       /\ streamDdata' = [k \in (DOMAIN streamDdata) \ S |-> streamDdata[k]]
       /\ cleaner' = [cleaner EXCEPT ![c].pc = "oldsize",
                         ![c].freed = BytesBelow([k \in S |-> streamDdata[k]], readPosition)]
  /\ UNCHANGED <<readPosition, writePosition, usedSize, gaps, closer,
                 signal, backpressure, writer, reader, lastRead>>

CleanOldSize(c) ==
  /\ cleaner[c].pc = "oldsize"
  /\ cleaner' = [cleaner EXCEPT ![c].pc = "history", ![c].freed = 0]
  /\ usedSize' = Sub(usedSize, cleaner[c].freed)
  /\ UNCHANGED <<streamDdata, readPosition, writePosition, gaps, closer,
                 signal, backpressure, writer, reader, lastRead>>

(* OptimizeBuffer takes chunksMutex, then waits for gapsMutex with it held; *)
(* it updates statistics only.                                              *)
CleanLockChunks(c) ==
  /\ CleanerAt(c, "history", "optimize")
  /\ ChunksFree
  /\ UNCHANGED <<data, signal, backpressure, writer, reader, lastRead>>

CleanOptimize(c) ==
  /\ CleanerAt(c, "optimize", "probe")
  /\ GapsFree
  /\ UNCHANGED <<data, signal, backpressure, writer, reader, lastRead>>

(* IsBackpressureNeeded, and the callback it decides. *)
CleanProbe(c) ==
  /\ cleaner[c].pc = "probe"
  /\ ChunksFree /\ GapsFree
  /\ cleaner' = [cleaner EXCEPT ![c].pc = "call", ![c].needed = usedSize >= Threshold]
  /\ UNCHANGED <<data, signal, backpressure, writer, reader, lastRead>>

(* Mutant: the maintenance raises backpressure and never withdraws it. *)
CleanCallbackRaises(c) ==
  /\ CleanerAt(c, "call", "idle")
  /\ backpressure' = (backpressure \/ cleaner[c].needed)
  /\ UNCHANGED <<data, signal, writer, reader, lastRead>>

CleanCallback(c) ==
  /\ CleanerAt(c, "call", "idle")
  /\ backpressure' = cleaner[c].needed
  /\ UNCHANGED <<data, signal, writer, reader, lastRead>>

-----------------------------------------------------------------------------
(* RemoveStreamBuffer closes the buffer, which clears one field after the  *)
(* other, each under its own mutex; operations under way go on.            *)
Close ==
  /\ ~closed
  /\ closer' = "chunks"
  /\ UNCHANGED <<streamDdata, readPosition, writePosition, usedSize, gaps,
                 signal, backpressure, writer, reader, lastRead, cleaner>>

CloseChunks ==
  /\ closer = "chunks" /\ ChunksFree
  /\ closer' = "gaps"
  /\ streamDdata' = NoChunks
  /\ UNCHANGED <<readPosition, writePosition, usedSize, gaps,
                 signal, backpressure, writer, reader, lastRead, cleaner>>

CloseGaps ==
  /\ closer = "gaps" /\ GapsFree
  /\ closer' = "size"
  /\ gaps' = {}
  /\ UNCHANGED <<streamDdata, readPosition, writePosition, usedSize,
                 signal, backpressure, writer, reader, lastRead, cleaner>>

CloseSize ==
  /\ closer = "size"
  /\ closer' = "done"
  /\ usedSize' = 0
  /\ UNCHANGED <<streamDdata, readPosition, writePosition, gaps,
                 signal, backpressure, writer, reader, lastRead, cleaner>>

CloseStep == Close \/ CloseChunks \/ CloseGaps \/ CloseSize

WriteStep(w) ==
  \/ WriteCharge(w) \/ WriteFull(w) \/ WriteRejected(w) \/ WriteDuplicate(w)
  \/ WriteStore(w) \/ WriteExtend(w) \/ WriteLockGaps(w) \/ WriteGaps(w)
  \/ WriteLook(w) \/ WriteProbe(w) \/ WriteSignal(w)

ReadStep ==
  \/ WaitReady \/ WaitReceive \/ WaitReset \/ ReadClosed \/ ReadBegin
  \/ ReadNothing \/ ReadFetch \/ ReadAdvance \/ ReadMark \/ ReadRelease

CleanStep(c) ==
  \/ CleanBegin(c) \/ CleanChunks(c) \/ CleanSize(c) \/ CleanGaps(c) \/ CleanOld(c)
  \/ CleanOldSize(c) \/ CleanLockChunks(c) \/ CleanOptimize(c) \/ CleanProbe(c) \/ CleanCallback(c)

OpenNext ==
  \/ \E w \in Writers : WriteBegin(w) \/ WriteStep(w)
  \/ ReadStep \/ WaitTimeout
  \/ \E c \in Cleaners : CleanStep(c)

Next == OpenNext \/ CloseStep

(* A call that has begun goes on to its end, the application keeps         *)
(* reading, and the maintenance ticker keeps ticking.  Nothing is assumed  *)
(* of new packets or of the timeout of WaitReady.  Fairness is             *)
(* strong because a mutex others keep taking is free again and again, not  *)
(* for good, and Go's mutexes starve nobody.                               *)
Fairness ==
  /\ \A w \in Writers : SF_vars(WriteStep(w))
  /\ SF_vars(ReadStep)
  /\ \A c \in Cleaners : SF_vars(CleanStep(c))

Spec == Init /\ [][Next]_vars
(* The stream is not removed, and every goroutine gets its turn. *)
LiveSpec == Init /\ [][OpenNext]_vars /\ Fairness

-----------------------------------------------------------------------------
(* Properties.                                                             *)

WriterPC == {"idle", "space", "full", "store", "extend", "gaps", "rebuild",
             "ready", "look", "signal"}
CloserPC == {"open", "chunks", "gaps", "size", "done"}
ReaderPC == {"idle", "wait", "reset", "open", "fetch", "advance", "mark", "release"}
CleanerPC == {"idle", "chunks", "size", "gaps", "old", "oldsize", "history",
              "optimize", "probe", "call"}

(* The bytes read, stored, or in the hands of a Read. *)
Received ==
  {b \in Bytes :
     \/ b < readPosition
     \/ \E k \in DOMAIN streamDdata : k <= b /\ b < End(streamDdata, k)
     \/ /\ reader.pc = "advance"
        /\ reader.pos <= b /\ b < reader.pos + reader.got.len}

(* The shape of the state; every chunk key is an offset and no chunk is    *)
(* empty.                                                                  *)
TypeOK ==
  /\ DOMAIN streamDdata \subseteq Nat
  /\ streamDdata \in [DOMAIN streamDdata -> Chunk]
  /\ readPosition \in Nat /\ writePosition \in Nat /\ usedSize \in Nat
  /\ gaps \subseteq [start : Nat, end : Nat]
  /\ closer \in CloserPC /\ readyCh \in BOOLEAN /\ hasReadySignal \in BOOLEAN
  /\ backpressure \in BOOLEAN
  /\ writer \in [Writers -> [pc : WriterPC, pkt : Packets \cup {IdleWriter.pkt},
                         pos : Nat]]
  /\ \A w \in Writers : writer[w].pc # "idle" => writer[w].pkt \in Packets
  /\ reader \in [pc : ReaderPC, pos : Nat, len : Nat, got : [base : Nat, len : Nat]]
  /\ lastRead \in [base : Nat, len : Nat]
  /\ cleaner \in [Cleaners -> [pc : CleanerPC, pos : Nat, freed : Nat, needed : BOOLEAN]]

(* usedSize never exceeds the capacity, so that AvailableCapacity          *)
(* (GetBufferUsage) never wraps around below zero, whatever duplicates,    *)
(* cleanups and reads come between the check and the charge.               *)
UsedWithinTotal == usedSize <= TotalSize

(* Room is only made out of bytes the application has read: a chunk marked *)
(* consumed lies wholly below the read position, also after a split.       *)
ConsumedIsRead ==
  \A k \in DOMAIN streamDdata :
    streamDdata[k].consumed => End(streamDdata, k) <= readPosition

(* Writer w will look at the present read position, or signal anyway. *)
WillWake(w) ==
  \/ writer[w].pc \in {"extend", "gaps", "rebuild", "ready", "signal"}
  \/ writer[w].pc = "look" /\ writer[w].pos = readPosition

(* A reader that waits while the byte it wants is stored has its token in  *)
(* the channel, unless the writer of some chunk is still on its way        *)
(* through maybeSignalReady with the position the reader waits at: neither *)
(* the reset of hasReadySignal after the receive nor a look at a position  *)
(* the reader has left loses a wake-up.                                    *)
NoLostWakeup ==
  /\ reader.pc = "wait"
  /\ Holding(streamDdata, readPosition) # {}
  /\ \A w \in Writers : ~WillWake(w)
  => readyCh

InGap(b) == \E g \in gaps : g.start <= b /\ b < g.end

(* Between the read and the write position the gap map tells exactly which *)
(* bytes are missing, once no write stands between its chunk and its gaps. *)
GapsExact ==
  /\ ~closed
  /\ \A w \in Writers : writer[w].pc \notin {"extend", "gaps", "rebuild"}
  => \A b \in readPosition .. (writePosition - 1) :
       InGap(b) <=> ~\E k \in DOMAIN streamDdata : k <= b /\ b < End(streamDdata, k)

(* The lock cycle of a write and OptimizeBuffer. *)
LockCycle ==
  /\ \E w \in Writers : writer[w].pc = "rebuild"
  /\ \E c \in Cleaners : cleaner[c].pc = "optimize"

(* No write rebuilding the gaps and no maintenance in OptimizeBuffer wait  *)
(* for each other's mutex ("un flux de donnees continu sans blocages").    *)
NoLockCycle == ~LockCycle

Quiet ==
  /\ \A w \in Writers : writer[w].pc = "idle"
  /\ \A c \in Cleaners : cleaner[c].pc = "idle"
  /\ ~closed

(* A duplicate is ignored: a buffer that holds nothing, with no operation  *)
(* under way, charges nothing.                                             *)
DrainedIsFree == Quiet /\ streamDdata = NoChunks => usedSize = 0

(* Once every byte up to b is stored, the application gets past b without  *)
(* the help of a timeout, unless the locks cycle.                          *)
EventuallyRead ==
  \A b \in Bytes :
    (0 .. b \subseteq Received) ~> (readPosition > b \/ LockCycle)

(* A backpressure request that came after the drain it should have         *)
(* preceded does not stay: with usage below the threshold the maintenance  *)
(* withdraws it.                                                           *)
BackpressureWithdrawn ==
  (backpressure /\ usedSize < Threshold) ~> (~backpressure \/ usedSize >= Threshold \/ LockCycle)

(* The buffer implements the in-order stream.                              *)
InOrder == INSTANCE InOrderStream
             WITH received <- Received, next <- readPosition, out <- lastRead

ImplementsInOrderStream == InOrder!Spec
=============================================================================
