------------------------- MODULE PresentationProofs -------------------------
(***************************************************************************)
(* Theorems about the presentation layer, for any number of goroutines,    *)
(* streams and reservations and any sizes: first the sums, then the        *)
(* receive window and the backpressure manager on their own, then the      *)
(* layer, whose steps are steps of the two or leave them alone.            *)
(***************************************************************************)
EXTENDS Presentation, FiniteSetTheorems, FunctionTheorems, TLAPS

---------------------------------------------------------------------------
(* The inductive invariants.                                               *)

(* Only a call that has given its allocation back carries bytes with it.   *)
CarriedBySpace == \A t \in Threads : WindowPC(t) # "space" => windowAt[t].size = 0

WInv == WindowTypeOK /\ UsedWithinWindow /\ UsedIsAllocated /\ CarriedBySpace

(* What lowers the global flag holds streamMutex, so it is one call, and   *)
(* the low ratio it has seen is still there.                               *)
LoweredWhenLow ==
  /\ \A t \in Threads : callAt[t] = "lower" => Low(streamBackpressure)
  /\ \A t, u \in Threads : callAt[t] = "lower" /\ callAt[u] = "lower" => t = u

BInv == BackpressureTypeOK /\ LoweredWhenLow

(* A goroutine at work for a stream has one, and a creation asks for a     *)
(* buffer that is not empty.                                               *)
ForStream == {"create", "measure", "fit", "allocate", "commit", "giveback",
              "rollback", "release", "lower", "using", "consumed", "reclaim"}
Sizing == {"create", "measure", "fit", "allocate"}
LocalsOK ==
  /\ \A t \in Threads : PC(t) \in ForStream => thread[t].stream \in Streams
  /\ \A t \in Threads : PC(t) \in Sizing => thread[t].size > 0

(* buffersMutex excludes, ... *)
OneHolder ==
  \A t, u \in Threads : PC(t) \in HoldingBuffers /\ PC(u) \in HoldingBuffers => t = u

(* ... so that a stream whose window is on its way back stays without a    *)
(* buffer.                                                                 *)
Emptied ==
  \A t \in Threads : PC(t) \in {"rollback", "release"} => streamBuffers[thread[t].stream] = 0

(* A goroutine goes on when its call into the window has returned.         *)
WindowCallers == {"lower", "rolledback", "collect", "returning"}
CallerWaits == \A t \in Threads : WindowPC(t) # "idle" => PC(t) \in WindowCallers

ThreadRecord == [pc : ThreadPC, stream : Streams \cup {0}, id : ReservationIds \cup {0},
                 size : Nat, avail : Nat, orphans : SUBSET Streams]

LayerTypeOK ==
  /\ streamBuffers \in [Streams -> Nat]
  /\ reservations \in [ReservationIds -> Nat]
  /\ thread \in [Threads -> ThreadRecord]

PInv == LayerTypeOK /\ LocalsOK /\ OneHolder /\ Emptied /\ CallerWaits

IInv == WInv /\ BInv /\ PInv

(* What the three action properties say of a step.                         *)
OrphanStep ==
  \A s \in Streams : Orphaned(s)' => \/ Orphaned(s)
    \/ \E t \in Threads : /\ PC(t) \in {"release", "rollback"} /\ thread[t].stream = s
                          /\ thread[t].size # streamAllocations[s]
KeptStep ==
  \A s \in Streams :
    streamBuffers[s] > 0 /\ streamBuffers'[s] > 0 /\ streamAllocations'[s] < streamAllocations[s]
      => \E t \in Threads : PC(t) = "reclaim" /\ thread[t].stream = s
RaiseStep == Unraised' => Unraised \/ Forgetting

Preserved == IInv' /\ OrphanStep /\ KeptStep /\ RaiseStep

---------------------------------------------------------------------------
(* Sums.                                                                   *)

LEMMA ColumnCardinality ==
  ASSUME NEW x, NEW n \in Nat
  PROVE  IsFiniteSet({x} \X (1 .. n)) /\ Cardinality({x} \X (1 .. n)) = n
  <1>1. IsFiniteSet(1 .. n) /\ Cardinality(1 .. n) = n
    BY FS_Interval
  <1>2. IsFiniteSet({x}) /\ Cardinality({x}) = 1
    BY FS_Singleton
  <1>3. /\ IsFiniteSet({x} \X (1 .. n))
        /\ Cardinality({x} \X (1 .. n)) = Cardinality({x}) * Cardinality(1 .. n)
    BY <1>1, <1>2, FS_Product
  <1> QED
    BY <1>1, <1>2, <1>3

LEMMA UnitsFinite ==
  ASSUME NEW D, IsFiniteSet(D), NEW f \in [D -> Nat]
  PROVE  IsFiniteSet(Units(f))
  <1> DEFINE C == {{x} \X (1 .. f[x]) : x \in D}
             g == [x \in D |-> {x} \X (1 .. f[x])]
  <1>1. g \in Surjection(D, C)
    BY DEF Surjection
  <1>2. IsFiniteSet(C)
    BY <1>1, FS_Surjection
  <1>3. \A T \in C : IsFiniteSet(T)
    <2>1. ASSUME NEW x \in D PROVE IsFiniteSet({x} \X (1 .. f[x]))
      <3>1. f[x] \in Nat
        OBVIOUS
      <3> QED
        BY <3>1, ColumnCardinality
    <2> QED
      BY <2>1
  <1>4. IsFiniteSet(UNION C)
    <2> HIDE DEF C
    <2> QED
      BY <1>2, <1>3, FS_UNION
  <1> QED
    BY <1>4 DEF Units

(* A sum is a number, ... *)
LEMMA TotalType ==
  ASSUME NEW D, IsFiniteSet(D), NEW f \in [D -> Nat]
  PROVE  Total(f) \in Nat
  BY UnitsFinite, FS_CardinalityType DEF Total

(* ... and changes by what one of its summands does.                       *)
LEMMA TotalExcept ==
  ASSUME NEW D, IsFiniteSet(D), NEW f \in [D -> Nat], NEW x \in D, NEW n \in Nat
  PROVE  Total([f EXCEPT ![x] = n]) = Total(f) - f[x] + n
  <1> DEFINE g == [f EXCEPT ![x] = n]
             h == [y \in D \ {x} |-> f[y]]
  <1>0. IsFiniteSet(D \ {x}) /\ h \in [D \ {x} -> Nat]
    BY FS_RemoveElement
  <1>1. IsFiniteSet(Units(h))
    BY <1>0, UnitsFinite
  <1>2. Units(f) = Units(h) \cup ({x} \X (1 .. f[x]))
    BY DEF Units
  <1>3. Units(g) = Units(h) \cup ({x} \X (1 .. n))
    <2>1. \A y \in D \ {x} : g[y] = h[y]
      OBVIOUS
    <2>2. g[x] = n /\ DOMAIN g = D /\ DOMAIN h = D \ {x}
      OBVIOUS
    <2> HIDE DEF g, h
    <2> QED
      BY <2>1, <2>2 DEF Units
  <1>4. \A k \in Nat : Units(h) \cap ({x} \X (1 .. k)) = {}
    BY DEF Units
  <1>5. \A k \in Nat : Cardinality(Units(h) \cup ({x} \X (1 .. k))) = Cardinality(Units(h)) + k
    <2> TAKE k \in Nat
    <2>1. IsFiniteSet({x} \X (1 .. k)) /\ Cardinality({x} \X (1 .. k)) = k
      BY ColumnCardinality
    <2> DEFINE U == Units(h)
               C == {x} \X (1 .. k)
    <2>2. U \cap C = {}
      BY <1>4
    <2> HIDE DEF U, C
    <2>3. Cardinality(U \cup C) = Cardinality(U) + Cardinality(C) - Cardinality(U \cap C)
      BY <1>1, <2>1, FS_Union DEF U, C
    <2>4. Cardinality(U) \in Nat /\ Cardinality(U \cap C) = 0
      BY <1>1, <2>2, FS_EmptySet, FS_CardinalityType DEF U
    <2>5. Cardinality(U \cup C) = Cardinality(U) + k
      BY <2>1, <2>3, <2>4 DEF C
    <2> QED
      BY <2>5 DEF U, C
  <1>6. Cardinality(Units(h)) \in Nat
    BY <1>1, FS_CardinalityType
  <1>7. Total(f) = Cardinality(Units(h)) + f[x] /\ Total(g) = Cardinality(Units(h)) + n
    BY <1>2, <1>3, <1>5 DEF Total
  <1> QED
    BY <1>6, <1>7

---------------------------------------------------------------------------
(* The receive window.                                                     *)

Carried == [t \in Threads |-> windowAt[t].size]
WindowRecord == [pc : WindowPlaces, size : Nat]

LEMMA WindowSums ==
  ASSUME WindowTypeOK
  PROVE  Total(streamAllocations) \in Nat /\ Total(Carried) \in Nat
  <1>1. streamAllocations \in [Streams -> Nat] /\ Carried \in [Threads -> Nat]
    BY DEF WindowTypeOK, Carried
  <1>2. IsFiniteSet(Streams) /\ IsFiniteSet(Threads)
    BY PresentationAssumption
  <1> QED
    BY <1>1, <1>2, TotalType

LEMMA CarriedChange ==
  ASSUME WindowTypeOK, NEW t \in Threads, NEW r \in WindowRecord,
         windowAt' = [windowAt EXCEPT ![t] = r]
  PROVE  Total(Carried)' = Total(Carried) - windowAt[t].size + r.size
  <1>1. windowAt \in [Threads -> WindowRecord]
    BY DEF WindowTypeOK, WindowRecord
  <1>2. Carried \in [Threads -> Nat] /\ r.size \in Nat
    BY <1>1 DEF Carried, WindowRecord
  <1>3. Carried' = [Carried EXCEPT ![t] = r.size]
    BY <1>1 DEF Carried
  <1>4. IsFiniteSet(Threads)
    BY PresentationAssumption
  <1>5. Total([Carried EXCEPT ![t] = r.size]) = Total(Carried) - Carried[t] + r.size
    BY <1>2, <1>4, TotalExcept
  <1>6. Carried[t] = windowAt[t].size
    BY DEF Carried
  <1> QED
    BY <1>3, <1>5, <1>6

(* A step in which one call moves keeps the invariant if it does not use   *)
(* more than it adds to the allocations and to what it carries.            *)
LEMMA WindowStepInv ==
  ASSUME WInv, NEW t \in Threads, NEW r \in WindowRecord,
         windowAt' = [windowAt EXCEPT ![t] = r],
         r.pc # "space" => r.size = 0,
         totalSize' \in Nat, usedSize' \in Nat, usedSize' <= totalSize',
         streamAllocations' \in [Streams -> Nat], isBackpressureActive' \in BOOLEAN,
         usedSize' - usedSize <= Total(streamAllocations') - Total(streamAllocations)
                                   + r.size - windowAt[t].size
  PROVE  WInv'
  <1>1. WindowTypeOK
    BY DEF WInv
  <1>2. windowAt \in [Threads -> WindowRecord] /\ windowAt[t].size \in Nat /\ usedSize \in Nat
    BY <1>1 DEF WindowTypeOK, WindowRecord
  <1>3. WindowTypeOK'
    BY <1>2 DEF WindowTypeOK, WindowRecord
  <1>4. UsedWithinWindow'
    BY DEF UsedWithinWindow
  <1>5. CarriedBySpace'
    BY <1>2 DEF WInv, CarriedBySpace, WindowPC
  <1>6. UsedIsAllocated'
    <2>1. usedSize <= Total(streamAllocations) + Total(Carried)
      BY DEF WInv, UsedIsAllocated, Carried
    <2>2. Total(Carried)' = Total(Carried) - windowAt[t].size + r.size
      BY <1>1, CarriedChange
    <2>3. Total(streamAllocations) \in Nat /\ Total(Carried) \in Nat
      BY <1>1, WindowSums
    <2>4. Total(streamAllocations') \in Nat
      BY PresentationAssumption, TotalType
    <2>5. r.size \in Nat
      BY DEF WindowRecord
    <2>6. usedSize' <= Total(streamAllocations') + Total(Carried)'
      BY <1>2, <2>1, <2>2, <2>3, <2>4, <2>5
    <2> QED
      BY <2>6 DEF UsedIsAllocated, Carried
  <1> QED
    BY <1>3, <1>4, <1>5, <1>6 DEF WInv

LEMMA AllocateInv ==
  ASSUME WInv, NEW s \in Streams, NEW n \in Nat, Allocate(s, n)
  PROVE  WInv'
  <1> USE DEF Allocate
  <1>0. IsFiniteSet(Streams)
    BY PresentationAssumption
  <1>1. WindowTypeOK /\ streamAllocations \in [Streams -> Nat] /\ usedSize \in Nat
    BY DEF WInv, WindowTypeOK
  <1>2. WindowTypeOK'
    BY <1>1 DEF WindowTypeOK, Full
  <1>3. UsedWithinWindow'
    BY DEF Free, UsedWithinWindow
  <1>4. CarriedBySpace'
    BY DEF WInv, CarriedBySpace, WindowPC
  <1>5. UsedIsAllocated'
    <2> DEFINE k == streamAllocations[s] + n
    <2>1. k \in Nat /\ streamAllocations[s] \in Nat
      BY <1>1
    <2>2. streamAllocations' = [streamAllocations EXCEPT ![s] = k]
      BY <1>1
    <2> HIDE DEF k
    <2>3. Total([streamAllocations EXCEPT ![s] = k])
            = Total(streamAllocations) - streamAllocations[s] + k
      BY <1>0, <1>1, <2>1, TotalExcept
    <2>4. Total(streamAllocations) \in Nat /\ Total(Carried) \in Nat
      BY <1>1, WindowSums
    <2>5. Total(streamAllocations') = Total(streamAllocations) + n
      BY <2>1, <2>2, <2>3, <2>4 DEF k
    <2>6. Carried' = Carried
      BY DEF Carried
    <2>7. usedSize <= Total(streamAllocations) + Total(Carried)
      BY DEF WInv, UsedIsAllocated, Carried
    <2>8. usedSize' <= Total(streamAllocations') + Total(Carried')
      BY <1>1, <2>4, <2>5, <2>6, <2>7
    <2> QED
      BY <2>8 DEF UsedIsAllocated, Carried
  <1> QED
    BY <1>2, <1>3, <1>4, <1>5 DEF WInv

LEMMA AllocateRefusedInv ==
  ASSUME WInv, NEW s, NEW n, AllocateRefused(s, n)
  PROVE  WInv'
  <1> USE DEF AllocateRefused, WInv
  <1>1. WindowTypeOK'
    BY DEF WindowTypeOK, AtStreamLimit
  <1>2. UsedWithinWindow' /\ CarriedBySpace'
    BY DEF UsedWithinWindow, CarriedBySpace, WindowPC
  <1>3. UsedIsAllocated'
    BY DEF UsedIsAllocated
  <1> QED
    BY <1>1, <1>2, <1>3

LEMMA ReleaseAllocationInv ==
  ASSUME WInv, NEW t \in Threads, NEW s \in Streams, NEW n \in Nat, ReleaseAllocation(t, s, n)
  PROVE  WInv'
  <1> USE DEF ReleaseAllocation
  <1>0. IsFiniteSet(Streams)
    BY PresentationAssumption
  <1>1. /\ WindowTypeOK /\ streamAllocations \in [Streams -> Nat]
        /\ usedSize \in Nat /\ totalSize \in Nat /\ usedSize <= totalSize
        /\ isBackpressureActive \in BOOLEAN
    BY DEF WInv, WindowTypeOK, UsedWithinWindow
  <1>2. windowAt[t].size = 0
    BY DEF WInv, CarriedBySpace
  <1>3. CASE n <= streamAllocations[s] /\ streamAllocations[s] > 0
    <2> DEFINE k == streamAllocations[s] - n
               r == [pc |-> "space", size |-> n]
    <2>1. k \in Nat /\ streamAllocations[s] \in Nat
      BY <1>1, <1>3
    <2>2. streamAllocations' = [streamAllocations EXCEPT ![s] = k]
      BY <1>1, <1>3
    <2>3. streamAllocations' \in [Streams -> Nat]
      BY <1>1, <2>1, <2>2
    <2>4. r \in WindowRecord /\ r.size = n /\ r.pc = "space"
      BY DEF WindowRecord, WindowPlaces
    <2>5. windowAt' = [windowAt EXCEPT ![t] = r]
      BY <1>3
    <2> HIDE DEF k, r
    <2>6. Total([streamAllocations EXCEPT ![s] = k])
            = Total(streamAllocations) - streamAllocations[s] + k
      BY <1>0, <1>1, <2>1, TotalExcept
    <2>7. Total(streamAllocations) \in Nat
      BY <1>1, WindowSums
    <2>8. usedSize' - usedSize <= Total(streamAllocations') - Total(streamAllocations)
                                    + r.size - windowAt[t].size
      BY <1>1, <1>2, <2>1, <2>2, <2>4, <2>6, <2>7 DEF k
    <2> QED
      BY <1>1, <2>3, <2>4, <2>5, <2>8, WindowStepInv
  <1>4. CASE ~(n <= streamAllocations[s] /\ streamAllocations[s] > 0)
    <2> USE <1>4 DEF WInv
    <2>1. WindowTypeOK'
      BY DEF WindowTypeOK
    <2>2. UsedWithinWindow' /\ CarriedBySpace'
      BY DEF UsedWithinWindow, CarriedBySpace, WindowPC
    <2>3. UsedIsAllocated'
      BY DEF UsedIsAllocated
    <2> QED
      BY <2>1, <2>2, <2>3
  <1> QED
    BY <1>3, <1>4

(* The inside of a call that carries nothing and uses nothing more.        *)
LEMMA QuietStepInv ==
  ASSUME WInv, NEW t \in Threads, NEW q \in WindowPlaces \ {"space"}, GoTo(t, q),
         WindowPC(t) # "space", totalSize' \in Nat, usedSize' \in Nat,
         usedSize' <= usedSize, usedSize' <= totalSize',
         UNCHANGED streamAllocations, isBackpressureActive' \in BOOLEAN
  PROVE  WInv'
  <1> DEFINE r == IF q = "idle" THEN WindowIdle ELSE [windowAt[t] EXCEPT !.pc = q]
  <1>1. WindowTypeOK /\ windowAt[t] \in WindowRecord
    BY DEF WInv, WindowTypeOK, WindowRecord
  <1>2. windowAt[t].size = 0
    BY DEF WInv, CarriedBySpace
  <1>3. r \in WindowRecord /\ r.size = 0
    BY <1>1, <1>2 DEF WindowRecord, WindowIdle, WindowPlaces
  <1>4. windowAt' = [windowAt EXCEPT ![t] = r]
    BY DEF GoTo
  <1>5. streamAllocations' \in [Streams -> Nat] /\ usedSize \in Nat
    BY <1>1 DEF WindowTypeOK
  <1>6. Total(streamAllocations) \in Nat
    BY <1>1, WindowSums
  <1> HIDE DEF r
  <1>7. usedSize' - usedSize <= Total(streamAllocations') - Total(streamAllocations)
                                  + r.size - windowAt[t].size
    BY <1>2, <1>3, <1>5, <1>6
  <1> QED
    BY <1>3, <1>4, <1>5, <1>7, WindowStepInv

LEMMA WindowFacts ==
  ASSUME WInv
  PROVE  /\ totalSize \in Nat /\ usedSize \in Nat /\ usedSize <= totalSize
         /\ isBackpressureActive \in BOOLEAN
         /\ windowAt \in [Threads -> WindowRecord]
         /\ streamAllocations \in [Streams -> Nat]
  BY DEF WInv, WindowTypeOK, WindowRecord, UsedWithinWindow

LEMMA LessBounded ==
  ASSUME NEW a \in Nat, NEW b \in Nat
  PROVE  Less(a, b) \in Nat /\ Less(a, b) <= a /\ a - b <= Less(a, b)
  BY DEF Less

LEMMA ReleaseSpaceInv ==
  ASSUME WInv, NEW t \in Threads, ReleaseSpace(t)
  PROVE  WInv'
  <1> USE DEF ReleaseSpace
  <1> DEFINE r == [pc |-> "probe", size |-> 0]
             n == windowAt[t].size
  <1>1. /\ n \in Nat /\ totalSize \in Nat /\ usedSize \in Nat /\ usedSize <= totalSize
        /\ isBackpressureActive \in BOOLEAN /\ streamAllocations \in [Streams -> Nat]
    BY WindowFacts DEF WindowRecord
  <1>2. r \in WindowRecord /\ r.size = 0 /\ windowAt' = [windowAt EXCEPT ![t] = r]
    BY DEF WindowRecord, WindowPlaces
  <1>3. usedSize' \in Nat /\ usedSize' <= usedSize /\ usedSize' = Less(usedSize, n)
    BY <1>1, LessBounded
  <1>4. UsedIsAllocated'
    <2>1. usedSize <= Total(streamAllocations) + Total(Carried)
      BY DEF WInv, UsedIsAllocated, Carried
    <2>2. Total(Carried)' = Total(Carried) - n + 0
      BY <1>2, CarriedChange DEF WInv
    <2>3. /\ Total(streamAllocations) \in Nat /\ Total(Carried) \in Nat
          /\ Total(Carried)' \in Nat
      <3>1. [t_1 \in Threads |-> windowAt'[t_1].size] \in [Threads -> Nat]
        BY <1>2, WindowFacts DEF WindowRecord
      <3>2. Total(Carried)' \in Nat
        BY <3>1, TotalType, PresentationAssumption DEF Carried
      <3> QED
        BY <3>2, WindowSums DEF WInv
    <2>4. usedSize' <= Total(streamAllocations') + Total(Carried)'
      <3>1. CASE usedSize >= n
        <4>1. usedSize' = usedSize - n
          BY <1>3, <3>1 DEF Less
        <4> QED
          BY <1>1, <2>1, <2>2, <2>3, <4>1
      <3>2. CASE ~(usedSize >= n)
        <4>1. usedSize' = 0
          BY <1>3, <3>2 DEF Less
        <4> QED
          BY <2>3, <4>1
      <3> QED
        BY <3>1, <3>2
    <2> QED
      BY <2>4 DEF UsedIsAllocated, Carried
  <1>5. WindowTypeOK'
    BY <1>1, <1>2, <1>3, WindowFacts DEF WindowTypeOK, WindowRecord
  <1>6. UsedWithinWindow'
    BY <1>1, <1>3 DEF UsedWithinWindow
  <1>7. CarriedBySpace'
    BY <1>2, WindowFacts DEF WInv, CarriedBySpace, WindowPC
  <1> QED
    BY <1>4, <1>5, <1>6, <1>7 DEF WInv

LEMMA ProbeInv ==
  ASSUME WInv, NEW t \in Threads, Probe(t)
  PROVE  WInv'
  <1> DEFINE q == CASE Full(usedSize, totalSize) -> "idle"
                    [] WindowPC(t) = "probe"     -> "clear"
                    [] OTHER                     -> "slideclear"
  <1>1. q \in WindowPlaces \ {"space"} /\ GoTo(t, q) /\ WindowPC(t) # "space"
    <2>1. q \in {"idle", "clear", "slideclear"}
      OBVIOUS
    <2> HIDE DEF q
    <2> QED
      BY <2>1 DEF Probe, WindowPlaces, q
  <1> HIDE DEF q
  <1>2. UNCHANGED <<totalSize, usedSize, streamAllocations, isBackpressureActive>>
    BY DEF Probe
  <1> QED
    BY <1>1, <1>2, WindowFacts, QuietStepInv

LEMMA ClearInv ==
  ASSUME WInv, NEW t \in Threads, Clear(t)
  PROVE  WInv'
  <1>1. "idle" \in WindowPlaces \ {"space"} /\ GoTo(t, "idle") /\ WindowPC(t) # "space"
    BY DEF Clear, WindowPlaces
  <1>2. /\ UNCHANGED <<totalSize, usedSize, streamAllocations>>
        /\ isBackpressureActive' \in BOOLEAN
    BY DEF Clear
  <1> QED
    BY <1>1, <1>2, WindowFacts, QuietStepInv

LEMMA SlideInv ==
  ASSUME WInv, NEW t \in Threads, NEW n \in Nat, Slide(t, n), WindowPC(t) # "space"
  PROVE  WInv'
  <1> DEFINE q == IF usedSize >= totalSize /\ usedSize' < totalSize THEN "slideprobe" ELSE "idle"
  <1>1. q \in WindowPlaces \ {"space"} /\ GoTo(t, q)
    <2>1. q \in {"idle", "slideprobe"}
      OBVIOUS
    <2> HIDE DEF q
    <2> QED
      BY <2>1 DEF Slide, WindowPlaces, q
  <1> HIDE DEF q
  <1>2. UNCHANGED <<totalSize, streamAllocations, isBackpressureActive>>
    BY DEF Slide
  <1>3. usedSize' \in Nat /\ usedSize' <= usedSize /\ usedSize' <= totalSize'
    BY <1>2, WindowFacts, LessBounded DEF Slide
  <1> QED
    BY <1>1, <1>2, <1>3, WindowFacts, QuietStepInv

LEMMA AutoSlideProbeInv ==
  ASSUME WInv, NEW t \in Threads, AutoSlideProbe(t)
  PROVE  WInv'
  <1>1. "autoslide" \in WindowPlaces \ {"space"} /\ GoTo(t, "autoslide") /\ WindowPC(t) # "space"
    BY DEF AutoSlideProbe, WindowPlaces
  <1>2. UNCHANGED <<totalSize, usedSize, streamAllocations, isBackpressureActive>>
    BY DEF AutoSlideProbe
  <1> QED
    BY <1>1, <1>2, WindowFacts, QuietStepInv

(* The window may shrink, but never under what is used.                    *)
LEMMA SetWindowSizeInv ==
  ASSUME WInv, NEW t \in Threads, SetWindowSize(t)
  PROVE  WInv'
  <1>1. PICK n \in WindowSizes :
          /\ CanResize(n)
          /\ totalSize' = n
          /\ GoTo(t, IF totalSize < n /\ isBackpressureActive THEN "stuck" ELSE "idle")
    BY DEF SetWindowSize
  <1> DEFINE q == IF totalSize < n /\ isBackpressureActive THEN "stuck" ELSE "idle"
  <1>2. q \in WindowPlaces \ {"space"} /\ GoTo(t, q) /\ WindowPC(t) # "space"
    <2>1. q \in {"idle", "stuck"} /\ GoTo(t, q)
      BY <1>1
    <2> HIDE DEF q
    <2> QED
      BY <2>1 DEF SetWindowSize, WindowPlaces
  <1> HIDE DEF q
  <1>3. UNCHANGED <<usedSize, streamAllocations, isBackpressureActive>>
    BY DEF SetWindowSize
  <1>4. totalSize' \in Nat /\ usedSize' <= totalSize'
    BY <1>1, <1>3, WindowFacts, PresentationAssumption DEF CanResize
  <1> QED
    BY <1>2, <1>3, <1>4, WindowFacts, QuietStepInv

LEMMA WindowStepsInv ==
  ASSUME WInv, NEW t \in Threads, WindowStep(t)
  PROVE  WInv'
  <1>1. CASE AutoSlide(t)
    <2>1. Slide(t, SlideSize) /\ WindowPC(t) # "space" /\ SlideSize \in Nat
      BY <1>1, PresentationAssumption DEF AutoSlide
    <2> QED
      BY <2>1, SlideInv
  <1> QED
    BY <1>1, ReleaseSpaceInv, ProbeInv, ClearInv DEF WindowStep

LEMMA WindowKeptInv ==
  ASSUME WInv, UNCHANGED windowVars
  PROVE  WInv'
  <1> USE DEF WInv, windowVars
  <1>1. WindowTypeOK' /\ UsedWithinWindow' /\ CarriedBySpace'
    BY DEF WindowTypeOK, UsedWithinWindow, CarriedBySpace, WindowPC
  <1>2. UsedIsAllocated'
    BY DEF UsedIsAllocated
  <1> QED
    BY <1>1, <1>2

LEMMA WindowInitInv == WindowInit => WInv
  <1> SUFFICES ASSUME WindowInit PROVE WInv
    OBVIOUS
  <1> USE PresentationAssumption DEF WindowInit, WindowIdle
  <1>1. WindowTypeOK
    BY DEF WindowTypeOK, WindowPlaces
  <1>2. UsedWithinWindow /\ CarriedBySpace
    BY DEF UsedWithinWindow, CarriedBySpace
  <1>3. UsedIsAllocated
    <2>1. Total(streamAllocations) \in Nat /\ Total(Carried) \in Nat
      BY <1>1, WindowSums
    <2> QED
      BY <2>1 DEF UsedIsAllocated, Carried
  <1> QED
    BY <1>1, <1>2, <1>3 DEF WInv

---------------------------------------------------------------------------
(* The backpressure manager.                                               *)

LEMMA StreamCounts ==
  ASSUME NEW sb
  PROVE  /\ Tracked(sb) \subseteq Streams /\ Active(sb) \subseteq Tracked(sb)
         /\ IsFiniteSet(Tracked(sb)) /\ IsFiniteSet(Active(sb))
         /\ Cardinality(Tracked(sb)) \in Nat /\ Cardinality(Active(sb)) \in Nat
  <1>1. Tracked(sb) \subseteq Streams /\ Active(sb) \subseteq Tracked(sb)
    BY DEF Tracked, Active
  <1>2. IsFiniteSet(Tracked(sb)) /\ IsFiniteSet(Active(sb))
    BY <1>1, FS_Subset, PresentationAssumption
  <1> QED
    BY <1>1, <1>2, FS_CardinalityType

(* The two thresholds exclude each other.                                  *)
LEMMA LowIsNotHigh ==
  ASSUME NEW sb, Low(sb)
  PROVE  ~High(sb)
  <1> DEFINE a == Cardinality(Active(sb))
             k == Cardinality(Tracked(sb))
             p == GlobalPercent * k
  <1>1. a \in Nat /\ k \in Nat
    BY StreamCounts
  <1>2. GlobalPercent \in Nat
    BY PresentationAssumption
  <1> HIDE DEF k
  <1>3. p \in Nat /\ 8 * GlobalPercent * k = 8 * p
    BY <1>1, <1>2
  <1> HIDE DEF a, p
  <1>4. 1000 * a < 8 * p
    BY <1>3 DEF Low, a, k
  <1>5. ~(100 * a >= p)
    BY <1>1, <1>3, <1>4
  <1> QED
    BY <1>5 DEF High, a, k, p

(* A deactivation does not raise the ratio.                                *)
LEMMA HighMonotonic ==
  ASSUME NEW sb, NEW tb, Tracked(tb) = Tracked(sb), Active(sb) \subseteq Active(tb), High(sb)
  PROVE  High(tb)
  <1> DEFINE a == Cardinality(Active(sb))
             b == Cardinality(Active(tb))
             p == GlobalPercent * Cardinality(Tracked(sb))
  <1>1. a \in Nat /\ b \in Nat /\ a <= b
    BY StreamCounts, FS_Subset
  <1>2. p \in Nat
    BY StreamCounts, PresentationAssumption
  <1>3. 100 * a >= p /\ Tracked(tb) # {}
    BY DEF High
  <1> HIDE DEF a, b, p
  <1>4. 100 * b >= p
    BY <1>1, <1>2, <1>3
  <1> QED
    BY <1>3, <1>4 DEF High, b, p

LEMMA BackpressureInitInv == BackpressureInit => BInv
  BY DEF BackpressureInit, BInv, BackpressureTypeOK, CallPlaces, LoweredWhenLow

LEMMA BackpressureKeptInv ==
  ASSUME BInv, UNCHANGED backpressureVars
  PROVE  BInv'
  BY DEF BInv, backpressureVars, BackpressureTypeOK, LoweredWhenLow

LEMMA ActivateInv ==
  ASSUME BInv, NEW t \in Threads, NEW s \in Streams, Activate(t, s)
  PROVE  BInv' /\ (Unraised' => Unraised)
  <1> DEFINE sb == [streamBackpressure EXCEPT ![s] = "active"]
             q == IF streamBackpressure[s] # "active" /\ High(sb) THEN "raise" ELSE "idle"
  <1>1. BackpressureTypeOK /\ LoweredWhenLow
    BY DEF BInv
  <1>2. CASE UNCHANGED <<streamBackpressure, callAt>>
    <2>1. UNCHANGED backpressureVars
      BY <1>2 DEF Activate, backpressureVars
    <2> QED
      BY <2>1, BackpressureKeptInv DEF Unraised, backpressureVars
  <1>3. CASE streamBackpressure' = sb /\ callAt' = [callAt EXCEPT ![t] = q]
    <2>1. q \in {"raise", "idle"} /\ callAt[t] = "idle" /\ UNCHANGED globalActive
          /\ \A u \in Threads : callAt[u] # "lower"
      BY DEF Activate, StreamMutexFree
    <2>2. \A u \in Threads : callAt'[u] = IF u = t THEN q ELSE callAt[u]
      BY <1>1, <1>3 DEF BackpressureTypeOK
    <2>3. BackpressureTypeOK'
      <3> HIDE DEF q
      <3> QED
        BY <1>1, <1>3, <2>1 DEF BackpressureTypeOK, CallPlaces
    <2>4. LoweredWhenLow'
      <3> HIDE DEF q
      <3> QED
        BY <2>1, <2>2 DEF LoweredWhenLow
    <2>5. Unraised' => Unraised
      <3> SUFFICES ASSUME Unraised' PROVE Unraised
        OBVIOUS
      <3>1. q # "raise" /\ High(sb)
        BY <1>3, <2>2 DEF Unraised
      <3>2. streamBackpressure[s] = "active"
        BY <3>1
      <3>3. sb = streamBackpressure
        BY <1>1, <3>2 DEF BackpressureTypeOK
      <3>4. \A u \in Threads : callAt[u] # "raise"
        <4> HIDE DEF q
        <4> QED
          BY <2>1, <2>2 DEF Unraised
      <3> QED
        BY <2>1, <3>1, <3>3, <3>4 DEF Unraised
    <2> QED
      BY <2>3, <2>4, <2>5 DEF BInv
  <1> QED
    BY <1>2, <1>3 DEF Activate

LEMMA DeactivateInv ==
  ASSUME BInv, NEW t \in Threads, NEW s \in Streams, Deactivate(t, s)
  PROVE  BInv' /\ (Unraised' => Unraised)
  <1> DEFINE sb == [streamBackpressure EXCEPT ![s] = "inactive"]
             q == IF Low(sb) THEN "lower" ELSE "idle"
  <1>1. BackpressureTypeOK /\ LoweredWhenLow
    BY DEF BInv
  <1>2. CASE UNCHANGED <<streamBackpressure, callAt>>
    <2>1. UNCHANGED backpressureVars
      BY <1>2 DEF Deactivate, backpressureVars
    <2> QED
      BY <2>1, BackpressureKeptInv DEF Unraised, backpressureVars
  <1>3. CASE /\ streamBackpressure[s] = "active"
             /\ streamBackpressure' = sb /\ callAt' = [callAt EXCEPT ![t] = q]
    <2>1. q \in {"lower", "idle"} /\ (q = "lower" => Low(sb))
          /\ callAt[t] = "idle" /\ UNCHANGED globalActive
          /\ \A u \in Threads : callAt[u] # "lower"
      BY DEF Deactivate, StreamMutexFree
    <2>2. \A u \in Threads : callAt'[u] = IF u = t THEN q ELSE callAt[u]
      BY <1>1, <1>3 DEF BackpressureTypeOK
    <2>3. /\ Tracked(sb) = Tracked(streamBackpressure)
          /\ Active(sb) \subseteq Active(streamBackpressure)
      BY <1>1, <1>3 DEF Tracked, Active, BackpressureTypeOK
    <2>4. streamBackpressure' = sb /\ callAt' = [callAt EXCEPT ![t] = q]
          /\ sb \in [Streams -> {"none", "inactive", "active"}]
      BY <1>1, <1>3 DEF BackpressureTypeOK
    <2> HIDE DEF q, sb
    <2>5. BackpressureTypeOK'
      BY <1>1, <2>1, <2>4 DEF BackpressureTypeOK, CallPlaces
    <2>6. LoweredWhenLow'
      BY <2>1, <2>2, <2>4 DEF LoweredWhenLow
    <2>7. Unraised' => Unraised
      <3> SUFFICES ASSUME Unraised' PROVE Unraised
        OBVIOUS
      <3>1. High(streamBackpressure)
        BY <2>3, <2>4, HighMonotonic DEF Unraised
      <3>2. \A u \in Threads : callAt[u] # "raise"
        BY <2>1, <2>2 DEF Unraised
      <3> QED
        BY <2>1, <3>1, <3>2 DEF Unraised
    <2> QED
      BY <2>5, <2>6, <2>7 DEF BInv
  <1> QED
    BY <1>2, <1>3 DEF Deactivate

(* The inside of a call; only LowerGlobal takes the flag back, and then    *)
(* the ratio is low.                                                       *)
LEMMA CallStepInv ==
  ASSUME BInv, NEW t \in Threads, CallStep(t)
  PROVE  BInv' /\ (Unraised' => Unraised)
  <1>1. BackpressureTypeOK /\ LoweredWhenLow
    BY DEF BInv
  <1>2. PICK q \in {"relock", "notify", "idle"} :
          callAt' = [callAt EXCEPT ![t] = q] /\ UNCHANGED streamBackpressure
    BY DEF CallStep, RaiseGlobal, NotifyStreams, Relock, LowerGlobal
  <1>3. \A u \in Threads : callAt'[u] = IF u = t THEN q ELSE callAt[u]
    BY <1>1, <1>2 DEF BackpressureTypeOK
  <1>4. globalActive' \in BOOLEAN
    BY <1>1 DEF CallStep, RaiseGlobal, NotifyStreams, Relock, LowerGlobal, BackpressureTypeOK
  <1>5. BackpressureTypeOK'
    BY <1>1, <1>2, <1>4 DEF BackpressureTypeOK, CallPlaces
  <1>6. LoweredWhenLow'
    BY <1>1, <1>2, <1>3 DEF LoweredWhenLow
  <1>7. Unraised' => Unraised
    <2> SUFFICES ASSUME Unraised' PROVE Unraised
      OBVIOUS
    <2>1. High(streamBackpressure) /\ ~globalActive'
      BY <1>2 DEF Unraised
    <2>2. CASE RaiseGlobal(t)
      BY <2>1, <2>2 DEF RaiseGlobal
    <2>3. CASE NotifyStreams(t) \/ Relock(t)
      <3>1. callAt[t] # "raise" /\ UNCHANGED globalActive
        BY <2>3 DEF NotifyStreams, Relock
      <3> QED
        BY <1>3, <2>1, <3>1 DEF Unraised
    <2>4. CASE LowerGlobal(t)
      <3>1. Low(streamBackpressure)
        BY <1>1, <2>4 DEF LowerGlobal, LoweredWhenLow
      <3> QED
        BY <2>1, <3>1, LowIsNotHigh
    <2> QED
      BY <2>2, <2>3, <2>4 DEF CallStep
  <1> QED
    BY <1>5, <1>6, <1>7 DEF BInv

(* The worker forgets inactive streams only.                               *)
LEMMA CleanupInv ==
  ASSUME BInv, CleanupInactiveStreams
  PROVE  BInv' /\ Forgetting
  <1>1. BackpressureTypeOK /\ \A u \in Threads : callAt[u] # "lower"
    BY DEF BInv, CleanupInactiveStreams, StreamMutexFree
  <1>2. PICK S \in (SUBSET (Tracked(streamBackpressure) \ Active(streamBackpressure))) \ {{}} :
          streamBackpressure' =
            [s \in Streams |-> IF s \in S THEN "none" ELSE streamBackpressure[s]]
    BY DEF CleanupInactiveStreams
  <1>3. UNCHANGED <<globalActive, callAt>>
    BY DEF CleanupInactiveStreams
  <1>4. BackpressureTypeOK'
    BY <1>1, <1>2, <1>3 DEF BackpressureTypeOK
  <1>5. LoweredWhenLow'
    BY <1>1, <1>3 DEF LoweredWhenLow
  <1>6. Active(streamBackpressure') = Active(streamBackpressure)
    BY <1>1, <1>2 DEF Active, Tracked, BackpressureTypeOK
  <1>7. Tracked(streamBackpressure') \subseteq Tracked(streamBackpressure)
    BY <1>1, <1>2 DEF Tracked, BackpressureTypeOK
  <1>8. streamBackpressure' # streamBackpressure
    <2>1. PICK s \in S : s \in Streams /\ streamBackpressure[s] # "none"
      BY <1>2 DEF Tracked
    <2>2. streamBackpressure'[s] = "none"
      BY <1>2, <2>1
    <2> QED
      BY <2>1, <2>2
  <1> QED
    BY <1>4, <1>5, <1>6, <1>7, <1>8 DEF BInv, Forgetting

---------------------------------------------------------------------------
(* The layer: what a step of one goroutine owes to the others.             *)

LEMMA ThreadMoves ==
  ASSUME PInv, NEW t \in Threads, NEW r \in ThreadRecord, thread' = [thread EXCEPT ![t] = r]
  PROVE  /\ thread' \in [Threads -> ThreadRecord]
         /\ \A u \in Threads : thread'[u] = IF u = t THEN r ELSE thread[u]
  BY DEF PInv, LayerTypeOK

LEMMA LayerStepInv ==
  ASSUME PInv, NEW t \in Threads, NEW r \in ThreadRecord, thread' = [thread EXCEPT ![t] = r],
         streamBuffers' \in [Streams -> Nat], reservations' \in [ReservationIds -> Nat],
         r.pc \in ForStream => r.stream \in Streams,
         r.pc \in Sizing => r.size > 0,
         r.pc \in HoldingBuffers => PC(t) \in HoldingBuffers \/ BuffersFree,
         r.pc \in {"rollback", "release"} => streamBuffers'[r.stream] = 0,
         PC(t) \in HoldingBuffers
           \/ \A s \in Streams : streamBuffers[s] = 0 => streamBuffers'[s] = 0,
         \A u \in Threads \ {t} : windowAt'[u] = windowAt[u],
         windowAt'[t].pc # "idle" => r.pc \in WindowCallers
  PROVE  PInv'
  <1>1. /\ thread' \in [Threads -> ThreadRecord]
        /\ \A u \in Threads : thread'[u] = IF u = t THEN r ELSE thread[u]
    BY ThreadMoves
  <1>2. LayerTypeOK'
    BY <1>1 DEF LayerTypeOK
  <1>3. LocalsOK'
    BY <1>1 DEF PInv, LocalsOK, PC
  <1>4. OneHolder'
    BY <1>1 DEF PInv, OneHolder, PC, BuffersFree
  <1>5. Emptied'
    <2> SUFFICES ASSUME NEW u \in Threads, PC(u)' \in {"rollback", "release"}
                 PROVE  streamBuffers'[thread'[u].stream] = 0
      BY DEF Emptied
    <2>1. CASE u = t
      BY <1>1, <2>1 DEF PC
    <2>2. CASE u # t
      <3>1. thread'[u] = thread[u] /\ PC(u) \in {"rollback", "release"}
        BY <1>1, <2>2 DEF PC
      <3>2. thread[u].stream \in Streams /\ streamBuffers[thread[u].stream] = 0
        BY <3>1 DEF PInv, LocalsOK, Emptied, ForStream
      <3>3. PC(t) \notin HoldingBuffers
        BY <2>2, <3>1 DEF PInv, OneHolder, HoldingBuffers
      <3> QED
        BY <3>1, <3>2, <3>3
    <2> QED
      BY <2>1, <2>2
  <1>6. CallerWaits'
    BY <1>1 DEF PInv, CallerWaits, PC, WindowPC
  <1> QED
    BY <1>2, <1>3, <1>4, <1>5, <1>6 DEF PInv

(* What goroutine t, going on with the locals r, owes the allocations: one *)
(* without a buffer and without a release is an orphan's already, or t has *)
(* tried to give another size back.                                        *)
Accounted(t, r) ==
  \A s \in Streams :
    /\ streamAllocations'[s] > 0 /\ streamBuffers'[s] = 0
    /\ ~(r.pc \in {"release", "rollback"} /\ r.stream = s)
    => \/ /\ streamAllocations[s] > 0 /\ streamBuffers[s] = 0
          /\ PC(t) \in {"release", "rollback"} => thread[t].stream # s
       \/ /\ PC(t) \in {"release", "rollback"} /\ thread[t].stream = s
          /\ thread[t].size # streamAllocations[s]

LEMMA OrphanStepLocal ==
  ASSUME PInv, NEW t \in Threads, NEW r \in ThreadRecord, thread' = [thread EXCEPT ![t] = r],
         Accounted(t, r)
  PROVE  OrphanStep
  <1>1. \A u \in Threads : thread'[u] = IF u = t THEN r ELSE thread[u]
    BY ThreadMoves
  <1> SUFFICES ASSUME NEW s \in Streams, Orphaned(s)'
               PROVE  \/ Orphaned(s)
                      \/ \E u \in Threads :
                           /\ PC(u) \in {"release", "rollback"} /\ thread[u].stream = s
                           /\ thread[u].size # streamAllocations[s]
    BY DEF OrphanStep
  <1>2. /\ streamAllocations'[s] > 0 /\ streamBuffers'[s] = 0
        /\ ~(r.pc \in {"release", "rollback"} /\ r.stream = s)
    BY <1>1 DEF Orphaned, PC
  <1>3. CASE /\ streamAllocations[s] > 0 /\ streamBuffers[s] = 0
             /\ PC(t) \in {"release", "rollback"} => thread[t].stream # s
    <2>1. ASSUME NEW u \in Threads, PC(u) \in {"release", "rollback"}
          PROVE  thread[u].stream # s
      <3>1. CASE u = t
        BY <1>3, <2>1, <3>1
      <3>2. CASE u # t
        <4>1. thread'[u] = thread[u]
          BY <1>1, <3>2
        <4> QED
          BY <2>1, <4>1 DEF Orphaned, PC
      <3> QED
        BY <3>1, <3>2
    <2> QED
      BY <1>3, <2>1 DEF Orphaned
  <1>4. CASE /\ PC(t) \in {"release", "rollback"} /\ thread[t].stream = s
             /\ thread[t].size # streamAllocations[s]
    BY <1>4
  <1> QED
    BY <1>2, <1>3, <1>4 DEF Accounted

(* A step that leaves the buffers and the allocations as they are, and is  *)
(* not in the middle of a release, orphans nothing and takes no window.    *)
LEMMA NoOrphanStep ==
  ASSUME PInv, NEW t \in Threads, NEW r \in ThreadRecord, thread' = [thread EXCEPT ![t] = r],
         UNCHANGED <<streamBuffers, streamAllocations>>, PC(t) \notin {"release", "rollback"},
         WInv
  PROVE  OrphanStep /\ KeptStep
  <1>1. Accounted(t, r)
    BY DEF Accounted
  <1>2. OrphanStep
    BY <1>1, OrphanStepLocal
  <1>3. KeptStep
    <2>1. \A s \in Streams : streamAllocations[s] \in Nat
      BY WindowFacts
    <2> QED
      BY <2>1 DEF KeptStep
  <1> QED
    BY <1>2, <1>3

LEMMA UnraisedKept ==
  ASSUME UNCHANGED backpressureVars
  PROVE  RaiseStep
  BY DEF RaiseStep, Unraised, backpressureVars

(* A step inside the layer, buffers and managers left alone.               *)
LEMMA QuietMove ==
  ASSUME IInv, NEW t \in Threads, NEW r \in ThreadRecord, thread' = [thread EXCEPT ![t] = r],
         UNCHANGED <<windowVars, backpressureVars, streamBuffers>>,
         reservations' \in [ReservationIds -> Nat],
         PC(t) \notin {"release", "rollback"}, r.pc \notin {"release", "rollback"},
         r.pc \in ForStream => r.stream \in Streams,
         r.pc \in Sizing => r.size > 0,
         r.pc \in HoldingBuffers => PC(t) \in HoldingBuffers \/ BuffersFree,
         WindowPC(t) # "idle" => r.pc \in WindowCallers
  PROVE  Preserved
  <1>1. WInv /\ BInv /\ PInv
    BY DEF IInv
  <1>2. WInv' /\ BInv'
    BY <1>1, WindowKeptInv, BackpressureKeptInv
  <1>3. /\ streamBuffers' \in [Streams -> Nat]
        /\ UNCHANGED <<streamBuffers, streamAllocations, windowAt>>
    BY <1>1 DEF PInv, LayerTypeOK, windowVars
  <1>4. PInv'
    BY <1>1, <1>3, LayerStepInv DEF WindowPC
  <1>5. OrphanStep /\ KeptStep
    BY <1>1, <1>3, NoOrphanStep
  <1>6. RaiseStep
    BY UnraisedKept
  <1> QED
    BY <1>2, <1>4, <1>5, <1>6 DEF IInv, Preserved

LEMMA ThreadFacts ==
  ASSUME PInv, NEW t \in Threads
  PROVE  /\ thread[t] \in ThreadRecord
         /\ PC(t) \in ForStream => thread[t].stream \in Streams
         /\ PC(t) \in Sizing => thread[t].size > 0
         /\ WindowPC(t) # "idle" => PC(t) \in WindowCallers
  BY DEF PInv, LayerTypeOK, LocalsOK, CallerWaits

LEMMA AtMoves ==
  ASSUME PInv, NEW t \in Threads, NEW here, NEW there \in ThreadPC, At(t, here, there)
  PROVE  \E r \in ThreadRecord :
           /\ thread' = [thread EXCEPT ![t] = r] /\ r.pc = there /\ PC(t) = here
           /\ there \notin Returning => r.stream = thread[t].stream /\ r.size = thread[t].size
  <1> DEFINE b == IF there \in Returning THEN IdleThread ELSE thread[t]
             r == [b EXCEPT !.pc = there]
  <1>1. thread[t] \in ThreadRecord /\ thread \in [Threads -> ThreadRecord]
    BY DEF PInv, LayerTypeOK
  <1>2. IdleThread \in ThreadRecord
    BY DEF IdleThread, ThreadRecord, ThreadPC
  <1>3. b \in ThreadRecord
    BY <1>1, <1>2
  <1>4. thread' = [thread EXCEPT ![t] = r] /\ PC(t) = here
    BY <1>1 DEF At
  <1>5. there \notin Returning => b = thread[t]
    OBVIOUS
  <1> HIDE DEF b
  <1>6. r \in ThreadRecord /\ r.pc = there /\ r.stream = b.stream /\ r.size = b.size
    BY <1>3 DEF ThreadRecord
  <1> QED
    BY <1>4, <1>5, <1>6

LEMMA QuietAt ==
  ASSUME IInv, NEW t \in Threads, NEW here, NEW there \in ThreadPC, At(t, here, there),
         UNCHANGED <<windowVars, backpressureVars, streamBuffers>>,
         reservations' \in [ReservationIds -> Nat],
         here \notin {"release", "rollback"}, there \notin {"release", "rollback"},
         there \in ForStream => here \in ForStream /\ there \notin Returning,
         there \in Sizing => here \in Sizing /\ there \notin Returning,
         there \in HoldingBuffers => here \in HoldingBuffers \/ BuffersFree,
         WindowPC(t) # "idle" => there \in WindowCallers
  PROVE  Preserved
  <1>1. PInv
    BY DEF IInv
  <1>2. PICK r \in ThreadRecord :
           /\ thread' = [thread EXCEPT ![t] = r] /\ r.pc = there /\ PC(t) = here
           /\ there \notin Returning => r.stream = thread[t].stream /\ r.size = thread[t].size
    BY <1>1, AtMoves
  <1>3. r.pc \in ForStream => r.stream \in Streams
    BY <1>1, <1>2, ThreadFacts
  <1>4. r.pc \in Sizing => r.size > 0
    BY <1>1, <1>2, ThreadFacts
  <1> QED
    BY <1>2, <1>3, <1>4, QuietMove

---------------------------------------------------------------------------
(* Creation.                                                               *)

LEMMA ReservedType == PInv => ReservedWindow \in Nat
  BY TotalType, PresentationAssumption DEF PInv, LayerTypeOK, ReservedWindow

LEMMA ReserveInv ==
  ASSUME IInv, NEW t \in Threads, Reserve(t)
  PROVE  Preserved
  <1>1. PInv
    BY DEF IInv
  <1>2. PICK s \in Streams, n \in BufferSizes, i \in ReservationIds :
          /\ reservations' = [reservations EXCEPT ![i] = n]
          /\ thread' = [thread EXCEPT ![t] =
               [@ EXCEPT !.pc = "create", !.stream = s, !.id = i, !.size = n]]
    BY DEF Reserve
  <1> DEFINE r == [thread[t] EXCEPT !.pc = "create", !.stream = s, !.id = i, !.size = n]
  <1>3. n \in Nat /\ n > 0
    BY PresentationAssumption
  <1>4. PC(t) = "idle" /\ UNCHANGED <<windowVars, backpressureVars, streamBuffers>>
    BY DEF Reserve
  <1>5. thread[t] \in ThreadRecord
    BY <1>1, ThreadFacts
  <1>6. r \in ThreadRecord /\ r.pc = "create" /\ r.stream = s /\ r.size = n
    BY <1>3, <1>5 DEF ThreadRecord, ThreadPC
  <1>7. thread' = [thread EXCEPT ![t] = r]
    BY <1>2
  <1>8. reservations' \in [ReservationIds -> Nat]
    BY <1>1, <1>2, <1>3 DEF PInv, LayerTypeOK
  <1>9. WindowPC(t) = "idle"
    BY <1>1, <1>4, ThreadFacts DEF WindowCallers
  <1> HIDE DEF r
  <1> QED
    BY <1>3, <1>4, <1>6, <1>7, <1>8, <1>9, QuietMove DEF HoldingBuffers

LEMMA CreateCheckInv ==
  ASSUME IInv, NEW t \in Threads, CreateCheck(t)
  PROVE  Preserved
  <1> DEFINE there == IF thread[t].stream \in Existing THEN "idle" ELSE "measure"
  <1>1. At(t, "create", there) /\ BuffersFree /\ PC(t) = "create"
    BY DEF CreateCheck, At
  <1>2. there \in {"idle", "measure"}
    OBVIOUS
  <1>3. /\ UNCHANGED <<windowVars, backpressureVars, streamBuffers>>
        /\ reservations' \in [ReservationIds -> Nat]
    BY DEF CreateCheck, IInv, PInv, LayerTypeOK
  <1>4. WindowPC(t) = "idle"
    BY <1>1, ThreadFacts DEF IInv, WindowCallers
  <1> HIDE DEF there
  <1> QED
    BY <1>1, <1>2, <1>3, <1>4, QuietAt
    DEF ForStream, Sizing, HoldingBuffers, Returning, ThreadPC

(* The available size is no negative number, for what is used fits.        *)
LEMMA CreateMeasureInv ==
  ASSUME IInv, NEW t \in Threads, CreateMeasure(t)
  PROVE  Preserved
  <1> DEFINE n == totalSize - usedSize
             r == [thread[t] EXCEPT !.pc = "fit", !.avail = n]
  <1>1. PInv /\ WInv
    BY DEF IInv
  <1>2. n \in Nat
    BY <1>1, WindowFacts
  <1>3. /\ PC(t) = "measure" /\ UNCHANGED <<windowVars, backpressureVars, streamBuffers>>
        /\ thread' = [thread EXCEPT ![t] = r]
        /\ reservations' \in [ReservationIds -> Nat]
    BY <1>1 DEF CreateMeasure, PInv, LayerTypeOK
  <1>4. /\ thread[t] \in ThreadRecord /\ thread[t].stream \in Streams /\ thread[t].size > 0
        /\ WindowPC(t) = "idle"
    BY <1>1, <1>3, ThreadFacts DEF WindowCallers, ForStream, Sizing
  <1> HIDE DEF n
  <1>5. r \in ThreadRecord /\ r.pc = "fit" /\ r.stream \in Streams /\ r.size > 0
    BY <1>2, <1>4 DEF ThreadRecord, ThreadPC
  <1> HIDE DEF r
  <1> QED
    BY <1>3, <1>4, <1>5, QuietMove DEF HoldingBuffers

LEMMA CreateFitInv ==
  ASSUME IInv, NEW t \in Threads, CreateFit(t)
  PROVE  Preserved
  <1> DEFINE left == Less(thread[t].avail, ReservedWindow)
             size == thread[t].size
             k == IF size > left THEN left ELSE size
             r == IF left = 0 THEN IdleThread
                  ELSE [thread[t] EXCEPT !.pc = "allocate", !.avail = 0, !.size = k]
  <1>1. PInv /\ WInv
    BY DEF IInv
  <1>2. /\ PC(t) = "fit" /\ UNCHANGED <<windowVars, backpressureVars, streamBuffers>>
        /\ thread' = [thread EXCEPT ![t] = r]
        /\ reservations' \in [ReservationIds -> Nat]
    BY <1>1 DEF CreateFit, PInv, LayerTypeOK
  <1>3. /\ thread[t] \in ThreadRecord /\ thread[t].stream \in Streams /\ thread[t].size > 0
        /\ WindowPC(t) = "idle"
    BY <1>1, <1>2, ThreadFacts DEF WindowCallers, ForStream, Sizing
  <1>4. left \in Nat /\ size \in Nat
    BY <1>1, <1>3, ReservedType, LessBounded DEF ThreadRecord
  <1>5. left # 0 => k \in Nat /\ k > 0
    <2> HIDE DEF left
    <2> QED
      BY <1>3, <1>4
  <1>6. CASE left = 0
    <2>1. r = IdleThread /\ IdleThread \in ThreadRecord /\ IdleThread.pc = "idle"
      BY <1>6 DEF IdleThread, ThreadRecord, ThreadPC
    <2> HIDE DEF r
    <2> QED
      BY <1>2, <1>3, <2>1, QuietMove DEF HoldingBuffers, ForStream, Sizing
  <1>7. CASE left # 0
    <2>1. r = [thread[t] EXCEPT !.pc = "allocate", !.avail = 0, !.size = k]
      BY <1>7
    <2>2. k \in Nat /\ k > 0
      BY <1>5, <1>7
    <2> HIDE DEF r, k
    <2>3. r \in ThreadRecord /\ r.pc = "allocate" /\ r.stream \in Streams /\ r.size > 0
      BY <1>3, <2>1, <2>2 DEF ThreadRecord, ThreadPC
    <2> QED
      BY <1>2, <1>3, <2>3, QuietMove DEF HoldingBuffers
  <1> QED
    BY <1>6, <1>7

(* The buffer comes with its allocation.                                   *)
LEMMA CreateAllocateInv ==
  ASSUME IInv, NEW t \in Threads, CreateAllocate(t)
  PROVE  Preserved
  <1> DEFINE s == thread[t].stream
             n == thread[t].size
  <1>1. WInv /\ BInv /\ PInv
    BY DEF IInv
  <1>2. /\ At(t, "allocate", "commit") /\ Allocate(s, n) /\ PC(t) = "allocate"
        /\ streamBuffers' = [streamBuffers EXCEPT ![s] = n]
        /\ UNCHANGED <<backpressureVars, reservations>>
    BY DEF CreateAllocate, At
  <1>3. s \in Streams /\ n \in Nat /\ n > 0 /\ WindowPC(t) = "idle"
    BY <1>1, <1>2, ThreadFacts DEF ThreadRecord, ForStream, Sizing, WindowCallers
  <1> HIDE DEF s, n
  <1>4. WInv' /\ BInv'
    BY <1>1, <1>2, <1>3, AllocateInv, BackpressureKeptInv
  <1>5. PICK r \in ThreadRecord :
          thread' = [thread EXCEPT ![t] = r] /\ r.pc = "commit" /\ r.stream = s
    BY <1>1, <1>2, AtMoves DEF ThreadPC, Returning, s
  <1>6. /\ streamBuffers \in [Streams -> Nat] /\ streamBuffers' \in [Streams -> Nat]
        /\ reservations' \in [ReservationIds -> Nat] /\ UNCHANGED windowAt
    BY <1>1, <1>2, <1>3 DEF PInv, LayerTypeOK, Allocate
  <1>7. PInv'
    BY <1>1, <1>2, <1>3, <1>5, <1>6, LayerStepInv
    DEF HoldingBuffers, ForStream, Sizing, WindowPC
  <1>8. /\ streamAllocations \in [Streams -> Nat]
        /\ streamAllocations' = [streamAllocations EXCEPT ![s] = @ + n]
    BY <1>1, <1>2, WindowFacts DEF Allocate
  <1>9. OrphanStep
    <2>1. streamBuffers'[s] > 0
      BY <1>2, <1>3, <1>6
    <2>2. \A q \in Streams \ {s} : /\ streamAllocations'[q] = streamAllocations[q]
                                   /\ streamBuffers'[q] = streamBuffers[q]
      BY <1>2, <1>6, <1>8
    <2>3. Accounted(t, r)
      BY <1>2, <2>1, <2>2 DEF Accounted
    <2> QED
      BY <1>1, <1>5, <2>3, OrphanStepLocal
  <1>10. KeptStep
    <2>1. \A q \in Streams : ~(streamAllocations'[q] < streamAllocations[q])
      BY <1>3, <1>8
    <2> QED
      BY <2>1 DEF KeptStep
  <1>11. RaiseStep
    BY <1>2, UnraisedKept
  <1> QED
    BY <1>4, <1>7, <1>9, <1>10, <1>11 DEF IInv, Preserved

LEMMA CreateRefusedInv ==
  ASSUME IInv, NEW t \in Threads, CreateRefused(t)
  PROVE  Preserved
  <1>1. WInv /\ BInv /\ PInv
    BY DEF IInv
  <1>2. /\ At(t, "allocate", "giveback") /\ PC(t) = "allocate"
        /\ AllocateRefused(thread[t].stream, thread[t].size)
        /\ UNCHANGED <<backpressureVars, streamBuffers, reservations>>
    BY DEF CreateRefused, At
  <1>3. WInv' /\ BInv'
    BY <1>1, <1>2, AllocateRefusedInv, BackpressureKeptInv
  <1>4. thread[t].stream \in Streams /\ WindowPC(t) = "idle"
    BY <1>1, <1>2, ThreadFacts DEF ForStream, WindowCallers
  <1>5. PICK r \in ThreadRecord :
          /\ thread' = [thread EXCEPT ![t] = r] /\ r.pc = "giveback"
          /\ r.stream = thread[t].stream
    BY <1>1, <1>2, AtMoves DEF ThreadPC, Returning
  <1>6. /\ streamBuffers' \in [Streams -> Nat] /\ reservations' \in [ReservationIds -> Nat]
        /\ UNCHANGED <<streamBuffers, streamAllocations, windowAt>>
    BY <1>1, <1>2 DEF PInv, LayerTypeOK, AllocateRefused
  <1>7. PInv'
    BY <1>1, <1>2, <1>4, <1>5, <1>6, LayerStepInv
    DEF HoldingBuffers, ForStream, Sizing, WindowPC
  <1>8. OrphanStep /\ KeptStep
    BY <1>1, <1>2, <1>5, <1>6, NoOrphanStep
  <1>9. RaiseStep
    BY <1>2, UnraisedKept
  <1> QED
    BY <1>3, <1>7, <1>8, <1>9 DEF IInv, Preserved

LEMMA CreateGiveBackInv ==
  ASSUME IInv, NEW t \in Threads, CreateGiveBack(t)
  PROVE  Preserved
  <1>1. /\ At(t, "giveback", "idle") /\ PC(t) = "giveback"
        /\ UNCHANGED <<windowVars, backpressureVars, streamBuffers>>
        /\ reservations' \in [ReservationIds -> Nat]
    BY DEF CreateGiveBack, At, IInv, PInv, LayerTypeOK
  <1>2. WindowPC(t) = "idle"
    BY <1>1, ThreadFacts DEF IInv, WindowCallers
  <1> QED
    BY <1>1, <1>2, QuietAt DEF ThreadPC, ForStream, Sizing, HoldingBuffers

LEMMA CreateCommitInv ==
  ASSUME IInv, NEW t \in Threads, CreateCommit(t)
  PROVE  Preserved
  <1>1. /\ At(t, "commit", "idle") /\ PC(t) = "commit"
        /\ UNCHANGED <<windowVars, backpressureVars, streamBuffers>>
        /\ reservations' \in [ReservationIds -> Nat]
    BY DEF CreateCommit, At, IInv, PInv, LayerTypeOK
  <1>2. WindowPC(t) = "idle"
    BY <1>1, ThreadFacts DEF IInv, WindowCallers
  <1> QED
    BY <1>1, <1>2, QuietAt DEF ThreadPC, ForStream, Sizing, HoldingBuffers

LEMMA CreateFailedInv ==
  ASSUME IInv, NEW t \in Threads, CreateFailed(t)
  PROVE  Preserved
  <1>1. /\ At(t, "rolledback", "idle") /\ WindowPC(t) = "idle"
        /\ UNCHANGED <<windowVars, backpressureVars, streamBuffers>>
        /\ reservations' \in [ReservationIds -> Nat]
    BY DEF CreateFailed, WindowReturned, IInv, PInv, LayerTypeOK
  <1> QED
    BY <1>1, QuietAt DEF ThreadPC, ForStream, Sizing, HoldingBuffers

(* The failed creation takes its buffer away and is the one to give the    *)
(* window back.                                                            *)
LEMMA CreateCommitFailsInv ==
  ASSUME IInv, NEW t \in Threads, CreateCommitFails(t)
  PROVE  Preserved
  <1> DEFINE s == thread[t].stream
  <1>1. WInv /\ BInv /\ PInv
    BY DEF IInv
  <1>2. /\ At(t, "commit", "rollback") /\ PC(t) = "commit"
        /\ streamBuffers' = [streamBuffers EXCEPT ![s] = 0]
        /\ reservations' \in [ReservationIds -> Nat]
        /\ UNCHANGED <<windowVars, backpressureVars>>
    BY <1>1 DEF CreateCommitFails, At, PInv, LayerTypeOK
  <1>3. s \in Streams /\ WindowPC(t) = "idle"
    BY <1>1, <1>2, ThreadFacts DEF ForStream, WindowCallers
  <1> HIDE DEF s
  <1>4. WInv' /\ BInv'
    BY <1>1, <1>2, WindowKeptInv, BackpressureKeptInv
  <1>5. PICK r \in ThreadRecord :
          thread' = [thread EXCEPT ![t] = r] /\ r.pc = "rollback" /\ r.stream = s
    BY <1>1, <1>2, AtMoves DEF ThreadPC, Returning, s
  <1>6. /\ streamBuffers \in [Streams -> Nat] /\ streamBuffers' \in [Streams -> Nat]
        /\ streamBuffers'[s] = 0 /\ UNCHANGED <<streamAllocations, windowAt>>
        /\ streamAllocations \in [Streams -> Nat]
    BY <1>1, <1>2, <1>3, WindowFacts DEF PInv, LayerTypeOK, windowVars
  <1>7. PInv'
    BY <1>1, <1>2, <1>3, <1>5, <1>6, LayerStepInv
    DEF HoldingBuffers, ForStream, Sizing, WindowPC
  <1>8. OrphanStep
    <2>1. \A q \in Streams \ {s} : streamBuffers'[q] = streamBuffers[q]
      BY <1>2, <1>6
    <2>2. Accounted(t, r)
      BY <1>2, <1>5, <1>6, <2>1 DEF Accounted
    <2> QED
      BY <1>1, <1>5, <2>2, OrphanStepLocal
  <1>9. KeptStep
    BY <1>6 DEF KeptStep
  <1>10. RaiseStep
    BY <1>2, UnraisedKept
  <1> QED
    BY <1>4, <1>7, <1>8, <1>9, <1>10 DEF IInv, Preserved

(* A release takes all of an allocation or leaves a rest only if it was    *)
(* asked for another size.                                                 *)
LEMMA ReleaseEffect ==
  ASSUME WInv, NEW t \in Threads, NEW s \in Streams, NEW n \in Nat, ReleaseAllocation(t, s, n)
  PROVE  /\ \A q \in Streams \ {s} : streamAllocations'[q] = streamAllocations[q]
         /\ streamAllocations'[s] <= streamAllocations[s]
         /\ streamAllocations'[s] > 0 => n # streamAllocations[s]
         /\ \A u \in Threads \ {t} : windowAt'[u] = windowAt[u]
  <1> USE DEF ReleaseAllocation
  <1>1. streamAllocations \in [Streams -> Nat] /\ windowAt \in [Threads -> WindowRecord]
    BY WindowFacts
  <1>2. CASE n <= streamAllocations[s] /\ streamAllocations[s] > 0
    <2>1. /\ streamAllocations' = [streamAllocations EXCEPT ![s] = @ - n]
          /\ windowAt' = [windowAt EXCEPT ![t] = [pc |-> "space", size |-> n]]
      BY <1>2
    <2>2. streamAllocations'[s] = streamAllocations[s] - n /\ streamAllocations[s] \in Nat
      BY <1>1, <2>1
    <2> QED
      BY <1>1, <2>1, <2>2
  <1>3. CASE ~(n <= streamAllocations[s] /\ streamAllocations[s] > 0)
    <2>1. UNCHANGED <<streamAllocations, windowAt>> /\ streamAllocations[s] \in Nat
      BY <1>1, <1>3
    <2> QED
      BY <1>3, <2>1
  <1> QED
    BY <1>2, <1>3

(* What gives a window back under buffersMutex: its stream has no buffer.  *)
LEMMA ReleaseHoldingInv ==
  ASSUME IInv, NEW t \in Threads, PC(t) \in {"release", "rollback"},
         NEW r \in ThreadRecord, thread' = [thread EXCEPT ![t] = r],
         r.pc \in {"lower", "rolledback"}, r.pc = "lower" => r.stream = thread[t].stream,
         ReleaseAllocation(t, thread[t].stream, thread[t].size),
         UNCHANGED <<backpressureVars, streamBuffers, reservations>>
  PROVE  Preserved
  <1> DEFINE s == thread[t].stream
             n == thread[t].size
  <1>1. WInv /\ BInv /\ PInv
    BY DEF IInv
  <1>2. s \in Streams /\ n \in Nat /\ streamBuffers[s] = 0
    BY <1>1, ThreadFacts DEF ThreadRecord, ForStream, PInv, Emptied
  <1>3. WInv' /\ BInv'
    BY <1>1, <1>2, ReleaseAllocationInv, BackpressureKeptInv
  <1>4. /\ streamBuffers' \in [Streams -> Nat] /\ reservations' \in [ReservationIds -> Nat]
        /\ streamAllocations \in [Streams -> Nat]
    BY <1>1, WindowFacts DEF PInv, LayerTypeOK
  <1>5. /\ \A q \in Streams \ {s} : streamAllocations'[q] = streamAllocations[q]
        /\ streamAllocations'[s] <= streamAllocations[s]
        /\ streamAllocations'[s] > 0 => n # streamAllocations[s]
        /\ \A u \in Threads \ {t} : windowAt'[u] = windowAt[u]
    BY <1>1, <1>2, ReleaseEffect
  <1>6. PInv'
    BY <1>1, <1>2, <1>4, <1>5, LayerStepInv
    DEF HoldingBuffers, ForStream, Sizing, WindowCallers
  <1>7. OrphanStep
    <2>1. Accounted(t, r)
      BY <1>5 DEF Accounted
    <2> QED
      BY <1>1, <2>1, OrphanStepLocal
  <1>8. KeptStep
    <2>1. \A q \in Streams : streamBuffers[q] > 0 => streamAllocations'[q] = streamAllocations[q]
      BY <1>2, <1>5
    <2> QED
      BY <1>4, <2>1 DEF KeptStep
  <1>9. RaiseStep
    BY UnraisedKept
  <1> QED
    BY <1>3, <1>6, <1>7, <1>8, <1>9 DEF IInv, Preserved

LEMMA CreateRollbackInv ==
  ASSUME IInv, NEW t \in Threads, CreateRollback(t)
  PROVE  Preserved
  <1>1. /\ At(t, "rollback", "rolledback") /\ PC(t) = "rollback"
        /\ ReleaseAllocation(t, thread[t].stream, thread[t].size)
        /\ UNCHANGED <<backpressureVars, streamBuffers, reservations>>
    BY DEF CreateRollback, At
  <1>2. PICK r \in ThreadRecord : thread' = [thread EXCEPT ![t] = r] /\ r.pc = "rolledback"
    BY <1>1, AtMoves DEF IInv, ThreadPC
  <1> QED
    BY <1>1, <1>2, ReleaseHoldingInv

LEMMA CreateStepInv ==
  ASSUME IInv, NEW t \in Threads, CreateStep(t)
  PROVE  Preserved
  BY CreateCheckInv, CreateMeasureInv, CreateFitInv, CreateAllocateInv, CreateRefusedInv,
     CreateGiveBackInv, CreateCommitInv, CreateCommitFailsInv, CreateRollbackInv, CreateFailedInv
  DEF CreateStep

---------------------------------------------------------------------------
(* Removal.                                                                *)

(* The buffer goes first, and with it the claim on the window.             *)
LEMMA RemoveBeginInv ==
  ASSUME IInv, NEW t \in Threads, RemoveBegin(t)
  PROVE  Preserved
  <1>1. WInv /\ BInv /\ PInv
    BY DEF IInv
  <1>2. PICK s \in Existing :
          /\ streamBuffers' = [streamBuffers EXCEPT ![s] = 0]
          /\ thread' = [thread EXCEPT ![t] =
               [@ EXCEPT !.stream = s, !.size = streamAllocations[s],
                         !.pc = IF streamAllocations[s] > 0 THEN "release" ELSE "lower"]]
    BY DEF RemoveBegin
  <1> DEFINE n == streamAllocations[s]
             q == IF n > 0 THEN "release" ELSE "lower"
             r == [thread[t] EXCEPT !.stream = s, !.size = n, !.pc = q]
  <1>3. PC(t) = "idle" /\ BuffersFree /\ UNCHANGED <<windowVars, backpressureVars, reservations>>
    BY DEF RemoveBegin
  <1>4. s \in Streams /\ n \in Nat /\ streamAllocations \in [Streams -> Nat]
    BY <1>1, WindowFacts DEF Existing
  <1>5. thread[t] \in ThreadRecord /\ WindowPC(t) = "idle"
    BY <1>1, <1>3, ThreadFacts DEF WindowCallers
  <1>6. thread' = [thread EXCEPT ![t] = r]
    BY <1>2
  <1>7. q \in {"release", "lower"} /\ (n > 0 => q = "release")
    OBVIOUS
  <1> HIDE DEF n, q
  <1>8. r \in ThreadRecord /\ r.pc = q /\ r.stream = s
    BY <1>4, <1>5, <1>7 DEF ThreadRecord, ThreadPC
  <1> HIDE DEF r
  <1>9. WInv' /\ BInv'
    BY <1>1, <1>3, WindowKeptInv, BackpressureKeptInv
  <1>10. /\ streamBuffers \in [Streams -> Nat] /\ streamBuffers' \in [Streams -> Nat]
         /\ reservations' \in [ReservationIds -> Nat]
         /\ streamBuffers'[s] = 0 /\ UNCHANGED <<streamAllocations, windowAt>>
    BY <1>1, <1>2, <1>3, <1>4 DEF PInv, LayerTypeOK, windowVars
  <1>11. \A u \in Streams : streamBuffers[u] = 0 => streamBuffers'[u] = 0
    BY <1>2, <1>10
  <1>12. PInv'
    BY <1>1, <1>3, <1>4, <1>5, <1>6, <1>7, <1>8, <1>10, <1>11, LayerStepInv
    DEF Sizing, WindowPC
  <1>13. OrphanStep
    <2>1. \A u \in Streams \ {s} : streamBuffers'[u] = streamBuffers[u]
      BY <1>2, <1>10
    <2>2. Accounted(t, r)
      BY <1>3, <1>7, <1>8, <1>10, <2>1 DEF n, Accounted
    <2> QED
      BY <1>1, <1>6, <1>8, <2>2, OrphanStepLocal
  <1>14. KeptStep
    BY <1>4, <1>10 DEF KeptStep
  <1>15. RaiseStep
    BY <1>3, UnraisedKept
  <1> QED
    BY <1>9, <1>12, <1>13, <1>14, <1>15 DEF IInv, Preserved

LEMMA RemoveReleaseInv ==
  ASSUME IInv, NEW t \in Threads, RemoveRelease(t)
  PROVE  Preserved
  <1>1. /\ At(t, "release", "lower") /\ PC(t) = "release"
        /\ ReleaseAllocation(t, thread[t].stream, thread[t].size)
        /\ UNCHANGED <<backpressureVars, streamBuffers, reservations>>
    BY DEF RemoveRelease, At
  <1>2. PICK r \in ThreadRecord :
          thread' = [thread EXCEPT ![t] = r] /\ r.pc = "lower" /\ r.stream = thread[t].stream
    BY <1>1, AtMoves DEF IInv, ThreadPC, Returning
  <1> QED
    BY <1>1, <1>2, ReleaseHoldingInv

LEMMA RemoveEndInv ==
  ASSUME IInv, NEW t \in Threads, RemoveEnd(t)
  PROVE  Preserved
  <1>1. /\ At(t, "unlock", "idle") /\ PC(t) = "unlock"
        /\ UNCHANGED <<windowVars, backpressureVars, streamBuffers>>
        /\ reservations' \in [ReservationIds -> Nat]
    BY DEF RemoveEnd, At, IInv, PInv, LayerTypeOK
  <1>2. WindowPC(t) = "idle"
    BY <1>1, ThreadFacts DEF IInv, WindowCallers
  <1> QED
    BY <1>1, <1>2, QuietAt DEF ThreadPC, ForStream, Sizing, HoldingBuffers

(* A goroutine that calls into the backpressure manager.                   *)
LEMMA CallMove ==
  ASSUME IInv, NEW t \in Threads, NEW r \in ThreadRecord, thread' = [thread EXCEPT ![t] = r],
         BInv', RaiseStep, UNCHANGED <<windowVars, streamBuffers, reservations>>,
         PC(t) \notin {"release", "rollback"},
         r.pc \in {"unlock", "returning", "consumed"},
         r.pc = "consumed" => r.stream \in Streams,
         r.pc = "unlock" => PC(t) \in HoldingBuffers,
         WindowPC(t) = "idle"
  PROVE  Preserved
  <1>1. WInv /\ BInv /\ PInv
    BY DEF IInv
  <1>2. WInv'
    BY <1>1, WindowKeptInv
  <1>3. /\ streamBuffers' \in [Streams -> Nat] /\ reservations' \in [ReservationIds -> Nat]
        /\ UNCHANGED <<streamBuffers, streamAllocations, windowAt>>
    BY <1>1 DEF PInv, LayerTypeOK, windowVars
  <1>4. PInv'
    BY <1>1, <1>3, LayerStepInv DEF HoldingBuffers, ForStream, Sizing, WindowPC
  <1>5. OrphanStep /\ KeptStep
    BY <1>1, <1>3, NoOrphanStep
  <1> QED
    BY <1>2, <1>4, <1>5 DEF IInv, Preserved

LEMMA RemoveLowerInv ==
  ASSUME IInv, NEW t \in Threads, RemoveLower(t)
  PROVE  Preserved
  <1>1. /\ At(t, "lower", "unlock") /\ PC(t) = "lower" /\ WindowPC(t) = "idle"
        /\ Deactivate(t, thread[t].stream)
        /\ UNCHANGED <<windowVars, streamBuffers, reservations>>
    BY DEF RemoveLower, At, WindowReturned
  <1>2. thread[t].stream \in Streams
    BY <1>1, ThreadFacts DEF IInv, ForStream
  <1>3. BInv' /\ RaiseStep
    BY <1>1, <1>2, DeactivateInv DEF IInv, RaiseStep
  <1>4. PICK r \in ThreadRecord : thread' = [thread EXCEPT ![t] = r] /\ r.pc = "unlock"
    BY <1>1, AtMoves DEF IInv, ThreadPC
  <1> QED
    BY <1>1, <1>3, <1>4, CallMove DEF HoldingBuffers

---------------------------------------------------------------------------
(* Writes, reads and the maintenance.                                      *)

LEMMA UseInv ==
  ASSUME IInv, NEW t \in Threads, Use(t)
  PROVE  Preserved
  <1>1. PICK s \in Existing :
          thread' = [thread EXCEPT ![t] = [@ EXCEPT !.pc = "using", !.stream = s]]
    BY DEF Use
  <1> DEFINE r == [thread[t] EXCEPT !.pc = "using", !.stream = s]
  <1>2. /\ PC(t) = "idle" /\ UNCHANGED <<windowVars, backpressureVars, streamBuffers>>
        /\ reservations' \in [ReservationIds -> Nat]
    BY DEF Use, IInv, PInv, LayerTypeOK
  <1>3. thread[t] \in ThreadRecord /\ WindowPC(t) = "idle" /\ s \in Streams
    BY <1>2, ThreadFacts DEF IInv, WindowCallers, Existing
  <1>4. r \in ThreadRecord /\ r.pc = "using" /\ r.stream = s /\ thread' = [thread EXCEPT ![t] = r]
    BY <1>1, <1>3 DEF ThreadRecord, ThreadPC
  <1> HIDE DEF r
  <1> QED
    BY <1>2, <1>3, <1>4, QuietMove DEF HoldingBuffers, Sizing

LEMMA CallbackRaisesInv ==
  ASSUME IInv, NEW t \in Threads, CallbackRaises(t)
  PROVE  Preserved
  <1>1. /\ At(t, "using", "returning") /\ PC(t) = "using"
        /\ Activate(t, thread[t].stream)
        /\ UNCHANGED <<windowVars, streamBuffers, reservations>>
    BY DEF CallbackRaises, At
  <1>2. thread[t].stream \in Streams /\ WindowPC(t) = "idle"
    BY <1>1, ThreadFacts DEF IInv, ForStream, WindowCallers
  <1>3. BInv' /\ RaiseStep
    BY <1>1, <1>2, ActivateInv DEF IInv, RaiseStep
  <1>4. PICK r \in ThreadRecord : thread' = [thread EXCEPT ![t] = r] /\ r.pc = "returning"
    BY <1>1, AtMoves DEF IInv, ThreadPC
  <1> QED
    BY <1>1, <1>2, <1>3, <1>4, CallMove

LEMMA CallbackLowersInv ==
  ASSUME IInv, NEW t \in Threads, CallbackLowers(t)
  PROVE  Preserved
  <1>1. /\ At(t, "using", "consumed") /\ PC(t) = "using"
        /\ Deactivate(t, thread[t].stream)
        /\ UNCHANGED <<windowVars, streamBuffers, reservations>>
    BY DEF CallbackLowers, At
  <1>2. thread[t].stream \in Streams /\ WindowPC(t) = "idle"
    BY <1>1, ThreadFacts DEF IInv, ForStream, WindowCallers
  <1>3. BInv' /\ RaiseStep
    BY <1>1, <1>2, DeactivateInv DEF IInv, RaiseStep
  <1>4. PICK r \in ThreadRecord :
          thread' = [thread EXCEPT ![t] = r] /\ r.pc = "consumed" /\ r.stream = thread[t].stream
    BY <1>1, AtMoves DEF IInv, ThreadPC, Returning
  <1> QED
    BY <1>1, <1>2, <1>3, <1>4, CallMove

(* A goroutine that calls into the window, as a reader, as the slider or   *)
(* to resize it.                                                           *)
LEMMA WindowMove ==
  ASSUME IInv, NEW t \in Threads, NEW here, At(t, here, "returning"),
         here \notin {"release", "rollback"},
         WInv', UNCHANGED <<backpressureVars, streamBuffers, reservations, streamAllocations>>,
         NEW q, GoTo(t, q)
  PROVE  Preserved
  <1>1. WInv /\ BInv /\ PInv
    BY DEF IInv
  <1>2. BInv' /\ RaiseStep
    BY <1>1, BackpressureKeptInv, UnraisedKept
  <1>3. PICK r \in ThreadRecord :
          thread' = [thread EXCEPT ![t] = r] /\ r.pc = "returning" /\ PC(t) = here
    BY <1>1, AtMoves DEF ThreadPC
  <1>4. streamBuffers' \in [Streams -> Nat] /\ reservations' \in [ReservationIds -> Nat]
    BY <1>1 DEF PInv, LayerTypeOK
  <1>5. \A u \in Threads \ {t} : windowAt'[u] = windowAt[u]
    BY <1>1, WindowFacts DEF GoTo
  <1>6. PInv'
    BY <1>1, <1>3, <1>4, <1>5, LayerStepInv
    DEF HoldingBuffers, ForStream, Sizing, WindowCallers
  <1>7. OrphanStep /\ KeptStep
    BY <1>1, <1>3, NoOrphanStep
  <1> QED
    BY <1>2, <1>6, <1>7 DEF IInv, Preserved

LEMMA ReadSlidesInv ==
  ASSUME IInv, NEW t \in Threads, ReadSlides(t)
  PROVE  Preserved
  <1>1. /\ PC(t) \in {"using", "consumed"} /\ At(t, PC(t), "returning") /\ Slide(t, ReadSize)
        /\ UNCHANGED <<backpressureVars, streamBuffers, reservations>>
    BY DEF ReadSlides
  <1>2. WindowPC(t) = "idle"
    BY <1>1, ThreadFacts DEF IInv, WindowCallers
  <1>3. WInv'
    BY <1>1, <1>2, SlideInv, PresentationAssumption DEF IInv
  <1>4. PICK q : GoTo(t, q) /\ UNCHANGED streamAllocations
    BY <1>1 DEF Slide
  <1> QED
    BY <1>1, <1>3, <1>4, WindowMove

LEMMA UseEndsInv ==
  ASSUME IInv, NEW t \in Threads, UseEnds(t)
  PROVE  Preserved
  <1>1. /\ PC(t) \in {"using", "consumed", "returning"} /\ At(t, PC(t), "idle")
        /\ WindowPC(t) = "idle"
        /\ UNCHANGED <<windowVars, backpressureVars, streamBuffers>>
        /\ reservations' \in [ReservationIds -> Nat]
    BY DEF UseEnds, WindowReturned, IInv, PInv, LayerTypeOK
  <1> QED
    BY <1>1, QuietAt DEF ThreadPC, ForStream, Sizing, HoldingBuffers

LEMMA UseStepInv ==
  ASSUME IInv, NEW t \in Threads, UseStep(t)
  PROVE  Preserved
  BY CallbackRaisesInv, CallbackLowersInv, ReadSlidesInv, UseEndsInv DEF UseStep

---------------------------------------------------------------------------
(* The garbage collector, the tickers and the inside of the calls.         *)

LEMMA CollectBeginInv ==
  ASSUME IInv, NEW t \in Threads, CollectBegin(t)
  PROVE  Preserved
  <1> DEFINE O == {s \in Streams : streamAllocations[s] > 0}
             r == [thread[t] EXCEPT !.pc = "compare", !.orphans = O]
  <1>1. /\ PC(t) = "idle" /\ UNCHANGED <<windowVars, backpressureVars, streamBuffers>>
        /\ reservations' \in [ReservationIds -> Nat] /\ thread' = [thread EXCEPT ![t] = r]
    BY DEF CollectBegin, IInv, PInv, LayerTypeOK
  <1>2. thread[t] \in ThreadRecord /\ WindowPC(t) = "idle" /\ O \subseteq Streams
    BY <1>1, ThreadFacts DEF IInv, WindowCallers
  <1> HIDE DEF O
  <1>3. r \in ThreadRecord /\ r.pc = "compare"
    BY <1>2 DEF ThreadRecord, ThreadPC
  <1> HIDE DEF r
  <1> QED
    BY <1>1, <1>2, <1>3, QuietMove DEF HoldingBuffers, ForStream, Sizing

LEMMA CollectCompareInv ==
  ASSUME IInv, NEW t \in Threads, CollectCompare(t)
  PROVE  Preserved
  <1> DEFINE O == thread[t].orphans \ Existing
             r == [thread[t] EXCEPT !.pc = "collect", !.orphans = O]
  <1>1. /\ PC(t) = "compare" /\ UNCHANGED <<windowVars, backpressureVars, streamBuffers>>
        /\ reservations' \in [ReservationIds -> Nat]
    BY DEF CollectCompare, IInv, PInv, LayerTypeOK
  <1>2. thread[t] \in ThreadRecord /\ O \subseteq Streams
    BY ThreadFacts DEF IInv, ThreadRecord
  <1>3. thread' = [thread EXCEPT ![t] = r]
    BY DEF CollectCompare
  <1> HIDE DEF O
  <1>4. r \in ThreadRecord /\ r.pc = "collect"
    BY <1>2 DEF ThreadRecord, ThreadPC
  <1> HIDE DEF r
  <1> QED
    BY <1>1, <1>3, <1>4, QuietMove DEF HoldingBuffers, ForStream, Sizing, WindowCallers

LEMMA CollectNextInv ==
  ASSUME IInv, NEW t \in Threads, CollectNext(t)
  PROVE  Preserved
  <1>1. PICK s \in thread[t].orphans :
          thread' = [thread EXCEPT ![t] =
            [@ EXCEPT !.orphans = thread[t].orphans \ {s}, !.stream = s, !.size = streamAllocations[s],
                      !.pc = IF streamAllocations[s] > 0 THEN "reclaim" ELSE "collect"]]
    BY DEF CollectNext
  <1> DEFINE O == thread[t].orphans \ {s}
             n == streamAllocations[s]
             q == IF n > 0 THEN "reclaim" ELSE "collect"
             r == [thread[t] EXCEPT !.orphans = O, !.stream = s, !.size = n, !.pc = q]
  <1>2. /\ PC(t) = "collect" /\ WindowPC(t) = "idle"
        /\ UNCHANGED <<windowVars, backpressureVars, streamBuffers>>
        /\ reservations' \in [ReservationIds -> Nat]
    BY DEF CollectNext, WindowReturned, IInv, PInv, LayerTypeOK
  <1>3. thread[t] \in ThreadRecord /\ O \subseteq Streams /\ s \in Streams
    BY ThreadFacts DEF IInv, ThreadRecord
  <1>4. n \in Nat /\ q \in {"reclaim", "collect"}
    BY <1>3, WindowFacts DEF IInv
  <1>5. thread' = [thread EXCEPT ![t] = r]
    BY <1>1
  <1> HIDE DEF O, n, q
  <1>6. r \in ThreadRecord /\ r.pc = q /\ r.stream = s
    BY <1>3, <1>4 DEF ThreadRecord, ThreadPC
  <1> HIDE DEF r
  <1> QED
    BY <1>2, <1>3, <1>4, <1>5, <1>6, QuietMove DEF HoldingBuffers, Sizing

(* The collector alone may take the window of a stream that has a buffer.  *)
LEMMA CollectReleaseInv ==
  ASSUME IInv, NEW t \in Threads, CollectRelease(t)
  PROVE  Preserved
  <1> DEFINE s == thread[t].stream
             n == thread[t].size
             r == [IdleThread EXCEPT !.pc = "collect", !.orphans = thread[t].orphans]
  <1>1. WInv /\ BInv /\ PInv
    BY DEF IInv
  <1>2. /\ PC(t) = "reclaim" /\ ReleaseAllocation(t, s, n)
        /\ thread' = [thread EXCEPT ![t] = r]
        /\ UNCHANGED <<backpressureVars, streamBuffers, reservations>>
    BY DEF CollectRelease
  <1>3. s \in Streams /\ n \in Nat /\ thread[t].orphans \in SUBSET Streams
    BY <1>1, <1>2, ThreadFacts DEF ThreadRecord, ForStream
  <1>4. r \in ThreadRecord /\ r.pc = "collect"
    BY <1>3 DEF IdleThread, ThreadRecord, ThreadPC
  <1> HIDE DEF r
  <1>5. WInv' /\ BInv'
    BY <1>1, <1>2, <1>3, ReleaseAllocationInv, BackpressureKeptInv
  <1>6. /\ streamBuffers' \in [Streams -> Nat] /\ reservations' \in [ReservationIds -> Nat]
        /\ streamAllocations \in [Streams -> Nat] /\ streamAllocations' \in [Streams -> Nat]
    BY <1>1, <1>2, <1>5, WindowFacts DEF PInv, LayerTypeOK, WInv, WindowTypeOK
  <1>7. /\ \A q \in Streams \ {s} : streamAllocations'[q] = streamAllocations[q]
        /\ streamAllocations'[s] <= streamAllocations[s]
        /\ \A u \in Threads \ {t} : windowAt'[u] = windowAt[u]
    BY <1>1, <1>2, <1>3, ReleaseEffect
  <1>8. PInv'
    BY <1>1, <1>2, <1>4, <1>6, <1>7, LayerStepInv
    DEF HoldingBuffers, ForStream, Sizing, WindowCallers
  <1>9. OrphanStep
    <2>1. \A q \in Streams : streamAllocations'[q] > 0 => streamAllocations[q] > 0
      <3> TAKE q \in Streams
      <3>1. streamAllocations[q] \in Nat /\ streamAllocations'[q] \in Nat
        BY <1>6
      <3>2. streamAllocations'[q] <= streamAllocations[q]
        BY <1>7, <3>1
      <3> QED
        BY <3>1, <3>2
    <2>2. Accounted(t, r)
      BY <1>2, <2>1 DEF Accounted
    <2> QED
      BY <1>1, <1>2, <1>4, <2>2, OrphanStepLocal
  <1>10. KeptStep
    <2> SUFFICES ASSUME NEW q \in Streams, streamAllocations'[q] < streamAllocations[q]
                 PROVE  \E u \in Threads : PC(u) = "reclaim" /\ thread[u].stream = q
      BY DEF KeptStep
    <2>1. q = s
      BY <1>6, <1>7
    <2> QED
      BY <1>2, <2>1
  <1>11. RaiseStep
    BY <1>2, UnraisedKept
  <1> QED
    BY <1>5, <1>8, <1>9, <1>10, <1>11 DEF IInv, Preserved

LEMMA ExpireType ==
  ASSUME PInv, Expire
  PROVE  reservations' \in [ReservationIds -> Nat]
  BY DEF Expire, PInv, LayerTypeOK

LEMMA CollectEndInv ==
  ASSUME IInv, NEW t \in Threads, CollectEnd(t)
  PROVE  Preserved
  <1>1. /\ At(t, "collect", "idle") /\ WindowPC(t) = "idle"
        /\ UNCHANGED <<windowVars, backpressureVars, streamBuffers>>
        /\ reservations' \in [ReservationIds -> Nat]
    BY ExpireType DEF CollectEnd, WindowReturned, IInv
  <1> QED
    BY <1>1, QuietAt DEF ThreadPC, ForStream, Sizing, HoldingBuffers

LEMMA CollectStepInv ==
  ASSUME IInv, NEW t \in Threads, CollectStep(t)
  PROVE  Preserved
  BY CollectCompareInv, CollectNextInv, CollectReleaseInv, CollectEndInv DEF CollectStep

LEMMA TickInv ==
  ASSUME IInv, NEW t \in Threads, SlideTick(t) \/ SetReceiveWindowSize(t)
  PROVE  Preserved
  <1>1. /\ At(t, "idle", "returning")
        /\ UNCHANGED <<backpressureVars, streamBuffers, reservations>>
    BY DEF SlideTick, SetReceiveWindowSize
  <1>2. AutoSlideProbe(t) \/ SetWindowSize(t)
    BY DEF SlideTick, SetReceiveWindowSize
  <1>3. WInv'
    BY <1>2, AutoSlideProbeInv, SetWindowSizeInv DEF IInv
  <1>4. PICK q : GoTo(t, q) /\ UNCHANGED streamAllocations
    BY <1>2 DEF AutoSlideProbe, SetWindowSize
  <1> QED
    BY <1>1, <1>3, <1>4, WindowMove

(* A step that moves no goroutine of the layer.                            *)
LEMMA StandStill ==
  ASSUME IInv, NEW t \in Threads, WInv', BInv', RaiseStep,
         UNCHANGED <<streamBuffers, thread, streamAllocations>>,
         reservations' \in [ReservationIds -> Nat],
         \A u \in Threads \ {t} : windowAt'[u] = windowAt[u],
         windowAt'[t].pc # "idle" => WindowPC(t) # "idle"
  PROVE  Preserved
  <1> DEFINE r == thread[t]
  <1>1. WInv /\ BInv /\ PInv
    BY DEF IInv
  <1>2. r \in ThreadRecord /\ thread' = [thread EXCEPT ![t] = r] /\ PC(t) = r.pc
    BY <1>1 DEF PInv, LayerTypeOK, PC
  <1>3. /\ r.pc \in ForStream => r.stream \in Streams
        /\ r.pc \in Sizing => r.size > 0
        /\ WindowPC(t) # "idle" => r.pc \in WindowCallers
        /\ r.pc \in {"rollback", "release"} => streamBuffers[r.stream] = 0
    BY <1>1, <1>2, ThreadFacts DEF PInv, Emptied
  <1>4. streamBuffers' \in [Streams -> Nat]
    BY <1>1 DEF PInv, LayerTypeOK
  <1> HIDE DEF r
  <1>5. PInv'
    BY <1>1, <1>2, <1>3, <1>4, LayerStepInv
  <1>6. OrphanStep
    BY DEF OrphanStep, Orphaned, PC
  <1>7. KeptStep
    BY <1>1, WindowFacts DEF KeptStep
  <1> QED
    BY <1>5, <1>6, <1>7 DEF IInv, Preserved

LEMMA ManagerStepInv ==
  ASSUME IInv, NEW t \in Threads, ManagerStep(t)
  PROVE  Preserved
  <1>1. /\ reservations' \in [ReservationIds -> Nat]
        /\ UNCHANGED <<streamBuffers, thread>> /\ WInv /\ BInv
    BY DEF ManagerStep, IInv, PInv, LayerTypeOK
  <1>2. CASE WindowStep(t) /\ UNCHANGED backpressureVars
    <2>1. WInv' /\ BInv' /\ RaiseStep
      BY <1>1, <1>2, WindowStepsInv, BackpressureKeptInv, UnraisedKept
    <2>2. UNCHANGED streamAllocations /\ WindowPC(t) # "idle"
      BY <1>2 DEF WindowStep, ReleaseSpace, Probe, Clear, AutoSlide, Slide
    <2>3. \A u \in Threads \ {t} : windowAt'[u] = windowAt[u]
      BY <1>1, <1>2, WindowFacts
      DEF WindowStep, ReleaseSpace, Probe, Clear, AutoSlide, Slide, GoTo
    <2> QED
      BY <1>1, <2>1, <2>2, <2>3, StandStill
  <1>3. CASE CallStep(t) /\ UNCHANGED windowVars
    <2>1. WInv' /\ BInv' /\ RaiseStep
      BY <1>1, <1>3, WindowKeptInv, CallStepInv DEF RaiseStep
    <2>2. UNCHANGED <<streamAllocations, windowAt>>
      BY <1>3 DEF windowVars
    <2> QED
      BY <1>1, <2>1, <2>2, StandStill DEF WindowPC
  <1> QED
    BY <1>2, <1>3 DEF ManagerStep

LEMMA CleanupReservationsInv ==
  ASSUME IInv, CleanupReservations
  PROVE  Preserved
  <1>1. PICK t \in Threads : TRUE
    BY PresentationAssumption
  <1>2. /\ UNCHANGED <<windowVars, backpressureVars, streamBuffers, thread>>
        /\ reservations' \in [ReservationIds -> Nat]
    BY ExpireType DEF CleanupReservations, IInv
  <1>3. WInv' /\ BInv' /\ RaiseStep
    BY <1>2, WindowKeptInv, BackpressureKeptInv, UnraisedKept DEF IInv
  <1>4. UNCHANGED <<streamAllocations, windowAt>>
    BY <1>2 DEF windowVars
  <1> QED
    BY <1>2, <1>3, <1>4, StandStill DEF WindowPC

LEMMA ForgetInactiveInv ==
  ASSUME IInv, ForgetInactive
  PROVE  Preserved
  <1>1. PICK t \in Threads : TRUE
    BY PresentationAssumption
  <1>2. /\ UNCHANGED <<windowVars, streamBuffers, thread>> /\ CleanupInactiveStreams
        /\ reservations' \in [ReservationIds -> Nat]
    BY DEF ForgetInactive, IInv, PInv, LayerTypeOK
  <1>3. WInv' /\ BInv' /\ RaiseStep
    BY <1>2, WindowKeptInv, CleanupInv DEF IInv, RaiseStep
  <1>4. UNCHANGED <<streamAllocations, windowAt>>
    BY <1>2 DEF windowVars
  <1> QED
    BY <1>2, <1>3, <1>4, StandStill DEF WindowPC

LEMMA StutterInv ==
  ASSUME IInv, UNCHANGED vars
  PROVE  Preserved
  <1>1. PICK t \in Threads : TRUE
    BY PresentationAssumption
  <1>2. UNCHANGED <<windowVars, backpressureVars, streamBuffers, thread, reservations>>
    BY DEF vars
  <1>3. WInv' /\ BInv' /\ RaiseStep
    BY <1>2, WindowKeptInv, BackpressureKeptInv, UnraisedKept DEF IInv
  <1>4. UNCHANGED <<streamAllocations, windowAt>> /\ reservations' \in [ReservationIds -> Nat]
    BY <1>2 DEF windowVars, IInv, PInv, LayerTypeOK
  <1> QED
    BY <1>2, <1>3, <1>4, StandStill DEF WindowPC

---------------------------------------------------------------------------
LEMMA InitInv == Init => IInv
  <1> SUFFICES ASSUME Init PROVE IInv
    OBVIOUS
  <1>1. WInv /\ BInv
    BY WindowInitInv, BackpressureInitInv DEF Init
  <1>2. IdleThread \in ThreadRecord
    BY DEF IdleThread, ThreadRecord, ThreadPC
  <1>3. LayerTypeOK
    BY <1>2 DEF Init, LayerTypeOK
  <1>4. \A t \in Threads : PC(t) = "idle" /\ WindowPC(t) = "idle"
    BY DEF Init, IdleThread, PC, WindowInit, WindowIdle, WindowPC
  <1>5. LocalsOK /\ OneHolder /\ Emptied /\ CallerWaits
    BY <1>4 DEF LocalsOK, OneHolder, Emptied, CallerWaits, ForStream, Sizing, HoldingBuffers
  <1> QED
    BY <1>1, <1>3, <1>5 DEF IInv, PInv

LEMMA NextInv == IInv /\ [Next]_vars => Preserved
  <1> SUFFICES ASSUME IInv, [Next]_vars PROVE Preserved
    OBVIOUS
  <1>1. ASSUME NEW t \in Threads, Begin(t) PROVE Preserved
    BY <1>1, ReserveInv, RemoveBeginInv, UseInv, CollectBeginInv, TickInv DEF Begin
  <1>2. ASSUME NEW t \in Threads, Step(t) PROVE Preserved
    BY <1>2, CreateStepInv, RemoveReleaseInv, RemoveLowerInv, RemoveEndInv, UseStepInv,
       CollectStepInv, ManagerStepInv DEF Step
  <1>3. CASE CleanupReservations \/ ForgetInactive
    BY <1>3, CleanupReservationsInv, ForgetInactiveInv
  <1>4. CASE UNCHANGED vars
    BY <1>4, StutterInv
  <1> QED
    BY <1>1, <1>2, <1>3, <1>4 DEF Next

(* The invariant of the layer holds of every reachable state.              *)
THEOREM Inductive == Spec => []IInv
  <1>1. Init => IInv
    BY InitInv
  <1>2. IInv /\ [Next]_vars => IInv'
    BY NextInv DEF Preserved
  <1> QED
    BY <1>1, <1>2, PTL DEF Spec

(* The state keeps its shape; above all the available size a creation      *)
(* measures, an unsigned difference, is no wrapped-around number           *)
(* (createStreamBufferAtomic).                                             *)
THEOREM TypeCorrect == Spec => []TypeOK
  <1>1. IInv => TypeOK
    BY DEF IInv, WInv, BInv, PInv, LayerTypeOK, ThreadRecord, TypeOK
  <1> QED
    BY <1>1, Inductive, PTL

(* What AllocateWindowAtomic, ReleaseWindow, SlideWindow and SetWindowSize *)
(* leave used never exceeds the window, whatever calls come between.       *)
THEOREM UsedFitsWindow == Spec => []UsedWithinWindow
  <1>1. IInv => UsedWithinWindow
    BY DEF IInv, WInv
  <1> QED
    BY <1>1, Inductive, PTL

(* No byte of the window leaks through creations, failed creations,        *)
(* removals and collections, though ReleaseWindow changes the allocation   *)
(* and the used size in two steps.                                         *)
THEOREM NothingLeaks == Spec => []UsedIsAllocated
  <1>1. IInv => UsedIsAllocated
    BY DEF IInv, WInv
  <1> QED
    BY <1>1, Inductive, PTL

(* A high ratio of ActivateBackpressure is never left unanswered, but by   *)
(* the worker that forgets inactive streams.                               *)
THEOREM RaisesAreNotLost == Spec => RaiseIsNotLost
  <1>1. IInv /\ [Next]_vars => [Unraised' => Unraised \/ Forgetting]_backpressureVars
    BY NextInv DEF Preserved, RaiseStep
  <1> QED
    BY <1>1, Inductive, PTL DEF Spec, RaiseIsNotLost

(* Creation, removal and rollback leave no allocation without an owner,    *)
(* unless the collector has been at it too.                                *)
THEOREM NoOrphanIsMade == Spec => NoNewOrphan
  <1>1. IInv /\ [Next]_vars => OrphanStep
    BY NextInv DEF Preserved
  <1>2. Spec => [][OrphanStep]_vars
    BY <1>1, Inductive, PTL DEF Spec
  <1> QED
    BY <1>2 DEF NoNewOrphan, OrphanStep

(* A stream keeps its window for as long as it has its buffer:             *)
(* buffersMutex excludes every release but the collector's.                *)
THEOREM WindowsAreKept == Spec => WindowIsKept
  <1>1. IInv /\ [Next]_vars => KeptStep
    BY NextInv DEF Preserved
  <1>2. Spec => [][KeptStep]_vars
    BY <1>1, Inductive, PTL DEF Spec
  <1> QED
    BY <1>2 DEF WindowIsKept, KeptStep
=============================================================================
