--------------------------- MODULE ReceiveWindow ----------------------------
(***************************************************************************)
(* The receive window (pkg/presentation/receive_window_manager.go): one    *)
(* budget of bytes for all streams.  allocationsMutex guards the           *)
(* allocations, sizeMutex the totals; ReleaseWindow takes one after the    *)
(* other, so that the two disagree in between.                             *)
(*                                                                         *)
(* windowAt says where the call of each goroutine stands:                  *)
(*   space         released its allocation, not yet the used size          *)
(*   probe, clear  checkBackpressureRelease: the test, then the reset      *)
(*   autoslide     the slider has seen some utilization                    *)
(*   slideprobe, slideclear   the same check under slideMutex              *)
(*   stuck         SetWindowSize waits for the sizeMutex it holds          *)
(***************************************************************************)
EXTENDS PresentationCallers

CONSTANTS InitialSize,     \* the configured window size
          WindowSizes,     \* sizes between MinSize and MaxSize that SetWindowSize is given
          SlideSize,       \* what the automatic slide frees
          FullPercent      \* BackpressureThreshold, in percent

VARIABLES totalSize, usedSize,
          streamAllocations,       \* bytes per stream; 0 when it has no entry
          isBackpressureActive,
          windowAt                 \* per thread: [pc, size]

windowVars == <<totalSize, usedSize, streamAllocations, isBackpressureActive, windowAt>>

(* Mutant: the subtraction without its clamp. *)
LessUnclamped(a, b) == a - b

Less(a, b) == IF a >= b THEN a - b ELSE 0

WindowIdle == [pc |-> "idle", size |-> 0]
WindowPC(t) == windowAt[t].pc
GoTo(t, pc) == windowAt' = [windowAt EXCEPT ![t] = IF pc = "idle" THEN WindowIdle
                                                   ELSE [@ EXCEPT !.pc = pc]]

SizeFree  == \A t \in Threads : WindowPC(t) # "stuck"
SlideFree == \A t \in Threads : WindowPC(t) \notin {"slideprobe", "slideclear"}

Full(used, total) == 100 * used >= FullPercent * total

WindowInit ==
  /\ totalSize = InitialSize
  /\ usedSize = 0
  /\ streamAllocations = [s \in Streams |-> 0]
  /\ isBackpressureActive = FALSE
  /\ windowAt = [t \in Threads |-> WindowIdle]

(* Mutant: the space check forgets the requested size. *)
FreeSomewhat(n) == usedSize < totalSize

Free(n) == usedSize + n <= totalSize

AtStreamLimit(s) ==
  /\ streamAllocations[s] = 0
  /\ Cardinality({u \in Streams : streamAllocations[u] > 0}) >= MaxStreams

(* AllocateWindowAtomic holds both mutexes. *)
Allocate(s, n) ==
  /\ SizeFree
  /\ ~AtStreamLimit(s) /\ Free(n)
  /\ usedSize' = usedSize + n
  /\ streamAllocations' = [streamAllocations EXCEPT ![s] = @ + n]
  /\ isBackpressureActive' = (isBackpressureActive \/ Full(usedSize', totalSize))
  /\ UNCHANGED <<totalSize, windowAt>>

(* Mutant: the size is charged before the check and not given back. *)
ChargedRefusal(s, n) ==
  /\ SizeFree
  /\ AtStreamLimit(s) \/ ~Free(n)
  /\ usedSize' = usedSize + n
  /\ isBackpressureActive' = (isBackpressureActive \/ ~AtStreamLimit(s))
  /\ UNCHANGED <<totalSize, streamAllocations, windowAt>>

(* Without room the refusal activates backpressure; at the limit it does    *)
(* not get that far.                                                        *)
AllocateRefused(s, n) ==
  /\ SizeFree
  /\ AtStreamLimit(s) \/ ~Free(n)
  /\ isBackpressureActive' = (isBackpressureActive \/ ~AtStreamLimit(s))
  /\ UNCHANGED <<totalSize, usedSize, streamAllocations, windowAt>>

(* ReleaseWindow: the allocation; an allocation that is gone or smaller    *)
(* ends the call with an error.                                            *)
ReleaseAllocation(t, s, n) ==
  /\ WindowPC(t) = "idle"
  /\ IF n <= streamAllocations[s] /\ streamAllocations[s] > 0
     THEN /\ streamAllocations' = [streamAllocations EXCEPT ![s] = @ - n]
          /\ windowAt' = [windowAt EXCEPT ![t] = [pc |-> "space", size |-> n]]
     ELSE UNCHANGED <<streamAllocations, windowAt>>
  /\ UNCHANGED <<totalSize, usedSize, isBackpressureActive>>

ReleaseSpace(t) ==
  /\ WindowPC(t) = "space" /\ SizeFree
  /\ usedSize' = Less(usedSize, windowAt[t].size)
  /\ windowAt' = [windowAt EXCEPT ![t] = [pc |-> "probe", size |-> 0]]
  /\ UNCHANGED <<totalSize, streamAllocations, isBackpressureActive>>

Probe(t) ==
  /\ WindowPC(t) \in {"probe", "slideprobe"} /\ SizeFree
  /\ GoTo(t, CASE Full(usedSize, totalSize) -> "idle"
               [] WindowPC(t) = "probe"     -> "clear"
               [] OTHER                     -> "slideclear")
  /\ UNCHANGED <<totalSize, usedSize, streamAllocations, isBackpressureActive>>

Clear(t) ==
  /\ WindowPC(t) \in {"clear", "slideclear"}
  /\ isBackpressureActive' = FALSE
  /\ GoTo(t, "idle")
  /\ UNCHANGED <<totalSize, usedSize, streamAllocations>>

(* SlideWindow frees n bytes of the window; no allocation changes. *)
Slide(t, n) ==
  /\ SlideFree /\ SizeFree
  /\ usedSize' = Less(usedSize, n)
  /\ GoTo(t, IF usedSize >= totalSize /\ usedSize' < totalSize THEN "slideprobe" ELSE "idle")
  /\ UNCHANGED <<totalSize, streamAllocations, isBackpressureActive>>

(* The ticker of the slider finds the last slide old (the time is not      *)
(* modelled) and more than a tenth of the window used, then slides.        *)
AutoSlideProbe(t) ==
  /\ WindowPC(t) = "idle" /\ SlideFree /\ SizeFree
  /\ 10 * usedSize > totalSize
  /\ GoTo(t, "autoslide")
  /\ UNCHANGED <<totalSize, usedSize, streamAllocations, isBackpressureActive>>

AutoSlide(t) ==
  /\ WindowPC(t) = "autoslide"
  /\ Slide(t, SlideSize)

CanResize(n) == n >= totalSize \/ usedSize <= n

(* SetWindowSize holds sizeMutex to its end.  When the window grows while  *)
(* backpressure is active it goes on to checkBackpressureRelease, which    *)
(* reads the utilization under the same mutex and never returns.           *)
SetWindowSize(t) ==
  /\ WindowPC(t) = "idle" /\ SizeFree
  /\ \E n \in WindowSizes :
       /\ CanResize(n)
       /\ totalSize' = n
       /\ GoTo(t, IF totalSize < n /\ isBackpressureActive THEN "stuck" ELSE "idle")
  /\ UNCHANGED <<usedSize, streamAllocations, isBackpressureActive>>

WindowStep(t) == ReleaseSpace(t) \/ Probe(t) \/ Clear(t) \/ AutoSlide(t)

-----------------------------------------------------------------------------
WindowPlaces == {"idle", "space", "probe", "clear", "autoslide",
                 "slideprobe", "slideclear", "stuck"}

WindowTypeOK ==
  /\ totalSize \in Nat /\ usedSize \in Nat
  /\ streamAllocations \in [Streams -> Nat]
  /\ isBackpressureActive \in BOOLEAN
  /\ windowAt \in [Threads -> [pc : WindowPlaces, size : Nat]]

(* What is used never exceeds the window, also when the window is shrunk   *)
(* between a check and an allocation: the available size, an unsigned      *)
(* difference, never wraps around.                                         *)
UsedWithinWindow == usedSize <= totalSize

(* No byte of the window leaks: what counts as used is allocated to a      *)
(* stream or on its way back, so that a layer without streams has its      *)
(* whole window again.                                                     *)
UsedIsAllocated ==
  usedSize <= Total(streamAllocations) + Total([t \in Threads |-> windowAt[t].size])
=============================================================================
