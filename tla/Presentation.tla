---------------------------- MODULE Presentation ----------------------------
(***************************************************************************)
(* The data presentation manager                                           *)
(* (pkg/presentation/data_presentation_manager.go) with its reservations   *)
(* (resource_reservation.go), its garbage collector (resource_gc.go), the  *)
(* receive window and the backpressure manager.  Goroutines create,        *)
(* remove, write, read and maintain streams; what happens inside one       *)
(* stream's buffer is StreamBuffer's.                                      *)
(*                                                                         *)
(* buffersMutex is held from the creation's check to its end and through   *)
(* a whole removal, the calls into the other managers included.            *)
(***************************************************************************)
EXTENDS ReceiveWindow, Backpressure

CONSTANTS BufferSizes,     \* what calculateAdaptiveBufferSize may answer
          ReadSize,        \* bytes a read consumes
          ReservationIds   \* as many as maxReservations

ASSUME PresentationAssumption ==
  /\ Threads # {} /\ IsFiniteSet(Threads) /\ IsFiniteSet(Streams)
  /\ IsFiniteSet(ReservationIds)
  /\ InitialSize \in Nat \ {0} /\ WindowSizes \subseteq Nat \ {0}
  /\ BufferSizes \subseteq Nat \ {0}
  /\ SlideSize \in Nat /\ ReadSize \in Nat /\ MaxStreams \in Nat
  /\ FullPercent \in 1 .. 100 /\ GlobalPercent \in 1 .. 100

VARIABLES streamBuffers,   \* per stream: capacity of its buffer, 0 without one
          reservations,    \* per id: its window, 0 when the id is free
          thread           \* per goroutine: where it stands and its locals

vars == <<windowVars, backpressureVars, streamBuffers, reservations, thread>>

IdleThread == [pc |-> "idle", stream |-> 0, id |-> 0, size |-> 0, avail |-> 0, orphans |-> {}]

PC(t) == thread[t].pc
Returning == {"idle", "returning", "unlock", "rolledback"}

(* What a call that has only to return still holds in its locals is gone. *)
At(t, here, there) ==
  /\ PC(t) = here
  /\ thread' = [thread EXCEPT ![t] = [IF there \in Returning THEN IdleThread ELSE @
                                        EXCEPT !.pc = there]]

Existing == {s \in Streams : streamBuffers[s] > 0}

HoldingBuffers == {"measure", "fit", "allocate", "commit", "rollback", "rolledback",
                   "release", "lower", "unlock"}
BuffersFree == \A t \in Threads : PC(t) \notin HoldingBuffers

(* A call of t into the window or the backpressure manager has returned. *)
WindowReturned(t) == WindowPC(t) = "idle"
CallReturned(t)   == callAt[t] = "idle"

ReservedWindow == Total(reservations)
Live(i) == reservations[i] > 0

Init ==
  /\ WindowInit /\ BackpressureInit
  /\ streamBuffers = [s \in Streams |-> 0]
  /\ reservations = [i \in ReservationIds |-> 0]
  /\ thread = [t \in Threads |-> IdleThread]

-----------------------------------------------------------------------------
(* createStreamBufferAtomic: create -> measure -> fit -> allocate ->       *)
(* commit, and the ways out.                                               *)

(* ReserveResources under a fresh id; with maxReservations live the        *)
(* creation fails at once.                                                 *)
Reserve(t) ==
  /\ PC(t) = "idle"
  /\ \E s \in Streams, n \in BufferSizes, i \in ReservationIds :
       /\ ~Live(i) /\ \A u \in Threads : thread[u].id # i
       /\ reservations' = [reservations EXCEPT ![i] = n]
       /\ thread' = [thread EXCEPT ![t] =
            [@ EXCEPT !.pc = "create", !.stream = s, !.id = i, !.size = n]]
  /\ UNCHANGED <<windowVars, backpressureVars, streamBuffers>>

(* The early return of a stream that exists is no assignment to err: the   *)
(* deferred release does not run, here and in CreateFit.                   *)
CreateCheck(t) ==
  /\ At(t, "create", IF thread[t].stream \in Existing THEN "idle" ELSE "measure")
  /\ BuffersFree
  /\ UNCHANGED <<windowVars, backpressureVars, streamBuffers, reservations>>

CreateMeasure(t) ==
  /\ PC(t) = "measure" /\ SizeFree
  /\ thread' = [thread EXCEPT ![t] = [@ EXCEPT !.pc = "fit", !.avail = totalSize - usedSize]]
  /\ UNCHANGED <<windowVars, backpressureVars, streamBuffers, reservations>>

(* The reserved window, the creation's own reservation included, is taken  *)
(* off; the buffer shrinks to what is left.                                *)
CreateFit(t) ==
  LET left == Less(thread[t].avail, ReservedWindow)
      size == thread[t].size
  IN  /\ PC(t) = "fit"
      /\ thread' = [thread EXCEPT ![t] =
           IF left = 0 THEN IdleThread
           ELSE [@ EXCEPT !.pc = "allocate", !.avail = 0,
                          !.size = IF size > left THEN left ELSE size]]
      /\ UNCHANGED <<windowVars, backpressureVars, streamBuffers, reservations>>

(* The window first, then the entry in the map: whoever looks at the map   *)
(* waits for buffersMutex, held since CreateCheck, so the entry's own      *)
(* moment is nobody's to see.                                              *)
CreateAllocate(t) ==
  /\ At(t, "allocate", "commit")
  /\ Allocate(thread[t].stream, thread[t].size)
  /\ streamBuffers' = [streamBuffers EXCEPT ![thread[t].stream] = thread[t].size]
  /\ UNCHANGED <<backpressureVars, reservations>>

CreateRefused(t) ==
  /\ At(t, "allocate", "giveback")
  /\ AllocateRefused(thread[t].stream, thread[t].size)
  /\ UNCHANGED <<backpressureVars, streamBuffers, reservations>>

(* The deferred ReleaseReservation, after the unlock. *)
CreateGiveBack(t) ==
  /\ At(t, "giveback", "idle")
  /\ reservations' = [reservations EXCEPT ![thread[t].id] = 0]
  /\ UNCHANGED <<windowVars, backpressureVars, streamBuffers>>

CreateCommit(t) ==
  /\ At(t, "commit", "idle")
  /\ Live(thread[t].id)
  /\ reservations' = [reservations EXCEPT ![thread[t].id] = 0]
  /\ UNCHANGED <<windowVars, backpressureVars, streamBuffers>>

(* The reservation has expired, swept already or found so by the commit,   *)
(* whatever time that takes.                                               *)
CreateCommitFails(t) ==
  /\ At(t, "commit", "rollback")
  /\ reservations' = [reservations EXCEPT ![thread[t].id] = 0]
  /\ streamBuffers' = [streamBuffers EXCEPT ![thread[t].stream] = 0]
  /\ UNCHANGED <<windowVars, backpressureVars>>

(* Mutant: the failed creation keeps its window. *)
RollbackKeepsWindow(t) ==
  /\ At(t, "rollback", "rolledback")
  /\ UNCHANGED <<windowVars, backpressureVars, streamBuffers, reservations>>

CreateRollback(t) ==
  /\ At(t, "rollback", "rolledback")
  /\ ReleaseAllocation(t, thread[t].stream, thread[t].size)
  /\ UNCHANGED <<backpressureVars, streamBuffers, reservations>>

CreateFailed(t) ==
  /\ At(t, "rolledback", "idle")
  /\ WindowReturned(t)
  /\ UNCHANGED <<windowVars, backpressureVars, streamBuffers, reservations>>

CreateStep(t) ==
  \/ CreateCheck(t) \/ CreateMeasure(t) \/ CreateFit(t) \/ CreateAllocate(t)
  \/ CreateRefused(t) \/ CreateGiveBack(t) \/ CreateCommit(t)
  \/ CreateCommitFails(t) \/ CreateRollback(t) \/ CreateFailed(t)

-----------------------------------------------------------------------------
(* RemoveStreamBuffer: release -> lower -> unlock.  The garbage collector  *)
(* calls it too, for streams it takes for idle.                            *)

(* Mutant: the buffer is deleted from the map last. *)
RemoveLate(t) ==
  /\ PC(t) = "idle" /\ BuffersFree /\ SizeFree
  /\ \E s \in Existing :
       thread' = [thread EXCEPT ![t] =
         [@ EXCEPT !.stream = s, !.size = streamAllocations[s],
                   !.pc = IF streamAllocations[s] > 0 THEN "release" ELSE "lower"]]
  /\ UNCHANGED <<windowVars, backpressureVars, streamBuffers, reservations>>

(* The window's status, Close and the deletion, all under buffersMutex,    *)
(* without which nobody looks at the map; Close is StreamBuffer's.         *)
RemoveBegin(t) ==
  /\ PC(t) = "idle" /\ BuffersFree /\ SizeFree
  /\ \E s \in Existing :
       /\ streamBuffers' = [streamBuffers EXCEPT ![s] = 0]
       /\ thread' = [thread EXCEPT ![t] =
            [@ EXCEPT !.stream = s, !.size = streamAllocations[s],
                      !.pc = IF streamAllocations[s] > 0 THEN "release" ELSE "lower"]]
  /\ UNCHANGED <<windowVars, backpressureVars, reservations>>

RemoveRelease(t) ==
  /\ At(t, "release", "lower")
  /\ ReleaseAllocation(t, thread[t].stream, thread[t].size)
  /\ UNCHANGED <<backpressureVars, streamBuffers, reservations>>

RemoveLower(t) ==
  /\ At(t, "lower", "unlock")
  /\ WindowReturned(t)
  /\ Deactivate(t, thread[t].stream)
  /\ UNCHANGED <<windowVars, streamBuffers, reservations>>

RemoveEnd(t) ==
  /\ At(t, "unlock", "idle")
  /\ CallReturned(t)
  /\ UNCHANGED <<windowVars, backpressureVars, streamBuffers, reservations>>

-----------------------------------------------------------------------------
(* A write, a read or the maintenance has looked the buffer up and works   *)
(* on it without buffersMutex: the buffer may be gone when it calls back.  *)

Use(t) ==
  /\ PC(t) = "idle" /\ BuffersFree
  /\ \E s \in Existing :
       thread' = [thread EXCEPT ![t] = [@ EXCEPT !.pc = "using", !.stream = s]]
  /\ UNCHANGED <<windowVars, backpressureVars, streamBuffers, reservations>>

(* A write or the maintenance finds the buffer full. *)
CallbackRaises(t) ==
  /\ At(t, "using", "returning")
  /\ Activate(t, thread[t].stream)
  /\ UNCHANGED <<windowVars, streamBuffers, reservations>>

(* A read has consumed a chunk, or the maintenance finds room. *)
CallbackLowers(t) ==
  /\ At(t, "using", "consumed")
  /\ Deactivate(t, thread[t].stream)
  /\ UNCHANGED <<windowVars, streamBuffers, reservations>>

(* ReadFromStream slides the window by what it read. *)
ReadSlides(t) ==
  /\ PC(t) \in {"using", "consumed"} /\ CallReturned(t)
  /\ At(t, PC(t), "returning")
  /\ Slide(t, ReadSize)
  /\ UNCHANGED <<backpressureVars, streamBuffers, reservations>>

(* The call returns; a write that stored its data or a read that found     *)
(* none has called nobody.                                                 *)
UseEnds(t) ==
  /\ PC(t) \in {"using", "consumed", "returning"}
  /\ CallReturned(t) /\ WindowReturned(t)
  /\ At(t, PC(t), "idle")
  /\ UNCHANGED <<windowVars, backpressureVars, streamBuffers, reservations>>

UseStep(t) == CallbackRaises(t) \/ CallbackLowers(t) \/ ReadSlides(t) \/ UseEnds(t)

-----------------------------------------------------------------------------
(* performGC: the window allocations first without, then with buffersMutex; *)
(* what is left has no buffer and is released; then expired reservations.   *)

CollectBegin(t) ==
  /\ PC(t) = "idle" /\ SizeFree
  /\ thread' = [thread EXCEPT ![t] =
       [@ EXCEPT !.pc = "compare", !.orphans = {s \in Streams : streamAllocations[s] > 0}]]
  /\ UNCHANGED <<windowVars, backpressureVars, streamBuffers, reservations>>

CollectCompare(t) ==
  /\ PC(t) = "compare" /\ BuffersFree
  /\ thread' = [thread EXCEPT ![t] =
       [@ EXCEPT !.pc = "collect", !.orphans = thread[t].orphans \ Existing]]
  /\ UNCHANGED <<windowVars, backpressureVars, streamBuffers, reservations>>

CollectNext(t) ==
  /\ PC(t) = "collect" /\ WindowReturned(t) /\ SizeFree
  /\ \E s \in thread[t].orphans :
       thread' = [thread EXCEPT ![t] =
         [@ EXCEPT !.orphans = thread[t].orphans \ {s}, !.stream = s, !.size = streamAllocations[s],
                   !.pc = IF streamAllocations[s] > 0 THEN "reclaim" ELSE "collect"]]
  /\ UNCHANGED <<windowVars, backpressureVars, streamBuffers, reservations>>

CollectRelease(t) ==
  /\ PC(t) = "reclaim"
  /\ ReleaseAllocation(t, thread[t].stream, thread[t].size)
  /\ thread' = [thread EXCEPT ![t] =
       [IdleThread EXCEPT !.pc = "collect", !.orphans = thread[t].orphans]]
  /\ UNCHANGED <<backpressureVars, streamBuffers, reservations>>

(* performCleanup of the reservations: any of them may have expired. *)
Expire ==
  \E expired \in SUBSET {i \in ReservationIds : Live(i)} :
    reservations' = [i \in ReservationIds |-> IF i \in expired THEN 0 ELSE reservations[i]]

CollectEnd(t) ==
  /\ At(t, "collect", "idle")
  /\ WindowReturned(t) /\ thread[t].orphans = {}
  /\ Expire
  /\ UNCHANGED <<windowVars, backpressureVars, streamBuffers>>

CollectStep(t) ==
  \/ CollectCompare(t) \/ CollectNext(t) \/ CollectRelease(t) \/ CollectEnd(t)

-----------------------------------------------------------------------------
(* The clock, the tickers and the calls into one manager only.             *)

CleanupReservations ==
  /\ Expire
  /\ UNCHANGED <<windowVars, backpressureVars, streamBuffers, thread>>

ForgetInactive ==
  /\ CleanupInactiveStreams
  /\ UNCHANGED <<windowVars, streamBuffers, reservations, thread>>

(* Between two operations a goroutine may be the slider's or resize the    *)
(* window.                                                                 *)
SlideTick(t) ==
  /\ At(t, "idle", "returning")
  /\ AutoSlideProbe(t)
  /\ UNCHANGED <<backpressureVars, streamBuffers, reservations>>

SetReceiveWindowSize(t) ==
  /\ At(t, "idle", "returning")
  /\ SetWindowSize(t)
  /\ UNCHANGED <<backpressureVars, streamBuffers, reservations>>

(* The inside of a call into the window or the backpressure manager. *)
ManagerStep(t) ==
  \/ WindowStep(t) /\ UNCHANGED <<backpressureVars, streamBuffers, reservations, thread>>
  \/ CallStep(t) /\ UNCHANGED <<windowVars, streamBuffers, reservations, thread>>

Step(t) ==
  \/ CreateStep(t)
  \/ RemoveRelease(t) \/ RemoveLower(t) \/ RemoveEnd(t)
  \/ UseStep(t) \/ CollectStep(t) \/ ManagerStep(t)

Begin(t) ==
  \/ Reserve(t) \/ RemoveBegin(t) \/ Use(t) \/ CollectBegin(t)
  \/ SlideTick(t) \/ SetReceiveWindowSize(t)

Next ==
  \/ \E t \in Threads : Begin(t) \/ Step(t)
  \/ CleanupReservations \/ ForgetInactive

Spec == Init /\ [][Next]_vars

-----------------------------------------------------------------------------
ThreadPC == {"idle", "create", "measure", "fit", "allocate", "commit", "giveback",
             "rollback", "rolledback", "release", "lower", "unlock",
             "using", "consumed", "returning", "compare", "collect", "reclaim"}

(* The shape of the state. *)
TypeOK ==
  /\ WindowTypeOK /\ BackpressureTypeOK
  /\ streamBuffers \in [Streams -> Nat]
  /\ reservations \in [ReservationIds -> Nat]
  /\ thread \in [Threads -> [pc : ThreadPC, stream : Streams \cup {0},
                             id : ReservationIds \cup {0}, size : Nat, avail : Nat,
                             orphans : SUBSET Streams]]

(* An allocation nobody answers for: its stream has no buffer, and no       *)
(* removal or failed creation is about to give it back.                    *)
Orphaned(s) ==
  /\ streamAllocations[s] > 0 /\ streamBuffers[s] = 0
  /\ \A t \in Threads : PC(t) \in {"release", "rollback"} => thread[t].stream # s

(* No step leaves an allocation behind for the garbage collector to find,  *)
(* but a removal or a rollback that gives back another size than the       *)
(* allocation has: the collector, running at the same time, has taken it   *)
(* for an orphan's.                                                        *)
NoNewOrphan ==
  [][\A s \in Streams : Orphaned(s)' => \/ Orphaned(s)
       \/ \E t \in Threads : /\ PC(t) \in {"release", "rollback"} /\ thread[t].stream = s
                             /\ thread[t].size # streamAllocations[s]]_vars

(* A stream keeps its window for as long as it exists: only the garbage    *)
(* collector, with an orphan list it made before the stream was created    *)
(* again, takes it away.                                                   *)
WindowIsKept ==
  [][\A s \in Streams :
       streamBuffers[s] > 0 /\ streamBuffers'[s] > 0 /\ streamAllocations'[s] < streamAllocations[s]
         => \E t \in Threads : PC(t) = "reclaim" /\ thread[t].stream = s]_vars

(* "Ensure we release the reservation if something goes wrong": with no    *)
(* creation under way nothing is reserved.                                 *)
ReservationsReleased ==
  (\A t \in Threads : thread[t].id = 0) => ReservedWindow = 0
=============================================================================
