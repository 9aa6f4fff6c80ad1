-------------------------- MODULE OffsetCoordinator --------------------------
(***************************************************************************)
(* The sending side of the offset coordinator                              *)
(* (pkg/data/offset_coordinator.go) for one stream: a writer reserves a    *)
(* range of the stream and commits it once the bytes are on their way, the *)
(* cleanup ticker forgets old reservations, Stop forgets everything.       *)
(*                                                                         *)
(* A writer holds the mutex of its stream from the reservation to the end  *)
(* of its call, so both are operators on the state, for the writer's       *)
(* action to apply in turn.  The list of ranges is a function on the       *)
(* numbers of the reservations, in whose order the code goes through it.   *)
(***************************************************************************)
EXTENDS Integers, Sequences, SequencesExt

VARIABLES
  coordinating,     \* running
  nextOffset,
  committedOffset,
  reservations,     \* how many there were
  reservedRanges    \* their ranges, as far as they are kept

coordinator == <<coordinating, nextOffset, committedOffset, reservations, reservedRanges>>

OffsetRange == [start : Nat, end : Nat, reserved : BOOLEAN]

CoordinatorTypeOK ==
  /\ coordinating \in BOOLEAN
  /\ nextOffset \in Nat /\ committedOffset \in Nat /\ reservations \in Nat
  /\ reservedRanges \in [DOMAIN reservedRanges -> OffsetRange]
  /\ DOMAIN reservedRanges \subseteq 1 .. reservations

CoordinatorInit ==
  /\ coordinating = TRUE
  /\ nextOffset = 0 /\ committedOffset = 0
  /\ reservations = 0 /\ reservedRanges = <<>>

(* ReserveOffsetRange refuses after Stop and for an empty range. *)
CanReserve(n) == coordinating /\ n > 0

(* A reservation in use that meets the n bytes from start on. *)
Conflicts(r, start, n) == r.reserved /\ start < r.end /\ r.start < start + n

(* The loop over the reservations: each one in the way pushes the start    *)
(* behind its end.                                                         *)
StartFor(n) ==
  IF \E i \in DOMAIN reservedRanges : Conflicts(reservedRanges[i], nextOffset, n)
  THEN LET push(start, i) == IF Conflicts(reservedRanges[i], start, n)
                             THEN reservedRanges[i].end ELSE start
       IN  FoldLeft(push, nextOffset, SetToSortSeq(DOMAIN reservedRanges, <))
  ELSE nextOffset

(* Mutant: a reservation does not advance the next offset. *)
NextUnmoved(start, n) == nextOffset

NextAfter(start, n) == start + n

(* The ranges with a reservation of n bytes from start on. *)
WithReservation(start, n) ==
  [i \in DOMAIN reservedRanges \cup {reservations + 1} |->
     IF i = reservations + 1 THEN [start |-> start, end |-> start + n, reserved |-> TRUE]
                             ELSE reservedRanges[i]]

Reserve(n) ==
  IF CanReserve(n)
  THEN nextOffset' = NextAfter(StartFor(n), n) /\ reservations' = reservations + 1
  ELSE UNCHANGED <<nextOffset, reservations>>

(* ReserveOffsetRange without a commit: the write failed in between. *)
ReserveOnly(n) ==
  /\ Reserve(n)
  /\ reservedRanges' = IF CanReserve(n) THEN WithReservation(StartFor(n), n) ELSE reservedRanges
  /\ UNCHANGED <<coordinating, committedOffset>>

(* CommitOffsetRange: the first reservation in use that begins at start is *)
(* confirmed.                                                              *)
Commit(ranges, start, n) ==
  LET found == {i \in DOMAIN ranges : ranges[i].reserved /\ ranges[i].start = start}
  IN  IF coordinating /\ found # {}
      THEN /\ \E i \in found :
                /\ \A j \in found : i <= j
                /\ reservedRanges' =
                     [ranges EXCEPT ![i] = [start |-> start, end |-> start + n, reserved |-> FALSE]]
           /\ committedOffset' = IF start + n > committedOffset THEN start + n
                                 ELSE committedOffset
      ELSE reservedRanges' = ranges /\ UNCHANGED committedOffset

(* The two in turn, the commit at start: where the reservation was made,   *)
(* or where the writer fell back to without one.                           *)
ReserveAndCommit(start, n) ==
  /\ Reserve(n)
  /\ Commit(IF CanReserve(n) THEN WithReservation(StartFor(n), n) ELSE reservedRanges, start, n)
  /\ UNCHANGED coordinating

(* performCleanup: of the old reservations, the first ones up to some      *)
(* number, those that were never committed are dropped.                    *)
DropReservations ==
  /\ coordinating
  /\ \E old \in DOMAIN reservedRanges :
       /\ reservedRanges[old].reserved
       /\ reservedRanges' =
            [i \in {i \in DOMAIN reservedRanges : i > old \/ ~reservedRanges[i].reserved} |->
               reservedRanges[i]]
  /\ UNCHANGED <<coordinating, nextOffset, committedOffset, reservations>>

(* Stop: the state of every stream goes with it.  Between the flag and the *)
(* loss of the states nothing is read: every operation looks at the flag   *)
(* first.  One that is behind its look at the flag by then goes before     *)
(* Stop; when it comes after the loss it begins on a new state, which its  *)
(* caller has to allow for.                                                *)
StopCoordinator ==
  /\ coordinating
  /\ coordinating' = FALSE
  /\ nextOffset' = 0 /\ committedOffset' = 0
  /\ reservations' = 0 /\ reservedRanges' = <<>>
=============================================================================
