--------------------------- MODULE InOrderStream ---------------------------
(***************************************************************************)
(* What a KWIK stream promises to the application that reads it, whatever  *)
(* the order, the duplication and the paths of the packets: bytes arrive   *)
(* in any order, are never lost once they have arrived, and are handed out *)
(* exactly once each, from offset 0 upwards.  A byte is named by its       *)
(* offset in the stream the peer wrote.                                    *)
(***************************************************************************)
EXTENDS Integers

CONSTANT Bytes          \* the offsets the peer ever sends

VARIABLES received,     \* offsets that have arrived and are not forgotten
          next,         \* offset of the next byte owed to the application
          out,          \* the bytes last handed out: [base, len]
          closed        \* the stream was removed

vars == <<received, next, out, closed>>

Init ==
  /\ received = {}
  /\ next = 0
  /\ out = [base |-> 0, len |-> 0]
  /\ closed = FALSE

(* Some bytes arrive; nothing that had arrived is forgotten. *)
Arrive ==
  /\ received' \subseteq received \cup Bytes
  /\ received \subseteq received'
  /\ UNCHANGED <<next, out, closed>>

(* The application is handed the next bytes, all of which have arrived. *)
Deliver ==
  /\ next' \in Nat /\ next' > next
  /\ next .. (next' - 1) \subseteq received
  /\ out' = [base |-> next, len |-> next' - next]
  /\ UNCHANGED <<received, closed>>

Close ==
  /\ ~closed
  /\ closed' = TRUE
  /\ UNCHANGED <<received, next, out>>

(* Only a closed stream may forget bytes nobody has read. *)
Forget ==
  /\ closed
  /\ received' \subseteq received
  /\ UNCHANGED <<next, out, closed>>

Next == Arrive \/ Deliver \/ Close \/ Forget

Spec == Init /\ [][Next]_vars
=============================================================================
