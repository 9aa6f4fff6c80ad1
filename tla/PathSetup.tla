----------------------------- MODULE PathSetup -----------------------------
(***************************************************************************)
(* What AddPath promises the application of the server, whatever the       *)
(* client, the secondary server and the network do: a call ends once, and  *)
(* it ends well only for a path that the client has made part of the       *)
(* session.  A call may fail although its path is established: the answer  *)
(* came too late or was lost.                                              *)
(***************************************************************************)
CONSTANT Calls              \* the calls of AddPath

VARIABLES outcome,          \* per call: "idle", "pending", "confirmed", "failed"
          established       \* the calls whose path the client has integrated

vars == <<outcome, established>>

Init ==
  /\ outcome = [c \in Calls |-> "idle"]
  /\ established = {}

Request(c) ==
  /\ outcome[c] = "idle"
  /\ outcome' = [outcome EXCEPT ![c] = "pending"]
  /\ UNCHANGED established

Establish(c) ==
  /\ outcome[c] # "idle"
  /\ established' = established \cup {c}
  /\ UNCHANGED outcome

Confirm(c) ==
  /\ outcome[c] = "pending" /\ c \in established
  /\ outcome' = [outcome EXCEPT ![c] = "confirmed"]
  /\ UNCHANGED established

Fail(c) ==
  /\ outcome[c] \in {"idle", "pending"}
  /\ outcome' = [outcome EXCEPT ![c] = "failed"]
  /\ UNCHANGED established

Next == \E c \in Calls : Request(c) \/ Establish(c) \/ Confirm(c) \/ Fail(c)

Spec == Init /\ [][Next]_vars
=============================================================================
