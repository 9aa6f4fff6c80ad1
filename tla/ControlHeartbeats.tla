-------------------------- MODULE ControlHeartbeats --------------------------
(***************************************************************************)
(* Heartbeats on the control stream of the primary path                    *)
(* (pkg/control/heartbeat_system.go): the client's routine sends them, the *)
(* server answers each, the client's reader of control frames hands the    *)
(* answers over, and the routine counts the ones that time out.            *)
(*                                                                         *)
(* A heartbeat is its sequence number.  The two mutexes are modelled where *)
(* one is held while the other is waited for: the routine holds the mutex  *)
(* of its state from the number of a heartbeat to its entry in             *)
(* PendingRequests, and takes the system's for the frame's id in between;  *)
(* StopControlHeartbeats takes them the other way about.  The control      *)
(* stream is not framed: a Read takes some frames, and what parses is the  *)
(* last of them or nothing.  Time is not modelled: an armed timer may fire *)
(* and a heartbeat may be late at any moment, an older one no later than a *)
(* younger.  No scheduler is set in the program.                           *)
(***************************************************************************)
EXTENDS Integers, Sequences

CONSTANTS MaxHeartbeats,  \* bound: numbers of heartbeats that are told apart
          None

ASSUME HeartbeatAssumption == MaxHeartbeats \in Nat \ {0} /\ None \notin Nat

VARIABLES
  up,           \* the connection of the primary path
  requests,     \* control stream, client to server
  responses,    \* control stream, server to client
  routine,      \* where controlHeartbeatRoutine is
  timer,        \* HeartbeatTimer: "none", "armed", "fired" (not received), "stopped"
  active,       \* state.Active
  next,         \* state.NextSequenceID
  pending,      \* state.PendingRequests
  failures,     \* state.ConsecutiveFailures > 0
  sending,      \* the heartbeat the routine has a number for, or None
  reader,       \* the answer the client's reader has in hand, or None
  closer,       \* how far Close of the client's session is
  answered,     \* history: heartbeats whose answer was taken,
  expired,      \* whose timeout was counted,
  unheard       \* whose answer found no pending request

channel == <<up, requests, responses>>
state == <<timer, active, next, pending, failures>>
history == <<answered, expired, unheard>>
vars == <<channel, routine, state, sending, reader, closer, history>>

Heartbeats == 1..MaxHeartbeats

Init ==
  /\ up = TRUE /\ requests = <<>> /\ responses = <<>>
  /\ routine = "begun" /\ timer = "none"
  /\ active = TRUE /\ next = 1 /\ pending = {} /\ failures = FALSE
  /\ sending = None /\ reader = None /\ closer = "open"
  /\ answered = {} /\ expired = {} /\ unheard = {}

(* The system's mutex: only StopControlHeartbeats holds it across a wait.  *)
SystemFree == closer # "stopping"

(* sessions and paths know the session. *)
Registered == closer # "closed"

(* The state's mutex: the routine holds it from the number to the entry. *)
StateFree == routine \notin {"numbered", "sent"}

---------------------------------------------------------------------------
(* controlHeartbeatRoutine *)
MakeTimer ==
  /\ routine = "begun" /\ StateFree
  /\ timer' = "armed" /\ routine' = "waiting"
  /\ UNCHANGED <<channel, active, next, pending, failures, sending, reader, closer, history>>

Fire ==
  /\ timer = "armed" /\ timer' = "fired"
  /\ UNCHANGED <<channel, routine, active, next, pending, failures, sending, reader, closer, history>>

Wake ==
  /\ routine = "waiting" /\ timer = "fired" /\ StateFree
  /\ timer' = "none"
  /\ routine' = IF active THEN "due" ELSE "ended"
  /\ UNCHANGED <<channel, active, next, pending, failures, sending, reader, closer, history>>

(* SendControlHeartbeat looks the session up; what it does not find, it    *)
(* reports, as it does when the state is not active any more.              *)
LookUp ==
  /\ routine = "due" /\ SystemFree
  /\ routine' = IF Registered THEN "found" ELSE "failed"
  /\ UNCHANGED <<channel, state, sending, reader, closer, history>>

NumberHeartbeat ==
  /\ routine = "found" /\ StateFree
  /\ IF active
     THEN /\ next <= MaxHeartbeats \/ ~up
          /\ routine' = "numbered" /\ sending' = next
          /\ next' = IF next > MaxHeartbeats THEN next ELSE next + 1
     ELSE routine' = "failed" /\ UNCHANGED <<sending, next>>
  /\ UNCHANGED <<channel, timer, active, pending, failures, reader, closer, history>>

(* What stands for the heartbeats past the bound: neither sent nor counted. *)
SkipHeartbeat ==
  /\ routine = "found" /\ StateFree /\ active /\ next > MaxHeartbeats /\ up
  /\ routine' = "checking"
  /\ UNCHANGED <<channel, state, sending, reader, closer, history>>

(* generateFrameID, with the state's mutex held, then SendFrame.           *)
SendFrame ==
  /\ routine = "numbered" /\ SystemFree
  /\ IF up THEN /\ requests' = Append(requests, sending)
                /\ routine' = "sent" /\ UNCHANGED sending
           ELSE /\ routine' = "failed" /\ sending' = None /\ UNCHANGED requests
  /\ UNCHANGED <<up, responses, state, reader, closer, history>>

TrackPending ==
  /\ routine = "sent"
  /\ pending' = pending \cup {sending}
  /\ sending' = None /\ routine' = "checking"
  /\ UNCHANGED <<channel, timer, active, next, failures, reader, closer, history>>

(* Mutant: a failed send is only logged. *)
LogFailure ==
  /\ routine = "failed" /\ StateFree
  /\ routine' = "checking"
  /\ UNCHANGED <<channel, state, sending, reader, closer, history>>

CountFailure ==
  /\ routine = "failed" /\ StateFree
  /\ failures' = TRUE /\ routine' = "checking"
  /\ UNCHANGED <<channel, timer, active, next, pending, sending, reader, closer, history>>

CheckTimeouts ==
  /\ routine = "checking" /\ StateFree
  /\ \E n \in 0..MaxHeartbeats :
       LET late == {m \in pending : m <= n}
       IN  /\ pending' = pending \ late /\ expired' = expired \cup late
           /\ failures' = (failures \/ late # {})
  /\ routine' = "rearming"
  /\ UNCHANGED <<channel, timer, active, next, sending, reader, closer, answered, unheard>>

(* Mutant: the timer is set again only while nothing has failed. *)
RearmUnlessFailed ==
  /\ routine = "rearming" /\ StateFree
  /\ timer' = IF active /\ ~failures THEN "armed" ELSE timer
  /\ routine' = "waiting"
  /\ UNCHANGED <<channel, active, next, pending, failures, sending, reader, closer, history>>

Rearm ==
  /\ routine = "rearming" /\ StateFree
  /\ timer' = IF active THEN "armed" ELSE timer
  /\ routine' = "waiting"
  /\ UNCHANGED <<channel, active, next, pending, failures, sending, reader, closer, history>>

---------------------------------------------------------------------------
(* The server's reader: the path id is the client's, which the server does *)
(* not know, and it answers "anyway", on its primary path.                 *)
Respond(n) == up /\ responses' = Append(responses, n)

HandleRequest ==
  \E k \in 1..Len(requests) :
    /\ requests' = SubSeq(requests, k + 1, Len(requests))
    /\ Respond(requests[k]) \/ UNCHANGED responses
    /\ UNCHANGED <<up, routine, state, sending, reader, closer, history>>

(* The client's reader looks the session up ...                            *)
ReadResponse ==
  /\ reader = None /\ SystemFree
  /\ \E k \in 1..Len(responses) :
       /\ responses' = SubSeq(responses, k + 1, Len(responses))
       /\ reader' \in IF Registered THEN {None, responses[k]} ELSE {None}
  /\ UNCHANGED <<up, requests, routine, state, sending, closer, history>>

(* Mutant: the reader does not wait for the mutex of the state. *)
AnyTime == TRUE

ReaderMayGoOn == StateFree

(* ... and takes the request out of PendingRequests.                       *)
HandleResponse ==
  /\ reader # None /\ ReaderMayGoOn
  /\ IF reader \in pending
     THEN /\ pending' = pending \ {reader} /\ failures' = FALSE
          /\ answered' = answered \cup {reader} /\ UNCHANGED unheard
     ELSE unheard' = unheard \cup {reader} /\ UNCHANGED <<pending, failures, answered>>
  /\ reader' = None
  /\ UNCHANGED <<channel, routine, timer, active, next, sending, closer, expired>>

Lose ==
  /\ up /\ up' = FALSE
  /\ UNCHANGED <<requests, responses, routine, state, sending, reader, closer, history>>

---------------------------------------------------------------------------
(* Close of the client closes the paths, then stops the heartbeats.        *)
ClosePaths ==
  /\ closer = "open"
  /\ closer' = "closing" /\ up' = FALSE
  /\ UNCHANGED <<requests, responses, routine, state, sending, reader, history>>

StopControlHeartbeats ==
  /\ closer = "closing" /\ closer' = "stopping"
  /\ UNCHANGED <<channel, routine, state, sending, reader, history>>

(* A timer that has fired keeps its value in the channel.                  *)
Deactivate ==
  /\ closer = "stopping" /\ StateFree
  /\ active' = FALSE
  /\ timer' = IF timer = "armed" THEN "stopped" ELSE timer
  /\ closer' = "closed"
  /\ UNCHANGED <<channel, routine, next, pending, failures, sending, reader, history>>

---------------------------------------------------------------------------
RoutineStep ==
  MakeTimer \/ Wake \/ LookUp \/ NumberHeartbeat \/ SkipHeartbeat \/ SendFrame
    \/ TrackPending \/ CountFailure \/ CheckTimeouts \/ Rearm

Next ==
  \/ RoutineStep \/ Fire
  \/ HandleRequest \/ ReadResponse \/ HandleResponse
  \/ Lose \/ ClosePaths \/ StopControlHeartbeats \/ Deactivate

(* The routine goes on, its timer fires, and a heartbeat that stays        *)
(* pending is late in the end: at some check of those that keep coming.    *)
(* Nothing is assumed of the network, the server or the reader.            *)
Fairness ==
  /\ SF_vars(RoutineStep)
  /\ WF_vars(Fire)
  /\ \A n \in Heartbeats : SF_vars(CheckTimeouts /\ n \in expired')

Spec == Init /\ [][Next]_vars /\ Fairness
---------------------------------------------------------------------------
TypeOK ==
  /\ up \in BOOLEAN /\ active \in BOOLEAN /\ failures \in BOOLEAN
  /\ requests \in Seq(Heartbeats) /\ responses \in Seq(Heartbeats)
  /\ routine \in {"begun", "waiting", "due", "found", "numbered", "sent", "failed",
                  "checking", "rearming", "ended"}
  /\ timer \in {"none", "armed", "fired", "stopped"}
  /\ next \in 1..(MaxHeartbeats + 1)
  /\ pending \subseteq Heartbeats
  /\ sending \in 1..(MaxHeartbeats + 1) \cup {None}
  /\ reader \in Heartbeats \cup {None}
  /\ closer \in {"open", "closing", "stopping", "closed"}
  /\ answered \subseteq Heartbeats /\ expired \subseteq Heartbeats /\ unheard \subseteq Heartbeats

(* The answer may be back before SendControlHeartbeat has entered its      *)
(* heartbeat, and may meet the check that gives it up: an answer goes      *)
(* unheard only when its heartbeat was counted as a failure before, and no *)
(* heartbeat counts both ways.                                             *)
AnswersAreHeard ==
  /\ unheard \subseteq expired
  /\ answered \cap expired = {}

(* Until the session closes, every heartbeat in PendingRequests leaves it: *)
(* its answer is taken or its timeout is counted.                          *)
HeartbeatsSettle ==
  \A n \in Heartbeats : n \in pending ~> (n \in answered \cup expired \/ closer # "open")

(* A lost connection shows in ConsecutiveFailures, by a failed send or by  *)
(* the timeouts, as long as nobody closes the session.                     *)
LossIsCounted == ~up ~> (failures \/ closer # "open")

(* "Stop the heartbeat routine" (heartbeat_system.go:287): a routine that   *)
(* waits for its timer waits for ever once the timer is stopped, for        *)
(* nobody calls Shutdown.                                                   *)
RoutineEnds == closer = "closed" ~> routine = "ended"

(* "StopControlHeartbeats stops control plane heartbeats"                  *)
(* (heartbeat_system.go:276): it waits for the state's mutex with the      *)
(* system's held; the routine that holds the state's waits for the         *)
(* system's to give its frame an id.                                       *)
StopIsNotStuck == ~(closer = "stopping" /\ routine = "numbered")
=============================================================================
