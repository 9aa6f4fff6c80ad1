---------------------------- MODULE Backpressure ----------------------------
(***************************************************************************)
(* The backpressure manager of the presentation layer                      *)
(* (pkg/presentation/backpressure_manager.go).  Two mutexes order it:      *)
(* streamMutex guards the map of streams, globalMutex the global flag.     *)
(* ActivateBackpressure lets go of streamMutex before it takes             *)
(* globalMutex; DeactivateBackpressure keeps it.                           *)
(*                                                                         *)
(* callAt says where the call of each goroutine stands:                    *)
(*   raise      decided to raise globally, holds no mutex                  *)
(*   notify     raised, holds globalMutex, wants streamMutex (callbacks)   *)
(*   relock     wants streamMutex back, to return                          *)
(*   lower      holds streamMutex, wants globalMutex                       *)
(***************************************************************************)
EXTENDS PresentationCallers

CONSTANT GlobalPercent      \* GlobalThreshold of BackpressureConfig, in percent

VARIABLES streamBackpressure, \* per stream: "none" (not in the map), "inactive", "active"
          globalActive,
          callAt

backpressureVars == <<streamBackpressure, globalActive, callAt>>

Tracked(sb) == {s \in Streams : sb[s] # "none"}
Active(sb)  == {s \in Streams : sb[s] = "active"}

(* The ratio from which global backpressure is raised ... *)
High(sb) ==
  /\ Tracked(sb) # {}
  /\ 100 * Cardinality(Active(sb)) >= GlobalPercent * Cardinality(Tracked(sb))

(* ... and the lower one, at four fifths of it, under which it is lifted. *)
Low(sb) ==
  1000 * Cardinality(Active(sb)) < 8 * GlobalPercent * Cardinality(Tracked(sb))

(* Mutant: a deactivation, too, lets go of streamMutex before globalMutex. *)
StreamMutexLetGo == TRUE

StreamMutexFree == \A t \in Threads : callAt[t] # "lower"
GlobalMutexFree == \A t \in Threads : callAt[t] # "notify"

BackpressureInit ==
  /\ streamBackpressure = [s \in Streams |-> "none"]
  /\ globalActive = FALSE
  /\ callAt = [t \in Threads |-> "idle"]

(* ActivateBackpressure under streamMutex; a full map refuses a new stream, *)
(* and a stream that is active already ends the call.                       *)
Activate(t, s) ==
  LET sb == [streamBackpressure EXCEPT ![s] = "active"]
  IN  /\ callAt[t] = "idle" /\ StreamMutexFree
      /\ IF s \notin Tracked(streamBackpressure)
              /\ Cardinality(Tracked(streamBackpressure)) >= MaxStreams
         THEN UNCHANGED <<streamBackpressure, callAt>>
         ELSE /\ streamBackpressure' = sb
              /\ callAt' = [callAt EXCEPT ![t] =
                   IF streamBackpressure[s] # "active" /\ High(sb) THEN "raise" ELSE "idle"]
      /\ UNCHANGED globalActive

(* ActivateGlobalBackpressure: the callbacks only if it was not active. *)
RaiseGlobal(t) ==
  /\ callAt[t] = "raise" /\ GlobalMutexFree
  /\ globalActive' = TRUE
  /\ callAt' = [callAt EXCEPT ![t] = IF globalActive THEN "relock" ELSE "notify"]
  /\ UNCHANGED streamBackpressure

(* triggerGlobalCallback lists the streams, globalMutex still held. *)
NotifyStreams(t) ==
  /\ callAt[t] = "notify" /\ StreamMutexFree
  /\ callAt' = [callAt EXCEPT ![t] = "relock"]
  /\ UNCHANGED <<streamBackpressure, globalActive>>

Relock(t) ==
  /\ callAt[t] = "relock" /\ StreamMutexFree
  /\ callAt' = [callAt EXCEPT ![t] = "idle"]
  /\ UNCHANGED <<streamBackpressure, globalActive>>

(* DeactivateBackpressure; an unknown or inactive stream ends the call. *)
Deactivate(t, s) ==
  LET sb == [streamBackpressure EXCEPT ![s] = "inactive"]
  IN  /\ callAt[t] = "idle" /\ StreamMutexFree
      /\ IF streamBackpressure[s] = "active"
         THEN /\ streamBackpressure' = sb
              /\ callAt' = [callAt EXCEPT ![t] = IF Low(sb) THEN "lower" ELSE "idle"]
         ELSE UNCHANGED <<streamBackpressure, callAt>>
      /\ UNCHANGED globalActive

(* deactivateGlobalBackpressureNoCallback, streamMutex still held. *)
LowerGlobal(t) ==
  /\ callAt[t] = "lower" /\ GlobalMutexFree
  /\ globalActive' = FALSE
  /\ callAt' = [callAt EXCEPT ![t] = "idle"]
  /\ UNCHANGED streamBackpressure

(* The worker forgets streams that have been inactive for five minutes:    *)
(* any of them, for the time is not modelled.                              *)
CleanupInactiveStreams ==
  /\ StreamMutexFree
  /\ \E S \in (SUBSET (Tracked(streamBackpressure) \ Active(streamBackpressure))) \ {{}} :
       streamBackpressure' = [s \in Streams |-> IF s \in S THEN "none" ELSE streamBackpressure[s]]
  /\ UNCHANGED <<globalActive, callAt>>

CallStep(t) == RaiseGlobal(t) \/ NotifyStreams(t) \/ Relock(t) \/ LowerGlobal(t)

-----------------------------------------------------------------------------
CallPlaces == {"idle", "raise", "notify", "relock", "lower"}

BackpressureTypeOK ==
  /\ streamBackpressure \in [Streams -> {"none", "inactive", "active"}]
  /\ globalActive \in BOOLEAN
  /\ callAt \in [Threads -> CallPlaces]

(* One call holds globalMutex and waits for streamMutex, another the other *)
(* way about.                                                              *)
BackpressureCycle ==
  /\ \E t \in Threads : callAt[t] = "notify"
  /\ \E t \in Threads : callAt[t] = "lower"

(* Releasing streamMutex before ActivateGlobalBackpressure is enough to    *)
(* avoid deadlock.                                                         *)
NoBackpressureCycle == ~BackpressureCycle

Unraised == High(streamBackpressure) /\ ~globalActive /\ \A t \in Threads : callAt[t] # "raise"

(* Inactive streams only are forgotten in this step. *)
Forgetting ==
  /\ Active(streamBackpressure') = Active(streamBackpressure)
  /\ Tracked(streamBackpressure') \subseteq Tracked(streamBackpressure)
  /\ streamBackpressure' # streamBackpressure

(* A high ratio is never left without the global flag or a call that is    *)
(* about to raise it, whatever activations and deactivations come between  *)
(* the decision and the raise.  Only the worker that forgets inactive      *)
(* streams may bring the ratio up so.                                      *)
RaiseIsNotLost == [][Unraised' => Unraised \/ Forgetting]_backpressureVars
=============================================================================
