----------------------- MODULE ControlHeartbeatsProofs -----------------------
(***************************************************************************)
(* Every answer is heard, for any number of heartbeats.  A number is on    *)
(* its way at most once, as a request, an answer or in the reader's hand:  *)
(* the streams keep the order, and an answer is older than what is still   *)
(* to be answered.                                                         *)
(***************************************************************************)
EXTENDS ControlHeartbeats, SequenceTheorems, TLAPS

Ordered(s) == \A i, j \in 1..Len(s) : i < j => s[i] < s[j]

Before(m, s) == \A i \in 1..Len(s) : m < s[i]

InOrder ==
  /\ Ordered(requests) /\ Ordered(responses)
  /\ \A i \in 1..Len(responses) : Before(responses[i], requests)
  /\ reader # None => Before(reader, requests) /\ Before(reader, responses)

Carried(n) ==
  \/ \E i \in 1..Len(requests) : requests[i] = n
  \/ \E i \in 1..Len(responses) : responses[i] = n
  \/ reader = n

(* What is known of the heartbeats that left the routine. *)
Known == pending \cup answered \cup expired \cup unheard

(* A heartbeat on its way was not heard yet; it is in PendingRequests or   *)
(* was, but for the one whose entry the routine is about to make.          *)
CarriedOK ==
  \A n \in Heartbeats : Carried(n) =>
    /\ n < next /\ n \notin answered \cup unheard
    /\ n \in pending \cup expired \/ (routine = "sent" /\ sending = n)

(* The heartbeat in the routine's hand is younger than all others.         *)
SendingOK ==
  /\ \A n \in Known : n < next
  /\ routine = "numbered" /\ up =>
       /\ sending \in Heartbeats /\ sending < next
       /\ \A n \in Heartbeats : n \in Known \/ Carried(n) => n < sending
  /\ routine = "sent" =>
       /\ sending \in Heartbeats /\ sending < next
       /\ \A n \in Known : n < sending

CountedOnce ==
  pending \cap answered = {} /\ pending \cap expired = {} /\ pending \cap unheard = {}

IInv == TypeOK /\ InOrder /\ CarriedOK /\ SendingOK /\ CountedOnce /\ AnswersAreHeard

---------------------------------------------------------------------------
(* What is left of a stream when a Read has taken n frames.                *)
LEMMA Rest ==
  ASSUME NEW s \in Seq(Heartbeats), NEW n \in 1..Len(s)
  PROVE  LET t == SubSeq(s, n + 1, Len(s))
         IN  /\ t \in Seq(Heartbeats)
             /\ \A i \in 1..Len(t) : i + n \in 1..Len(s) /\ t[i] = s[i + n]
  <1> DEFINE t == SubSeq(s, n + 1, Len(s))
  <1>1. Len(s) \in Nat /\ n \in Nat /\ n <= Len(s)
    BY LenProperties
  <1>2. \A i \in (n + 1)..Len(s) : s[i] \in Heartbeats
    BY <1>1, ElementOfSeq
  <1>3. /\ t \in Seq(Heartbeats)
        /\ Len(t) = IF n + 1 <= Len(s) THEN Len(s) - (n + 1) + 1 ELSE 0
        /\ \A i \in 1..(Len(s) - (n + 1) + 1) : t[i] = s[n + 1 + i - 1]
    BY <1>1, <1>2, SubSeqProperties
  <1> HIDE DEF t
  <1>4. \A i \in 1..Len(t) : i + n \in 1..Len(s) /\ t[i] = s[i + n]
    BY <1>1, <1>3
  <1> QED
    BY <1>3, <1>4 DEF t

(* A frame behind the others. *)
LEMMA Behind ==
  ASSUME NEW s \in Seq(Heartbeats), NEW n \in Heartbeats
  PROVE  /\ Append(s, n) \in Seq(Heartbeats)
         /\ \A i \in 1..Len(Append(s, n)) :
              Append(s, n)[i] = n \/ (i \in 1..Len(s) /\ Append(s, n)[i] = s[i])
         /\ Ordered(s) /\ (\A i \in 1..Len(s) : s[i] < n) => Ordered(Append(s, n))
  <1>1. /\ Append(s, n) \in Seq(Heartbeats) /\ Len(Append(s, n)) = Len(s) + 1
        /\ \A i \in 1..Len(s) : Append(s, n)[i] = s[i]
        /\ Append(s, n)[Len(s) + 1] = n
    BY AppendProperties
  <1>2. Len(s) \in Nat
    BY LenProperties
  <1>3. \A i \in 1..(Len(s) + 1) : i = Len(s) + 1 \/ i \in 1..Len(s)
    BY <1>2
  <1>4. \A i, j \in 1..(Len(s) + 1) : i < j => i \in 1..Len(s)
    BY <1>2
  <1> QED
    BY <1>1, <1>2, <1>3, <1>4 DEF Ordered

LEMMA InitInv == Init => IInv
  <1> SUFFICES ASSUME Init PROVE IInv
    OBVIOUS
  <1> USE HeartbeatAssumption DEF Init
  <1>1. next \in 1..(MaxHeartbeats + 1)
    OBVIOUS
  <1>2. <<>> \in Seq(Heartbeats) /\ Len(<<>>) = 0
    OBVIOUS
  <1>3. TypeOK
    BY <1>1, <1>2 DEF TypeOK
  <1>4. InOrder /\ CarriedOK
    BY <1>2 DEF InOrder, Ordered, Before, CarriedOK, Carried, Heartbeats
  <1>5. SendingOK /\ CountedOnce /\ AnswersAreHeard
    BY DEF SendingOK, CountedOnce, AnswersAreHeard, Known
  <1> QED
    BY <1>3, <1>4, <1>5 DEF IInv

---------------------------------------------------------------------------
(* Steps that neither send, take nor count anything.                       *)
LEMMA QuietStep ==
  ASSUME IInv, TypeOK',
         UNCHANGED <<requests, responses, reader, next, pending, history>>,
         \/ UNCHANGED <<routine, sending>>
         \/ routine' \notin {"numbered", "sent"} /\ routine # "sent",
         up' => up
  PROVE  IInv'
  <1> USE DEF IInv, history
  <1>1. InOrder' /\ CountedOnce' /\ AnswersAreHeard'
    BY DEF InOrder, Ordered, Before, CountedOnce, AnswersAreHeard
  <1>2. CarriedOK' /\ SendingOK'
    BY DEF CarriedOK, SendingOK, Carried, Known
  <1> QED
    BY <1>1, <1>2

LEMMA QuietStepsInv ==
  ASSUME IInv,
         \/ MakeTimer \/ Fire \/ Wake \/ LookUp \/ SkipHeartbeat \/ CountFailure \/ Rearm
         \/ Lose \/ ClosePaths \/ StopControlHeartbeats \/ Deactivate \/ UNCHANGED vars
  PROVE  IInv'
  <1> USE DEF MakeTimer, Fire, Wake, LookUp, SkipHeartbeat, CountFailure, Rearm, Lose, ClosePaths,
              StopControlHeartbeats, Deactivate, vars, channel, state, history
  <1>1. UNCHANGED <<requests, responses, reader, next, pending, sending, history>>
    OBVIOUS
  <1>2. /\ UNCHANGED up \/ up' = FALSE
        /\ UNCHANGED active \/ active' = FALSE
        /\ UNCHANGED failures \/ failures' = TRUE
    OBVIOUS
  <1>3. /\ routine' \in {routine, "waiting", "due", "ended", "found", "failed", "checking"}
        /\ timer' \in {timer, "armed", "fired", "none", "stopped"}
        /\ closer' \in {closer, "closing", "stopping", "closed"}
        /\ routine' = routine \/ (routine' \notin {"numbered", "sent"} /\ routine # "sent")
    OBVIOUS
  <1> HIDE DEF MakeTimer, Fire, Wake, LookUp, SkipHeartbeat, CountFailure, Rearm, Lose, ClosePaths,
               StopControlHeartbeats, Deactivate, vars, channel, state
  <1>4. up' \in BOOLEAN /\ active' \in BOOLEAN /\ failures' \in BOOLEAN
    <2>1. up \in BOOLEAN /\ active \in BOOLEAN /\ failures \in BOOLEAN
      BY DEF IInv, TypeOK
    <2>2. up' \in BOOLEAN
      BY <1>2, <2>1, Zenon
    <2>3. active' \in BOOLEAN
      BY <1>2, <2>1, Zenon
    <2>4. failures' \in BOOLEAN
      BY <1>2, <2>1, Zenon
    <2> QED
      BY <2>2, <2>3, <2>4
  <1>5. TypeOK'
    BY <1>1, <1>3, <1>4 DEF IInv, TypeOK
  <1>6. up' => up
    BY <1>2, Zenon
  <1> QED
    BY <1>1, <1>3, <1>5, <1>6, QuietStep

---------------------------------------------------------------------------
(* The routine's heartbeat: its number, its frame, its entry.              *)
LEMMA NumberHeartbeatInv == IInv /\ NumberHeartbeat => IInv'
  <1> SUFFICES ASSUME IInv, NumberHeartbeat PROVE IInv'
    OBVIOUS
  <1> USE HeartbeatAssumption DEF IInv, NumberHeartbeat, channel, history
  <1>1. next' \in 1..(MaxHeartbeats + 1) /\ next \in 1..(MaxHeartbeats + 1)
    BY DEF TypeOK
  <1>2. sending' \in 1..(MaxHeartbeats + 1) \cup {None} /\ routine' \in {"numbered", "failed"}
    BY <1>1 DEF TypeOK
  <1>3. TypeOK'
    BY <1>1, <1>2 DEF TypeOK
  <1>4. CASE ~active
    BY <1>3, <1>4, QuietStep
  <1>5. CASE active
    <2>1. /\ routine = "found" /\ routine' = "numbered" /\ sending' = next
          /\ up => next' = next + 1 /\ next \in Heartbeats
          /\ next' >= next
          /\ UNCHANGED <<requests, responses, reader, pending, answered, expired, unheard, up>>
      BY <1>1, <1>5 DEF Heartbeats
    <2> HIDE DEF NumberHeartbeat
    <2>2. InOrder' /\ CountedOnce' /\ AnswersAreHeard'
      BY <2>1 DEF InOrder, Ordered, Before, CountedOnce, AnswersAreHeard
    <2>3. \A n \in Heartbeats : Carried(n) => n < next
      BY DEF CarriedOK
    <2>4. \A n \in Heartbeats : n < next => n < next'
      BY <1>1, <2>1 DEF Heartbeats
    <2>5. Known' = Known /\ Known \subseteq Heartbeats /\ \A n \in Heartbeats : Carried(n)' = Carried(n)
      BY <2>1 DEF Known, TypeOK, Carried
    <2>6. CarriedOK'
      BY <2>1, <2>4, <2>5 DEF CarriedOK
    <2>7. next < next' \/ ~up
      BY <1>1, <2>1
    <2>8. SendingOK'
      BY <2>1, <2>3, <2>4, <2>5, <2>7 DEF SendingOK
    <2> QED
      BY <1>3, <2>2, <2>6, <2>8
  <1> QED
    BY <1>4, <1>5

LEMMA SendFrameInv == IInv /\ SendFrame => IInv'
  <1> SUFFICES ASSUME IInv, SendFrame PROVE IInv'
    OBVIOUS
  <1> USE DEF IInv, history, state
  <1>1. CASE ~up
    <2>1. /\ routine' = "failed" /\ sending' = None /\ routine = "numbered"
          /\ UNCHANGED <<up, requests, responses, state, reader, closer, history>>
      BY <1>1 DEF SendFrame
    <2>2. TypeOK'
      BY <2>1 DEF TypeOK
    <2> QED
      BY <2>1, <2>2, QuietStep
  <1>2. CASE up
    <2>1. /\ routine = "numbered" /\ routine' = "sent" /\ requests' = Append(requests, sending)
          /\ UNCHANGED <<up, responses, state, sending, reader, closer, history>>
      BY <1>2 DEF SendFrame
    <2>2. /\ sending \in Heartbeats /\ sending < next
          /\ \A n \in Heartbeats : n \in Known \/ Carried(n) => n < sending
      BY <1>2, <2>1 DEF SendingOK
    <2>3. requests \in Seq(Heartbeats) /\ responses \in Seq(Heartbeats)
      BY DEF TypeOK
    <2>4. \A i \in 1..Len(requests) : requests[i] \in Heartbeats /\ requests[i] < sending
      BY <2>2, <2>3, ElementOfSeq DEF Carried
    <2>5. \A i \in 1..Len(responses) : responses[i] \in Heartbeats /\ responses[i] < sending
      BY <2>2, <2>3, ElementOfSeq DEF Carried
    <2>6. reader # None => reader < sending
      BY <2>2 DEF Carried, TypeOK
    <2>7. /\ requests' \in Seq(Heartbeats) /\ Ordered(requests')
          /\ \A i \in 1..Len(requests') :
               requests'[i] = sending \/ (i \in 1..Len(requests) /\ requests'[i] = requests[i])
      BY <2>1, <2>2, <2>3, <2>4, Behind DEF InOrder
    <2>8. TypeOK'
      BY <2>1, <2>7 DEF TypeOK
    <2>9. InOrder'
      BY <2>1, <2>5, <2>6, <2>7 DEF InOrder, Before
    <2>10. \A n \in Heartbeats : Carried(n)' => n = sending \/ Carried(n)
      BY <2>1, <2>7 DEF Carried
    <2>11. sending \notin Known /\ Known \subseteq Heartbeats /\ Known' = Known
      BY <2>1, <2>2 DEF Known, TypeOK, Heartbeats
    <2>12. CarriedOK'
      BY <2>1, <2>2, <2>10, <2>11 DEF CarriedOK, Known
    <2>13. SendingOK'
      BY <2>1, <2>2, <2>11 DEF SendingOK
    <2>14. CountedOnce' /\ AnswersAreHeard'
      BY <2>1 DEF CountedOnce, AnswersAreHeard
    <2> QED
      BY <2>8, <2>9, <2>12, <2>13, <2>14
  <1> QED
    BY <1>1, <1>2

LEMMA TrackPendingInv == IInv /\ TrackPending => IInv'
  <1> SUFFICES ASSUME IInv, TrackPending PROVE IInv'
    OBVIOUS
  <1> USE DEF IInv, TrackPending, channel, history
  <1>1. sending \in Heartbeats /\ sending < next /\ sending \notin Known
    BY DEF SendingOK, Heartbeats, TypeOK
  <1>2. TypeOK'
    BY <1>1 DEF TypeOK
  <1>3. InOrder'
    BY DEF InOrder, Ordered, Before
  <1>4. CarriedOK' /\ SendingOK'
    BY <1>1 DEF CarriedOK, Carried, SendingOK, Known
  <1>5. CountedOnce' /\ AnswersAreHeard'
    BY <1>1 DEF CountedOnce, AnswersAreHeard, Known
  <1> QED
    BY <1>2, <1>3, <1>4, <1>5

LEMMA CheckTimeoutsInv == IInv /\ CheckTimeouts => IInv'
  <1> SUFFICES ASSUME IInv, CheckTimeouts PROVE IInv'
    OBVIOUS
  <1> USE DEF IInv
  <1>1. PICK late \in SUBSET pending :
          /\ pending' = pending \ late /\ expired' = expired \cup late
          /\ failures' = (failures \/ late # {})
    BY DEF CheckTimeouts
  <1>2. /\ routine = "checking" /\ routine' = "rearming"
        /\ UNCHANGED <<channel, timer, active, next, sending, reader, closer, answered, unheard>>
    BY DEF CheckTimeouts
  <1>3. failures' \in BOOLEAN
    BY <1>1
  <1> USE DEF channel
  <1>4. TypeOK'
    BY <1>1, <1>2, <1>3 DEF TypeOK
  <1>5. InOrder'
    BY <1>2 DEF InOrder, Ordered, Before
  <1>6. CarriedOK' /\ SendingOK'
    BY <1>1, <1>2 DEF CarriedOK, Carried, SendingOK, Known
  <1>7. CountedOnce' /\ AnswersAreHeard'
    BY <1>1, <1>2 DEF CountedOnce, AnswersAreHeard
  <1> QED
    BY <1>4, <1>5, <1>6, <1>7

---------------------------------------------------------------------------
(* A frame that moves on is carried no more than before.                   *)
LEMMA CarriedStep ==
  ASSUME IInv, TypeOK', InOrder', \A n \in Heartbeats : Carried(n)' => Carried(n),
         UNCHANGED <<up, routine, sending, next, pending, history>>
  PROVE  IInv'
  <1> USE DEF IInv, history
  <1>1. CarriedOK' /\ SendingOK'
    BY DEF CarriedOK, SendingOK, Known
  <1>2. CountedOnce' /\ AnswersAreHeard'
    BY DEF CountedOnce, AnswersAreHeard
  <1> QED
    BY <1>1, <1>2

LEMMA HandleRequestInv == IInv /\ HandleRequest => IInv'
  <1> SUFFICES ASSUME IInv, HandleRequest PROVE IInv'
    OBVIOUS
  <1>1. PICK k \in 1..Len(requests) :
          /\ requests' = SubSeq(requests, k + 1, Len(requests))
          /\ responses' = Append(responses, requests[k]) \/ UNCHANGED responses
          /\ UNCHANGED <<up, routine, state, sending, reader, closer, history>>
    BY DEF HandleRequest, Respond
  <1>2. requests \in Seq(Heartbeats) /\ responses \in Seq(Heartbeats)
    BY DEF IInv, TypeOK
  <1>3. requests[k] \in Heartbeats /\ Len(requests) \in Nat
    BY <1>2, ElementOfSeq, LenProperties
  <1>4. /\ requests' \in Seq(Heartbeats)
        /\ \A i \in 1..Len(requests') : i + k \in 1..Len(requests) /\ requests'[i] = requests[i + k]
    BY <1>1, <1>2, Rest
  <1>5. \A i \in 1..Len(responses) : responses[i] < requests[k]
    BY DEF IInv, InOrder, Before
  <1>6. /\ responses' \in Seq(Heartbeats) /\ Ordered(responses')
        /\ \A i \in 1..Len(responses') :
             responses'[i] = requests[k] \/ (i \in 1..Len(responses) /\ responses'[i] = responses[i])
    <2>1. CASE UNCHANGED responses
      BY <1>2, <2>1 DEF IInv, InOrder, Ordered
    <2>2. CASE responses' = Append(responses, requests[k])
      BY <1>2, <1>3, <1>5, <2>2, Behind DEF IInv, InOrder
    <2> QED
      BY <1>1, <2>1, <2>2
  <1>7. \A i \in 1..Len(requests') : k < i + k /\ requests[k] < requests'[i]
    BY <1>3, <1>4, LenProperties DEF IInv, InOrder, Ordered
  <1>8. Ordered(requests')
    <2>1. \A i, j \in 1..Len(requests') : i < j => i + k < j + k
      BY <1>3
    <2> QED
      BY <1>4, <2>1 DEF IInv, InOrder, Ordered
  <1>9. InOrder'
    <2>1. \A i \in 1..Len(responses') : Before(responses'[i], requests')
      BY <1>4, <1>6, <1>7 DEF IInv, InOrder, Before
    <2>2. reader # None => Before(reader, requests') /\ Before(reader, responses')
      BY <1>4, <1>6 DEF IInv, InOrder, Before
    <2> QED
      BY <1>1, <1>6, <1>8, <2>1, <2>2 DEF InOrder
  <1>10. TypeOK'
    BY <1>1, <1>4, <1>6 DEF IInv, TypeOK, state, history
  <1>11. \A n \in Heartbeats : Carried(n)' => Carried(n)
    BY <1>1, <1>4, <1>6 DEF Carried
  <1> QED
    BY <1>1, <1>9, <1>10, <1>11, CarriedStep DEF state

LEMMA ReadResponseInv == IInv /\ ReadResponse => IInv'
  <1> SUFFICES ASSUME IInv, ReadResponse PROVE IInv'
    OBVIOUS
  <1>1. PICK k \in 1..Len(responses) :
          /\ responses' = SubSeq(responses, k + 1, Len(responses))
          /\ reader' \in {None, responses[k]}
          /\ UNCHANGED <<up, requests, routine, state, sending, closer, history>>
    BY DEF ReadResponse
  <1>2. requests \in Seq(Heartbeats) /\ responses \in Seq(Heartbeats)
    BY DEF IInv, TypeOK
  <1>3. responses[k] \in Heartbeats /\ Len(responses) \in Nat
    BY <1>2, ElementOfSeq, LenProperties
  <1>4. /\ responses' \in Seq(Heartbeats)
        /\ \A i \in 1..Len(responses') :
             i + k \in 1..Len(responses) /\ responses'[i] = responses[i + k]
    BY <1>1, <1>2, Rest
  <1>5. \A i \in 1..Len(responses') : k < i + k /\ responses[k] < responses'[i]
    BY <1>3, <1>4, LenProperties DEF IInv, InOrder, Ordered
  <1>6. Ordered(responses')
    <2>1. \A i, j \in 1..Len(responses') : i < j => i + k < j + k
      BY <1>3
    <2> QED
      BY <1>4, <2>1 DEF IInv, InOrder, Ordered
  <1>7. InOrder'
    BY <1>1, <1>4, <1>5, <1>6 DEF IInv, InOrder, Before
  <1>8. TypeOK'
    BY <1>1, <1>3, <1>4 DEF IInv, TypeOK, state, history
  <1>9. \A n \in Heartbeats : Carried(n)' => Carried(n)
    BY <1>1, <1>4, HeartbeatAssumption DEF Carried, Heartbeats
  <1> QED
    BY <1>1, <1>7, <1>8, <1>9, CarriedStep DEF state

(* The reader does not go on while the routine is about to make an entry,  *)
(* so that the answer finds its heartbeat or a counted timeout.            *)
LEMMA HandleResponseInv == IInv /\ HandleResponse => IInv'
  <1> SUFFICES ASSUME IInv, HandleResponse PROVE IInv'
    OBVIOUS
  <1>1. /\ reader # None /\ routine \notin {"numbered", "sent"} /\ reader' = None
        /\ UNCHANGED <<channel, routine, timer, active, next, sending, closer, expired>>
    BY DEF HandleResponse, ReaderMayGoOn, StateFree
  <1>2. reader \in Heartbeats /\ Carried(reader) /\ None \notin Heartbeats
    BY <1>1, HeartbeatAssumption DEF IInv, TypeOK, Carried, Heartbeats
  <1>3. reader < next /\ reader \notin answered \cup unheard /\ reader \in pending \cup expired
    BY <1>1, <1>2 DEF IInv, CarriedOK
  <1>4. /\ pending' = pending \ {reader} /\ answered' \in {answered, answered \cup {reader}}
        /\ unheard' \in {unheard, unheard \cup {reader}} /\ failures' \in {failures, FALSE}
        /\ reader \in pending => unheard' = unheard
        /\ reader \notin pending => answered' = answered
    BY DEF HandleResponse
  <1> USE DEF IInv, channel
  <1>5. failures' \in BOOLEAN
    BY <1>4, Zenon DEF TypeOK
  <1>6. TypeOK'
    BY <1>1, <1>2, <1>4, <1>5 DEF TypeOK
  <1>7. InOrder'
    BY <1>1 DEF InOrder, Ordered, Before
  <1>8. \A n \in Heartbeats : Carried(n)' => Carried(n) /\ n # reader
    <2>1. /\ \A i \in 1..Len(requests) : requests[i] # reader
          /\ \A i \in 1..Len(responses) : responses[i] # reader
      BY <1>1, <1>2 DEF InOrder, Before, Heartbeats
    <2> QED
      BY <1>1, <1>2, <2>1 DEF Carried
  <1>9. CarriedOK'
    BY <1>1, <1>4, <1>8 DEF CarriedOK
  <1>10. SendingOK'
    BY <1>1, <1>3, <1>4 DEF SendingOK, Known
  <1>11. CountedOnce' /\ AnswersAreHeard'
    BY <1>1, <1>3, <1>4 DEF CountedOnce, AnswersAreHeard
  <1> QED
    BY <1>6, <1>7, <1>9, <1>10, <1>11

---------------------------------------------------------------------------
LEMMA StepInv == IInv /\ [Next]_vars => IInv'
  BY QuietStepsInv, NumberHeartbeatInv, SendFrameInv, TrackPendingInv, CheckTimeoutsInv,
     HandleRequestInv, ReadResponseInv, HandleResponseInv DEF Next, RoutineStep

(* Every reachable state has its declared shape. *)
THEOREM TypeCorrect == Spec => []TypeOK
  <1>1. Init => IInv
    BY InitInv
  <1>2. IInv => TypeOK
    BY DEF IInv
  <1> QED
    BY <1>1, <1>2, StepInv, PTL DEF Spec

(* The answer to a heartbeat is taken unless its timeout was counted       *)
(* before, and not both, however often frames are lost or merged and       *)
(* whenever the answer comes (SendControlHeartbeat and                     *)
(* HandleControlHeartbeatResponse of control/heartbeat_system.go).         *)
THEOREM EveryAnswerIsHeard == Spec => []AnswersAreHeard
  <1>1. Init => IInv
    BY InitInv
  <1>2. IInv /\ [Next]_vars => IInv'
    BY StepInv
  <1>3. IInv => AnswersAreHeard
    BY DEF IInv
  <1> QED
    BY <1>1, <1>2, <1>3, PTL DEF Spec
=============================================================================
