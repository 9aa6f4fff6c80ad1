------------------------ MODULE RetransmissionProofs ------------------------
(***************************************************************************)
(* Theorems about the retransmission manager, for any number of segments,  *)
(* ids, acknowledgements and timers that have fired.                       *)
(***************************************************************************)
EXTENDS Retransmission, TLAPS

(* A goroutine that found a segment has one in hand.                       *)
InHand ==
  /\ \A a \in Acks : ack[a].at = "found" => ack[a].of \in Segments /\ ack[a].id \in Ids
  /\ \A h \in Handlers :
       /\ handler[h].at # "idle" => handler[h].id \in Ids
       /\ handler[h].at \in {"found", "retry", "drop"} => handler[h].of \in Segments

(* A retry is numbered before it is made, by the handler that holds the    *)
(* segment's mutex.                                                        *)
Counted ==
  /\ \A s \in Segments : retries[s] < attempts[s]
  /\ \A h \in Handlers : handler[h].at = "retry" =>
       LET s == handler[h].of IN retries[s] + 1 < attempts[s] /\ attempts[s] <= MaxAttempts

IInv == TypeOK /\ InHand /\ NoRetryAfterAck /\ Counted /\ RetriesBounded

---------------------------------------------------------------------------
LEMMA InitInv == Init => IInv
  <1> SUFFICES ASSUME Init PROVE IInv
    OBVIOUS
  <1> USE RetransmissionAssumption DEF Init, Idle, NoSweep
  <1>1. LocksHaveOwners
    BY DEF LocksHaveOwners
  <1>2. TypeOK
    BY <1>1 DEF TypeOK
  <1>3. InHand /\ NoRetryAfterAck
    BY DEF InHand, NoRetryAfterAck
  <1>4. Counted
    BY DEF Counted
  <1>5. RetriesBounded
    BY DEF RetriesBounded
  <1> QED
    BY <1>2, <1>3, <1>4, <1>5 DEF IInv

(* A step that makes no attempt, sends nothing again and acknowledges      *)
(* nothing leaves the rest of the invariant alone, when it sends nobody to *)
(* a retry or a drop.                                                      *)
LEMMA QuietStep ==
  ASSUME IInv, UNCHANGED <<attempts, retries, acknowledged>>,
         \A h \in Handlers : handler'[h].at \in {"retry", "drop"} => handler'[h] = handler[h]
  PROVE  NoRetryAfterAck' /\ Counted' /\ RetriesBounded'
  BY DEF IInv, NoRetryAfterAck, Counted, RetriesBounded

---------------------------------------------------------------------------
LEMMA TrackSegmentInv == ASSUME IInv, NEW s \in Segments, TrackSegment(s) PROVE IInv'
  <1> USE RetransmissionAssumption
      DEF IInv, TrackSegment, StartTracking, ArmFirst, Insert
  <1>1. LocksHaveOwners'
    BY DEF TypeOK, LocksHaveOwners
  <1>2. TypeOK'
    BY <1>1 DEF TypeOK
  <1>3. InHand'
    BY DEF InHand
  <1> QED
    BY <1>2, <1>3, QuietStep

LEMMA AckSegmentInv == ASSUME IInv, NEW a \in Acks, AckSegment(a) PROVE IInv'
  <1> USE RetransmissionAssumption DEF IInv, Idle
  <1>1. CASE AckLookUp(a)
    <2>1. UNCHANGED <<status, table, tracked, attempts, acknowledged, refused, armed, strays,
                      segmentLock, handler, sweep, retries>>
      BY <1>1 DEF AckLookUp
    <2>2. \E new \in [at : {"found", "done"}, id : Ids \cup {None}, of : Segments \cup {None}] :
            /\ ack' = [ack EXCEPT ![a] = new]
            /\ tableLock' = IF new.at = "found" THEN a ELSE tableLock
            /\ new.at = "found" => new.of \in Segments /\ new.id \in Ids
      <3>1. PICK i \in Ids :
              IF table[i] = None
              THEN ack' = [ack EXCEPT ![a].at = "done"] /\ UNCHANGED tableLock
              ELSE /\ ack' = [ack EXCEPT ![a] = [at |-> "found", id |-> i, of |-> table[i]]]
                   /\ tableLock' = a
        BY <1>1 DEF AckLookUp
      <3>2. CASE table[i] = None
        <4> DEFINE new == [ack[a] EXCEPT !.at = "done"]
        <4>1. ack' = [ack EXCEPT ![a] = new] /\ UNCHANGED tableLock
          BY <3>1, <3>2 DEF TypeOK
        <4>2. /\ new \in [at : {"found", "done"}, id : Ids \cup {None}, of : Segments \cup {None}]
              /\ new.at = "done"
          BY DEF TypeOK
        <4> HIDE DEF new
        <4> QED
          BY <4>1, <4>2
      <3>3. CASE table[i] # None
        BY <3>1, <3>3 DEF TypeOK
      <3> QED
        BY <3>2, <3>3
    <2>3. ack[a].at = "idle" /\ tableLock = None
      BY <1>1 DEF AckLookUp
    <2>4. LocksHaveOwners'
      <3>1. \A b \in Acks : tableLock' = b <=> ack'[b].at = "found"
        BY <2>2, <2>3 DEF TypeOK, LocksHaveOwners
      <3>2. tableLock' = "sweep" <=> sweep'.kind # "none"
        BY <2>1, <2>2, <2>3 DEF TypeOK, LocksHaveOwners
      <3> QED
        BY <2>1, <3>1, <3>2 DEF TypeOK, LocksHaveOwners
    <2>5. TypeOK'
      <3>1. ack' \in [Acks -> [at : {"idle", "found", "done"}, id : Ids \cup {None},
                               of : Segments \cup {None}]]
        BY <2>2 DEF TypeOK
      <3>2. tableLock' \in Acks \cup {"sweep", None}
        BY <2>2 DEF TypeOK
      <3> QED
        BY <2>1, <2>4, <3>1, <3>2 DEF TypeOK
    <2>6. InHand'
      BY <2>1, <2>2 DEF InHand, TypeOK
    <2> QED
      BY <2>1, <2>5, <2>6, QuietStep
  <1>2. CASE AckMark(a)
    <2> USE <1>2 DEF AckMark
    <2>1. ack[a].of \in Segments
      BY DEF InHand
    <2>2. LocksHaveOwners'
      <3>1. tableLock = a /\ sweep.kind = "none"
        BY DEF LocksHaveOwners, TypeOK
      <3>2. \A b \in Acks : tableLock' = b <=> ack'[b].at = "found"
        BY <3>1 DEF TypeOK, LocksHaveOwners
      <3>3. tableLock' = "sweep" <=> sweep'.kind # "none"
        BY <3>1
      <3>4. \A h \in Handlers, s \in Segments :
              segmentLock'[s] = h <=> handler'[h].at \in {"retry", "drop"} /\ handler'[h].of = s
        BY DEF TypeOK, LocksHaveOwners
      <3> QED
        BY <3>2, <3>3, <3>4 DEF LocksHaveOwners
    <2>3. TypeOK'
      <3>1. ack' \in [Acks -> [at : {"idle", "found", "done"}, id : Ids \cup {None},
                               of : Segments \cup {None}]]
        BY DEF TypeOK
      <3>2. /\ table' \in [Ids -> Segments \cup {None}]
            /\ \A i \in Ids : table'[i] # None => IdOf[table'[i]] = i
        BY DEF TypeOK
      <3> QED
        BY <2>1, <2>2, <3>1, <3>2 DEF TypeOK
    <2>4. InHand'
      BY DEF InHand, TypeOK
    <2>5. NoRetryAfterAck'
      BY <2>1 DEF NoRetryAfterAck, TypeOK, LocksHaveOwners
    <2>6. Counted' /\ RetriesBounded'
      BY DEF Counted, RetriesBounded
    <2> QED
      BY <2>3, <2>4, <2>5, <2>6
  <1> QED
    BY <1>1, <1>2 DEF AckSegment

---------------------------------------------------------------------------
LEMMA FireInv == ASSUME IInv, NEW h \in Handlers, Fire(h) PROVE IInv'
  <1> USE RetransmissionAssumption DEF IInv, Fire
  <1>1. PICK i \in Ids :
          /\ handler' = [handler EXCEPT ![h] = [at |-> "fired", id |-> i, of |-> None]]
          /\ \/ \E s \in armed : armed' = armed \ {s} /\ UNCHANGED strays
             \/ strays[i] > 0 /\ strays' = [strays EXCEPT ![i] = @ - 1] /\ UNCHANGED armed
    OBVIOUS
  <1>2. strays' \in [Ids -> Nat]
    BY <1>1 DEF TypeOK
  <1>3. LocksHaveOwners'
    BY <1>1 DEF TypeOK, LocksHaveOwners
  <1>4. TypeOK'
    BY <1>1, <1>2, <1>3 DEF TypeOK
  <1>5. InHand'
    BY <1>1 DEF InHand, TypeOK
  <1>6. \A g \in Handlers : handler'[g].at \in {"retry", "drop"} => handler'[g] = handler[g]
    BY <1>1 DEF TypeOK
  <1> QED
    BY <1>4, <1>5, <1>6, QuietStep

LEMMA TimeoutLookUpInv == ASSUME IInv, NEW h \in Handlers, TimeoutLookUp(h) PROVE IInv'
  <1> USE RetransmissionAssumption DEF IInv, TimeoutLookUp, Idle
  <1>1. handler[h].id \in Ids
    BY DEF InHand
  <1>2. \E new \in {Idle, [at |-> "found", id |-> handler[h].id, of |-> table[handler[h].id]]} :
          /\ handler' = [handler EXCEPT ![h] = new]
          /\ new # Idle => table[handler[h].id] # None
    OBVIOUS
  <1>3. LocksHaveOwners'
    BY <1>2 DEF TypeOK, LocksHaveOwners
  <1>4. TypeOK'
    BY <1>1, <1>2, <1>3 DEF TypeOK
  <1>5. InHand'
    BY <1>1, <1>2 DEF InHand, TypeOK
  <1>6. \A g \in Handlers : handler'[g].at \in {"retry", "drop"} => handler'[g] = handler[g]
    BY <1>2 DEF TypeOK
  <1> QED
    BY <1>4, <1>5, <1>6, QuietStep

LEMMA HandleTimeoutInv == ASSUME IInv, NEW h \in Handlers, HandleTimeout(h) PROVE IInv'
  <1> USE RetransmissionAssumption DEF IInv, HandleTimeout, Idle
  <1> DEFINE s == handler[h].of
  <1>1. s \in Segments /\ handler[h].id \in Ids /\ segmentLock[s] = None
    BY DEF InHand
  <1>2. CASE s \in acknowledged
    <2>0. /\ handler[h].at = "found" /\ handler' = [handler EXCEPT ![h] = Idle]
          /\ UNCHANGED <<status, table, tracked, attempts, acknowledged, refused, armed, strays,
                         segmentLock, tableLock, ack, sweep, retries>>
      BY <1>2 DEF IsSettled
    <2> HIDE DEF HandleTimeout
    <2> USE <2>0
    <2>1. LocksHaveOwners'
      BY DEF TypeOK, LocksHaveOwners
    <2>2. TypeOK'
      <3>1. handler' \in [Handlers -> [at : {"idle", "fired", "found", "retry", "drop"},
                                       id : Ids \cup {None}, of : Segments \cup {None}]]
        BY DEF TypeOK
      <3> QED
        BY <2>1, <3>1 DEF TypeOK
    <2>3. InHand'
      BY DEF InHand, TypeOK
    <2>4. \A g \in Handlers : handler'[g].at \in {"retry", "drop"} => handler'[g] = handler[g]
      BY DEF TypeOK
    <2> QED
      BY <2>2, <2>3, <2>4, QuietStep
  <1>3. CASE s \notin acknowledged
    <2>1. PICK goes \in {"retry", "drop"} :
            /\ goes = "retry" => attempts[s] + 1 <= MaxAttempts
            /\ attempts' = [attempts EXCEPT ![s] = attempts[s] + 1]
            /\ segmentLock' = [segmentLock EXCEPT ![s] = h]
            /\ handler' = [handler EXCEPT ![h].at = goes]
            /\ armed' \in {armed, armed \cup {s}}
            /\ strays' \in {strays, [strays EXCEPT ![handler[h].id] = @ + 1]}
      BY <1>3 DEF IsSettled, ShouldRetry
    <2> HIDE DEF HandleTimeout
    <2>2. UNCHANGED <<status, table, tracked, acknowledged, refused, tableLock, ack, sweep, retries>>
      BY DEF HandleTimeout
    <2>3. attempts' \in [Segments -> Nat] /\ strays' \in [Ids -> Nat]
      <3>1. attempts[s] + 1 \in Nat /\ strays[handler[h].id] + 1 \in Nat
        BY <1>1 DEF TypeOK
      <3> QED
        BY <1>1, <2>1, <3>1 DEF TypeOK
    <2>4. LocksHaveOwners'
      BY <1>1, <2>1, <2>2 DEF TypeOK, LocksHaveOwners
    <2>5. TypeOK'
      BY <1>1, <2>1, <2>2, <2>3, <2>4 DEF TypeOK
    <2>6. InHand'
      BY <1>1, <2>1, <2>2 DEF InHand, TypeOK
    <2>7. NoRetryAfterAck'
      BY <1>3, <2>1, <2>2 DEF NoRetryAfterAck, TypeOK
    <2>8. \A g \in Handlers : g # h /\ handler[g].at = "retry" => handler[g].of # s
      BY <1>1 DEF TypeOK, LocksHaveOwners
    <2>9. Counted'
      BY <1>1, <2>1, <2>2, <2>8 DEF Counted, TypeOK, InHand
    <2>10. RetriesBounded'
      BY <2>2 DEF RetriesBounded
    <2> QED
      BY <2>5, <2>6, <2>7, <2>9, <2>10
  <1> QED
    BY <1>2, <1>3

LEMMA RetryInv == ASSUME IInv, NEW h \in Handlers, Retry(h) PROVE IInv'
  <1> USE RetransmissionAssumption DEF IInv, Retry, Idle
  <1> DEFINE s == handler[h].of
  <1>1. s \in Segments /\ segmentLock[s] = h
    BY DEF InHand, TypeOK, LocksHaveOwners
  <1>2. retries' = [retries EXCEPT ![s] = retries[s] + 1] /\ retries' \in [Segments -> Nat]
    BY <1>1 DEF TypeOK
  <1>3. LocksHaveOwners'
    BY <1>1 DEF TypeOK, LocksHaveOwners
  <1>4. TypeOK'
    BY <1>1, <1>2, <1>3 DEF TypeOK
  <1>5. InHand' /\ NoRetryAfterAck'
    BY DEF InHand, NoRetryAfterAck, TypeOK
  <1>6. \A g \in Handlers : g # h /\ handler[g].at = "retry" => handler[g].of # s
    BY <1>1 DEF TypeOK, LocksHaveOwners
  <1>7. retries[s] + 1 < attempts[s] /\ attempts[s] <= MaxAttempts
    BY DEF Counted
  <1>8. Counted'
    BY <1>1, <1>2, <1>6, <1>7 DEF Counted, TypeOK, InHand
  <1>9. RetriesBounded'
    BY <1>1, <1>2, <1>7 DEF RetriesBounded, TypeOK
  <1> QED
    BY <1>4, <1>5, <1>8, <1>9

LEMMA DropInv == ASSUME IInv, NEW h \in Handlers, Drop(h) PROVE IInv'
  <1> USE RetransmissionAssumption DEF IInv, Drop, Idle
  <1>1. handler[h].of \in Segments /\ handler[h].id \in Ids /\ segmentLock[handler[h].of] = h
    BY DEF InHand, TypeOK, LocksHaveOwners
  <1>2. LocksHaveOwners'
    BY <1>1 DEF TypeOK, LocksHaveOwners
  <1>3. TypeOK'
    BY <1>1, <1>2 DEF TypeOK
  <1>4. InHand'
    BY DEF InHand, TypeOK
  <1>5. \A g \in Handlers : handler'[g].at \in {"retry", "drop"} => handler'[g] = handler[g]
    BY DEF TypeOK
  <1> QED
    BY <1>3, <1>4, <1>5, QuietStep

---------------------------------------------------------------------------
LEMMA SweepInv ==
  ASSUME IInv,
         \/ \E p \in Paths : UnregisterPath(p)
         \/ CleanUp \/ Stop \/ CleanerEnds \/ StopSegments \/ SweepStep
  PROVE  IInv'
  <1> USE RetransmissionAssumption DEF IInv
  <1>1. UNCHANGED <<tracked, attempts, acknowledged, refused, strays, segmentLock, ack, handler,
                    retries>>
    BY DEF UnregisterPath, CleanUp, Stop, CleanerEnds, StopSegments, SweepStep, SweepOne,
           EndSweep, BeginSweep
  <1>2. InHand'
    BY <1>1 DEF InHand
  <1>3. ASSUME NEW kind \in {"unregister", "cleanup", "stop"}, NEW path \in Paths \cup {None},
               BeginSweep(kind, path),
               status' \in {"running", "stopping", "waited", "sweeping", "stopped"}
        PROVE  TypeOK'
    <2> USE <1>3 DEF BeginSweep
    <2>1. InTable \subseteq Segments
      BY DEF InTable, TypeOK
    <2>2. LocksHaveOwners'
      BY DEF TypeOK, LocksHaveOwners
    <2> QED
      BY <2>1, <2>2 DEF TypeOK
  <1>4. ASSUME NEW p \in Paths, UnregisterPath(p) PROVE TypeOK'
    BY <1>3, <1>4 DEF UnregisterPath, TypeOK
  <1>5. ASSUME CleanUp PROVE TypeOK'
    <2>1. BeginSweep("cleanup", None) /\ status' = status
      BY <1>5 DEF CleanUp
    <2> QED
      BY <1>3, <2>1 DEF TypeOK
  <1>6. ASSUME StopSegments PROVE TypeOK'
    <2>1. BeginSweep("stop", None) /\ status' = "sweeping"
      BY <1>6 DEF StopSegments
    <2> QED
      BY <1>3, <2>1
  <1>7. ASSUME Stop \/ CleanerEnds PROVE TypeOK'
    <2>1. /\ status' \in {"stopping", "waited"}
          /\ UNCHANGED <<table, tracked, attempts, acknowledged, refused, armed, strays,
                         segmentLock, tableLock, ack, handler, sweep, retries>>
      BY <1>7 DEF Stop, CleanerEnds
    <2>2. LocksHaveOwners'
      BY <2>1 DEF TypeOK, LocksHaveOwners
    <2> QED
      BY <2>1, <2>2 DEF TypeOK
  <1>8. ASSUME NEW s \in Segments, SweepOne(s) PROVE TypeOK'
    <2> USE <1>8 DEF SweepOne
    <2>1. sweep.kind # "none" <=> sweep'.kind # "none"
      BY DEF TypeOK
    <2>2. LocksHaveOwners'
      BY <2>1 DEF TypeOK, LocksHaveOwners
    <2>3. /\ table' \in [Ids -> Segments \cup {None}] /\ armed' \subseteq Segments
          /\ \A i \in Ids : table'[i] # None => IdOf[table'[i]] = i
      BY DEF TypeOK
    <2>4. sweep' \in [kind : {"none", "unregister", "cleanup", "stop"}, path : Paths \cup {None},
                      todo : SUBSET Segments]
      BY DEF TypeOK
    <2> QED
      BY <2>2, <2>3, <2>4 DEF TypeOK
  <1>9. ASSUME EndSweep PROVE TypeOK'
    <2> USE <1>9 DEF EndSweep, NoSweep
    <2>1. LocksHaveOwners'
      BY DEF TypeOK, LocksHaveOwners
    <2> QED
      BY <2>1 DEF TypeOK
  <1>10. TypeOK'
    BY <1>4, <1>5, <1>6, <1>7, <1>8, <1>9 DEF SweepStep
  <1> QED
    BY <1>1, <1>2, <1>10, QuietStep

LEMMA StutterInv == IInv /\ UNCHANGED vars => IInv'
  <1> SUFFICES ASSUME IInv, UNCHANGED vars PROVE IInv'
    OBVIOUS
  <1> USE DEF IInv, vars
  <1>1. TypeOK'
    BY DEF TypeOK, LocksHaveOwners
  <1>2. InHand'
    BY DEF InHand
  <1> QED
    BY <1>1, <1>2, QuietStep

LEMMA StepInv == IInv /\ [Next]_vars => IInv'
  BY TrackSegmentInv, AckSegmentInv, FireInv, TimeoutLookUpInv, HandleTimeoutInv, RetryInv,
     DropInv, SweepInv, StutterInv DEF Next, HandlerStep

LEMMA Invariance == Spec => []IInv
  <1>1. Init => IInv
    BY InitInv
  <1>2. IInv /\ [Next]_vars => IInv'
    BY StepInv
  <1> QED
    BY <1>1, <1>2, PTL DEF Spec

---------------------------------------------------------------------------
(* The state keeps its shape, and a mutex that is held has an owner inside *)
(* a call that gives it back (AckSegment, handleSegmentTimeout and the     *)
(* loops over the table).                                                  *)
THEOREM TypeCorrect == Spec => []TypeOK
  <1>1. IInv => TypeOK
    BY DEF IInv
  <1> QED
    BY <1>1, Invariance, PTL

(* A segment that AckSegment has marked is neither sent again nor given up *)
(* by a timer that had fired before (handleSegmentTimeout).                *)
THEOREM AckedIsNotRetried == Spec => []NoRetryAfterAck
  <1>1. IInv => NoRetryAfterAck
    BY DEF IInv
  <1> QED
    BY <1>1, Invariance, PTL

(* A segment is sent again at most MaxAttempts - 1 times, however many     *)
(* timers its id has had (handleSegmentTimeout, ShouldRetry).              *)
THEOREM RetriesAreBounded == Spec => []RetriesBounded
  <1>1. IInv => RetriesBounded
    BY DEF IInv
  <1> QED
    BY <1>1, Invariance, PTL
=============================================================================
