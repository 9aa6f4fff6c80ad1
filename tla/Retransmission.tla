--------------------------- MODULE Retransmission ---------------------------
(***************************************************************************)
(* The retransmission manager (pkg/data/retransmission_manager.go): a      *)
(* table of segments by id, a timer per segment, and the goroutines that   *)
(* meet there: TrackSegment, AckSegment, the timers' handlers, and the     *)
(* three that go over the table (UnregisterPath, the clean-up, Stop).      *)
(*                                                                         *)
(* A segment is the object one call of TrackSegment makes.  A timer knows  *)
(* an id, not an object: it handles whatever the table has under that id   *)
(* when it fires.  An object knows the timer that was made for it last;    *)
(* timers that were made before and are still running are strays, which    *)
(* nothing can stop.  segmentsMux is named by who holds it across a wait   *)
(* (tableLock), a segment's mutex by the handler that holds it             *)
(* (segmentLock).  Time is not modelled: an armed timer may fire and a     *)
(* segment may be stale at any moment.                                     *)
(***************************************************************************)
EXTENDS Integers, FiniteSets

CONSTANTS Segments,      \* the calls of TrackSegment and the objects they make
          Ids, IdOf,     \* the id each call gives
          Paths, PathOf, \* and its path
          Acks,          \* calls of AckSegment
          Handlers,      \* goroutines of timers that have fired
          MaxAttempts,   \* of the backoff strategy
          None

ASSUME RetransmissionAssumption ==
  /\ IdOf \in [Segments -> Ids] /\ PathOf \in [Segments -> Paths]
  /\ MaxAttempts \in Nat \ {0}
  /\ None \notin Segments /\ None \notin Acks /\ None \notin Handlers
  /\ "sweep" \notin Acks \cup {None}

VARIABLES
  status,         \* of the manager, see Running, Cleaning
  table,          \* rm.segments: id -> segment or None
  tracked,        \* how far each call of TrackSegment is
  attempts,       \* Attempts of a segment
  acknowledged,   \* segments whose Acknowledged is set
  refused,        \* segments whose LastError is not retryable
  armed,          \* segments whose retryTimer runs
  strays,         \* per id, the running timers no segment knows
  segmentLock,    \* handler that holds the mutex of a segment, or None
  tableLock,      \* who holds segmentsMux: an Acks, "sweep", or None
  ack,            \* per call of AckSegment: how far it is and its segment
  handler,        \* per handler: how far it is, its id and its segment
  sweep,          \* the loop over the table that holds segmentsMux
  retries         \* history: how often the retry callback had a segment

vars == <<status, table, tracked, attempts, acknowledged, refused, armed,
          strays, segmentLock, tableLock, ack, handler, sweep, retries>>

Idle == [at |-> "idle", id |-> None, of |-> None]
NoSweep == [kind |-> "none", path |-> None, todo |-> {}]

Init ==
  /\ status = "running"
  /\ table = [i \in Ids |-> None]
  /\ tracked = [s \in Segments |-> "no"]
  /\ attempts = [s \in Segments |-> 1]
  /\ acknowledged = {} /\ refused = {} /\ armed = {}
  /\ strays = [i \in Ids |-> 0]
  /\ segmentLock = [s \in Segments |-> None]
  /\ tableLock = None
  /\ ack = [a \in Acks |-> Idle]
  /\ handler = [h \in Handlers |-> Idle]
  /\ sweep = NoSweep
  /\ retries = [s \in Segments |-> 0]

(* rm.running, and that the clean-up goroutine has not ended yet. *)
Running == status = "running"
Cleaning == status \in {"running", "stopping"}

InTable == {table[i] : i \in Ids} \ {None}

---------------------------------------------------------------------------
(* TrackSegment looks at running and lets rm.mutex go; it arms the timer   *)
(* and then puts the segment in the table, in the place of one of its id.  *)
StartTracking(s) ==
  /\ tracked[s] = "no" /\ Running
  /\ tracked' = [tracked EXCEPT ![s] = "made"]
  /\ UNCHANGED <<status, table, attempts, acknowledged, refused, armed, strays,
                 segmentLock, tableLock, ack, handler, sweep, retries>>

ArmFirst(s) ==
  /\ tracked[s] = "made"
  /\ tracked' = [tracked EXCEPT ![s] = "armed"]
  /\ armed' = armed \cup {s}
  /\ UNCHANGED <<status, table, attempts, acknowledged, refused, strays,
                 segmentLock, tableLock, ack, handler, sweep, retries>>

Insert(s) ==
  /\ tracked[s] = "armed" /\ tableLock = None
  /\ tracked' = [tracked EXCEPT ![s] = "done"]
  /\ table' = [table EXCEPT ![IdOf[s]] = s]
  /\ UNCHANGED <<status, attempts, acknowledged, refused, armed, strays,
                 segmentLock, tableLock, ack, handler, sweep, retries>>

(* Mutant: the early return of a segment that is not found keeps the lock. *)
ReturnLocked(a) ==
  /\ ack[a].at = "idle" /\ tableLock = None
  /\ tableLock' = a
  /\ \E i \in Ids :
       ack' = [ack EXCEPT ![a] = IF table[i] = None THEN [Idle EXCEPT !.at = "done"]
                                 ELSE [at |-> "found", id |-> i, of |-> table[i]]]
  /\ UNCHANGED <<status, table, tracked, attempts, acknowledged, refused, armed,
                 strays, segmentLock, handler, sweep, retries>>

(* AckSegment holds segmentsMux from its look-up on, and waits with it for *)
(* the segment's mutex.                                                    *)
AckLookUp(a) ==
  /\ ack[a].at = "idle" /\ tableLock = None
  /\ \E i \in Ids :
       IF table[i] = None
       THEN ack' = [ack EXCEPT ![a].at = "done"] /\ UNCHANGED tableLock
       ELSE /\ ack' = [ack EXCEPT ![a] = [at |-> "found", id |-> i, of |-> table[i]]]
            /\ tableLock' = a
  /\ UNCHANGED <<status, table, tracked, attempts, acknowledged, refused, armed,
                 strays, segmentLock, handler, sweep, retries>>

AckMark(a) ==
  /\ ack[a].at = "found" /\ segmentLock[ack[a].of] = None
  /\ acknowledged' = acknowledged \cup {ack[a].of}
  /\ armed' = armed \ {ack[a].of}
  /\ table' = [table EXCEPT ![ack[a].id] = None]
  /\ tableLock' = None
  /\ ack' = [ack EXCEPT ![a] = [Idle EXCEPT !.at = "done"]]
  /\ UNCHANGED <<status, tracked, attempts, refused, strays, segmentLock,
                 handler, sweep, retries>>

---------------------------------------------------------------------------
(* A timer fires: its goroutine knows the id.                              *)
Fire(h) ==
  /\ handler[h].at = "idle"
  /\ \E i \in Ids :
       /\ handler' = [handler EXCEPT ![h] = [at |-> "fired", id |-> i, of |-> None]]
       /\ \/ /\ \E s \in armed : IdOf[s] = i /\ armed' = armed \ {s}
             /\ UNCHANGED strays
          \/ /\ strays[i] > 0
             /\ strays' = [strays EXCEPT ![i] = @ - 1]
             /\ UNCHANGED armed
  /\ UNCHANGED <<status, table, tracked, attempts, acknowledged, refused,
                 segmentLock, tableLock, ack, sweep, retries>>

(* handleSegmentTimeout looks the segment up and lets segmentsMux go ...   *)
TimeoutLookUp(h) ==
  /\ handler[h].at = "fired" /\ tableLock = None
  /\ LET s == table[handler[h].id]
     IN  handler' = [handler EXCEPT ![h] = IF s = None THEN Idle
                                           ELSE [at |-> "found", id |-> @.id, of |-> s]]
  /\ UNCHANGED <<status, table, tracked, attempts, acknowledged, refused, armed,
                 strays, segmentLock, tableLock, ack, sweep, retries>>

(* Mutant: the handler does not look at Acknowledged. *)
NeverSettled(s) == FALSE

IsSettled(s) == s \in acknowledged

(* Mutant: only an error that is not retryable ends the attempts. *)
RetryUnlessRefused(s, attempt) == s \notin refused

(* ShouldRetry of the strategy, for the attempt that is to begin. *)
ShouldRetry(s, attempt) == attempt <= MaxAttempts /\ s \notin refused

(* ... waits for the segment's mutex and keeps it to the end of its call:  *)
(* the next timer is armed before the callback runs; the timer that was    *)
(* the segment's becomes a stray if it is still running.                   *)
HandleTimeout(h) ==
  LET s == handler[h].of
      next == attempts[s] + 1
      rearm == ShouldRetry(s, next)
  IN
  /\ handler[h].at = "found" /\ segmentLock[s] = None
  /\ IF IsSettled(s)
     THEN /\ handler' = [handler EXCEPT ![h] = Idle]
          /\ UNCHANGED <<attempts, armed, strays, segmentLock>>
     ELSE /\ attempts' = [attempts EXCEPT ![s] = next]
          /\ segmentLock' = [segmentLock EXCEPT ![s] = h]
          /\ handler' = [handler EXCEPT ![h].at = IF rearm THEN "retry" ELSE "drop"]
          /\ armed' = IF rearm THEN armed \cup {s} ELSE armed
          /\ strays' = IF rearm /\ s \in armed
                       THEN [strays EXCEPT ![handler[h].id] = @ + 1] ELSE strays
  /\ UNCHANGED <<status, table, tracked, acknowledged, refused, tableLock, ack,
                 sweep, retries>>

(* The retry callback; whether its error is one that ends the attempts is  *)
(* a choice (the path it finds, the connection).                           *)
Retry(h) ==
  LET s == handler[h].of IN
  /\ handler[h].at = "retry"
  /\ retries' = [retries EXCEPT ![s] = @ + 1]
  /\ refused' \in {refused \ {s}, refused \cup {s}}
  /\ segmentLock' = [segmentLock EXCEPT ![s] = None]
  /\ handler' = [handler EXCEPT ![h] = Idle]
  /\ UNCHANGED <<status, table, tracked, attempts, acknowledged, armed, strays,
                 tableLock, ack, sweep>>

(* The segment is given up: with its mutex held the handler waits for      *)
(* segmentsMux and deletes what the table has under the id.                *)
Drop(h) ==
  /\ handler[h].at = "drop" /\ tableLock = None
  /\ table' = [table EXCEPT ![handler[h].id] = None]
  /\ segmentLock' = [segmentLock EXCEPT ![handler[h].of] = None]
  /\ handler' = [handler EXCEPT ![h] = Idle]
  /\ UNCHANGED <<status, tracked, attempts, acknowledged, refused, armed, strays,
                 tableLock, ack, sweep, retries>>

---------------------------------------------------------------------------
(* UnregisterPath, the clean-up and Stop hold segmentsMux while they wait  *)
(* for the mutex of one segment after the other.                           *)
BeginSweep(kind, path) ==
  /\ tableLock = None
  /\ tableLock' = "sweep"
  /\ sweep' = [kind |-> kind, path |-> path, todo |-> InTable]
  /\ UNCHANGED <<table, tracked, attempts, acknowledged, refused, armed, strays, segmentLock,
                 ack, handler, retries>>

UnregisterPath(p) == BeginSweep("unregister", p) /\ UNCHANGED status

CleanUp == Cleaning /\ BeginSweep("cleanup", None) /\ UNCHANGED status

(* Stop waits for the clean-up goroutine between the two.                  *)
Stop ==
  /\ Running /\ status' = "stopping"
  /\ UNCHANGED <<table, tracked, attempts, acknowledged, refused, armed, strays, segmentLock,
                 tableLock, ack, handler, sweep, retries>>

CleanerEnds ==
  /\ status = "stopping" /\ sweep.kind # "cleanup"
  /\ status' = "waited"
  /\ UNCHANGED <<table, tracked, attempts, acknowledged, refused, armed, strays, segmentLock,
                 tableLock, ack, handler, sweep, retries>>

StopSegments == status = "waited" /\ BeginSweep("stop", None) /\ status' = "sweeping"

(* Mutant: only an acknowledged segment is cleaned up. *)
SweptIfSettled(s, leaves) ==
  CASE sweep.kind = "unregister" -> leaves = (PathOf[s] = sweep.path)
    [] sweep.kind = "stop"       -> leaves
    [] sweep.kind = "cleanup"    -> leaves = (s \in acknowledged)

(* Which segments leave: those of the path; all of them; the stale ones.   *)
SweptBy(s, leaves) ==
  CASE sweep.kind = "unregister" -> leaves = (PathOf[s] = sweep.path)
    [] sweep.kind = "stop"       -> leaves
    [] sweep.kind = "cleanup"    -> s \in acknowledged => leaves

(* UnregisterPath looks at all segments and then stops the timers of those *)
(* of the path: a segment's path never changes, so for another path's the  *)
(* step is the wait for its mutex.  performCleanup stops the timer after   *)
(* it has given that mutex back: a handler that comes in between, without  *)
(* segmentsMux, re-arms the timer that is stopped here or, having the      *)
(* mutex still, does so as late as one that comes after this step.         *)
SweepOne(s) ==
  /\ s \in sweep.todo /\ segmentLock[s] = None
  /\ sweep' = [sweep EXCEPT !.todo = @ \ {s}]
  /\ \E leaves \in BOOLEAN :
       /\ SweptBy(s, leaves)
       /\ armed' = IF leaves THEN armed \ {s} ELSE armed
       /\ table' = IF leaves THEN [table EXCEPT ![IdOf[s]] = None] ELSE table
  /\ UNCHANGED <<status, tracked, attempts, acknowledged, refused, strays, segmentLock,
                 tableLock, ack, handler, retries>>

EndSweep ==
  /\ sweep.kind # "none" /\ sweep.todo = {}
  /\ sweep' = NoSweep /\ tableLock' = None
  /\ status' = IF sweep.kind = "stop" THEN "stopped" ELSE status
  /\ UNCHANGED <<table, tracked, attempts, acknowledged, refused, armed, strays, segmentLock,
                 ack, handler, retries>>

---------------------------------------------------------------------------
TrackSegment(s) == StartTracking(s) \/ ArmFirst(s) \/ Insert(s)

AckSegment(a) == AckLookUp(a) \/ AckMark(a)

HandlerStep(h) == TimeoutLookUp(h) \/ HandleTimeout(h) \/ Retry(h) \/ Drop(h)

SweepStep == (\E s \in Segments : SweepOne(s)) \/ EndSweep

Next ==
  \/ \E s \in Segments : TrackSegment(s)
  \/ \E a \in Acks : AckSegment(a)
  \/ \E h \in Handlers : Fire(h) \/ HandlerStep(h)
  \/ \E p \in Paths : UnregisterPath(p)
  \/ CleanUp \/ Stop \/ CleanerEnds \/ StopSegments \/ SweepStep

(* A callback returns, who holds segmentsMux goes on when it can, the      *)
(* clean-up of every 30 seconds gets segmentsMux in the end, and finds a   *)
(* segment stale once five minutes have passed.  Nothing is assumed of the *)
(* timers, the acknowledgements or the callers.                            *)
Fairness ==
  /\ WF_vars(\E h \in Handlers : Retry(h))
  /\ WF_vars(\E a \in Acks : AckMark(a))
  /\ WF_vars(SweepStep)
  /\ SF_vars(CleanUp)
  /\ \A s \in Segments : SF_vars(SweepOne(s) /\ s \notin InTable')

Spec == Init /\ [][Next]_vars /\ Fairness
---------------------------------------------------------------------------
(* Who holds a mutex is inside a call that gives it back.                   *)
LocksHaveOwners ==
  /\ \A a \in Acks : tableLock = a <=> ack[a].at = "found"
  /\ tableLock = "sweep" <=> sweep.kind # "none"
  /\ \A h \in Handlers, s \in Segments :
       segmentLock[s] = h <=> handler[h].at \in {"retry", "drop"} /\ handler[h].of = s

TypeOK ==
  /\ status \in {"running", "stopping", "waited", "sweeping", "stopped"}
  /\ table \in [Ids -> Segments \cup {None}]
  /\ \A i \in Ids : table[i] # None => IdOf[table[i]] = i
  /\ tracked \in [Segments -> {"no", "made", "armed", "done"}]
  /\ attempts \in [Segments -> Nat] /\ retries \in [Segments -> Nat]
  /\ acknowledged \subseteq Segments /\ refused \subseteq Segments /\ armed \subseteq Segments
  /\ strays \in [Ids -> Nat]
  /\ segmentLock \in [Segments -> Handlers \cup {None}]
  /\ tableLock \in Acks \cup {"sweep", None}
  /\ ack \in [Acks -> [at : {"idle", "found", "done"}, id : Ids \cup {None},
                       of : Segments \cup {None}]]
  /\ handler \in [Handlers -> [at : {"idle", "fired", "found", "retry", "drop"},
                               id : Ids \cup {None}, of : Segments \cup {None}]]
  /\ sweep \in [kind : {"none", "unregister", "cleanup", "stop"}, path : Paths \cup {None},
                todo : SUBSET Segments]
  /\ LocksHaveOwners

(* AckSegment and a timer that has fired meet: once AckSegment has marked a *)
(* segment, no handler that found it before sends it again or gives it up. *)
NoRetryAfterAck ==
  \A h \in Handlers : handler[h].at \in {"retry", "drop"} => handler[h].of \notin acknowledged

(* However many timers come to an id that was tracked again, and whoever   *)
(* else holds the table meanwhile, a segment is sent again at most         *)
(* MaxAttempts - 1 times.                                                  *)
RetriesBounded == \A s \in Segments : retries[s] <= MaxAttempts - 1

(* A handler that gives its segment up waits for segmentsMux with the      *)
(* segment's mutex held; whoever holds segmentsMux waits for that mutex.   *)
WaitsFor(s) ==
  \/ \E a \in Acks : ack[a].at = "found" /\ ack[a].of = s
  \/ s \in sweep.todo

LockCycle == \E h \in Handlers : handler[h].at = "drop" /\ WaitsFor(handler[h].of)

(* Unless the two mutexes wait for each other, a tracked segment of a      *)
(* running manager leaves the table, also when its timer fired before it   *)
(* was in there: acknowledged, given up, or cleaned up.                    *)
SegmentsSettle ==
  \A s \in Segments : s \in InTable ~> (s \notin InTable \/ LockCycle \/ ~Running)

(* "Stop stops the retransmission monitoring and cleans up resources"      *)
(* (retransmission_manager.go:31): a handler that found its segment before  *)
(* sends it after Stop has returned, and a TrackSegment that looked at      *)
(* running before adds one.                                                 *)
StopIsFinal == [][status = "stopped" => retries' = retries]_vars

(* "AckSegment marks a segment as acknowledged and stops retransmission"   *)
(* (retransmission_manager.go:17): it does not, when it meets the handler  *)
(* that gives the segment up.                                              *)
AckIsNotStuck ==
  \A a \in Acks, h \in Handlers :
    ack[a].at = "found" => ~(handler[h].at = "drop" /\ handler[h].of = ack[a].of)
=============================================================================
