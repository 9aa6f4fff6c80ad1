--------------------------- MODULE SessionProofs ---------------------------
(***************************************************************************)
(* Proofs about Session for every set of calls and addresses, whatever is  *)
(* lost, merged or cut on the control stream.  IInv strengthens the        *)
(* invariants to an inductive one: a request is on its way or in hand at   *)
(* most once and before its path exists, and whatever carries a success    *)
(* names an integrated path.                                               *)
(***************************************************************************)
EXTENDS Session, SequenceTheorems, FiniteSetTheorems, TLAPS

(* What the handler has in hand. *)
HandlerOK ==
  /\ handler = "reading" <=> handled = None
  /\ handler = "dialing" => handled \notin paths
  /\ handler \in {"created", "opening", "authenticating", "integrating", "accepting"}
       => handled \in paths
  /\ handler = "accepting" => handled \in integrated
  /\ handled # None => call[handled] # "idle"

(* A request in flight was sent by a call, once, and is not handled yet. *)
RequestsOK ==
  \A i \in 1 .. Len(requests) :
    /\ requests[i] \notin paths
    /\ requests[i] # handled
    /\ call[requests[i]] # "idle"
    /\ \A j \in 1 .. Len(requests) : requests[i] = requests[j] => i = j

(* A call that was not made has no path. *)
UnmadeOK == \A c \in Calls : call[c] = "idle" => c \notin paths

(* Every carrier of a success names an integrated path. *)
Honest == {r \in Responses : r[2] => r[1] \in integrated}

AnswersOK ==
  /\ \A i \in 1 .. Len(responses) : responses[i] \in Honest
  /\ reader \in Calls /\ routed => reader \in integrated
  /\ \A c \in Calls : responseChan[c] = "accepted" => c \in integrated
  /\ \A c \in Calls : call[c] \in {"answered", "confirmed"} => c \in integrated

(* An entry of pendingPathIDs belongs to a call for its address that has    *)
(* not failed.                                                              *)
PendingOK ==
  \A a \in Addresses : pendingPathIDs[a] # None =>
    /\ AddressOf[pendingPathIDs[a]] = a
    /\ call[pendingPathIDs[a]] \in CallStates \ {"idle", "sent", "failed"}

(* OnePrimary without counting. *)
NoTwoPrimaries == \A o, p \in isPrimary \cap activePaths : o = p

IInv ==
  /\ TypeOK
  /\ HandlerOK
  /\ RequestsOK
  /\ UnmadeOK
  /\ AnswersOK
  /\ PendingOK
  /\ integrated \subseteq paths
  /\ SecondaryIsNotPrimary
  /\ NoTwoPrimaries

-----------------------------------------------------------------------------
(* What may be appended where all elements are in T. *)
LEMMA AppendStaysIn ==
  ASSUME NEW S, NEW T, NEW s \in Seq(S), NEW e \in S, e \in T,
         \A i \in 1 .. Len(s) : s[i] \in T
  PROVE  \A i \in 1 .. Len(Append(s, e)) : Append(s, e)[i] \in T
  BY AppendProperties

(* What is left of a sequence once its first n elements are taken. *)
LEMMA Rest ==
  ASSUME NEW S, NEW s \in Seq(S), NEW n \in 1 .. Len(s)
  PROVE  LET t == SubSeq(s, n + 1, Len(s))
         IN  /\ t \in Seq(S)
             /\ Len(t) = Len(s) - n
             /\ \A i \in 1 .. Len(t) : i + n \in 1 .. Len(s) /\ t[i] = s[i + n]
<1>1. Len(s) \in Nat /\ \A i \in (n + 1) .. Len(s) : s[i] \in S
  OBVIOUS
<1>2. n + 1 \in Int /\ Len(s) \in Int
  BY <1>1
<1>3. /\ SubSeq(s, n + 1, Len(s)) \in Seq(S)
      /\ Len(SubSeq(s, n + 1, Len(s))) = IF n + 1 <= Len(s) THEN Len(s) - (n + 1) + 1 ELSE 0
      /\ \A i \in 1 .. Len(s) - (n + 1) + 1 : SubSeq(s, n + 1, Len(s))[i] = s[n + 1 + i - 1]
  BY <1>1, <1>2, SubSeqProperties
<1>4. QED
  BY <1>1, <1>3

LEMMA InitInv == Init => IInv
<1> SUFFICES ASSUME Init PROVE IInv
  OBVIOUS
<1>1. TypeOK
  <2>1. /\ verdict = {} /\ sweep = {}
        /\ Cardinality(verdict) <= 1 /\ Cardinality(sweep) <= 1
    BY FS_EmptySet DEF Init, ManagerInit
  <2>2. requests \in Seq(Calls) /\ responses \in Seq(Responses)
    BY DEF Init
  <2>3. QED
    BY <2>1, <2>2, SessionAssumption
    DEF Init, ManagerInit, TypeOK, ManagerTypeOK, Objects, CallStates, HandlerStates
<1>2. HandlerOK /\ RequestsOK /\ UnmadeOK
  BY PrimaryAssumption DEF Init, ManagerInit, HandlerOK, RequestsOK, UnmadeOK
<1>3. AnswersOK /\ PendingOK
  BY SessionAssumption DEF Init, AnswersOK, PendingOK
<1>4. integrated \subseteq paths /\ SecondaryIsNotPrimary /\ NoTwoPrimaries
  BY DEF Init, ManagerInit, SecondaryIsNotPrimary, NoTwoPrimaries
<1>5. QED
  BY <1>1, <1>2, <1>3, <1>4 DEF IInv

(* The stream of answers, read from and written to. *)
LEMMA RestOfResponses ==
  ASSUME TypeOK, NEW n \in 1 .. Len(responses),
         responses' = SubSeq(responses, n + 1, Len(responses))
  PROVE  \A i \in 1 .. Len(responses') :
           i + n \in 1 .. Len(responses) /\ responses'[i] = responses[i + n]
<1>1. responses \in Seq(Responses)
  BY DEF TypeOK
<1>2. QED
  BY <1>1, Rest

LEMMA ResponseAppended ==
  ASSUME TypeOK, NEW e \in Honest, responses' = Append(responses, e),
         \A i \in 1 .. Len(responses) : responses[i] \in Honest
  PROVE  \A i \in 1 .. Len(responses') : responses'[i] \in Honest
<1>1. responses \in Seq(Responses) /\ e \in Responses
  BY DEF TypeOK, Honest
<1>2. QED
  BY <1>1, AppendStaysIn

(* What goes with a connection. *)
LEMMA DisconnectTypes ==
  ASSUME TypeOK, NEW gone, Disconnect(gone)
  PROVE  /\ connected' \subseteq connected
         /\ requests' \in Seq(Calls) /\ responses' \in Seq(Responses)
         /\ \/ requests' = requests /\ responses' = responses
            \/ Len(requests') = 0 /\ Len(responses') = 0
<1>1. connected' \subseteq connected
  BY DEF Disconnect
<1>2. CASE Primary \in gone
  <2>1. requests' = <<>> /\ responses' = <<>>
    BY <1>2 DEF Disconnect
  <2>2. QED
    BY <1>1, <2>1
<1>3. CASE Primary \notin gone
  <2>1. requests' = requests /\ responses' = responses
    BY <1>3 DEF Disconnect, wireVars
  <2>2. QED
    BY <1>1, <2>1 DEF TypeOK
<1>4. QED
  BY <1>2, <1>3

(* The state keeps its shape. *)
LEMMA TypeStep == IInv /\ [Next]_vars => TypeOK'
<1> SUFFICES ASSUME IInv, [Next]_vars PROVE TypeOK'
  OBVIOUS
<1> USE DEF IInv, TypeOK, ManagerTypeOK, Objects, CallStates, Returned, Held,
           HandlerStates, CallGoes, HandlerGoes, managerVars, serverVars, readerVars,
           wireVars, clientVars
<1>1. ASSUME NEW c \in Calls, SendRequest(c) PROVE TypeOK'
  BY <1>1, AppendProperties DEF SendRequest
<1>2. ASSUME NEW c \in Calls, RejectCall(c) PROVE TypeOK'
  BY <1>2 DEF RejectCall
<1>3. ASSUME NEW c \in Calls, RecordPending(c) PROVE TypeOK'
  BY <1>3 DEF RecordPending
<1>4. ASSUME NEW c \in Calls, RegisterChannel(c) PROVE TypeOK'
  BY <1>4 DEF RegisterChannel
<1>5. ASSUME NEW c \in Calls, ReceiveAnswer(c) PROVE TypeOK'
  BY <1>5 DEF ReceiveAnswer, AfterAnswer
<1>6. ASSUME NEW c \in Calls, TimeOut(c) PROVE TypeOK'
  BY <1>6 DEF TimeOut
<1>7. ASSUME NEW c \in Calls, UnregisterChannel(c) PROVE TypeOK'
  BY <1>7 DEF UnregisterChannel
<1>8. ASSUME NEW c \in Calls, CleanUp(c) PROVE TypeOK'
  BY <1>8 DEF CleanUp, DropPending
<1>9. ASSUME ReadResponse PROVE TypeOK'
  <2> PICK n \in 1 .. Len(responses) :
         /\ responses' = SubSeq(responses, n + 1, Len(responses))
         /\ \/ reader' = "reading" /\ routed' = routed
            \/ /\ responses[n][1] \in Calls /\ reader' = responses[n][1]
               /\ routed' = responses[n][2]
    BY <1>9 DEF ReadResponse
  <2>1. responses' \in Seq(Responses)
    BY Rest
  <2>2. responses[n] \in Responses
    OBVIOUS
  <2>3. routed' \in BOOLEAN /\ reader' \in Calls \cup {"reading", "ended", "panicked"}
    BY <2>2 DEF Responses
  <2>4. QED
    BY <1>9, <2>1, <2>3 DEF ReadResponse
<1>10. ASSUME RouteResponse PROVE TypeOK'
  BY <1>10 DEF RouteResponse
<1>11. ASSUME EndReader PROVE TypeOK'
  BY <1>11 DEF EndReader
<1>12. ASSUME CloseServer PROVE TypeOK'
  BY <1>12, DisconnectTypes DEF CloseServer
<1>13. ASSUME ReadRequest PROVE TypeOK'
  BY <1>13 DEF ReadRequest
<1>14. ASSUME Dial PROVE TypeOK'
  BY <1>14 DEF Dial, CreatePath, NoPathIsActive, HandlerOK
<1>15. ASSUME SetID PROVE TypeOK'
  BY <1>15 DEF SetID, HandlerOK
<1>16. ASSUME OpenControlStream PROVE TypeOK'
  BY <1>16 DEF OpenControlStream, GiveUp, RemovePath, Found
<1>17. ASSUME Authenticate PROVE TypeOK'
  <2>1. authenticated' \subseteq Calls /\ handler' \in HandlerStates
    BY <1>17 DEF Authenticate, GiveUp, HandlerOK
  <2>2. ManagerTypeOK' /\ paths' = paths
    BY <1>17 DEF Authenticate, GiveUp, RemovePath, Found
  <2>3. QED
    BY <1>17, <2>1, <2>2 DEF Authenticate
<1>18. ASSUME Integrate PROVE TypeOK'
  <2>1. integrated' \subseteq Calls /\ handler' \in HandlerStates
    BY <1>18, SessionAssumption DEF Integrate, HandlerOK
  <2>2. ManagerTypeOK' /\ paths' = paths
    BY <1>18 DEF Integrate, RemovePath, Found
  <2>3. QED
    BY <1>18, <2>1, <2>2 DEF Integrate
<1>19. ASSUME Respond PROVE TypeOK'
  BY <1>19, AppendProperties DEF Respond, Response, Responses, HandlerOK
<1>20. ASSUME CloseClient PROVE TypeOK'
  BY <1>20 DEF CloseClient
<1>21. ASSUME ListPaths PROVE TypeOK'
  BY <1>21 DEF ListPaths
<1>22. ASSUME NEW o \in Objects, ClosePath(o)
      PROVE TypeOK'
  BY <1>22, DisconnectTypes DEF ClosePath
<1>23. ASSUME NEW o \in Objects, LoseConnection(o) PROVE TypeOK'
  BY <1>23, DisconnectTypes DEF LoseConnection
<1>24. ASSUME NEW o \in Objects, CheckPath(o), UNCHANGED <<serverVars, wireVars, clientVars>>
      PROVE TypeOK'
  <2>1. PICK id \in {"key", ID(o)} : verdict' = {[path |-> o, id |-> id]}
    BY <1>24 DEF CheckPath
  <2>2. Cardinality(verdict') = 1
    BY <2>1, FS_Singleton
  <2>3. verdict' \subseteq [path : Objects, id : {"key", "given"}]
    BY <2>1 DEF ID
  <2>4. QED
    BY <1>24, <2>2, <2>3 DEF CheckPath
<1>25. ASSUME NEW o \in Objects, SweepPath(o), UNCHANGED <<serverVars, wireVars, clientVars>>
      PROVE TypeOK'
  <2>1. sweep' = {[path |-> o, id |-> ID(o)]}
    BY <1>25 DEF SweepPath
  <2>2. Cardinality(sweep') = 1
    BY <2>1, FS_Singleton
  <2>3. sweep' \subseteq [path : Objects, id : {"key", "given"}]
    BY <2>1 DEF ID
  <2>4. QED
    BY <1>25, <2>2, <2>3 DEF SweepPath
<1>26. ASSUME NEW o \in Objects, Elapse(o), UNCHANGED <<serverVars, wireVars, clientVars>>
      PROVE TypeOK'
  BY <1>26 DEF Elapse
<1>27. ASSUME MarkChecked, UNCHANGED <<serverVars, wireVars, clientVars>>
      PROVE TypeOK'
  <2>1. Cardinality(verdict') <= 1
    BY <1>27, FS_EmptySet DEF MarkChecked
  <2>2. QED
    BY <1>27, <2>1 DEF MarkChecked, MarkPathDead, Found
<1>28. ASSUME MarkSwept, UNCHANGED <<serverVars, wireVars, clientVars>>
      PROVE TypeOK'
  <2>1. Cardinality(sweep') <= 1
    BY <1>28, FS_EmptySet DEF MarkSwept
  <2>2. QED
    BY <1>28, <2>1 DEF MarkSwept, MarkPathDead, Found
<1>29. CASE UNCHANGED vars
  BY <1>29 DEF vars
<1>30. QED
  BY <1>1, <1>2, <1>3, <1>4, <1>5, <1>6, <1>7, <1>8, <1>9, <1>10, <1>11,
     <1>12, <1>13, <1>14, <1>15, <1>16, <1>17, <1>18, <1>19, <1>20,
     <1>21, <1>22, <1>23, <1>24, <1>25, <1>26, <1>27, <1>28, <1>29
     DEF Next, AddPath, HandleAddPathRequest, CheckHealth, ManagerStep

(* What the handler knows of the request in hand. *)
LEMMA HandlerStep == IInv /\ [Next]_vars => HandlerOK'
<1> SUFFICES ASSUME IInv, [Next]_vars PROVE HandlerOK'
  OBVIOUS
<1> USE DEF IInv, HandlerOK, TypeOK, ManagerTypeOK, Returned, CallGoes,
           HandlerGoes, managerVars, serverVars, readerVars, wireVars, clientVars
<1>1. ASSUME NEW c \in Calls, SendRequest(c) PROVE HandlerOK'
  BY <1>1 DEF SendRequest
<1>2. ASSUME NEW c \in Calls, RejectCall(c) PROVE HandlerOK'
  BY <1>2 DEF RejectCall
<1>3. ASSUME NEW c \in Calls, RecordPending(c) PROVE HandlerOK'
  BY <1>3 DEF RecordPending
<1>4. ASSUME NEW c \in Calls, RegisterChannel(c) PROVE HandlerOK'
  BY <1>4 DEF RegisterChannel
<1>5. ASSUME NEW c \in Calls, ReceiveAnswer(c) PROVE HandlerOK'
  BY <1>5 DEF ReceiveAnswer, AfterAnswer
<1>6. ASSUME NEW c \in Calls, TimeOut(c) PROVE HandlerOK'
  BY <1>6 DEF TimeOut
<1>7. ASSUME NEW c \in Calls, UnregisterChannel(c) PROVE HandlerOK'
  BY <1>7 DEF UnregisterChannel
<1>8. ASSUME NEW c \in Calls, CleanUp(c) PROVE HandlerOK'
  BY <1>8 DEF CleanUp, DropPending
<1>9. ASSUME ReadResponse PROVE HandlerOK'
  BY <1>9 DEF ReadResponse
<1>10. ASSUME RouteResponse PROVE HandlerOK'
  BY <1>10 DEF RouteResponse
<1>11. ASSUME EndReader PROVE HandlerOK'
  BY <1>11 DEF EndReader
<1>12. ASSUME CloseServer PROVE HandlerOK'
  BY <1>12 DEF CloseServer, Disconnect
<1>13. ASSUME ReadRequest PROVE HandlerOK'
  BY <1>13, SessionAssumption DEF ReadRequest, RequestsOK, Objects
<1>14. ASSUME Dial PROVE HandlerOK'
  BY <1>14 DEF Dial, CreatePath, NoPathIsActive
<1>15. ASSUME SetID PROVE HandlerOK'
  BY <1>15 DEF SetID
<1>16. ASSUME OpenControlStream PROVE HandlerOK'
  BY <1>16 DEF OpenControlStream, GiveUp, RemovePath, Found
<1>17. ASSUME Authenticate PROVE HandlerOK'
  BY <1>17 DEF Authenticate, GiveUp, RemovePath, Found
<1>18. ASSUME Integrate PROVE HandlerOK'
  BY <1>18 DEF Integrate, CanIntegrate, IsActive, RemovePath, Found
<1>19. ASSUME Respond PROVE HandlerOK'
  BY <1>19 DEF Respond, Response
<1>20. ASSUME CloseClient PROVE HandlerOK'
  BY <1>20 DEF CloseClient
<1>21. ASSUME ListPaths PROVE HandlerOK'
  BY <1>21 DEF ListPaths
<1>22. ASSUME NEW o \in Objects, ClosePath(o)
      PROVE HandlerOK'
  BY <1>22 DEF ClosePath, Disconnect
<1>23. ASSUME NEW o \in Objects, LoseConnection(o) PROVE HandlerOK'
  BY <1>23 DEF LoseConnection, Disconnect
<1>24. ASSUME NEW o \in Objects, CheckPath(o), UNCHANGED <<serverVars, wireVars, clientVars>>
      PROVE HandlerOK'
  BY <1>24 DEF CheckPath, ID
<1>25. ASSUME NEW o \in Objects, SweepPath(o), UNCHANGED <<serverVars, wireVars, clientVars>>
      PROVE HandlerOK'
  BY <1>25 DEF SweepPath, ID
<1>26. ASSUME NEW o \in Objects, Elapse(o), UNCHANGED <<serverVars, wireVars, clientVars>>
      PROVE HandlerOK'
  BY <1>26 DEF Elapse
<1>27. ASSUME MarkChecked, UNCHANGED <<serverVars, wireVars, clientVars>>
      PROVE HandlerOK'
  BY <1>27 DEF MarkChecked, MarkPathDead, Found
<1>28. ASSUME MarkSwept, UNCHANGED <<serverVars, wireVars, clientVars>>
      PROVE HandlerOK'
  BY <1>28 DEF MarkSwept, MarkPathDead, Found
<1>29. CASE UNCHANGED vars
  BY <1>29 DEF vars
<1>30. QED
  BY <1>1, <1>2, <1>3, <1>4, <1>5, <1>6, <1>7, <1>8, <1>9, <1>10, <1>11,
     <1>12, <1>13, <1>14, <1>15, <1>16, <1>17, <1>18, <1>19, <1>20,
     <1>21, <1>22, <1>23, <1>24, <1>25, <1>26, <1>27, <1>28, <1>29
     DEF Next, AddPath, HandleAddPathRequest, CheckHealth, ManagerStep

(* Only the call's request makes a path. *)
LEMMA UnmadeStep == IInv /\ [Next]_vars => UnmadeOK'
<1> SUFFICES ASSUME IInv, [Next]_vars PROVE UnmadeOK'
  OBVIOUS
<1> USE DEF IInv, UnmadeOK, HandlerOK, TypeOK, ManagerTypeOK, CallGoes,
           HandlerGoes, managerVars, serverVars, readerVars, wireVars, clientVars
<1>1. ASSUME NEW c \in Calls, SendRequest(c) PROVE UnmadeOK'
  BY <1>1 DEF SendRequest
<1>2. ASSUME NEW c \in Calls, RejectCall(c) PROVE UnmadeOK'
  BY <1>2 DEF RejectCall
<1>3. ASSUME NEW c \in Calls, RecordPending(c) PROVE UnmadeOK'
  BY <1>3 DEF RecordPending
<1>4. ASSUME NEW c \in Calls, RegisterChannel(c) PROVE UnmadeOK'
  BY <1>4 DEF RegisterChannel
<1>5. ASSUME NEW c \in Calls, ReceiveAnswer(c) PROVE UnmadeOK'
  BY <1>5 DEF ReceiveAnswer, AfterAnswer
<1>6. ASSUME NEW c \in Calls, TimeOut(c) PROVE UnmadeOK'
  BY <1>6 DEF TimeOut
<1>7. ASSUME NEW c \in Calls, UnregisterChannel(c) PROVE UnmadeOK'
  BY <1>7 DEF UnregisterChannel
<1>8. ASSUME NEW c \in Calls, CleanUp(c) PROVE UnmadeOK'
  BY <1>8 DEF CleanUp, DropPending
<1>9. ASSUME ReadResponse PROVE UnmadeOK'
  BY <1>9 DEF ReadResponse
<1>10. ASSUME RouteResponse PROVE UnmadeOK'
  BY <1>10 DEF RouteResponse
<1>11. ASSUME EndReader PROVE UnmadeOK'
  BY <1>11 DEF EndReader
<1>12. ASSUME CloseServer PROVE UnmadeOK'
  BY <1>12 DEF CloseServer, Disconnect
<1>13. ASSUME ReadRequest PROVE UnmadeOK'
  BY <1>13 DEF ReadRequest
<1>14. ASSUME Dial PROVE UnmadeOK'
  BY <1>14 DEF Dial, CreatePath, NoPathIsActive
<1>15. ASSUME SetID PROVE UnmadeOK'
  BY <1>15 DEF SetID
<1>16. ASSUME OpenControlStream PROVE UnmadeOK'
  BY <1>16 DEF OpenControlStream, GiveUp, RemovePath, Found
<1>17. ASSUME Authenticate PROVE UnmadeOK'
  BY <1>17 DEF Authenticate, GiveUp, RemovePath, Found
<1>18. ASSUME Integrate PROVE UnmadeOK'
  BY <1>18 DEF Integrate, CanIntegrate, IsActive, RemovePath, Found
<1>19. ASSUME Respond PROVE UnmadeOK'
  BY <1>19 DEF Respond, Response
<1>20. ASSUME CloseClient PROVE UnmadeOK'
  BY <1>20 DEF CloseClient
<1>21. ASSUME ListPaths PROVE UnmadeOK'
  BY <1>21 DEF ListPaths
<1>22. ASSUME NEW o \in Objects, ClosePath(o)
      PROVE UnmadeOK'
  BY <1>22 DEF ClosePath, Disconnect
<1>23. ASSUME NEW o \in Objects, LoseConnection(o) PROVE UnmadeOK'
  BY <1>23 DEF LoseConnection, Disconnect
<1>24. ASSUME NEW o \in Objects, CheckPath(o), UNCHANGED <<serverVars, wireVars, clientVars>>
      PROVE UnmadeOK'
  BY <1>24 DEF CheckPath, ID
<1>25. ASSUME NEW o \in Objects, SweepPath(o), UNCHANGED <<serverVars, wireVars, clientVars>>
      PROVE UnmadeOK'
  BY <1>25 DEF SweepPath, ID
<1>26. ASSUME NEW o \in Objects, Elapse(o), UNCHANGED <<serverVars, wireVars, clientVars>>
      PROVE UnmadeOK'
  BY <1>26 DEF Elapse
<1>27. ASSUME MarkChecked, UNCHANGED <<serverVars, wireVars, clientVars>>
      PROVE UnmadeOK'
  BY <1>27 DEF MarkChecked, MarkPathDead, Found
<1>28. ASSUME MarkSwept, UNCHANGED <<serverVars, wireVars, clientVars>>
      PROVE UnmadeOK'
  BY <1>28 DEF MarkSwept, MarkPathDead, Found
<1>29. CASE UNCHANGED vars
  BY <1>29 DEF vars
<1>30. QED
  BY <1>1, <1>2, <1>3, <1>4, <1>5, <1>6, <1>7, <1>8, <1>9, <1>10, <1>11,
     <1>12, <1>13, <1>14, <1>15, <1>16, <1>17, <1>18, <1>19, <1>20,
     <1>21, <1>22, <1>23, <1>24, <1>25, <1>26, <1>27, <1>28, <1>29
     DEF Next, AddPath, HandleAddPathRequest, CheckHealth, ManagerStep

(* Overlapping calls for one address leave no entry of a failed one. *)
LEMMA PendingStep == IInv /\ [Next]_vars => PendingOK'
<1> SUFFICES ASSUME IInv, [Next]_vars PROVE PendingOK'
  OBVIOUS
<1> USE DEF IInv, PendingOK, TypeOK, CallStates, Returned, CallGoes,
           HandlerGoes, managerVars, serverVars, readerVars, wireVars, clientVars
<1>1. ASSUME NEW c \in Calls, SendRequest(c) PROVE PendingOK'
  BY <1>1 DEF SendRequest
<1>2. ASSUME NEW c \in Calls, RejectCall(c) PROVE PendingOK'
  BY <1>2 DEF RejectCall
<1>3. ASSUME NEW c \in Calls, RecordPending(c) PROVE PendingOK'
  BY <1>3, SessionAssumption DEF RecordPending
<1>4. ASSUME NEW c \in Calls, RegisterChannel(c) PROVE PendingOK'
  BY <1>4 DEF RegisterChannel
<1>5. ASSUME NEW c \in Calls, ReceiveAnswer(c) PROVE PendingOK'
  BY <1>5 DEF ReceiveAnswer, AfterAnswer
<1>6. ASSUME NEW c \in Calls, TimeOut(c) PROVE PendingOK'
  BY <1>6 DEF TimeOut
<1>7. ASSUME NEW c \in Calls, UnregisterChannel(c) PROVE PendingOK'
  BY <1>7, SessionAssumption DEF UnregisterChannel
<1>8. ASSUME NEW c \in Calls, CleanUp(c) PROVE PendingOK'
  BY <1>8, SessionAssumption DEF CleanUp, DropPending
<1>9. ASSUME ReadResponse PROVE PendingOK'
  BY <1>9 DEF ReadResponse
<1>10. ASSUME RouteResponse PROVE PendingOK'
  BY <1>10 DEF RouteResponse
<1>11. ASSUME EndReader PROVE PendingOK'
  BY <1>11 DEF EndReader
<1>12. ASSUME CloseServer PROVE PendingOK'
  BY <1>12 DEF CloseServer, Disconnect
<1>13. ASSUME ReadRequest PROVE PendingOK'
  BY <1>13 DEF ReadRequest
<1>14. ASSUME Dial PROVE PendingOK'
  BY <1>14 DEF Dial, CreatePath, NoPathIsActive
<1>15. ASSUME SetID PROVE PendingOK'
  BY <1>15 DEF SetID
<1>16. ASSUME OpenControlStream PROVE PendingOK'
  BY <1>16 DEF OpenControlStream, GiveUp, RemovePath, Found
<1>17. ASSUME Authenticate PROVE PendingOK'
  BY <1>17 DEF Authenticate, GiveUp, RemovePath, Found
<1>18. ASSUME Integrate PROVE PendingOK'
  BY <1>18 DEF Integrate, CanIntegrate, IsActive, RemovePath, Found
<1>19. ASSUME Respond PROVE PendingOK'
  BY <1>19 DEF Respond, Response
<1>20. ASSUME CloseClient PROVE PendingOK'
  BY <1>20 DEF CloseClient
<1>21. ASSUME ListPaths PROVE PendingOK'
  BY <1>21 DEF ListPaths
<1>22. ASSUME NEW o \in Objects, ClosePath(o)
      PROVE PendingOK'
  BY <1>22 DEF ClosePath, Disconnect
<1>23. ASSUME NEW o \in Objects, LoseConnection(o) PROVE PendingOK'
  BY <1>23 DEF LoseConnection, Disconnect
<1>24. ASSUME NEW o \in Objects, CheckPath(o), UNCHANGED <<serverVars, wireVars, clientVars>>
      PROVE PendingOK'
  BY <1>24 DEF CheckPath, ID
<1>25. ASSUME NEW o \in Objects, SweepPath(o), UNCHANGED <<serverVars, wireVars, clientVars>>
      PROVE PendingOK'
  BY <1>25 DEF SweepPath, ID
<1>26. ASSUME NEW o \in Objects, Elapse(o), UNCHANGED <<serverVars, wireVars, clientVars>>
      PROVE PendingOK'
  BY <1>26 DEF Elapse
<1>27. ASSUME MarkChecked, UNCHANGED <<serverVars, wireVars, clientVars>>
      PROVE PendingOK'
  BY <1>27 DEF MarkChecked, MarkPathDead, Found
<1>28. ASSUME MarkSwept, UNCHANGED <<serverVars, wireVars, clientVars>>
      PROVE PendingOK'
  BY <1>28 DEF MarkSwept, MarkPathDead, Found
<1>29. CASE UNCHANGED vars
  BY <1>29 DEF vars
<1>30. QED
  BY <1>1, <1>2, <1>3, <1>4, <1>5, <1>6, <1>7, <1>8, <1>9, <1>10, <1>11,
     <1>12, <1>13, <1>14, <1>15, <1>16, <1>17, <1>18, <1>19, <1>20,
     <1>21, <1>22, <1>23, <1>24, <1>25, <1>26, <1>27, <1>28, <1>29
     DEF Next, AddPath, HandleAddPathRequest, CheckHealth, ManagerStep

(* Only paths the manager knows are integrated. *)
LEMMA IntegratedStep == IInv /\ [Next]_vars => (integrated \subseteq paths)'
<1> SUFFICES ASSUME IInv, [Next]_vars PROVE (integrated \subseteq paths)'
  OBVIOUS
<1> USE DEF IInv, HandlerOK, TypeOK, CallGoes, HandlerGoes, managerVars,
           serverVars, readerVars, wireVars, clientVars
<1>1. ASSUME NEW c \in Calls, SendRequest(c)
      PROVE (integrated \subseteq paths)'
  BY <1>1 DEF SendRequest
<1>2. ASSUME NEW c \in Calls, RejectCall(c)
      PROVE (integrated \subseteq paths)'
  BY <1>2 DEF RejectCall
<1>3. ASSUME NEW c \in Calls, RecordPending(c)
      PROVE (integrated \subseteq paths)'
  BY <1>3 DEF RecordPending
<1>4. ASSUME NEW c \in Calls, RegisterChannel(c)
      PROVE (integrated \subseteq paths)'
  BY <1>4 DEF RegisterChannel
<1>5. ASSUME NEW c \in Calls, ReceiveAnswer(c)
      PROVE (integrated \subseteq paths)'
  BY <1>5 DEF ReceiveAnswer, AfterAnswer
<1>6. ASSUME NEW c \in Calls, TimeOut(c) PROVE (integrated \subseteq paths)'
  BY <1>6 DEF TimeOut
<1>7. ASSUME NEW c \in Calls, UnregisterChannel(c)
      PROVE (integrated \subseteq paths)'
  BY <1>7 DEF UnregisterChannel
<1>8. ASSUME NEW c \in Calls, CleanUp(c) PROVE (integrated \subseteq paths)'
  BY <1>8 DEF CleanUp, DropPending
<1>9. ASSUME ReadResponse PROVE (integrated \subseteq paths)'
  BY <1>9 DEF ReadResponse
<1>10. ASSUME RouteResponse PROVE (integrated \subseteq paths)'
  BY <1>10 DEF RouteResponse
<1>11. ASSUME EndReader PROVE (integrated \subseteq paths)'
  BY <1>11 DEF EndReader
<1>12. ASSUME CloseServer PROVE (integrated \subseteq paths)'
  BY <1>12 DEF CloseServer, Disconnect
<1>13. ASSUME ReadRequest PROVE (integrated \subseteq paths)'
  BY <1>13 DEF ReadRequest
<1>14. ASSUME Dial PROVE (integrated \subseteq paths)'
  BY <1>14 DEF Dial, CreatePath, NoPathIsActive
<1>15. ASSUME SetID PROVE (integrated \subseteq paths)'
  BY <1>15 DEF SetID
<1>16. ASSUME OpenControlStream PROVE (integrated \subseteq paths)'
  BY <1>16 DEF OpenControlStream, GiveUp, RemovePath, Found
<1>17. ASSUME Authenticate PROVE (integrated \subseteq paths)'
  BY <1>17 DEF Authenticate, GiveUp, RemovePath, Found
<1>18. ASSUME Integrate PROVE (integrated \subseteq paths)'
  BY <1>18 DEF Integrate, CanIntegrate, IsActive, RemovePath, Found
<1>19. ASSUME Respond PROVE (integrated \subseteq paths)'
  BY <1>19 DEF Respond, Response
<1>20. ASSUME CloseClient PROVE (integrated \subseteq paths)'
  BY <1>20 DEF CloseClient
<1>21. ASSUME ListPaths PROVE (integrated \subseteq paths)'
  BY <1>21 DEF ListPaths
<1>22. ASSUME NEW o \in Objects, ClosePath(o)
      PROVE (integrated \subseteq paths)'
  BY <1>22 DEF ClosePath, Disconnect
<1>23. ASSUME NEW o \in Objects, LoseConnection(o)
      PROVE (integrated \subseteq paths)'
  BY <1>23 DEF LoseConnection, Disconnect
<1>24. ASSUME NEW o \in Objects, CheckPath(o), UNCHANGED <<serverVars, wireVars, clientVars>>
      PROVE (integrated \subseteq paths)'
  BY <1>24 DEF CheckPath, ID
<1>25. ASSUME NEW o \in Objects, SweepPath(o), UNCHANGED <<serverVars, wireVars, clientVars>>
      PROVE (integrated \subseteq paths)'
  BY <1>25 DEF SweepPath, ID
<1>26. ASSUME NEW o \in Objects, Elapse(o), UNCHANGED <<serverVars, wireVars, clientVars>>
      PROVE (integrated \subseteq paths)'
  BY <1>26 DEF Elapse
<1>27. ASSUME MarkChecked, UNCHANGED <<serverVars, wireVars, clientVars>>
      PROVE (integrated \subseteq paths)'
  BY <1>27 DEF MarkChecked, MarkPathDead, Found
<1>28. ASSUME MarkSwept, UNCHANGED <<serverVars, wireVars, clientVars>>
      PROVE (integrated \subseteq paths)'
  BY <1>28 DEF MarkSwept, MarkPathDead, Found
<1>29. CASE UNCHANGED vars
  BY <1>29 DEF vars
<1>30. QED
  BY <1>1, <1>2, <1>3, <1>4, <1>5, <1>6, <1>7, <1>8, <1>9, <1>10, <1>11,
     <1>12, <1>13, <1>14, <1>15, <1>16, <1>17, <1>18, <1>19, <1>20,
     <1>21, <1>22, <1>23, <1>24, <1>25, <1>26, <1>27, <1>28, <1>29
     DEF Next, AddPath, HandleAddPathRequest, CheckHealth, ManagerStep

(* No integrated path is or becomes primary. *)
LEMMA SecondaryStep == IInv /\ [Next]_vars => SecondaryIsNotPrimary'
<1> SUFFICES ASSUME IInv, [Next]_vars PROVE SecondaryIsNotPrimary'
  OBVIOUS
<1> USE DEF IInv, SecondaryIsNotPrimary, HandlerOK, TypeOK, CallGoes,
           HandlerGoes, managerVars, serverVars, readerVars, wireVars, clientVars
<1>1. ASSUME NEW c \in Calls, SendRequest(c) PROVE SecondaryIsNotPrimary'
  BY <1>1 DEF SendRequest
<1>2. ASSUME NEW c \in Calls, RejectCall(c) PROVE SecondaryIsNotPrimary'
  BY <1>2 DEF RejectCall
<1>3. ASSUME NEW c \in Calls, RecordPending(c) PROVE SecondaryIsNotPrimary'
  BY <1>3 DEF RecordPending
<1>4. ASSUME NEW c \in Calls, RegisterChannel(c) PROVE SecondaryIsNotPrimary'
  BY <1>4 DEF RegisterChannel
<1>5. ASSUME NEW c \in Calls, ReceiveAnswer(c) PROVE SecondaryIsNotPrimary'
  BY <1>5 DEF ReceiveAnswer, AfterAnswer
<1>6. ASSUME NEW c \in Calls, TimeOut(c) PROVE SecondaryIsNotPrimary'
  BY <1>6 DEF TimeOut
<1>7. ASSUME NEW c \in Calls, UnregisterChannel(c)
      PROVE SecondaryIsNotPrimary'
  BY <1>7 DEF UnregisterChannel
<1>8. ASSUME NEW c \in Calls, CleanUp(c) PROVE SecondaryIsNotPrimary'
  BY <1>8 DEF CleanUp, DropPending
<1>9. ASSUME ReadResponse PROVE SecondaryIsNotPrimary'
  BY <1>9 DEF ReadResponse
<1>10. ASSUME RouteResponse PROVE SecondaryIsNotPrimary'
  BY <1>10 DEF RouteResponse
<1>11. ASSUME EndReader PROVE SecondaryIsNotPrimary'
  BY <1>11 DEF EndReader
<1>12. ASSUME CloseServer PROVE SecondaryIsNotPrimary'
  BY <1>12 DEF CloseServer, Disconnect
<1>13. ASSUME ReadRequest PROVE SecondaryIsNotPrimary'
  BY <1>13 DEF ReadRequest
<1>14. ASSUME Dial PROVE SecondaryIsNotPrimary'
  BY <1>14 DEF Dial, CreatePath, NoPathIsActive
<1>15. ASSUME SetID PROVE SecondaryIsNotPrimary'
  BY <1>15 DEF SetID
<1>16. ASSUME OpenControlStream PROVE SecondaryIsNotPrimary'
  BY <1>16 DEF OpenControlStream, GiveUp, RemovePath, Found
<1>17. ASSUME Authenticate PROVE SecondaryIsNotPrimary'
  BY <1>17 DEF Authenticate, GiveUp, RemovePath, Found
<1>18. ASSUME Integrate PROVE SecondaryIsNotPrimary'
  BY <1>18 DEF Integrate, CanIntegrate, IsActive, RemovePath, Found
<1>19. ASSUME Respond PROVE SecondaryIsNotPrimary'
  BY <1>19 DEF Respond, Response
<1>20. ASSUME CloseClient PROVE SecondaryIsNotPrimary'
  BY <1>20 DEF CloseClient
<1>21. ASSUME ListPaths PROVE SecondaryIsNotPrimary'
  BY <1>21 DEF ListPaths
<1>22. ASSUME NEW o \in Objects, ClosePath(o)
      PROVE SecondaryIsNotPrimary'
  BY <1>22 DEF ClosePath, Disconnect
<1>23. ASSUME NEW o \in Objects, LoseConnection(o)
      PROVE SecondaryIsNotPrimary'
  BY <1>23 DEF LoseConnection, Disconnect
<1>24. ASSUME NEW o \in Objects, CheckPath(o), UNCHANGED <<serverVars, wireVars, clientVars>>
      PROVE SecondaryIsNotPrimary'
  BY <1>24 DEF CheckPath, ID
<1>25. ASSUME NEW o \in Objects, SweepPath(o), UNCHANGED <<serverVars, wireVars, clientVars>>
      PROVE SecondaryIsNotPrimary'
  BY <1>25 DEF SweepPath, ID
<1>26. ASSUME NEW o \in Objects, Elapse(o), UNCHANGED <<serverVars, wireVars, clientVars>>
      PROVE SecondaryIsNotPrimary'
  BY <1>26 DEF Elapse
<1>27. ASSUME MarkChecked, UNCHANGED <<serverVars, wireVars, clientVars>>
      PROVE SecondaryIsNotPrimary'
  BY <1>27 DEF MarkChecked, MarkPathDead, Found
<1>28. ASSUME MarkSwept, UNCHANGED <<serverVars, wireVars, clientVars>>
      PROVE SecondaryIsNotPrimary'
  BY <1>28 DEF MarkSwept, MarkPathDead, Found
<1>29. CASE UNCHANGED vars
  BY <1>29 DEF vars
<1>30. QED
  BY <1>1, <1>2, <1>3, <1>4, <1>5, <1>6, <1>7, <1>8, <1>9, <1>10, <1>11,
     <1>12, <1>13, <1>14, <1>15, <1>16, <1>17, <1>18, <1>19, <1>20,
     <1>21, <1>22, <1>23, <1>24, <1>25, <1>26, <1>27, <1>28, <1>29
     DEF Next, AddPath, HandleAddPathRequest, CheckHealth, ManagerStep

(* A new path is primary only where no path is active. *)
LEMMA PrimaryStep == IInv /\ [Next]_vars => NoTwoPrimaries'
<1> SUFFICES ASSUME IInv, [Next]_vars PROVE NoTwoPrimaries'
  OBVIOUS
<1> USE DEF IInv, NoTwoPrimaries, HandlerOK, TypeOK, ManagerTypeOK, CallGoes,
           HandlerGoes, managerVars, serverVars, readerVars, wireVars, clientVars
<1>1. ASSUME NEW c \in Calls, SendRequest(c) PROVE NoTwoPrimaries'
  BY <1>1 DEF SendRequest
<1>2. ASSUME NEW c \in Calls, RejectCall(c) PROVE NoTwoPrimaries'
  BY <1>2 DEF RejectCall
<1>3. ASSUME NEW c \in Calls, RecordPending(c) PROVE NoTwoPrimaries'
  BY <1>3 DEF RecordPending
<1>4. ASSUME NEW c \in Calls, RegisterChannel(c) PROVE NoTwoPrimaries'
  BY <1>4 DEF RegisterChannel
<1>5. ASSUME NEW c \in Calls, ReceiveAnswer(c) PROVE NoTwoPrimaries'
  BY <1>5 DEF ReceiveAnswer, AfterAnswer
<1>6. ASSUME NEW c \in Calls, TimeOut(c) PROVE NoTwoPrimaries'
  BY <1>6 DEF TimeOut
<1>7. ASSUME NEW c \in Calls, UnregisterChannel(c) PROVE NoTwoPrimaries'
  BY <1>7 DEF UnregisterChannel
<1>8. ASSUME NEW c \in Calls, CleanUp(c) PROVE NoTwoPrimaries'
  BY <1>8 DEF CleanUp, DropPending
<1>9. ASSUME ReadResponse PROVE NoTwoPrimaries'
  BY <1>9 DEF ReadResponse
<1>10. ASSUME RouteResponse PROVE NoTwoPrimaries'
  BY <1>10 DEF RouteResponse
<1>11. ASSUME EndReader PROVE NoTwoPrimaries'
  BY <1>11 DEF EndReader
<1>12. ASSUME CloseServer PROVE NoTwoPrimaries'
  BY <1>12 DEF CloseServer, Disconnect
<1>13. ASSUME ReadRequest PROVE NoTwoPrimaries'
  BY <1>13 DEF ReadRequest
<1>14. ASSUME Dial PROVE NoTwoPrimaries'
  BY <1>14 DEF Dial, CreatePath, NoPathIsActive
<1>15. ASSUME SetID PROVE NoTwoPrimaries'
  BY <1>15 DEF SetID
<1>16. ASSUME OpenControlStream PROVE NoTwoPrimaries'
  BY <1>16 DEF OpenControlStream, GiveUp, RemovePath, Found
<1>17. ASSUME Authenticate PROVE NoTwoPrimaries'
  BY <1>17 DEF Authenticate, GiveUp, RemovePath, Found
<1>18. ASSUME Integrate PROVE NoTwoPrimaries'
  BY <1>18 DEF Integrate, CanIntegrate, IsActive, RemovePath, Found
<1>19. ASSUME Respond PROVE NoTwoPrimaries'
  BY <1>19 DEF Respond, Response
<1>20. ASSUME CloseClient PROVE NoTwoPrimaries'
  BY <1>20 DEF CloseClient
<1>21. ASSUME ListPaths PROVE NoTwoPrimaries'
  BY <1>21 DEF ListPaths
<1>22. ASSUME NEW o \in Objects, ClosePath(o)
      PROVE NoTwoPrimaries'
  BY <1>22 DEF ClosePath, Disconnect
<1>23. ASSUME NEW o \in Objects, LoseConnection(o) PROVE NoTwoPrimaries'
  BY <1>23 DEF LoseConnection, Disconnect
<1>24. ASSUME NEW o \in Objects, CheckPath(o), UNCHANGED <<serverVars, wireVars, clientVars>>
      PROVE NoTwoPrimaries'
  BY <1>24 DEF CheckPath, ID
<1>25. ASSUME NEW o \in Objects, SweepPath(o), UNCHANGED <<serverVars, wireVars, clientVars>>
      PROVE NoTwoPrimaries'
  BY <1>25 DEF SweepPath, ID
<1>26. ASSUME NEW o \in Objects, Elapse(o), UNCHANGED <<serverVars, wireVars, clientVars>>
      PROVE NoTwoPrimaries'
  BY <1>26 DEF Elapse
<1>27. ASSUME MarkChecked, UNCHANGED <<serverVars, wireVars, clientVars>>
      PROVE NoTwoPrimaries'
  BY <1>27 DEF MarkChecked, MarkPathDead, Found
<1>28. ASSUME MarkSwept, UNCHANGED <<serverVars, wireVars, clientVars>>
      PROVE NoTwoPrimaries'
  BY <1>28 DEF MarkSwept, MarkPathDead, Found
<1>29. CASE UNCHANGED vars
  BY <1>29 DEF vars
<1>30. QED
  BY <1>1, <1>2, <1>3, <1>4, <1>5, <1>6, <1>7, <1>8, <1>9, <1>10, <1>11,
     <1>12, <1>13, <1>14, <1>15, <1>16, <1>17, <1>18, <1>19, <1>20,
     <1>21, <1>22, <1>23, <1>24, <1>25, <1>26, <1>27, <1>28, <1>29
     DEF Next, AddPath, HandleAddPathRequest, CheckHealth, ManagerStep

(* A request is on its way or in hand, once. *)
LEMMA RequestsStep == IInv /\ [Next]_vars => RequestsOK'
<1> SUFFICES ASSUME IInv, [Next]_vars PROVE RequestsOK'
  OBVIOUS
<1> USE DEF IInv, RequestsOK, HandlerOK, UnmadeOK, TypeOK, CallGoes,
           HandlerGoes, managerVars, serverVars, readerVars, wireVars, clientVars
<1>1. ASSUME NEW c \in Calls, SendRequest(c) PROVE RequestsOK'
  <2>1. /\ Len(requests') = Len(requests) + 1
        /\ \A i \in 1 .. Len(requests) : requests'[i] = requests[i]
        /\ requests'[Len(requests) + 1] = c
    BY <1>1, AppendProperties DEF SendRequest
  <2>2. c \notin paths /\ \A i \in 1 .. Len(requests) : requests[i] # c
    BY <1>1 DEF SendRequest
  <2>3. c # handled
    BY <1>1, SessionAssumption DEF SendRequest, Objects
  <2>4. QED
    BY <1>1, <2>1, <2>2, <2>3 DEF SendRequest
<1>2. ASSUME NEW c \in Calls, RejectCall(c) PROVE RequestsOK'
  BY <1>2 DEF RejectCall
<1>3. ASSUME NEW c \in Calls, RecordPending(c) PROVE RequestsOK'
  BY <1>3 DEF RecordPending
<1>4. ASSUME NEW c \in Calls, RegisterChannel(c) PROVE RequestsOK'
  BY <1>4 DEF RegisterChannel
<1>5. ASSUME NEW c \in Calls, ReceiveAnswer(c) PROVE RequestsOK'
  BY <1>5 DEF ReceiveAnswer, AfterAnswer
<1>6. ASSUME NEW c \in Calls, TimeOut(c) PROVE RequestsOK'
  BY <1>6 DEF TimeOut
<1>7. ASSUME NEW c \in Calls, UnregisterChannel(c) PROVE RequestsOK'
  BY <1>7 DEF UnregisterChannel
<1>8. ASSUME NEW c \in Calls, CleanUp(c) PROVE RequestsOK'
  BY <1>8 DEF CleanUp, DropPending
<1>9. ASSUME ReadResponse PROVE RequestsOK'
  BY <1>9 DEF ReadResponse
<1>10. ASSUME RouteResponse PROVE RequestsOK'
  BY <1>10 DEF RouteResponse
<1>11. ASSUME EndReader PROVE RequestsOK'
  BY <1>11 DEF EndReader
<1>12. ASSUME CloseServer PROVE RequestsOK'
  BY <1>12, DisconnectTypes DEF CloseServer
<1>13. ASSUME ReadRequest PROVE RequestsOK'
  <2> PICK n \in 1 .. Len(requests) :
         /\ requests' = SubSeq(requests, n + 1, Len(requests))
         /\ handled' \in {handled, requests[n]}
    BY <1>13 DEF ReadRequest
  <2>1. /\ Len(requests') = Len(requests) - n
        /\ \A i \in 1 .. Len(requests') :
             i + n \in 1 .. Len(requests) /\ requests'[i] = requests[i + n]
    BY Rest
  <2>2. \A i \in 1 .. Len(requests') : requests'[i] # requests[n]
    BY <2>1
  <2>3. QED
    BY <1>13, <2>1, <2>2 DEF ReadRequest
<1>14. ASSUME Dial PROVE RequestsOK'
  BY <1>14 DEF Dial, CreatePath, NoPathIsActive
<1>15. ASSUME SetID PROVE RequestsOK'
  BY <1>15 DEF SetID
<1>16. ASSUME OpenControlStream PROVE RequestsOK'
  BY <1>16 DEF OpenControlStream, GiveUp, RemovePath, Found
<1>17. ASSUME Authenticate PROVE RequestsOK'
  BY <1>17 DEF Authenticate, GiveUp, RemovePath, Found
<1>18. ASSUME Integrate PROVE RequestsOK'
  BY <1>18 DEF Integrate, CanIntegrate, IsActive, RemovePath, Found
<1>19. ASSUME Respond PROVE RequestsOK'
  BY <1>19, SessionAssumption DEF Respond, Response, Objects
<1>20. ASSUME CloseClient PROVE RequestsOK'
  BY <1>20 DEF CloseClient
<1>21. ASSUME ListPaths PROVE RequestsOK'
  BY <1>21 DEF ListPaths
<1>22. ASSUME NEW o \in Objects, ClosePath(o)
      PROVE RequestsOK'
  BY <1>22, DisconnectTypes DEF ClosePath
<1>23. ASSUME NEW o \in Objects, LoseConnection(o) PROVE RequestsOK'
  BY <1>23, DisconnectTypes DEF LoseConnection
<1>24. ASSUME NEW o \in Objects, CheckPath(o), UNCHANGED <<serverVars, wireVars, clientVars>>
      PROVE RequestsOK'
  BY <1>24 DEF CheckPath, ID
<1>25. ASSUME NEW o \in Objects, SweepPath(o), UNCHANGED <<serverVars, wireVars, clientVars>>
      PROVE RequestsOK'
  BY <1>25 DEF SweepPath, ID
<1>26. ASSUME NEW o \in Objects, Elapse(o), UNCHANGED <<serverVars, wireVars, clientVars>>
      PROVE RequestsOK'
  BY <1>26 DEF Elapse
<1>27. ASSUME MarkChecked, UNCHANGED <<serverVars, wireVars, clientVars>>
      PROVE RequestsOK'
  BY <1>27 DEF MarkChecked, MarkPathDead, Found
<1>28. ASSUME MarkSwept, UNCHANGED <<serverVars, wireVars, clientVars>>
      PROVE RequestsOK'
  BY <1>28 DEF MarkSwept, MarkPathDead, Found
<1>29. CASE UNCHANGED vars
  BY <1>29 DEF vars
<1>30. QED
  BY <1>1, <1>2, <1>3, <1>4, <1>5, <1>6, <1>7, <1>8, <1>9, <1>10, <1>11,
     <1>12, <1>13, <1>14, <1>15, <1>16, <1>17, <1>18, <1>19, <1>20,
     <1>21, <1>22, <1>23, <1>24, <1>25, <1>26, <1>27, <1>28, <1>29
     DEF Next, AddPath, HandleAddPathRequest, CheckHealth, ManagerStep

(* A success names an integrated path, wherever it is on its way. *)
LEMMA AnswersStep == IInv /\ [Next]_vars => AnswersOK'
<1> SUFFICES ASSUME IInv, [Next]_vars PROVE AnswersOK'
  OBVIOUS
<1> USE DEF IInv, AnswersOK, Honest, HandlerOK, TypeOK, CallGoes, HandlerGoes,
           managerVars, serverVars, readerVars, wireVars, clientVars
<1>1. ASSUME NEW c \in Calls, SendRequest(c) PROVE AnswersOK'
  BY <1>1 DEF SendRequest
<1>2. ASSUME NEW c \in Calls, RejectCall(c) PROVE AnswersOK'
  BY <1>2 DEF RejectCall
<1>3. ASSUME NEW c \in Calls, RecordPending(c) PROVE AnswersOK'
  BY <1>3 DEF RecordPending
<1>4. ASSUME NEW c \in Calls, RegisterChannel(c) PROVE AnswersOK'
  BY <1>4 DEF RegisterChannel
<1>5. ASSUME NEW c \in Calls, ReceiveAnswer(c) PROVE AnswersOK'
  BY <1>5 DEF ReceiveAnswer, AfterAnswer
<1>6. ASSUME NEW c \in Calls, TimeOut(c) PROVE AnswersOK'
  BY <1>6 DEF TimeOut
<1>7. ASSUME NEW c \in Calls, UnregisterChannel(c) PROVE AnswersOK'
  BY <1>7 DEF UnregisterChannel
<1>8. ASSUME NEW c \in Calls, CleanUp(c) PROVE AnswersOK'
  BY <1>8 DEF CleanUp, DropPending
<1>9. ASSUME ReadResponse PROVE AnswersOK'
  <2> PICK n \in 1 .. Len(responses) :
         /\ responses' = SubSeq(responses, n + 1, Len(responses))
         /\ \/ reader' = "reading"
            \/ reader' = responses[n][1] /\ routed' = responses[n][2]
    BY <1>9 DEF ReadResponse
  <2>1. \A i \in 1 .. Len(responses') :
          i + n \in 1 .. Len(responses) /\ responses'[i] = responses[i + n]
    BY RestOfResponses, Zenon
  <2>2. reader' \in Calls /\ routed' => reader' \in integrated
    BY SessionAssumption DEF Objects
  <2>3. QED
    BY <1>9, <2>1, <2>2 DEF ReadResponse
<1>10. ASSUME RouteResponse PROVE AnswersOK'
  BY <1>10, SessionAssumption DEF RouteResponse
<1>11. ASSUME EndReader PROVE AnswersOK'
  BY <1>11, SessionAssumption DEF EndReader
<1>12. ASSUME CloseServer PROVE AnswersOK'
  BY <1>12, DisconnectTypes DEF CloseServer
<1>13. ASSUME ReadRequest PROVE AnswersOK'
  BY <1>13 DEF ReadRequest
<1>14. ASSUME Dial PROVE AnswersOK'
  BY <1>14 DEF Dial, CreatePath, NoPathIsActive
<1>15. ASSUME SetID PROVE AnswersOK'
  BY <1>15 DEF SetID
<1>16. ASSUME OpenControlStream PROVE AnswersOK'
  BY <1>16 DEF OpenControlStream, GiveUp, RemovePath, Found
<1>17. ASSUME Authenticate PROVE AnswersOK'
  BY <1>17 DEF Authenticate, GiveUp, RemovePath, Found
<1>18. ASSUME Integrate PROVE AnswersOK'
  BY <1>18 DEF Integrate, CanIntegrate, IsActive, RemovePath, Found
<1>19. ASSUME Respond PROVE AnswersOK'
  <2>1. handler = "accepting" => handled \in integrated
    OBVIOUS
  <2>2. \A accepted \in BOOLEAN :
          HandlerGoes(IF accepted THEN "accepting" ELSE "refusing", "reading")
            => Response(accepted) \in Honest
    BY <2>1 DEF Response, Responses
  <2>3. \A i \in 1 .. Len(responses') : responses'[i] \in Honest
    <3>1. PICK accepted \in BOOLEAN :
             /\ HandlerGoes(IF accepted THEN "accepting" ELSE "refusing", "reading")
             /\ responses' = IF PrimaryUp THEN Append(responses, Response(accepted)) ELSE responses
      BY <1>19 DEF Respond
    <3>2. Response(accepted) \in Honest
      BY <2>2, <3>1
    <3>3. \A i \in 1 .. Len(responses) : responses[i] \in Honest
      OBVIOUS
    <3>4. CASE responses' = responses
      BY <3>3, <3>4
    <3>5. CASE responses' = Append(responses, Response(accepted))
      BY <3>2, <3>3, <3>5, ResponseAppended, Zenon
    <3>6. QED
      BY <3>1, <3>4, <3>5
  <2>4. QED
    BY <1>19, <2>3 DEF Respond
<1>20. ASSUME CloseClient PROVE AnswersOK'
  BY <1>20 DEF CloseClient
<1>21. ASSUME ListPaths PROVE AnswersOK'
  BY <1>21 DEF ListPaths
<1>22. ASSUME NEW o \in Objects, ClosePath(o)
      PROVE AnswersOK'
  BY <1>22, DisconnectTypes DEF ClosePath
<1>23. ASSUME NEW o \in Objects, LoseConnection(o) PROVE AnswersOK'
  BY <1>23, DisconnectTypes DEF LoseConnection
<1>24. ASSUME NEW o \in Objects, CheckPath(o), UNCHANGED <<serverVars, wireVars, clientVars>>
      PROVE AnswersOK'
  BY <1>24 DEF CheckPath, ID
<1>25. ASSUME NEW o \in Objects, SweepPath(o), UNCHANGED <<serverVars, wireVars, clientVars>>
      PROVE AnswersOK'
  BY <1>25 DEF SweepPath, ID
<1>26. ASSUME NEW o \in Objects, Elapse(o), UNCHANGED <<serverVars, wireVars, clientVars>>
      PROVE AnswersOK'
  BY <1>26 DEF Elapse
<1>27. ASSUME MarkChecked, UNCHANGED <<serverVars, wireVars, clientVars>>
      PROVE AnswersOK'
  BY <1>27 DEF MarkChecked, MarkPathDead, Found
<1>28. ASSUME MarkSwept, UNCHANGED <<serverVars, wireVars, clientVars>>
      PROVE AnswersOK'
  BY <1>28 DEF MarkSwept, MarkPathDead, Found
<1>29. CASE UNCHANGED vars
  BY <1>29 DEF vars
<1>30. QED
  BY <1>1, <1>2, <1>3, <1>4, <1>5, <1>6, <1>7, <1>8, <1>9, <1>10, <1>11,
     <1>12, <1>13, <1>14, <1>15, <1>16, <1>17, <1>18, <1>19, <1>20,
     <1>21, <1>22, <1>23, <1>24, <1>25, <1>26, <1>27, <1>28, <1>29
     DEF Next, AddPath, HandleAddPathRequest, CheckHealth, ManagerStep
-----------------------------------------------------------------------------
LEMMA Inductive == Spec => []IInv
<1>1. IInv /\ [Next]_vars => IInv'
  BY TypeStep, HandlerStep, RequestsStep, UnmadeStep, AnswersStep, PendingStep,
     IntegratedStep, SecondaryStep, PrimaryStep DEF IInv
<1>2. QED
  BY <1>1, InitInv, PTL DEF Spec

(* The state of the two ends, the control stream and the path manager keeps *)
(* its shape.                                                               *)
THEOREM TypeCorrect == Spec => []TypeOK
<1>1. IInv => TypeOK
  BY DEF IInv
<1>2. QED
  BY <1>1, Inductive, PTL

(* At most one active path is primary, whenever paths are created, removed, *)
(* marked dead or lost: the integrity that ValidatePathIntegrity checks.    *)
THEOREM OnlyOnePrimary == Spec => []OnePrimary
<1>1. IInv => OnePrimary
  <2> SUFFICES ASSUME IInv PROVE OnePrimary
    OBVIOUS
  <2> DEFINE P == isPrimary \cap activePaths
  <2>1. CASE P = {}
    <3>1. Cardinality(P) = 0
      BY <2>1, FS_EmptySet
    <3>2. QED
      BY <3>1 DEF OnePrimary
  <2>2. CASE P # {}
    <3>1. PICK o \in P : TRUE
      BY <2>2
    <3>2. P = {o}
      BY <3>1 DEF IInv, NoTwoPrimaries
    <3>3. Cardinality(P) = 1
      BY <3>2, FS_Singleton
    <3>4. QED
      BY <3>3 DEF OnePrimary
  <2>3. QED
    BY <2>1, <2>2
<1>2. QED
  BY <1>1, Inductive, PTL

(* No path that the client integrated for a secondary server is or becomes  *)
(* the primary path, whatever dies while it is set up.                      *)
THEOREM SecondaryNeverPrimary == Spec => []SecondaryIsNotPrimary
<1>1. IInv => SecondaryIsNotPrimary
  BY DEF IInv
<1>2. QED
  BY <1>1, Inductive, PTL

(* GetPendingPathID never returns the id of a call of AddPath that failed.  *)
THEOREM PendingNeverFailed == Spec => []PendingIsNotFailed
<1>1. IInv => PendingIsNotFailed
  BY DEF IInv, PendingOK, PendingIsNotFailed
<1>2. QED
  BY <1>1, Inductive, PTL

-----------------------------------------------------------------------------
(* The refinement.                                                          *)

LEMMA SetupInit == Init => Setup!Init
<1> SUFFICES ASSUME Init PROVE Setup!Init
  OBVIOUS
<1>1. \A c \in Calls : Outcome(call[c]) = "idle"
  BY DEF Init, Outcome, Returned
<1>2. QED
  BY <1>1 DEF Init, Setup!Init

(* A call that moves leaves the others where they are. *)
LEMMA OutcomeMoves ==
  ASSUME TypeOK, NEW c \in Calls, NEW from \in CallStates, NEW to \in CallStates,
         CallGoes(c, from, to)
  PROVE  /\ [d \in Calls |-> Outcome(call[d])][c] = Outcome(from)
         /\ [d \in Calls |-> Outcome(call[d])]'
              = [[d \in Calls |-> Outcome(call[d])] EXCEPT ![c] = Outcome(to)]
<1>1. call' = [call EXCEPT ![c] = to] /\ call[c] = from /\ call \in [Calls -> CallStates]
  BY DEF CallGoes, TypeOK
<1>2. \A d \in Calls : call'[d] = IF d = c THEN to ELSE call[d]
  BY <1>1
<1>3. [d \in Calls |-> Outcome(call[d])]' = [d \in Calls |-> Outcome(call'[d])]
  BY DEF Outcome
<1>4. [d \in Calls |-> Outcome(call'[d])]
        = [[d \in Calls |-> Outcome(call[d])] EXCEPT ![c] = Outcome(to)]
  BY <1>2
<1>5. QED
  BY <1>1, <1>3, <1>4

LEMMA SetupStep == IInv /\ [Next]_vars => [Setup!Next]_(Setup!vars)
<1> SUFFICES ASSUME IInv, [Next]_vars PROVE [Setup!Next]_(Setup!vars)
  OBVIOUS
<1> DEFINE outcomes == [d \in Calls |-> Outcome(call[d])]
<1> USE DEF IInv
<1>1. ASSUME UNCHANGED <<call, integrated>> PROVE UNCHANGED Setup!vars
  BY <1>1 DEF Setup!vars, Outcome
<1>2. ASSUME NEW c \in Calls, NEW from \in {"sent", "recorded", "waiting", "failing", "answered"},
             NEW to \in {"recorded", "waiting", "answered", "failing", "cleaning"},
             CallGoes(c, from, to), UNCHANGED integrated
      PROVE  UNCHANGED Setup!vars
  <2>1. /\ outcomes[c] = Outcome(from)
        /\ outcomes' = [outcomes EXCEPT ![c] = Outcome(to)]
    BY <1>2, OutcomeMoves DEF CallStates
  <2>2. Outcome(from) = "pending" /\ Outcome(to) = "pending"
    BY DEF Outcome, Returned
  <2>3. outcomes' = outcomes
    BY <2>1, <2>2
  <2>4. QED
    BY <1>2, <2>3 DEF Setup!vars
<1>3. ASSUME NEW c \in Calls, AddPath(c) PROVE [Setup!Next]_(Setup!vars)
  <2>1. UNCHANGED integrated
    BY <1>3 DEF AddPath, SendRequest, RejectCall, RecordPending, RegisterChannel,
       ReceiveAnswer, TimeOut, UnregisterChannel, CleanUp, clientVars
  <2>2. CASE SendRequest(c)
    <3>1. CallGoes(c, "idle", "sent")
      BY <2>2 DEF SendRequest
    <3>2. outcomes[c] = Outcome("idle") /\ outcomes' = [outcomes EXCEPT ![c] = Outcome("sent")]
      BY <3>1, OutcomeMoves DEF CallStates
    <3>3. Setup!Request(c)
      BY <2>1, <3>2 DEF Setup!Request, Outcome, Returned
    <3>4. QED
      BY <3>3 DEF Setup!Next
  <2>3. CASE RejectCall(c)
    <3>1. CallGoes(c, "idle", "failed")
      BY <2>3 DEF RejectCall
    <3>2. outcomes[c] = Outcome("idle") /\ outcomes' = [outcomes EXCEPT ![c] = Outcome("failed")]
      BY <3>1, OutcomeMoves DEF CallStates, Returned
    <3>3. Setup!Fail(c)
      BY <2>1, <3>2 DEF Setup!Fail, Outcome, Returned
    <3>4. QED
      BY <3>3 DEF Setup!Next
  <2>4. CASE CleanUp(c)
    <3>1. CallGoes(c, "cleaning", "failed")
      BY <2>4 DEF CleanUp, DropPending
    <3>2. outcomes[c] = Outcome("cleaning")
          /\ outcomes' = [outcomes EXCEPT ![c] = Outcome("failed")]
      BY <3>1, OutcomeMoves DEF CallStates, Returned
    <3>3. Setup!Fail(c)
      BY <2>1, <3>2 DEF Setup!Fail, Outcome, Returned
    <3>4. QED
      BY <3>3 DEF Setup!Next
  <2>5. CASE CallGoes(c, "answered", "confirmed")
    <3>1. c \in integrated
      BY <2>5 DEF CallGoes, AnswersOK
    <3>2. outcomes[c] = Outcome("answered")
          /\ outcomes' = [outcomes EXCEPT ![c] = Outcome("confirmed")]
      BY <2>5, OutcomeMoves DEF CallStates, Returned
    <3>3. Setup!Confirm(c)
      BY <2>1, <3>1, <3>2 DEF Setup!Confirm, Outcome, Returned
    <3>4. QED
      BY <3>3 DEF Setup!Next
  <2>6. CASE \/ CallGoes(c, "sent", "recorded") \/ CallGoes(c, "recorded", "waiting")
             \/ CallGoes(c, "waiting", "answered") \/ CallGoes(c, "waiting", "failing")
             \/ CallGoes(c, "failing", "cleaning")
    BY <1>2, <2>1, <2>6
  <2>7. QED
    BY <1>3, <2>2, <2>3, <2>4, <2>5, <2>6 DEF AddPath, RecordPending, RegisterChannel,
       ReceiveAnswer, AfterAnswer, TimeOut, UnregisterChannel
<1>4. CASE Integrate
  <2>1. UNCHANGED call
    BY <1>4 DEF Integrate, serverVars
  <2>2. CASE UNCHANGED integrated
    BY <1>1, <2>1, <2>2
  <2>3. CASE integrated' = integrated \cup {handled} /\ handler = "integrating"
    <3>1. handled \in Calls /\ call[handled] # "idle"
      BY <2>3, SessionAssumption DEF HandlerOK, TypeOK
    <3>2. Outcome(call[handled]) # "idle"
      BY <3>1 DEF Outcome, Returned
    <3>3. UNCHANGED outcomes
      BY <2>1 DEF Outcome
    <3>4. Setup!Establish(handled)
      BY <2>3, <3>1, <3>2, <3>3 DEF Setup!Establish
    <3>5. QED
      BY <3>1, <3>4 DEF Setup!Next
  <2>4. QED
    BY <1>4, <2>2, <2>3 DEF Integrate, HandlerGoes
<1>5. CASE ReadResponse \/ RouteResponse \/ EndReader \/ CloseServer
         \/ CloseClient \/ ListPaths \/ (\E o \in Objects : ClosePath(o))
  BY <1>1, <1>5 DEF ReadResponse, RouteResponse, EndReader, CloseServer, CloseClient,
     ListPaths, ClosePath,
     serverVars, clientVars
<1>6. CASE ReadRequest \/ Dial \/ SetID \/ OpenControlStream \/ Authenticate \/ Respond
  BY <1>1, <1>6 DEF ReadRequest, Dial, SetID, OpenControlStream, Authenticate, Respond,
     serverVars
<1>7. CASE (\E o \in Objects : LoseConnection(o)) \/ CheckHealth \/ UNCHANGED vars
  BY <1>1, <1>7 DEF LoseConnection, CheckHealth, vars, serverVars, clientVars
<1>8. QED
  BY <1>3, <1>4, <1>5, <1>6, <1>7 DEF Next, HandleAddPathRequest

(* The handshake implements PathSetup: a call of AddPath ends once, and     *)
(* returns without an error only when the client has integrated its path.   *)
THEOREM SessionImplementsPathSetup == Spec => ImplementsPathSetup
BY Inductive, SetupInit, SetupStep, PTL DEF Spec, ImplementsPathSetup, Setup!Spec
=============================================================================
