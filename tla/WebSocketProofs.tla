-------------------------- MODULE WebSocketProofs --------------------------
(***************************************************************************)
(* Proofs about the two clients that keep a WebSocket to a server alive,   *)
(* RpcClient and Analytics.                                                *)
(*                                                                         *)
(* RpcClient: the bookkeeping of the RPC client, for any number of         *)
(* requests, sockets and reconnect attempts: several reconnectors share    *)
(* one flag and one counter, and the callbacks of every socket ever made   *)
(* can come at any time.                                                   *)
(*                                                                         *)
(* Analytics, in the second half: a Socket that replaces its WebSocket     *)
(* while the close event of the old one is still to come, for any number   *)
(* of events, WebSockets, reconnects and attempts and any length of queue. *)
(***************************************************************************)
EXTENDS RpcClient, Analytics, FiniteSetTheorems, TLAPS

(***************************************************************************)
(* A connection that opens resets the flag and the counter together, and   *)
(* whoever raises the counter raises the flag.  So the close of a socket,  *)
(* which starts a reconnect without a look at the limit, starts it from 0. *)
(***************************************************************************)
CountNeedsFlag == ~reconnecting => reconnectCount = 0

\* A reconnector that waits for its socket, or asks for the events over it,
\* has made one.
HasSocket ==
  \A a \in Sockets :
    reconnectors[a].phase \in {"connecting", "resubscribing"} =>
      reconnectors[a].sock \in Sockets

ClientInv ==
  /\ TypeOK
  /\ HasSocket
  /\ CountNeedsFlag
  /\ ReconnectingIsServed
  /\ PendingAwaitsReconnect
  /\ ClosedLeavesNobodyWaiting

Phases == {"none", "backoff", "connecting", "resubscribing", "failed"}
ReadyStates == {"unused", "connecting", "open", "closing", "closed"}
Statuses == {"idle", "waiting", "pending", "answered", "failed"}
Reconnectors == [Sockets -> [phase : Phases, sock : 0 .. MaxSockets]]

LEMMA ClientInitInv == Init => ClientInv
  <1> SUFFICES ASSUME Init PROVE ClientInv
    OBVIOUS
  <1>1. 1 \in Sockets /\ 0 \in 0 .. MaxRetry /\ 0 \in 0 .. MaxSockets
    BY MaxRetryAssumption, MaxSocketsAssumption DEF Sockets
  <1>2. TypeOK
    BY <1>1 DEF Init, TypeOK, Idle
  <1>3. QED
    BY <1>2 DEF Init, Idle, ClientInv, HasSocket, CountNeedsFlag, ReconnectingIsServed,
       PendingAwaitsReconnect, ClosedLeavesNobodyWaiting

-----------------------------------------------------------------------------
(* What the parts of the actions do.                                       *)

\* A reconnect that starts below the limit is served by its own reconnector.
LEMMA EnterReconnectServes ==
  ASSUME TypeOK, NEW a \in Sockets, reconnectCount < MaxRetry, EnterReconnect(a)
  PROVE  /\ reconnecting' = TRUE
         /\ reconnectCount' \in 0 .. MaxRetry
         /\ reconnectors' \in Reconnectors
         /\ reconnectors'[a].phase = "backoff"
         /\ \A b \in Sockets \ {a} : reconnectors'[b] = reconnectors[b]
         /\ overlapped' \in BOOLEAN
  <1>1. reconnectCount \in 0 .. MaxRetry /\ reconnectors \in Reconnectors
        /\ overlapped \in BOOLEAN
    BY DEF TypeOK, Reconnectors, Phases
  <1>2. reconnectCount' \in 0 .. MaxRetry
    BY <1>1, MaxRetryAssumption DEF EnterReconnect
  <1>3. /\ reconnectors' \in Reconnectors
        /\ reconnectors'[a].phase = "backoff"
        /\ \A b \in Sockets \ {a} : reconnectors'[b] = reconnectors[b]
    BY <1>1, MaxSocketsAssumption DEF EnterReconnect, Reconnector, Reconnectors, Phases
  <1>4. reconnecting' = TRUE
    BY DEF EnterReconnect
  <1>5. overlapped' \in BOOLEAN
    BY <1>1 DEF EnterReconnect
  <1>6. QED BY <1>2, <1>3, <1>4, <1>5

\* close: the callers get an error, and messages are lost with the socket.
LEMMA CloseRpcFailsAll ==
  ASSUME TypeOK, CloseRpc
  PROVE  /\ closed' = TRUE
         /\ status' \in [Requests -> Statuses]
         /\ \A r \in Requests : status'[r] \notin {"waiting", "pending"}
         /\ sockets' \in [Sockets -> ReadyStates]
         /\ inflight' \in [Sockets -> SUBSET Requests]
         /\ replies' \in [Sockets -> SUBSET Requests]
  <1>1. /\ status' \in [Requests -> Statuses]
        /\ \A r \in Requests : status'[r] \notin {"waiting", "pending"}
    BY DEF TypeOK, CloseRpc, FailRequests, Outstanding, Statuses
  <1>2. sockets' \in [Sockets -> ReadyStates]
    BY DEF TypeOK, CloseRpc, Drop, ReadyStates
  <1>3. /\ inflight' \in [Sockets -> SUBSET Requests]
        /\ replies' \in [Sockets -> SUBSET Requests]
    BY DEF TypeOK, CloseRpc, Drop
  <1>4. QED BY <1>1, <1>2, <1>3 DEF CloseRpc

-----------------------------------------------------------------------------
(* The actions, one lemma per group.                                       *)

LEMMA RequestsKeepInv ==
  ASSUME ClientInv, NEW r \in Requests,
         \/ Request(r) \/ Transmit(r) \/ RequestTimesOut(r)
         \/ \E s \in Sockets : ServerExecutes(s, r) \/ DeliverReply(s, r)
  PROVE  ClientInv'
  <1> USE DEF ClientInv, TypeOK, HasSocket, CountNeedsFlag, ReconnectingIsServed,
              PendingAwaitsReconnect, ClosedLeavesNobodyWaiting, Outstanding
  <1>1. CASE Request(r)
    BY <1>1 DEF Request, serverVars
  <1>2. CASE Transmit(r)
    BY <1>2 DEF Transmit
  <1>3. CASE RequestTimesOut(r)
    BY <1>3 DEF RequestTimesOut, serverVars
  <1>4. ASSUME NEW s \in Sockets, ServerExecutes(s, r) PROVE ClientInv'
    BY <1>4 DEF ServerExecutes, requestVars
  <1>5. ASSUME NEW s \in Sockets, DeliverReply(s, r) PROVE ClientInv'
    BY <1>5 DEF DeliverReply
  <1>6. QED BY <1>1, <1>2, <1>3, <1>4, <1>5

LEMMA SocketsKeepInv ==
  ASSUME ClientInv, NEW s \in Sockets,
         SocketDrops(s) \/ AbandonedSocketOpens(s) \/ UsageLimitExceeded(s)
  PROVE  ClientInv'
  <1> USE DEF ClientInv, TypeOK, HasSocket, CountNeedsFlag, ReconnectingIsServed,
              PendingAwaitsReconnect, ClosedLeavesNobodyWaiting, Outstanding
  <1>1. CASE SocketDrops(s)
    BY <1>1 DEF SocketDrops, Drop, requestVars
  <1>2. CASE AbandonedSocketOpens(s)
    BY <1>2 DEF AbandonedSocketOpens, requestVars, serverVars
  <1>3. CASE UsageLimitExceeded(s)
    BY <1>3 DEF UsageLimitExceeded, FailRequests
  <1>4. QED BY <1>1, <1>2, <1>3

\* A close that starts a reconnect starts it from 0.
LEMMA SocketClosesKeepsInv ==
  ASSUME ClientInv, NEW s \in Sockets, SocketCloses(s)
  PROVE  ClientInv'
  <1>1. TypeOK /\ CountNeedsFlag
    BY DEF ClientInv
  <1>2. /\ sockets' \in [Sockets -> ReadyStates]
        /\ UNCHANGED <<closed, hasChannel, ws, outbox, resent, inflight, replies,
                      executions, subscribedOn>>
    BY <1>1 DEF SocketCloses, TypeOK, ReadyStates, serverVars
  <1>3. CASE closed
    BY <1>2, <1>3 DEF SocketCloses, ClientInv, TypeOK, HasSocket, CountNeedsFlag, ReadyStates,
       ReconnectingIsServed, PendingAwaitsReconnect, ClosedLeavesNobodyWaiting, Outstanding
  <1>4. CASE ~closed
    <2>1. RequestsDisconnected
      BY <1>4 DEF SocketCloses
    <2>2. /\ status' \in [Requests -> Statuses]
          /\ pendingRequests' \subseteq Requests
      BY <1>1, <2>1 DEF RequestsDisconnected, TypeOK, Statuses
    <2>3. /\ reconnecting' = TRUE
          /\ reconnectCount' \in 0 .. MaxRetry
          /\ reconnectors' \in Reconnectors
          /\ HasSocket'
          /\ \E a \in Sockets : reconnectors'[a].phase \in {"backoff", "connecting", "failed"}
          /\ overlapped' \in BOOLEAN
      <3>1. CASE reconnecting
        BY <1>1, <1>4, <3>1 DEF SocketCloses, ClientInv, HasSocket, ReconnectingIsServed,
           TypeOK, Reconnectors, Phases
      <3>2. CASE ~reconnecting
        <4>1. reconnectCount < MaxRetry
          BY <1>1, <3>2, MaxRetryAssumption DEF CountNeedsFlag
        <4>2. EnterReconnect(s)
          BY <1>4, <3>2 DEF SocketCloses
        <4>3. HasSocket
          BY DEF ClientInv
        <4>4. QED BY <1>1, <4>1, <4>2, <4>3, EnterReconnectServes DEF HasSocket
      <3>3. QED BY <3>1, <3>2
    <2>4. TypeOK'
      BY <1>1, <1>2, <2>2, <2>3 DEF TypeOK, Reconnectors, Phases, ReadyStates, Statuses
    <2>5. QED
      BY <1>2, <1>4, <2>3, <2>4 DEF ClientInv, CountNeedsFlag, ReconnectingIsServed,
         PendingAwaitsReconnect, ClosedLeavesNobodyWaiting
  <1>5. QED BY <1>3, <1>4

LEMMA ReconnectKeepsInv ==
  ASSUME ClientInv, NEW a \in Sockets,
         \/ BackoffElapsed(a) \/ ConnectFails(a) \/ ConnectTimesOut(a)
         \/ ResubscribeSucceeds(a) \/ ResubscribeFails(a)
  PROVE  ClientInv'
  <1> USE DEF ClientInv, TypeOK, HasSocket, CountNeedsFlag, ReconnectingIsServed,
              PendingAwaitsReconnect, ClosedLeavesNobodyWaiting, Outstanding
  <1>1. CASE BackoffElapsed(a)
    <2>1. ws + 1 \in Sockets /\ ws + 1 \in 0 .. MaxSockets
      BY <1>1, MaxSocketsAssumption DEF BackoffElapsed, Sockets
    <2>2. /\ ws' \in Sockets
          /\ sockets' \in [Sockets -> ReadyStates]
          /\ reconnectors' \in Reconnectors
          /\ reconnectors'[a] = [phase |-> "connecting", sock |-> ws + 1]
          /\ \A b \in Sockets \ {a} : reconnectors'[b] = reconnectors[b]
      BY <1>1, <2>1 DEF BackoffElapsed, Reconnector, ReadyStates, Reconnectors, Phases
    <2>3. QED
      BY <1>1, <2>1, <2>2 DEF BackoffElapsed, ReadyStates, Reconnectors, Phases,
         requestVars, serverVars
  <1>2. CASE ConnectFails(a) \/ ConnectTimesOut(a) \/ ResubscribeFails(a)
    <2>1. reconnectors' = [reconnectors EXCEPT ![a].phase = "failed"]
      BY <1>2 DEF ConnectFails, ConnectTimesOut, ResubscribeFails
    <2>2. /\ reconnectors' \in Reconnectors
          /\ reconnectors'[a].phase = "failed"
          /\ \A b \in Sockets \ {a} : reconnectors'[b] = reconnectors[b]
      BY <2>1 DEF Reconnectors, Phases
    <2>3. sockets' \in [Sockets -> ReadyStates]
      BY <1>2 DEF ConnectFails, ConnectTimesOut, ResubscribeFails, ReadyStates
    <2>4. UNCHANGED <<closed, reconnecting, reconnectCount, hasChannel, ws, overlapped,
                      requestVars, serverVars>>
      BY <1>2 DEF ConnectFails, ConnectTimesOut, ResubscribeFails
    <2>5. QED
      BY <2>2, <2>3, <2>4 DEF ReadyStates, Reconnectors, Phases, requestVars, serverVars
  <1>3. CASE ResubscribeSucceeds(a)
    <2>1. /\ reconnectors' \in Reconnectors
          /\ \A b \in Sockets \ {a} : reconnectors'[b] = reconnectors[b]
          /\ reconnectors[a].phase = "resubscribing"
      BY <1>3, MaxSocketsAssumption DEF ResubscribeSucceeds, Idle, Reconnectors, Phases
    <2>2. subscribedOn' \subseteq Sockets
      <3>1. reconnectors[a].sock \in Sockets
        BY <2>1
      <3>2. \A s \in reconnectors[a].sock .. ws : s \in Sockets
        BY <3>1, MaxSocketsAssumption DEF Sockets
      <3>3. QED BY <1>3, <3>2 DEF ResubscribeSucceeds
    <2>3. UNCHANGED <<closed, reconnecting, reconnectCount, hasChannel, ws, sockets,
                      overlapped, requestVars, inflight, replies, executions>>
      BY <1>3 DEF ResubscribeSucceeds
    <2>4. HasSocket' /\ ReconnectingIsServed'
      <3>1. reconnectors'[a] = Idle
        BY <1>3 DEF ResubscribeSucceeds
      <3>2. QED BY <2>1, <2>3, <3>1 DEF Idle
    <2>5. QED
      BY <2>1, <2>2, <2>3, <2>4 DEF Reconnectors, Phases, requestVars
  <1>4. QED BY <1>1, <1>2, <1>3

\* A connection that opens lowers the flag and the counter and empties the list.
LEMMA SocketOpensKeepsInv ==
  ASSUME ClientInv, NEW a \in Sockets, SocketOpens(a)
  PROVE  ClientInv'
  <1>1. TypeOK /\ HasSocket /\ ClosedLeavesNobodyWaiting
    BY DEF ClientInv
  <1>2. /\ reconnecting' = FALSE /\ reconnectCount' = 0
        /\ pendingRequests' = {}
        /\ UNCHANGED <<closed, hasChannel, ws, overlapped, status, inflight, replies,
                      executions, subscribedOn>>
    BY DEF SocketOpens, ResolvePendingRequests, serverVars
  <1>3. outbox' \subseteq Requests /\ resent' \subseteq Requests
    BY <1>1 DEF SocketOpens, ResolvePendingRequests, TypeOK
  <1>4. sockets' \in [Sockets -> ReadyStates]
    BY <1>1 DEF SocketOpens, TypeOK, ReadyStates
  <1>5. reconnectors' \in Reconnectors /\ HasSocket'
    <2>1. reconnectors[a].sock \in Sockets /\ reconnectors \in Reconnectors
      BY <1>1 DEF SocketOpens, HasSocket, TypeOK, Reconnectors, Phases
    <2>2. Sockets \subseteq 0 .. MaxSockets /\ 0 \in 0 .. MaxSockets
      BY MaxSocketsAssumption DEF Sockets
    <2>3. /\ Reconnected(a) \in [phase : Phases, sock : 0 .. MaxSockets]
          /\ Reconnected(a).phase = "resubscribing" => Reconnected(a).sock \in Sockets
          /\ Reconnected(a).phase # "connecting"
      BY <2>1, <2>2 DEF Reconnected, Idle, Reconnector, Phases
    <2>4. reconnectors' = [reconnectors EXCEPT ![a] = Reconnected(a)]
      BY DEF SocketOpens
    <2>5. QED BY <1>1, <2>1, <2>3, <2>4 DEF HasSocket, Reconnectors
  <1>6. TypeOK'
    <2>1. reconnectCount' \in 0 .. MaxRetry /\ pendingRequests' \subseteq Requests
      BY <1>2, MaxRetryAssumption
    <2>2. QED
      BY <1>1, <1>2, <1>3, <1>4, <1>5, <2>1
      DEF TypeOK, Reconnectors, Phases, ReadyStates
  <1>7. QED
    BY <1>1, <1>2, <1>5, <1>6 DEF ClientInv, CountNeedsFlag, ReconnectingIsServed,
       PendingAwaitsReconnect, ClosedLeavesNobodyWaiting, Outstanding

\* At the limit the client closes; below it the same reconnector goes on.
LEMMA RetryKeepsInv ==
  ASSUME ClientInv, NEW a \in Sockets, Retry(a)
  PROVE  ClientInv'
  <1>1. TypeOK /\ HasSocket /\ CountNeedsFlag /\ ClosedLeavesNobodyWaiting
    BY DEF ClientInv
  <1>2. UNCHANGED <<hasChannel, ws, pendingRequests, outbox, resent, executions,
                    subscribedOn>>
    BY DEF Retry
  <1>3. CASE LimitReached
    <2>1. /\ GiveUp
          /\ reconnectors' = [reconnectors EXCEPT ![a] = Idle]
          /\ UNCHANGED <<reconnecting, reconnectCount, overlapped>>
      BY <1>3 DEF Retry
    <2>2. /\ closed' = TRUE
          /\ status' \in [Requests -> Statuses]
          /\ \A r \in Requests : status'[r] \notin {"waiting", "pending"}
          /\ sockets' \in [Sockets -> ReadyStates]
          /\ inflight' \in [Sockets -> SUBSET Requests]
          /\ replies' \in [Sockets -> SUBSET Requests]
      <3>1. CASE closed
        BY <1>1, <2>1, <3>1 DEF GiveUp, TypeOK, Statuses, ReadyStates,
           ClosedLeavesNobodyWaiting, Outstanding
      <3>2. CASE ~closed
        BY <1>1, <2>1, <3>2, CloseRpcFailsAll DEF GiveUp
      <3>3. QED BY <3>1, <3>2
    <2>3. reconnectors' \in Reconnectors /\ HasSocket'
      BY <1>1, <2>1, MaxSocketsAssumption DEF TypeOK, Reconnectors, Phases, Idle, HasSocket
    <2>4. TypeOK'
      BY <1>1, <1>2, <2>1, <2>2, <2>3 DEF TypeOK, Reconnectors, Phases, ReadyStates, Statuses
    <2>5. QED
      BY <1>1, <1>2, <2>1, <2>2, <2>3, <2>4 DEF ClientInv, CountNeedsFlag,
         ReconnectingIsServed, PendingAwaitsReconnect, ClosedLeavesNobodyWaiting, Outstanding
  <1>4. CASE ~LimitReached
    <2>1. EnterReconnect(a) /\ UNCHANGED <<closed, status, sockets, inflight, replies>>
      BY <1>4 DEF Retry
    <2>2. reconnectCount < MaxRetry
      BY <1>1, <1>4, MaxRetryAssumption DEF LimitReached, TypeOK
    <2>3. /\ reconnecting' = TRUE
          /\ reconnectCount' \in 0 .. MaxRetry
          /\ reconnectors' \in Reconnectors
          /\ reconnectors'[a].phase = "backoff"
          /\ \A b \in Sockets \ {a} : reconnectors'[b] = reconnectors[b]
          /\ overlapped' \in BOOLEAN
      BY <1>1, <2>1, <2>2, EnterReconnectServes
    <2>4. TypeOK' /\ HasSocket'
      BY <1>1, <1>2, <2>1, <2>3 DEF TypeOK, HasSocket, Reconnectors, Phases
    <2>5. QED
      BY <1>1, <1>2, <2>1, <2>3, <2>4 DEF ClientInv, CountNeedsFlag,
         ReconnectingIsServed, PendingAwaitsReconnect, ClosedLeavesNobodyWaiting, Outstanding
  <1>5. QED BY <1>3, <1>4

LEMMA CloseKeepsInv == ASSUME ClientInv, Close PROVE ClientInv'
  <1>1. TypeOK /\ HasSocket /\ CountNeedsFlag /\ CloseRpc
        /\ UNCHANGED <<reconnecting, reconnectCount, hasChannel, ws, reconnectors,
                      overlapped, pendingRequests, outbox, resent, executions,
                      subscribedOn>>
    BY DEF ClientInv, Close
  <1>2. /\ closed' = TRUE
        /\ status' \in [Requests -> Statuses]
        /\ \A r \in Requests : status'[r] \notin {"waiting", "pending"}
        /\ sockets' \in [Sockets -> ReadyStates]
        /\ inflight' \in [Sockets -> SUBSET Requests]
        /\ replies' \in [Sockets -> SUBSET Requests]
    BY <1>1, CloseRpcFailsAll
  <1>3. QED
    BY <1>1, <1>2 DEF ClientInv, TypeOK, HasSocket, CountNeedsFlag, ReadyStates, Statuses,
       ReconnectingIsServed, PendingAwaitsReconnect, ClosedLeavesNobodyWaiting, Outstanding

-----------------------------------------------------------------------------
LEMMA ClientStepInv == ClientInv /\ [Next]_vars => ClientInv'
  <1> SUFFICES ASSUME ClientInv, [Next]_vars PROVE ClientInv'
    OBVIOUS
  <1>1. CASE UNCHANGED vars
    BY <1>1 DEF vars, requestVars, serverVars, ClientInv, TypeOK, HasSocket,
       CountNeedsFlag, ReconnectingIsServed, PendingAwaitsReconnect,
       ClosedLeavesNobodyWaiting, Outstanding
  <1>2. CASE Next
    BY <1>2, RequestsKeepInv, SocketsKeepInv, SocketClosesKeepsInv, ReconnectKeepsInv,
       SocketOpensKeepsInv, RetryKeepsInv, CloseKeepsInv DEF Next
  <1>3. QED BY <1>1, <1>2

\* The state keeps its shape; in particular the counter that all reconnectors
\* share (_reconnectCount) never passes the limit.
THEOREM ClientTypeCorrect == Spec => []TypeOK
  <1>1. Spec => []ClientInv
    BY ClientInitInv, ClientStepInv, PTL DEF Spec
  <1>2. ClientInv => TypeOK
    BY DEF ClientInv
  <1>3. QED BY <1>1, <1>2, PTL

\* A client that says it is reconnecting has a _reconnect that will reset the
\* flag or close the client, however many of them overlap.
THEOREM ReconnectingServed == Spec => []ReconnectingIsServed
  <1>1. Spec => []ClientInv
    BY ClientInitInv, ClientStepInv, PTL DEF Spec
  <1>2. ClientInv => ReconnectingIsServed
    BY DEF ClientInv
  <1>3. QED BY <1>1, <1>2, PTL

\* A request put aside for a reconnect (the pending list of rpc.ts) finds one
\* under way for as long as it is in the list, unless the client is closed.
THEOREM PendingRequestsAwaitReconnect == Spec => []PendingAwaitsReconnect
  <1>1. Spec => []ClientInv
    BY ClientInitInv, ClientStepInv, PTL DEF Spec
  <1>2. ClientInv => PendingAwaitsReconnect
    BY DEF ClientInv
  <1>3. QED BY <1>1, <1>2, PTL

\* However a client comes to be closed (by the application, at the limit of
\* reconnects or for the usage limit), nobody is left waiting for an answer.
THEOREM ClosedFailsRequests == Spec => []ClosedLeavesNobodyWaiting
  <1>1. Spec => []ClientInv
    BY ClientInitInv, ClientStepInv, PTL DEF Spec
  <1>2. ClientInv => ClosedLeavesNobodyWaiting
    BY DEF ClientInv
  <1>3. QED BY <1>1, <1>2, PTL

-----------------------------------------------------------------------------
(* The connection when all is quiet.                                       *)

(***************************************************************************)
(* A reconnector that will make a socket or close the client, or waits for *)
(* the socket that is the current one.  A reconnector that waits for an    *)
(* older socket is not pursuing: when that one opens, it is not _ws.       *)
(***************************************************************************)
Pursues(a) ==
  \/ reconnectors[a].phase \in {"backoff", "failed"}
  \/ reconnectors[a].phase = "connecting" /\ reconnectors[a].sock = ws

Pursued == \E a \in Sockets : Pursues(a)

\* The channel's events come over the current socket, or are being asked for.
Subscribing ==
  \/ ws \in subscribedOn
  \/ \E a \in Sockets : reconnectors[a] = Reconnector("resubscribing", ws)

\* ReconnectingIsServed as it is inductive: the flag is raised before the
\* socket is made, and each socket that opens lowers it.
FlagMeansPursued == reconnecting /\ ~closed => Pursued

LineIsUp ==
  sockets[ws] \in {"open", "closing"} /\ (hasChannel => Subscribing)

PursuedOrConnected == ~closed => Pursued \/ LineIsUp

QuietInv == FlagMeansPursued /\ PursuedOrConnected

\* Actions that touch neither the reconnectors nor a socket that is current.
LEMMA QuietUnlessTouched ==
  ASSUME QuietInv, UNCHANGED <<reconnecting, hasChannel, ws, reconnectors, subscribedOn>>,
         closed' = closed,
         \/ sockets'[ws] = sockets[ws]
         \/ sockets[ws] = "open" /\ sockets'[ws] = "closing"
  PROVE  QuietInv'
  BY DEF QuietInv, FlagMeansPursued, PursuedOrConnected, Pursued, Pursues, LineIsUp,
         Subscribing

LEMMA QuietWhenClosed == ASSUME closed' = TRUE PROVE QuietInv'
  BY DEF QuietInv, FlagMeansPursued, PursuedOrConnected

LEMMA QuietWhenPursued ==
  ASSUME NEW a \in Sockets, Pursues(a)'
  PROVE  QuietInv'
  BY DEF QuietInv, FlagMeansPursued, PursuedOrConnected, Pursued

LEMMA QuietStep ==
  ASSUME ClientInv, QuietInv, [Next]_vars
  PROVE  QuietInv'
  <1>0. /\ ws \in Sockets /\ Sockets \subseteq Int
        /\ sockets \in [Sockets -> ReadyStates]
        /\ reconnectors \in Reconnectors
    BY DEF ClientInv, TypeOK, ReadyStates, Reconnectors, Phases, Sockets
  <1>1. CASE UNCHANGED vars
    BY <1>1, QuietUnlessTouched DEF vars, serverVars
  <1>2. ASSUME NEW r \in Requests,
               \/ Request(r) \/ Transmit(r) \/ RequestTimesOut(r)
               \/ \E s \in Sockets : ServerExecutes(s, r) \/ DeliverReply(s, r)
        PROVE  QuietInv'
    BY <1>2, QuietUnlessTouched
    DEF Request, Transmit, RequestTimesOut, ServerExecutes, DeliverReply, serverVars
  <1>3. ASSUME NEW s \in Sockets, SocketDrops(s) PROVE QuietInv'
    <2>1. /\ UNCHANGED <<closed, reconnecting, hasChannel, ws, reconnectors, subscribedOn>>
          /\ sockets' = [sockets EXCEPT ![s] = "closing"]
          /\ sockets[s] \in {"open", "connecting"}
      BY <1>3 DEF SocketDrops, Drop
    <2>2. CASE s = ws /\ sockets[ws] = "connecting"
      BY <1>0, <2>1, <2>2 DEF QuietInv, FlagMeansPursued, PursuedOrConnected, Pursued,
         Pursues, LineIsUp
    <2>3. CASE ~(s = ws /\ sockets[ws] = "connecting")
      <3>1. \/ sockets'[ws] = sockets[ws]
            \/ sockets[ws] = "open" /\ sockets'[ws] = "closing"
        BY <1>0, <2>1, <2>3
      <3>2. QED BY <2>1, <3>1, QuietUnlessTouched
    <2>4. QED BY <2>2, <2>3
  <1>4. ASSUME NEW s \in Sockets, AbandonedSocketOpens(s) PROVE QuietInv'
    <2>1. /\ UNCHANGED <<closed, reconnecting, hasChannel, ws, reconnectors, subscribedOn>>
          /\ sockets' = [sockets EXCEPT ![s] = "open"]
          /\ sockets[s] = "connecting"
      BY <1>4 DEF AbandonedSocketOpens, serverVars
    <2>2. QED
      BY <1>0, <2>1 DEF QuietInv, FlagMeansPursued, PursuedOrConnected, Pursued,
         Pursues, LineIsUp, Subscribing
  <1>5. ASSUME NEW s \in Sockets, UsageLimitExceeded(s) PROVE QuietInv'
    BY <1>5, QuietWhenClosed DEF UsageLimitExceeded
  <1>6. ASSUME NEW s \in Sockets, SocketCloses(s) PROVE QuietInv'
    <2>1. /\ UNCHANGED <<closed, hasChannel, ws, subscribedOn>>
          /\ sockets' = [sockets EXCEPT ![s] = "closed"]
      BY <1>6 DEF SocketCloses, serverVars
    <2>2. CASE closed
      BY <2>1, <2>2, QuietWhenClosed DEF ClientInv, TypeOK
    <2>3. CASE ~closed /\ reconnecting
      <3>1. UNCHANGED <<reconnecting, reconnectors>> /\ Pursued
        BY <1>6, <2>3 DEF SocketCloses, QuietInv, FlagMeansPursued
      <3>2. QED
        BY <2>1, <3>1 DEF QuietInv, FlagMeansPursued, PursuedOrConnected, Pursued, Pursues
    <2>4. CASE ~closed /\ ~reconnecting
      <3>1. reconnectors'[s].phase = "backoff"
        BY <1>0, <1>6, <2>4 DEF SocketCloses, EnterReconnect, Reconnector, Reconnectors
      <3>2. QED BY <3>1, QuietWhenPursued DEF Pursues
    <2>5. QED BY <2>2, <2>3, <2>4
  <1>7. ASSUME NEW a \in Sockets, BackoffElapsed(a) PROVE QuietInv'
    <2>1. reconnectors'[a].phase = "connecting" /\ reconnectors'[a].sock = ws'
      BY <1>0, <1>7 DEF BackoffElapsed, Reconnector, Reconnectors
    <2>2. QED BY <2>1, QuietWhenPursued DEF Pursues
  <1>8. ASSUME NEW a \in Sockets, ConnectFails(a) \/ ConnectTimesOut(a) \/ ResubscribeFails(a)
        PROVE  QuietInv'
    <2>1. reconnectors'[a].phase = "failed"
      BY <1>0, <1>8 DEF ConnectFails, ConnectTimesOut, ResubscribeFails, Reconnectors
    <2>2. QED BY <2>1, QuietWhenPursued DEF Pursues
  <1>9. ASSUME NEW a \in Sockets, SocketOpens(a) PROVE QuietInv'
    <2> DEFINE s == reconnectors[a].sock
    <2>1. /\ UNCHANGED <<closed, hasChannel, ws, subscribedOn>>
          /\ reconnecting' = FALSE
          /\ s \in Sockets /\ sockets' = [sockets EXCEPT ![s] = "open"]
          /\ reconnectors[a].phase = "connecting"
          /\ reconnectors' = [reconnectors EXCEPT ![a] = Reconnected(a)]
      BY <1>9 DEF SocketOpens, serverVars, ClientInv, HasSocket
    <2>2. CASE closed
      BY <2>1, <2>2, QuietWhenClosed DEF ClientInv, TypeOK
    <2>3. CASE ~closed /\ s = ws
      <3>1. hasChannel => reconnectors'[a] = Reconnector("resubscribing", ws)
        BY <1>0, <2>1, <2>3 DEF Reconnected, Reconnectors
      <3>2. sockets'[ws'] = "open"
        BY <1>0, <2>1, <2>3
      <3>3. QED
        BY <2>1, <3>1, <3>2 DEF QuietInv, FlagMeansPursued, PursuedOrConnected, LineIsUp,
           Subscribing
    <2>4. CASE ~closed /\ s # ws
      <3>1. sockets'[ws] = sockets[ws]
        BY <1>0, <2>1, <2>4
      <3>2. \A b \in Sockets \ {a} : reconnectors'[b] = reconnectors[b]
        BY <1>0, <2>1 DEF Reconnectors
      <3>3. CASE Pursued
        <4>1. PICK b \in Sockets : Pursues(b)
          BY <3>3 DEF Pursued
        <4>2. b # a
          BY <2>1, <2>4, <4>1 DEF Pursues
        <4>3. Pursues(b)'
          BY <2>1, <3>2, <4>1, <4>2 DEF Pursues
        <4>4. QED BY <4>3, QuietWhenPursued
      <3>4. CASE LineIsUp
        <4>1. hasChannel => Subscribing'
          <5>1. CASE ws \in subscribedOn
            BY <2>1, <5>1 DEF Subscribing
          <5>2. ASSUME NEW b \in Sockets, reconnectors[b] = Reconnector("resubscribing", ws)
                PROVE  Subscribing'
            BY <2>1, <3>2, <5>2 DEF Subscribing, Reconnector
          <5>3. QED BY <3>4, <5>1, <5>2 DEF LineIsUp, Subscribing
        <4>2. QED
          BY <2>1, <3>1, <3>4, <4>1 DEF QuietInv, FlagMeansPursued, PursuedOrConnected,
             LineIsUp
      <3>5. QED BY <2>4, <3>3, <3>4 DEF QuietInv, PursuedOrConnected
    <2>5. QED BY <2>2, <2>3, <2>4
  <1>10. ASSUME NEW a \in Sockets, ResubscribeSucceeds(a) PROVE QuietInv'
    <2>1. /\ UNCHANGED <<closed, reconnecting, hasChannel, ws, sockets>>
          /\ reconnectors[a].phase = "resubscribing"
          /\ reconnectors' = [reconnectors EXCEPT ![a] = Idle]
          /\ subscribedOn \subseteq subscribedOn'
          /\ reconnectors[a].sock = ws => ws \in subscribedOn'
      BY <1>0, <1>10 DEF ResubscribeSucceeds
    <2>2. \A b \in Sockets \ {a} : reconnectors'[b] = reconnectors[b]
      BY <1>0, <2>1 DEF Reconnectors
    <2>3. Pursued => Pursued'
      BY <2>1, <2>2 DEF Pursued, Pursues
    <2>4. Subscribing => Subscribing'
      BY <2>1, <2>2 DEF Subscribing, Reconnector
    <2>5. QED
      BY <2>1, <2>3, <2>4 DEF QuietInv, FlagMeansPursued, PursuedOrConnected, LineIsUp
  <1>11. ASSUME NEW a \in Sockets, Retry(a) PROVE QuietInv'
    <2>1. CASE LimitReached
      BY <1>11, <2>1, QuietWhenClosed DEF Retry, GiveUp, CloseRpc, ClientInv, TypeOK
    <2>2. CASE ~LimitReached
      <3>1. reconnectors'[a].phase = "backoff"
        BY <1>0, <1>11, <2>2 DEF Retry, EnterReconnect, Reconnector, Reconnectors
      <3>2. QED BY <3>1, QuietWhenPursued DEF Pursues
    <2>3. QED BY <2>1, <2>2
  <1>12. CASE Close
    BY <1>12, QuietWhenClosed DEF Close, CloseRpc
  <1>13. QED
    BY <1>1, <1>2, <1>3, <1>4, <1>5, <1>6, <1>7, <1>8, <1>9, <1>10, <1>11, <1>12 DEF Next

\* However many sockets and reconnectors there were, and however they
\* overlapped, once no _reconnect runs the current socket is open, or has yet
\* to report that it is not, and the channel's events are subscribed on it.
THEOREM EventsFlowOnceQuiet == Spec => []EventsFlowWhenQuiet
  <1>1. Init => QuietInv
    <2> SUFFICES ASSUME Init PROVE QuietInv
      OBVIOUS
    <2>1. ~reconnecting /\ ws \in Sockets /\ sockets[ws] = "open"
      BY MaxSocketsAssumption DEF Init, Sockets
    <2>2. hasChannel => ws \in subscribedOn
      BY DEF Init
    <2>3. QED
      BY <2>1, <2>2 DEF QuietInv, FlagMeansPursued, PursuedOrConnected, LineIsUp,
         Subscribing
  <1>2. ClientInv /\ QuietInv /\ [Next]_vars => QuietInv'
    BY QuietStep
  <1>3. Spec => []ClientInv
    BY ClientInitInv, ClientStepInv, PTL DEF Spec
  <1>4. QuietInv => EventsFlowWhenQuiet
    BY DEF QuietInv, PursuedOrConnected, Pursued, Pursues, LineIsUp, Subscribing, Running,
       Reconnector, EventsFlowWhenQuiet
  <1>5. QED BY <1>1, <1>2, <1>3, <1>4, PTL DEF Spec

-----------------------------------------------------------------------------
(* Requests that are sent again.                                           *)

(***************************************************************************)
(* resolvePendingRequests sends what was put aside and does not change its *)
(* status, so what has been sent again never waits again, and is never put *)
(* aside again.                                                            *)
(***************************************************************************)
SentAgainOnce ==
  /\ \A r \in pendingRequests : status[r] \notin {"idle", "waiting"} /\ r \notin resent
  /\ \A r \in resent : status[r] \notin {"idle", "waiting"}

LEMMA SentAgainStep ==
  ASSUME TypeOK, SentAgainOnce, [Next]_vars
  PROVE  SentAgainOnce'
  <1> USE DEF SentAgainOnce
  <1>0. /\ status \in [Requests -> Statuses]
        /\ pendingRequests \subseteq Requests /\ resent \subseteq Requests
    BY DEF TypeOK, Statuses
  <1>1. ASSUME UNCHANGED <<pendingRequests, resent>>,
               \A r \in Requests : status'[r] \in {status[r], "answered", "failed"}
        PROVE  SentAgainOnce'
    BY <1>0, <1>1
  <1>2. CASE UNCHANGED vars
    BY <1>2 DEF vars, requestVars
  <1>3. ASSUME NEW r \in Requests, Request(r) PROVE SentAgainOnce'
    BY <1>0, <1>3 DEF Request
  <1>4. ASSUME NEW r \in Requests,
               \/ Transmit(r) \/ RequestTimesOut(r)
               \/ \E s \in Sockets : ServerExecutes(s, r) \/ DeliverReply(s, r)
        PROVE  SentAgainOnce'
    BY <1>0, <1>1, <1>4 DEF Transmit, RequestTimesOut, ServerExecutes, DeliverReply,
       requestVars
  <1>5. ASSUME NEW s \in Sockets, SocketCloses(s) PROVE SentAgainOnce'
    BY <1>0, <1>5 DEF SocketCloses, RequestsDisconnected
  <1>6. ASSUME NEW s \in Sockets,
               SocketDrops(s) \/ AbandonedSocketOpens(s) \/ UsageLimitExceeded(s)
        PROVE  SentAgainOnce'
    BY <1>0, <1>1, <1>6 DEF SocketDrops, AbandonedSocketOpens, UsageLimitExceeded,
       FailRequests, requestVars
  <1>7. ASSUME NEW a \in Sockets, SocketOpens(a) PROVE SentAgainOnce'
    BY <1>0, <1>7 DEF SocketOpens, ResolvePendingRequests
  <1>8. ASSUME NEW a \in Sockets,
               \/ BackoffElapsed(a) \/ ConnectFails(a) \/ ConnectTimesOut(a)
               \/ ResubscribeSucceeds(a) \/ ResubscribeFails(a)
        PROVE  SentAgainOnce'
    BY <1>8 DEF BackoffElapsed, ConnectFails, ConnectTimesOut, ResubscribeSucceeds,
       ResubscribeFails, requestVars
  <1>9. ASSUME NEW a \in Sockets, Retry(a) PROVE SentAgainOnce'
    BY <1>0, <1>1, <1>9 DEF Retry, GiveUp, CloseRpc, FailRequests
  <1>10. CASE Close
    BY <1>0, <1>1, <1>10 DEF Close, CloseRpc, FailRequests
  <1>11. QED
    BY <1>2, <1>3, <1>4, <1>5, <1>6, <1>7, <1>8, <1>9, <1>10 DEF Next

(***************************************************************************)
(* How often a request has been executed or still may be with what is on   *)
(* its way: each sending of it counts once, wherever it has got.           *)
(***************************************************************************)
Carrying(r) == {s \in Sockets : r \in inflight[s]}
Queued(r) == IF r \in outbox THEN 1 ELSE 0
Allowed(r) == IF r \in resent THEN 2 ELSE 1

SendingsCounted ==
  \A r \in Requests :
    /\ executions[r] + Cardinality(Carrying(r)) + Queued(r) <= Allowed(r)
    /\ status[r] = "idle" => /\ r \notin outbox /\ executions[r] = 0 /\ Carrying(r) = {}

LEMMA CarryingFinite ==
  ASSUME NEW r
  PROVE  IsFiniteSet(Carrying(r)) /\ Cardinality(Carrying(r)) \in Nat
  <1>1. IsFiniteSet(Sockets)
    BY FS_Interval, MaxSocketsAssumption DEF Sockets
  <1>2. IsFiniteSet(Carrying(r))
    BY <1>1, FS_Subset DEF Carrying
  <1>3. QED BY <1>2, FS_CardinalityType

\* A sending that is lost or left where it is, or made for the second time.
LEMMA NoSendingAdded ==
  ASSUME TypeOK, NEW r \in Requests, SendingsCounted,
         Carrying(r)' \subseteq Carrying(r),
         executions'[r] = executions[r],
         \/ r \in outbox' => r \in outbox
         \/ r \notin resent /\ r \in resent' /\ status[r] # "idle",
         r \in resent => r \in resent',
         status'[r] = "idle" => status[r] = "idle"
  PROVE  /\ executions'[r] + Cardinality(Carrying(r)') + Queued(r)' <= Allowed(r)'
         /\ status'[r] = "idle" =>
              r \notin outbox' /\ executions'[r] = 0 /\ Carrying(r)' = {}
  <1>1. /\ Cardinality(Carrying(r)) \in Nat /\ Cardinality(Carrying(r)') \in Nat
        /\ Cardinality(Carrying(r)') <= Cardinality(Carrying(r))
    BY CarryingFinite, FS_Subset, FS_CardinalityType
  <1>2. executions[r] \in Nat
    BY DEF TypeOK
  <1>3. executions[r] + Cardinality(Carrying(r)) + Queued(r) <= Allowed(r)
    BY DEF SendingsCounted
  <1>4. executions'[r] + Cardinality(Carrying(r)') + Queued(r)' <= Allowed(r)'
    BY <1>1, <1>2, <1>3 DEF Queued, Allowed
  <1>5. QED BY <1>4 DEF SendingsCounted

LEMMA SendingsStep ==
  ASSUME TypeOK, SentAgainOnce, SendingsCounted, [Next]_vars
  PROVE  SendingsCounted'
  <1> DEFINE Kept(r) ==
        /\ Carrying(r)' \subseteq Carrying(r)
        /\ executions'[r] = executions[r]
        /\ \/ r \in outbox' => r \in outbox
           \/ r \notin resent /\ r \in resent' /\ status[r] # "idle"
        /\ r \in resent => r \in resent'
        /\ status'[r] = "idle" => status[r] = "idle"
  <1> DEFINE Good(r) ==
        /\ executions'[r] + Cardinality(Carrying(r)') + Queued(r)' <= Allowed(r)'
        /\ status'[r] = "idle" =>
             r \notin outbox' /\ executions'[r] = 0 /\ Carrying(r)' = {}
  <1>0. /\ status \in [Requests -> Statuses]
        /\ inflight \in [Sockets -> SUBSET Requests]
        /\ executions \in [Requests -> Nat]
    BY DEF TypeOK, Statuses
  <1>a. ASSUME NEW r \in Requests, Kept(r) PROVE Good(r)
    BY <1>a, NoSendingAdded
  <1>b. ASSUME \A r \in Requests : Kept(r) PROVE SendingsCounted'
    BY <1>a, <1>b DEF SendingsCounted
  <1>1. CASE UNCHANGED vars
    BY <1>1, <1>b DEF vars, requestVars, serverVars, Carrying
  <1>2. ASSUME NEW q \in Requests, Request(q) PROVE SendingsCounted'
    <2>1. /\ status[q] = "idle" /\ status'[q] # "idle"
          /\ \A r \in Requests \ {q} : status'[r] = status[r]
          /\ outbox' \subseteq outbox \cup {q}
          /\ UNCHANGED <<resent, inflight, executions>>
      BY <1>0, <1>2 DEF Request, serverVars
    <2>2. ASSUME NEW r \in Requests \ {q} PROVE Good(r)
      BY <2>1, <1>a DEF Carrying
    <2>3. Good(q)
      <3>1. executions[q] = 0 /\ Carrying(q) = {}
        BY <2>1 DEF SendingsCounted
      <3>2. Cardinality(Carrying(q)') = 0
        BY <2>1, <3>1, FS_EmptySet DEF Carrying
      <3>3. QED BY <2>1, <3>1, <3>2 DEF Queued, Allowed
    <2>4. QED BY <2>2, <2>3 DEF SendingsCounted
  <1>3. ASSUME NEW q \in Requests, Transmit(q) PROVE SendingsCounted'
    <2>1. /\ q \in outbox /\ outbox' = outbox \ {q}
          /\ UNCHANGED <<resent, executions, status>>
          /\ \A s \in Sockets : inflight'[s] \subseteq inflight[s] \cup {q}
          /\ \A s \in Sockets \ {ws} : inflight'[s] = inflight[s]
      BY <1>0, <1>3 DEF Transmit
    <2>2. ASSUME NEW r \in Requests \ {q} PROVE Good(r)
      BY <2>1, <1>a DEF Carrying
    <2>3. Good(q)
      <3>1. Carrying(q)' \subseteq Carrying(q) \cup {ws}
        BY <2>1 DEF Carrying
      <3>2. /\ IsFiniteSet(Carrying(q) \cup {ws})
            /\ Cardinality(Carrying(q) \cup {ws}) <= Cardinality(Carrying(q)) + 1
        BY CarryingFinite, FS_AddElement
      <3>3. /\ Cardinality(Carrying(q)') \in Nat /\ Cardinality(Carrying(q)) \in Nat
            /\ Cardinality(Carrying(q) \cup {ws}) \in Nat
            /\ Cardinality(Carrying(q)') <= Cardinality(Carrying(q) \cup {ws})
        BY <3>1, <3>2, CarryingFinite, FS_Subset, FS_CardinalityType
      <3>4. /\ executions[q] + Cardinality(Carrying(q)) + 1 <= Allowed(q)
            /\ status[q] # "idle"
        BY <2>1 DEF SendingsCounted, Queued
      <3>5. executions[q] \in Nat
        BY <1>0
      <3>6. QED BY <2>1, <3>2, <3>3, <3>4, <3>5 DEF Queued, Allowed
    <2>4. QED BY <2>2, <2>3 DEF SendingsCounted
  <1>4. ASSUME NEW q \in Requests, NEW s \in Sockets, ServerExecutes(s, q)
        PROVE  SendingsCounted'
    <2>1. /\ q \in inflight[s]
          /\ inflight'[s] = inflight[s] \ {q}
          /\ \A t \in Sockets \ {s} : inflight'[t] = inflight[t]
          /\ executions'[q] = executions[q] + 1
          /\ \A r \in Requests \ {q} : executions'[r] = executions[r]
          /\ UNCHANGED <<resent, status, outbox>>
      BY <1>0, <1>4 DEF ServerExecutes, requestVars
    <2>2. ASSUME NEW r \in Requests \ {q} PROVE Good(r)
      BY <2>1, <1>a DEF Carrying
    <2>3. Good(q)
      <3>1. Carrying(q)' = Carrying(q) \ {s} /\ s \in Carrying(q)
        BY <2>1 DEF Carrying
      <3>2. Cardinality(Carrying(q)') = Cardinality(Carrying(q)) - 1
        BY <3>1, CarryingFinite, FS_RemoveElement
      <3>3. /\ executions[q] + Cardinality(Carrying(q)) + Queued(q) <= Allowed(q)
            /\ status[q] # "idle"
        BY <3>1 DEF SendingsCounted
      <3>4. executions[q] \in Nat /\ Cardinality(Carrying(q)) \in Nat
        BY <1>0, CarryingFinite
      <3>5. QED BY <2>1, <3>2, <3>3, <3>4 DEF Queued, Allowed
    <2>4. QED BY <2>2, <2>3 DEF SendingsCounted
  <1>5. ASSUME NEW q \in Requests,
               RequestTimesOut(q) \/ \E s \in Sockets : DeliverReply(s, q)
        PROVE  SendingsCounted'
    BY <1>0, <1>5, <1>b DEF RequestTimesOut, DeliverReply, serverVars, Carrying, Outstanding
  <1>6. ASSUME NEW s \in Sockets, SocketDrops(s) \/ AbandonedSocketOpens(s)
        PROVE  SendingsCounted'
    <2>1. \A t \in Sockets : inflight'[t] \subseteq inflight[t]
      BY <1>0, <1>6 DEF SocketDrops, Drop, AbandonedSocketOpens, serverVars
    <2>2. UNCHANGED <<requestVars, executions>>
      BY <1>6 DEF SocketDrops, AbandonedSocketOpens, serverVars
    <2>3. QED BY <2>1, <2>2, <1>b DEF requestVars, Carrying
  <1>7. ASSUME NEW s \in Sockets, SocketCloses(s) PROVE SendingsCounted'
    BY <1>0, <1>7, <1>b DEF SocketCloses, RequestsDisconnected, serverVars, Carrying
  <1>8. ASSUME CloseRpc \/ UNCHANGED <<status, inflight>>
               \/ \E s \in Sockets : UsageLimitExceeded(s),
               UNCHANGED <<outbox, resent, executions>>
        PROVE  SendingsCounted'
    <2>1. \A t \in Sockets : inflight'[t] \subseteq inflight[t]
      BY <1>0, <1>8 DEF CloseRpc, Drop, UsageLimitExceeded
    <2>2. \A r \in Requests : status'[r] = "idle" => status[r] = "idle"
      BY <1>0, <1>8 DEF CloseRpc, FailRequests, UsageLimitExceeded
    <2>3. QED BY <1>8, <2>1, <2>2, <1>b DEF Carrying
  <1>9. ASSUME NEW a \in Sockets, SocketOpens(a) PROVE SendingsCounted'
    <2>1. /\ outbox' = outbox \cup pendingRequests
          /\ resent' = resent \cup pendingRequests
          /\ UNCHANGED <<status, inflight, executions>>
      BY <1>9 DEF SocketOpens, ResolvePendingRequests, serverVars
    <2>2. QED BY <2>1, <1>b DEF SentAgainOnce, Carrying
  <1>10. ASSUME NEW a \in Sockets,
                \/ BackoffElapsed(a) \/ ConnectFails(a) \/ ConnectTimesOut(a)
                \/ ResubscribeSucceeds(a) \/ ResubscribeFails(a)
         PROVE  SendingsCounted'
    BY <1>8, <1>10 DEF BackoffElapsed, ConnectFails, ConnectTimesOut, ResubscribeSucceeds,
       ResubscribeFails, requestVars, serverVars
  <1>11. ASSUME NEW a \in Sockets, Retry(a) PROVE SendingsCounted'
    BY <1>8, <1>11 DEF Retry, GiveUp
  <1>12. CASE Close \/ \E s \in Sockets : UsageLimitExceeded(s)
    BY <1>8, <1>12 DEF Close, UsageLimitExceeded
  <1>13. QED
    BY <1>1, <1>2, <1>3, <1>4, <1>5, <1>6, <1>7, <1>9, <1>10, <1>11, <1>12 DEF Next

\* However often the connection is lost, and however many reconnectors
\* overlap, the server executes a request at most twice, and at most once if
\* resolvePendingRequests has not sent it again.
THEOREM RequestsExecutedAtMostTwice == Spec => []ExecutedAtMostTwice
  <1>1. Init => SentAgainOnce /\ SendingsCounted
    <2> SUFFICES ASSUME Init PROVE SentAgainOnce /\ SendingsCounted
      OBVIOUS
    <2>1. SentAgainOnce
      BY DEF Init, SentAgainOnce
    <2>2. ASSUME NEW r \in Requests
          PROVE  executions[r] = 0 /\ Carrying(r) = {} /\ r \notin outbox
      BY DEF Init, Carrying
    <2>3. QED BY <2>1, <2>2, FS_EmptySet DEF SendingsCounted, Queued, Allowed
  <1>2. TypeOK /\ SentAgainOnce /\ SendingsCounted /\ [Next]_vars
          => SentAgainOnce' /\ SendingsCounted'
    BY SentAgainStep, SendingsStep
  <1>3. Spec => []TypeOK
    BY ClientTypeCorrect
  <1>4. TypeOK /\ SendingsCounted => ExecutedAtMostTwice
    <2> SUFFICES ASSUME TypeOK, SendingsCounted, NEW r \in Requests
                 PROVE  executions[r] <= IF r \in resent THEN 2 ELSE 1
      BY DEF ExecutedAtMostTwice
    <2>1. Cardinality(Carrying(r)) \in Nat /\ executions[r] \in Nat
      BY CarryingFinite DEF TypeOK
    <2>2. QED BY <2>1 DEF SendingsCounted, Queued, Allowed
  <1>5. QED BY <1>1, <1>2, <1>3, <1>4, PTL DEF Spec

-----------------------------------------------------------------------------
(* A request on its way.                                                   *)

\* Sockets are made in the order of their numbers.
LaterUnused == \A s \in Sockets : s > ws => sockets[s] = "unused"

(***************************************************************************)
(* Until two reconnectors have run at once there is one at most, what it   *)
(* waits for is the current socket, the flag is up until it has connected, *)
(* and while the flag is down the current socket takes requests or has yet *)
(* to report its close.                                                    *)
(***************************************************************************)
SoleReconnector ==
  ~overlapped =>
    /\ \A a, b \in Sockets : Running(a) /\ Running(b) => a = b
    /\ \A a \in Sockets : reconnectors[a].phase = "connecting" => reconnectors[a].sock = ws
    /\ \A a \in Sockets : reconnectors[a].phase \in {"backoff", "connecting"} => reconnecting
    /\ ~reconnecting /\ ~closed => sockets[ws] \in {"open", "closing"}

LEMMA SoleStep ==
  ASSUME ClientInv, LaterUnused, SoleReconnector, [Next]_vars
  PROVE  LaterUnused' /\ SoleReconnector'
  <1> USE DEF LaterUnused, SoleReconnector, Running
  <1>0. /\ ws \in Sockets /\ \A s \in Sockets : s \in Int
        /\ sockets \in [Sockets -> ReadyStates]
        /\ reconnectors \in Reconnectors
        /\ closed \in BOOLEAN /\ reconnecting \in BOOLEAN /\ overlapped \in BOOLEAN
    BY DEF ClientInv, TypeOK, ReadyStates, Reconnectors, Phases, Sockets
  <1>a. ASSUME UNCHANGED <<reconnecting, ws, reconnectors, overlapped>>,
               closed => closed',
               \A s \in Sockets : sockets[s] = "unused" => sockets'[s] = "unused",
               \/ closed'
               \/ sockets'[ws] = sockets[ws]
               \/ sockets'[ws] \in {"open", "closing"}
        PROVE  LaterUnused' /\ SoleReconnector'
    BY <1>0, <1>a
  <1>1. CASE UNCHANGED vars
    BY <1>1, <1>a DEF vars
  <1>2. ASSUME NEW r \in Requests,
               \/ Request(r) \/ Transmit(r) \/ RequestTimesOut(r)
               \/ \E s \in Sockets : ServerExecutes(s, r) \/ DeliverReply(s, r)
        PROVE  LaterUnused' /\ SoleReconnector'
    BY <1>2, <1>a DEF Request, Transmit, RequestTimesOut, ServerExecutes, DeliverReply
  <1>3. ASSUME NEW s \in Sockets, SocketDrops(s) \/ AbandonedSocketOpens(s)
        PROVE  LaterUnused' /\ SoleReconnector'
    BY <1>0, <1>3, <1>a DEF SocketDrops, Drop, AbandonedSocketOpens
  <1>4. ASSUME NEW s \in Sockets, UsageLimitExceeded(s)
        PROVE  LaterUnused' /\ SoleReconnector'
    BY <1>0, <1>4, <1>a DEF UsageLimitExceeded
  <1>5. CASE Close
    BY <1>0, <1>5, <1>a DEF Close, CloseRpc, Drop
  <1>6. ASSUME NEW a \in Sockets, EnterReconnect(a), UNCHANGED ws,
               \A s \in Sockets : sockets[s] = "unused" => sockets'[s] = "unused"
        PROVE  LaterUnused' /\ SoleReconnector'
    <2>1. /\ reconnecting' = TRUE
          /\ reconnectors'[a].phase = "backoff"
          /\ \A b \in Sockets \ {a} : reconnectors'[b] = reconnectors[b]
          /\ ~overlapped' => ~overlapped /\ \A b \in Sockets \ {a} : ~Running(b)
      BY <1>0, <1>6 DEF EnterReconnect, Reconnector, Reconnectors
    <2>2. QED BY <1>6, <2>1
  <1>7. ASSUME NEW s \in Sockets, SocketCloses(s)
        PROVE  LaterUnused' /\ SoleReconnector'
    <2>1. /\ UNCHANGED <<closed, ws>>
          /\ \A t \in Sockets : sockets[t] = "unused" => sockets'[t] = "unused"
      BY <1>0, <1>7 DEF SocketCloses
    <2>2. CASE closed \/ reconnecting
      <3>1. UNCHANGED <<reconnecting, reconnectors, overlapped>>
        BY <1>7, <2>2 DEF SocketCloses
      <3>2. QED BY <2>1, <2>2, <3>1
    <2>3. CASE ~closed /\ ~reconnecting
      BY <1>7, <2>1, <2>3, <1>6 DEF SocketCloses
    <2>4. QED BY <2>2, <2>3
  <1>8. ASSUME NEW a \in Sockets, BackoffElapsed(a)
        PROVE  LaterUnused' /\ SoleReconnector'
    <2>1. /\ UNCHANGED <<closed, reconnecting, overlapped>>
          /\ ws' = ws + 1 /\ ws + 1 \in Sockets
          /\ sockets' = [sockets EXCEPT ![ws + 1] = "connecting"]
          /\ reconnectors'[a] = [phase |-> "connecting", sock |-> ws']
          /\ \A b \in Sockets \ {a} : reconnectors'[b] = reconnectors[b]
          /\ reconnectors[a].phase = "backoff"
      BY <1>0, <1>8, MaxSocketsAssumption DEF BackoffElapsed, Reconnector, Reconnectors, Sockets
    <2>2. LaterUnused'
      BY <1>0, <2>1
    <2>3. ~overlapped => reconnecting
      BY <2>1
    <2>4. QED BY <2>1, <2>2, <2>3
  <1>9. ASSUME NEW a \in Sockets, SocketOpens(a)
        PROVE  LaterUnused' /\ SoleReconnector'
    <2>1. /\ UNCHANGED <<closed, ws, overlapped>>
          /\ reconnectors[a].phase = "connecting"
          /\ reconnectors[a].sock \in Sockets
          /\ sockets[reconnectors[a].sock] = "connecting"
          /\ sockets' = [sockets EXCEPT ![reconnectors[a].sock] = "open"]
          /\ reconnectors'[a].phase \notin {"backoff", "connecting"}
          /\ \A b \in Sockets \ {a} : reconnectors'[b] = reconnectors[b]
      BY <1>0, <1>9 DEF SocketOpens, SocketOf, Reconnected, Reconnector, Idle, ClientInv,
         HasSocket, Reconnectors
    <2>2. QED BY <1>0, <2>1
  <1>10. ASSUME NEW a \in Sockets,
                \/ ConnectFails(a) \/ ConnectTimesOut(a)
                \/ ResubscribeSucceeds(a) \/ ResubscribeFails(a)
         PROVE  LaterUnused' /\ SoleReconnector'
    <2>1. /\ UNCHANGED <<closed, reconnecting, ws, overlapped>>
          /\ reconnectors[a].phase # "none"
          /\ reconnectors'[a].phase \notin {"backoff", "connecting"}
          /\ \A b \in Sockets \ {a} : reconnectors'[b] = reconnectors[b]
      BY <1>0, <1>10 DEF ConnectFails, ConnectTimesOut, ResubscribeSucceeds,
         ResubscribeFails, Idle, Reconnectors
    <2>2. \A s \in Sockets : \/ sockets'[s] = sockets[s]
                             \/ sockets[s] = "connecting" /\ sockets'[s] = "closing"
      BY <1>0, <1>10 DEF ConnectFails, ConnectTimesOut, ResubscribeSucceeds,
         ResubscribeFails, SocketOf, ClientInv, HasSocket
    <2>3. QED BY <1>0, <2>1, <2>2
  <1>11. ASSUME NEW a \in Sockets, Retry(a)
         PROVE  LaterUnused' /\ SoleReconnector'
    <2>1. CASE LimitReached
      <3>1. /\ closed' /\ UNCHANGED <<reconnecting, ws, overlapped>>
            /\ \A s \in Sockets : sockets[s] = "unused" => sockets'[s] = "unused"
            /\ reconnectors'[a] = Idle
            /\ \A b \in Sockets \ {a} : reconnectors'[b] = reconnectors[b]
        BY <1>0, <1>11, <2>1 DEF Retry, GiveUp, CloseRpc, Drop, Idle, Reconnectors
      <3>2. QED BY <3>1 DEF Idle
    <2>2. CASE ~LimitReached
      BY <1>11, <2>2, <1>6 DEF Retry
    <2>3. QED BY <2>1, <2>2
  <1>12. QED
    BY <1>1, <1>2, <1>3, <1>4, <1>5, <1>7, <1>8, <1>9, <1>10, <1>11 DEF Next

(***************************************************************************)
(* Where a request is.  A pending one that has not been sent again is in   *)
(* the list.  One that waits is in _send, on a socket, or was on one that  *)
(* has yet to report its close; in _send it finds a socket that is open or *)
(* about to report its close, which puts the request aside.                *)
(***************************************************************************)
PendingIsListed ==
  \A r \in Requests : status[r] = "pending" /\ r \notin resent => r \in pendingRequests

CloseToCome == \E s \in Sockets : sockets[s] = "closing"

OnASocket(r) == \E s \in Sockets : r \in inflight[s] \cup replies[s]

WaitingIsOnItsWay ==
  ~overlapped =>
    \A r \in Requests : status[r] = "waiting" =>
      /\ r \in outbox \/ OnASocket(r) \/ CloseToCome
      /\ r \in outbox => sockets[ws] \in {"open", "closing"}

WayInv == PendingIsListed /\ WaitingIsOnItsWay

\* Nobody is outstanding any more.
LEMMA WayWhenFailed ==
  ASSUME \A r \in Requests : status'[r] \notin {"waiting", "pending"}
  PROVE  WayInv'
  BY DEF WayInv, PendingIsListed, WaitingIsOnItsWay

LEMMA WayStep ==
  ASSUME ClientInv, SentAgainOnce, LaterUnused, SoleReconnector, WayInv, [Next]_vars
  PROVE  WayInv'
  <1> USE DEF WayInv, PendingIsListed, WaitingIsOnItsWay, CloseToCome, OnASocket
  <1>0. /\ ws \in Sockets /\ \A s \in Sockets : s \in Int
        /\ sockets \in [Sockets -> ReadyStates]
        /\ inflight \in [Sockets -> SUBSET Requests]
        /\ replies \in [Sockets -> SUBSET Requests]
        /\ status \in [Requests -> Statuses]
        /\ closed \in BOOLEAN /\ reconnecting \in BOOLEAN /\ overlapped \in BOOLEAN
    BY DEF ClientInv, TypeOK, ReadyStates, Statuses, Sockets
  <1>1. CASE UNCHANGED vars
    BY <1>1 DEF vars, requestVars, serverVars
  <1>2. ASSUME NEW q \in Requests, Request(q) PROVE WayInv'
    <2>1. /\ UNCHANGED <<closed, reconnecting, ws, sockets, overlapped, resent, inflight,
                        replies>>
          /\ status[q] = "idle"
          /\ \A r \in Requests \ {q} : status'[r] = status[r]
          /\ outbox \subseteq outbox' /\ outbox' \subseteq outbox \cup {q}
          /\ pendingRequests \subseteq pendingRequests'
          /\ status'[q] = "pending" => q \in pendingRequests'
          /\ status'[q] = "waiting" => q \in outbox' /\ ~reconnecting /\ ~closed
      BY <1>0, <1>2 DEF Request, serverVars
    <2>2. QED BY <2>1 DEF SoleReconnector
  <1>3. ASSUME NEW q \in Requests, Transmit(q) PROVE WayInv'
    <2>1. /\ UNCHANGED <<ws, sockets, overlapped, status, pendingRequests, resent, replies>>
          /\ outbox' = outbox \ {q} /\ q \in outbox
          /\ \A s \in Sockets : inflight[s] \subseteq inflight'[s]
          /\ sockets[ws] = "open" => q \in inflight'[ws]
      BY <1>0, <1>3 DEF Transmit
    <2>2. QED BY <1>0, <2>1
  <1>4. ASSUME NEW q \in Requests, NEW s \in Sockets, ServerExecutes(s, q) PROVE WayInv'
    <2>1. /\ UNCHANGED <<ws, sockets, overlapped, requestVars>>
          /\ \A t \in Sockets : inflight[t] \cup replies[t] = inflight'[t] \cup replies'[t]
      BY <1>0, <1>4 DEF ServerExecutes
    <2>2. QED BY <2>1 DEF requestVars
  <1>5. ASSUME NEW q \in Requests, NEW s \in Sockets, DeliverReply(s, q) PROVE WayInv'
    <2>1. /\ UNCHANGED <<ws, sockets, overlapped, pendingRequests, outbox, resent, inflight>>
          /\ status'[q] \notin {"waiting", "pending"}
          /\ \A r \in Requests \ {q} : status'[r] = status[r]
          /\ \A r \in Requests \ {q}, t \in Sockets : r \in replies[t] => r \in replies'[t]
      BY <1>0, <1>5 DEF DeliverReply, Outstanding
    <2>2. QED BY <2>1
  <1>6. ASSUME NEW q \in Requests, RequestTimesOut(q) PROVE WayInv'
    BY <1>0, <1>6 DEF RequestTimesOut, serverVars
  <1>7. ASSUME NEW s \in Sockets, SocketDrops(s) PROVE WayInv'
    <2>1. /\ sockets'[s] = "closing"
          /\ \A t \in Sockets \ {s} : sockets'[t] = sockets[t]
          /\ UNCHANGED <<ws, overlapped, requestVars>>
      BY <1>0, <1>7 DEF SocketDrops, Drop
    <2>2. QED BY <1>0, <2>1 DEF requestVars
  <1>8. ASSUME NEW s \in Sockets, AbandonedSocketOpens(s) PROVE WayInv'
    <2>1. /\ UNCHANGED <<ws, overlapped, requestVars, serverVars>>
          /\ sockets[s] = "connecting" /\ sockets'[s] = "open"
          /\ \A t \in Sockets \ {s} : sockets'[t] = sockets[t]
      BY <1>0, <1>8 DEF AbandonedSocketOpens
    <2>2. QED BY <1>0, <2>1 DEF requestVars, serverVars
  <1>9. ASSUME NEW s \in Sockets, SocketCloses(s) PROVE WayInv'
    <2>1. CASE closed
      <3>1. status' = status
        BY <1>9, <2>1 DEF SocketCloses
      <3>2. QED
        BY <2>1, <3>1, WayWhenFailed DEF ClientInv, ClosedLeavesNobodyWaiting, Outstanding
    <2>2. CASE ~closed
      <3>1. /\ \A r \in Requests : status'[r] # "waiting"
            /\ \A r \in Requests : status[r] = "waiting" => r \in pendingRequests'
            /\ \A r \in Requests : status[r] # "waiting" => status'[r] = status[r]
            /\ pendingRequests \subseteq pendingRequests' /\ UNCHANGED resent
        BY <1>0, <1>9, <2>2 DEF SocketCloses, RequestsDisconnected
      <3>2. QED BY <3>1
    <2>3. QED BY <2>1, <2>2
  <1>10. ASSUME CloseRpc \/ \E s \in Sockets : UsageLimitExceeded(s) PROVE WayInv'
    BY <1>0, <1>10, WayWhenFailed DEF CloseRpc, UsageLimitExceeded, FailRequests, Outstanding
  <1>11. ASSUME NEW a \in Sockets, BackoffElapsed(a) PROVE WayInv'
    <2>1. /\ UNCHANGED <<overlapped, requestVars, serverVars>>
          /\ outbox = {} /\ ws + 1 \in Sockets
          /\ sockets' = [sockets EXCEPT ![ws + 1] = "connecting"]
      BY <1>0, <1>11, MaxSocketsAssumption DEF BackoffElapsed, Sockets
    <2>2. sockets[ws + 1] = "unused"
      BY <1>0, <2>1 DEF LaterUnused
    <2>3. \A t \in Sockets : sockets[t] = "closing" => sockets'[t] = "closing"
      BY <1>0, <2>1, <2>2
    <2>4. QED BY <2>1, <2>3 DEF requestVars, serverVars
  <1>12. ASSUME NEW a \in Sockets, SocketOpens(a) PROVE WayInv'
    <2>1. /\ UNCHANGED <<ws, overlapped, status, inflight, replies>>
          /\ outbox' = outbox \cup pendingRequests
          /\ resent' = resent \cup pendingRequests
          /\ reconnectors[a].sock \in Sockets
          /\ sockets[reconnectors[a].sock] = "connecting"
          /\ sockets' = [sockets EXCEPT ![reconnectors[a].sock] = "open"]
      BY <1>12 DEF SocketOpens, SocketOf, ResolvePendingRequests, serverVars, ClientInv,
         HasSocket
    <2>2. /\ \A t \in Sockets : sockets[t] = "closing" => sockets'[t] = "closing"
          /\ sockets[ws] \in {"open", "closing"} => sockets'[ws] \in {"open", "closing"}
      BY <1>0, <2>1
    <2>3. QED BY <2>1, <2>2 DEF SentAgainOnce
  <1>13. ASSUME NEW a \in Sockets,
                \/ ConnectFails(a) \/ ConnectTimesOut(a)
                \/ ResubscribeSucceeds(a) \/ ResubscribeFails(a)
         PROVE  WayInv'
    <2>1. /\ UNCHANGED <<ws, overlapped, requestVars, inflight, replies>>
          /\ \A t \in Sockets : \/ sockets'[t] = sockets[t]
                                \/ sockets[t] = "connecting" /\ sockets'[t] = "closing"
      BY <1>0, <1>13 DEF ConnectFails, ConnectTimesOut, ResubscribeSucceeds,
         ResubscribeFails, SocketOf, ClientInv, HasSocket, serverVars
    <2>2. QED BY <1>0, <2>1 DEF requestVars
  <1>14. ASSUME NEW a \in Sockets, Retry(a) PROVE WayInv'
    <2>1. CASE LimitReached /\ ~closed
      BY <1>10, <1>14, <2>1 DEF Retry, GiveUp
    <2>2. CASE LimitReached /\ closed
      <3>1. status' = status
        BY <1>14, <2>2 DEF Retry, GiveUp
      <3>2. QED
        BY <2>2, <3>1, WayWhenFailed DEF ClientInv, ClosedLeavesNobodyWaiting, Outstanding
    <2>3. CASE ~LimitReached
      <3>1. /\ UNCHANGED <<ws, sockets, inflight, replies, status, pendingRequests, outbox,
                          resent>>
            /\ ~overlapped' => ~overlapped
        BY <1>0, <1>14, <2>3 DEF Retry, EnterReconnect
      <3>2. QED BY <3>1
    <2>4. QED BY <2>1, <2>2, <2>3
  <1>15. QED
    BY <1>1, <1>2, <1>3, <1>4, <1>5, <1>6, <1>7, <1>8, <1>9, <1>10, <1>11, <1>12, <1>13,
       <1>14 DEF Next, Close

\* Wherever the loss of the connection meets a request, it is not forgotten:
\* while its caller waits it is on its way, or will be sent again, as long as
\* no two reconnectors have run at once.
THEOREM RequestsOnTheirWay == Spec => []RequestIsOnItsWay
  <1>1. Init => SentAgainOnce /\ LaterUnused /\ SoleReconnector /\ WayInv
    <2> SUFFICES ASSUME Init
                 PROVE  SentAgainOnce /\ LaterUnused /\ SoleReconnector /\ WayInv
      OBVIOUS
    <2>1. \A s \in Sockets : s \in Int
      BY DEF Sockets
    <2>2. 1 \in Sockets
      BY MaxSocketsAssumption DEF Sockets
    <2>3. LaterUnused /\ SoleReconnector
      BY <2>1, <2>2 DEF Init, Idle, LaterUnused, SoleReconnector, Running
    <2>4. SentAgainOnce /\ WayInv
      BY DEF Init, SentAgainOnce, WayInv, PendingIsListed, WaitingIsOnItsWay
    <2>5. QED BY <2>3, <2>4
  <1>2. ClientInv /\ SentAgainOnce /\ LaterUnused /\ SoleReconnector /\ WayInv /\ [Next]_vars
          => SentAgainOnce' /\ LaterUnused' /\ SoleReconnector' /\ WayInv'
    BY SentAgainStep, SoleStep, WayStep DEF ClientInv
  <1>3. Spec => []ClientInv
    BY ClientInitInv, ClientStepInv, PTL DEF Spec
  <1>4. WayInv => RequestIsOnItsWay
    BY DEF WayInv, PendingIsListed, WaitingIsOnItsWay, OnASocket, CloseToCome, Outstanding,
       RequestIsOnItsWay
  <1>5. QED BY <1>1, <1>2, <1>3, <1>4, PTL DEF Spec

-----------------------------------------------------------------------------
(***************************************************************************)
(* The analytics client.                                                   *)
(*                                                                         *)
(* That a Socket is served needs more than itself.  A close event makes a  *)
(* Socket reconnect or fail, and does so rightly only if its WebSocket is  *)
(* the current one of the client's Socket: LineInv says which WebSockets   *)
(* may still be heard of, as long as none that was given up has come back  *)
(* (~confused).  And an event that is queued is sent when the WebSocket    *)
(* opens, provided the Socket can send just then (UnsentQueued).           *)
(***************************************************************************)

SocketRecords ==
  [ws : WebSockets \cup {None}, closing : WebSockets \cup {None},
   isOpen : BOOLEAN, heard : BOOLEAN, count : Nat, timers : Nat,
   state : {"connecting", "connected", "reconnecting", "closed"},
   queue : Seq(Events \cup {Other})]

Answers == {"open", "ok", "unexpected", "refused"}

WebSocketRecords ==
  [state : {"connecting", "open", "closing", "closed"}, owner : SocketIds,
   code : {None, "reconnect", "destroy"}, out : SUBSET Events,
   in : Seq([event : Events \cup {None}, answer : Answers])]

CallStates == {"none", "waiting", "backoff", "resolved", "rejected"}

\* The parts of the types that the actions write together.
SocketsTyped ==
  /\ sock \in [SocketIds -> SocketRecords]
  /\ webSockets \in [WebSockets -> WebSocketRecords]

ClientTyped ==
  /\ socket \in SocketIds \cup {None} /\ isClosed \in BOOLEAN
  /\ token \in {"first", "set", "used"}
  /\ session \in {"connecting", "connected", "closed"}

CallsTyped ==
  /\ call \in [Events -> CallStates]
  /\ attempts \in [Events -> 0 .. MaxAttempts]

HistoryTyped ==
  /\ accepted \subseteq Events /\ written \cup lost \subseteq Events /\ dropped \subseteq Events
  /\ confused \in BOOLEAN

LEMMA TypesInParts ==
  AnalyticsTypeOK <=> SocketsTyped /\ ClientTyped /\ CallsTyped /\ HistoryTyped
  BY DEF AnalyticsTypeOK, SocketsTyped, ClientTyped, CallsTyped, HistoryTyped,
         SocketRecords, WebSocketRecords, CallStates, Answers

\* A WebSocket that a Socket has is its own, and not the one it is closing.
OwnersKnown ==
  \A s \in SocketIds :
    /\ sock[s].ws # None => webSockets[sock[s].ws].owner = s
    /\ sock[s].closing # None => sock[s].closing # sock[s].ws

\* The client listens to its own Socket alone.
HeardIsClients == \A s \in SocketIds : sock[s].heard => socket = s

\* The last attempt is not followed by another.
AttemptsLeft ==
  \A e \in Events :
    call[e] \in {"none", "waiting", "backoff"} => attempts[e] < MaxAttempts

\* Unless a WebSocket that was given up has come back: only the client's
\* Socket is at work, with one WebSocket that is not closing, or with none
\* and one timer.
ClosedHasNone == isClosed => socket = None
ClientHears == \A s \in SocketIds : socket = s => sock[s].heard
LiveIsCurrent ==
  \A w \in WebSockets : Live(w) =>
    /\ sock[webSockets[w].owner].heard
    /\ sock[webSockets[w].owner].ws = w
OneTimer ==
  \A s \in SocketIds : sock[s].timers > 0 =>
    /\ sock[s].heard /\ sock[s].ws = None /\ sock[s].timers = 1
    /\ sock[s].state = "reconnecting"
CurrentIsLive ==
  \A s \in SocketIds :
    sock[s].heard /\ sock[s].ws # None => webSockets[sock[s].ws].state # "closing"

Orderly ==
  ClosedHasNone /\ ClientHears /\ LiveIsCurrent /\ OneTimer /\ CurrentIsLive

\* UnsentIsQueued needs no state of the Socket.
UnsentQueued ==
  socket # None => accepted \subseteq written \cup dropped \cup lost \cup ToSet(sock[socket].queue)

LineInv ==
  /\ OwnersKnown
  /\ HeardIsClients
  /\ SocketIsServed
  /\ ~confused => Orderly

-----------------------------------------------------------------------------
(* The types of what the actions are built from.                           *)

LEMMA NewSocketType ==
  ASSUME NEW w \in WebSockets \cup {None}
  PROVE  NewSocket(w) \in SocketRecords
  BY DEF NewSocket, SocketRecords

LEMMA NewWebSocketType ==
  ASSUME NEW s \in SocketIds
  PROVE  NewWebSocket(s) \in WebSocketRecords
  BY DEF NewWebSocket, WebSocketRecords

LEMMA EndedType ==
  ASSUME SocketsTyped, NEW w \in WebSockets
  PROVE  /\ Ended(w) \in WebSocketRecords
         /\ Ended(w).state = "closed" /\ Ended(w).owner = webSockets[w].owner
<1>1. webSockets[w] \in WebSocketRecords
  BY DEF SocketsTyped
<1>2. {} \in SUBSET Events /\ <<>> \in Seq([event : Events \cup {None}, answer : Answers])
  OBVIOUS
<1> QED
  BY <1>1, <1>2 DEF Ended, WebSocketRecords

LEMMA WithClosedType ==
  ASSUME SocketsTyped, NEW s \in SocketIds, NEW code \in {"reconnect", "destroy"},
         NEW ended
  PROVE  WithClosed(s, code, ended) \in [WebSockets -> WebSocketRecords]
<1> SUFFICES ASSUME NEW w \in WebSockets
             PROVE  WithClosed(s, code, ended)[w] \in WebSocketRecords
  BY DEF WithClosed
<1>1. CASE w = ended
  BY <1>1, EndedType DEF WithClosed
<1>2. CASE w # ended /\ w = sock[s].ws /\ Live(w)
  <2>1. webSockets[w] \in WebSocketRecords
    BY DEF SocketsTyped
  <2>2. WithClosed(s, code, ended)[w] =
          [webSockets[w] EXCEPT !.state = "closing", !.code = code, !.out = {}]
    BY <1>2 DEF WithClosed
  <2>3. [webSockets[w] EXCEPT !.state = "closing", !.code = code, !.out = {}]
          \in WebSocketRecords
    BY <2>1 DEF WebSocketRecords
  <2> QED
    BY <2>2, <2>3
<1>3. CASE w # ended /\ ~(w = sock[s].ws /\ Live(w))
  BY <1>3 DEF WithClosed, SocketsTyped
<1> QED
  BY <1>1, <1>2, <1>3

LEMMA DestroyedType ==
  ASSUME SocketsTyped, NEW s \in SocketIds, NEW ended
  PROVE  /\ Destroyed(s, ended) \in SocketRecords
         /\ ~Destroyed(s, ended).heard
         /\ Destroyed(s, ended).queue = sock[s].queue
         /\ Destroyed(s, ended).closing = None
         /\ Destroyed(s, ended).ws = IF sock[s].ws = ended THEN None ELSE sock[s].ws
         /\ sock[s].timers <= 1 => Destroyed(s, ended).timers = 0
<1>1. sock[s] \in SocketRecords
  BY DEF SocketsTyped
<1>2. /\ (IF sock[s].ws = ended THEN None ELSE sock[s].ws) \in WebSockets \cup {None}
      /\ (IF sock[s].timers = 0 THEN 0 ELSE sock[s].timers - 1) \in Nat
      /\ sock[s].timers <= 1 => (IF sock[s].timers = 0 THEN 0 ELSE sock[s].timers - 1) = 0
  BY <1>1 DEF SocketRecords
<1> QED
  BY <1>1, <1>2 DEF Destroyed, SocketRecords

LEMMA PushedType ==
  ASSUME NEW queue \in Seq(Events \cup {Other}), NEW e \in Events \cup {Other, None}
  PROVE  /\ Pushed(queue, e) \in Seq(Events \cup {Other})
         /\ Overflows(queue, e) \subseteq Events
<1>1. MaxResend \in Nat \ {0}
  BY BoundsAssumption
<1>2. CASE Len(queue) >= MaxResend
  <2>1. queue # <<>>
    BY <1>1, <1>2
  <2>2. Head(queue) \in Events \cup {Other} /\ Tail(queue) \in Seq(Events \cup {Other})
    BY <2>1
  <2> QED
    BY <2>2 DEF Pushed, Overflows
<1>3. CASE ~(Len(queue) >= MaxResend)
  BY <1>3 DEF Pushed, Overflows
<1> QED
  BY <1>2, <1>3

\* What is pushed is in the queue, and what leaves it has overflowed.
LEMMA PushedKeeps ==
  ASSUME NEW queue \in Seq(Events \cup {Other}), NEW e \in Events \cup {Other, None}
  PROVE  (ToSet(queue) \cup {e}) \cap Events
           \subseteq ToSet(Pushed(queue, e)) \cup Overflows(queue, e)
<1> SUFFICES ASSUME NEW x \in Events, x \in ToSet(queue) \cup {e}
             PROVE  x \in ToSet(Pushed(queue, e)) \cup Overflows(queue, e)
  OBVIOUS
<1>0. MaxResend \in Nat \ {0} /\ x # None /\ x # Other
  BY BoundsAssumption, NoneAssumption
<1>1. CASE e = None \/ Contains(queue, e)
  BY <1>0, <1>1 DEF Pushed, Contains, ToSet
<1>2. CASE ~(e = None \/ Contains(queue, e)) /\ Len(queue) >= MaxResend
  <2>1. queue # <<>> /\ Tail(queue) \in Seq(Events \cup {Other})
        /\ e \in Events \cup {Other}
    BY <1>0, <1>2
  <2> DEFINE pushed == Append(Tail(queue), e)
  <2>2. Pushed(queue, e) = pushed /\ Overflows(queue, e) = {Head(queue)} \ {Other}
    BY <1>2 DEF Pushed, Overflows
  <2>3. Len(pushed) = Len(queue) /\ pushed[Len(queue)] = e
    BY <2>1
  <2>4. \A i \in 1 .. Len(queue) - 1 : pushed[i] = queue[i + 1]
    BY <2>1
  <2>5. CASE x = e
    BY <2>1, <2>2, <2>3, <2>5 DEF ToSet
  <2>6. CASE x \in ToSet(queue)
    <3>1. PICK i \in 1 .. Len(queue) : queue[i] = x
      BY <2>6 DEF ToSet
    <3>2. CASE i = 1
      BY <1>0, <2>1, <2>2, <3>1, <3>2
    <3>3. CASE i # 1
      <4>1. i - 1 \in 1 .. Len(queue) - 1 /\ i - 1 \in 1 .. Len(pushed)
        BY <2>3, <3>1, <3>3
      <4>2. pushed[i - 1] = x
        BY <2>4, <3>1, <4>1
      <4>3. pushed \in Seq(Events \cup {Other})
        BY <2>1
      <4> HIDE DEF pushed
      <4>4. DOMAIN pushed = 1 .. Len(pushed)
        BY <4>3
      <4>5. x \in ToSet(pushed)
        BY <4>1, <4>2, <4>4 DEF ToSet
      <4> QED
        BY <2>2, <4>5
    <3> QED
      BY <3>2, <3>3
  <2> QED
    BY <2>5, <2>6
<1>3. CASE ~(e = None \/ Contains(queue, e)) /\ ~(Len(queue) >= MaxResend)
  <2>1. e \in Events \cup {Other}
    BY <1>3
  <2>2. Pushed(queue, e) = Append(queue, e)
    BY <1>3 DEF Pushed
  <2>3. /\ Len(Append(queue, e)) = Len(queue) + 1
        /\ Append(queue, e)[Len(queue) + 1] = e
        /\ \A i \in 1 .. Len(queue) : Append(queue, e)[i] = queue[i]
    BY <2>1
  <2> QED
    BY <2>1, <2>2, <2>3 DEF ToSet
<1> QED
  BY <1>1, <1>2, <1>3

-----------------------------------------------------------------------------
(* The types of the steps.                                                 *)

Open(state) == state \in {"none", "waiting", "backoff"}

\* What a part of a step that goes on with the calls waits writes.
PartTyped(waits) ==
  /\ SocketsTyped' /\ ClientTyped'
  /\ call' \in [Events -> CallStates]
  /\ \A e \in Events : Open(call'[e]) => Open(waits[e])
  /\ dropped' \subseteq Events

Typed == SocketsTyped /\ ClientTyped /\ dropped \subseteq Events

LEMMA CancelledType ==
  ASSUME NEW waits \in [Events -> CallStates]
  PROVE  /\ Cancelled(waits) \in [Events -> CallStates]
         /\ \A e \in Events : Open(Cancelled(waits)[e]) => Open(waits[e])
  BY DEF Cancelled, CallStates, Open

LEMMA FailType ==
  ASSUME Typed, NEW s \in SocketIds, NEW code \in {"reconnect", "destroy"}, NEW ended,
         NEW waits \in [Events -> CallStates], Fail(s, code, ended, waits)
  PROVE  PartTyped(waits)
<1>1. sock' \in [SocketIds -> SocketRecords]
  BY DestroyedType DEF Typed, Fail, SocketsTyped
<1>2. webSockets' \in [WebSockets -> WebSocketRecords]
  BY WithClosedType DEF Typed, Fail
<1>3. CASE sock[s].heard /\ ~isClosed
  BY <1>1, <1>2, <1>3, CancelledType
  DEF Typed, Fail, Dispose, SessionHears, ClientTyped, SocketsTyped, PartTyped
<1>4. CASE ~(sock[s].heard /\ ~isClosed)
  BY <1>1, <1>2, <1>4 DEF Typed, Fail, ClientTyped, SocketsTyped, PartTyped
<1> QED
  BY <1>3, <1>4

LEMMA ReconnectedType ==
  ASSUME SocketsTyped, NEW s \in SocketIds, NEW ended,
         NEW e \in Events \cup {Other, None}
  PROVE  /\ Reconnecting(s, ended, e) \in SocketRecords
         /\ Reconnecting(s, ended, e).ws = None
         /\ Reconnecting(s, ended, e).heard = sock[s].heard
         /\ Reconnecting(s, ended, e).state = "reconnecting"
         /\ Reconnecting(s, ended, e).timers = sock[s].timers + 1
         /\ Reconnecting(s, ended, e).queue = Pushed(sock[s].queue, e)
<1> DEFINE closing == IF Live(sock[s].ws) /\ sock[s].ws # ended THEN sock[s].ws
                      ELSE IF sock[s].closing = ended THEN None ELSE sock[s].closing
<1>1. sock[s] \in SocketRecords
  BY DEF SocketsTyped
<1>2. sock[s].timers + 1 \in Nat /\ sock[s].queue \in Seq(Events \cup {Other})
      /\ closing \in WebSockets \cup {None}
  BY <1>1 DEF SocketRecords
<1>3. Pushed(sock[s].queue, e) \in Seq(Events \cup {Other})
  BY <1>2, PushedType
<1>4. Reconnecting(s, ended, e) =
        [sock[s] EXCEPT !.ws = None, !.isOpen = FALSE, !.state = "reconnecting",
           !.closing = closing, !.timers = sock[s].timers + 1,
           !.queue = Pushed(sock[s].queue, e)]
  BY DEF Reconnecting
<1> HIDE DEF closing
<1> QED
  BY <1>1, <1>2, <1>3, <1>4 DEF SocketRecords

LEMMA ReconnectType ==
  ASSUME Typed, NEW s \in SocketIds, NEW ended, NEW e \in Events \cup {Other, None},
         NEW waits \in [Events -> CallStates], Reconnect(s, ended, e, waits)
  PROVE  PartTyped(waits)
<1>1. CASE sock[s].count >= MaxReconnects
  <2>1. Fail(s, "reconnect", ended, waits)
    BY <1>1 DEF Reconnect
  <2> QED
    BY <2>1, FailType
<1>2. CASE ~(sock[s].count >= MaxReconnects)
  <2>1. sock' \in [SocketIds -> SocketRecords]
    BY <1>2, ReconnectedType DEF Reconnect, Typed, SocketsTyped
  <2>2. webSockets' \in [WebSockets -> WebSocketRecords]
    BY <1>2, WithClosedType DEF Reconnect, Typed
  <2>3. sock[s].queue \in Seq(Events \cup {Other})
    BY DEF Typed, SocketsTyped, SocketRecords
  <2>4. dropped' \subseteq Events
    BY <1>2, <2>3, PushedType DEF Reconnect, Typed
  <2>5. ClientTyped' /\ call' = waits
    BY <1>2 DEF Reconnect, Typed, ClientTyped, client
  <2> QED
    BY <2>1, <2>2, <2>4, <2>5 DEF PartTyped, SocketsTyped
<1> QED
  BY <1>1, <1>2

LEMMA PushType ==
  ASSUME Typed, NEW s \in SocketIds, NEW e \in Events \cup {Other}, Push(s, e)
  PROVE  sock' \in [SocketIds -> SocketRecords] /\ dropped' \subseteq Events
<1>1. sock[s] \in SocketRecords
  BY DEF Typed, SocketsTyped
<1>2. sock[s].queue \in Seq(Events \cup {Other})
  BY <1>1 DEF SocketRecords
<1>3. /\ Pushed(sock[s].queue, e) \in Seq(Events \cup {Other})
      /\ Overflows(sock[s].queue, e) \subseteq Events
  BY <1>2, PushedType
<1>4. [sock[s] EXCEPT !.queue = Pushed(sock[s].queue, e)] \in SocketRecords
  BY <1>1, <1>3 DEF SocketRecords
<1>5. sock' = [sock EXCEPT ![s] = [sock[s] EXCEPT !.queue = Pushed(sock[s].queue, e)]]
  BY DEF Push
<1> QED
  BY <1>3, <1>4, <1>5 DEF Push, Typed, SocketsTyped

LEMMA ResendType ==
  ASSUME Typed, NEW s \in SocketIds, NEW e \in Events,
         NEW waits \in [Events -> CallStates], ResendAfterReconnect(s, e, waits)
  PROVE  PartTyped(waits)
<1>1. CASE sock[s].state # "reconnecting"
  BY <1>1, ReconnectType DEF ResendAfterReconnect
<1>2. CASE sock[s].state = "reconnecting"
  BY <1>2, PushType
  DEF ResendAfterReconnect, PartTyped, Typed, SocketsTyped, ClientTyped, client
<1> QED
  BY <1>1, <1>2

LEMMA ExpiredType ==
  ASSUME Typed, NEW s \in SocketIds, NEW ended \in WebSockets
  PROVE  /\ SocketsExpired(s, ended) \in [SocketIds -> SocketRecords]
         /\ WebSocketsExpired(ended) \in [WebSockets -> WebSocketRecords]
<1>1. ASSUME NEW t \in SocketIds
      PROVE  SocketsExpired(s, ended)[t] \in SocketRecords
  <2>1. sock[t] \in SocketRecords
    BY DEF Typed, SocketsTyped
  <2> DEFINE current == IF sock[t].ws = ended THEN None ELSE sock[t].ws
             closing == IF sock[t].closing = ended THEN None ELSE sock[t].closing
             without == [sock[t] EXCEPT !.closing = closing, !.ws = current]
  <2>2. current \in WebSockets \cup {None} /\ closing \in WebSockets \cup {None}
    BY <2>1 DEF SocketRecords
  <2>3. without \in SocketRecords
    <3> HIDE DEF current, closing
    <3> QED
      BY <2>1, <2>2 DEF SocketRecords
  <2>4. Destroyed(t, ended) \in SocketRecords
    BY DestroyedType DEF Typed
  <2>5. SocketsExpired(s, ended)[t] = IF t = socket THEN Destroyed(t, ended)
                                      ELSE IF t = s THEN without ELSE sock[t]
    BY DEF SocketsExpired
  <2> QED
    BY <2>1, <2>3, <2>4, <2>5
<1>2. SocketsExpired(s, ended) = [t \in SocketIds |-> SocketsExpired(s, ended)[t]]
  BY DEF SocketsExpired
<1>3. WebSocketsExpired(ended) \in [WebSockets -> WebSocketRecords]
  BY WithClosedType, EndedType DEF WebSocketsExpired, Typed, SocketsTyped, ClientTyped
<1> QED
  BY <1>1, <1>2, <1>3

LEMMA FreeType ==
  ASSUME Free # {}
  PROVE  /\ (CHOOSE w \in Free : TRUE) \in WebSockets
         /\ (CHOOSE w \in Free : TRUE) \in Free
  BY DEF Free

LEMMA TokenExpiredType ==
  ASSUME Typed, CallsTyped, NEW s \in SocketIds, NEW ended \in WebSockets,
         TokenExpired(s, ended)
  PROVE  PartTyped(call) /\ accepted' = {}
<1>1. /\ call' \in [Events -> CallStates]
      /\ \A e \in Events : Open(call'[e]) => Open(call[e])
  BY CancelledType DEF TokenExpired, CallsTyped
<1>2. CASE token = "set"
  <2>1. PICK w \in WebSockets :
          /\ socket' = 2 /\ token' = "used"
          /\ sock' = [SocketsExpired(s, ended) EXCEPT ![2] = NewSocket(w)]
          /\ webSockets' = [WebSocketsExpired(ended) EXCEPT ![w] = NewWebSocket(2)]
    BY <1>2, FreeType DEF TokenExpired
  <2>2. SocketsTyped'
    BY <2>1, ExpiredType, NewSocketType, NewWebSocketType DEF SocketsTyped, SocketIds
  <2>3. ClientTyped'
    BY <2>1 DEF TokenExpired, Typed, ClientTyped, SocketIds
  <2> QED
    BY <1>1, <2>2, <2>3 DEF TokenExpired, Typed, PartTyped
<1>3. CASE token # "set"
  <2>1. SocketsTyped'
    BY <1>3, ExpiredType DEF TokenExpired, SocketsTyped
  <2>2. ClientTyped'
    BY <1>3 DEF TokenExpired, Typed, ClientTyped
  <2> QED
    BY <1>1, <2>1, <2>2 DEF TokenExpired, Typed, PartTyped
<1> QED
  BY <1>2, <1>3

\* Types and attempts: the invariant of all the steps, before anything is said
\* about what the WebSockets are used for.
TypeInv == AnalyticsTypeOK /\ AttemptsLeft

LEMMA TypeInvParts ==
  ASSUME TypeInv
  PROVE  Typed /\ CallsTyped /\ HistoryTyped /\ SocketsTyped /\ ClientTyped
  BY TypesInParts DEF TypeInv, Typed, HistoryTyped

\* The parts are the types of the next state too.
LEMMA PartsAreTypes ==
  ASSUME SocketsTyped', ClientTyped', CallsTyped', HistoryTyped'
  PROVE  AnalyticsTypeOK'
<1>1. /\ socket' \in SocketIds \cup {None} /\ isClosed' \in BOOLEAN
      /\ token' \in {"first", "set", "used"}
      /\ session' \in {"connecting", "connected", "closed"}
  BY Zenon DEF ClientTyped
<1>2. /\ call' \in [Events -> {"none", "waiting", "backoff", "resolved", "rejected"}]
      /\ attempts' \in [Events -> 0 .. MaxAttempts]
  BY Zenon DEF CallsTyped, CallStates
<1>3. /\ sock' \in [SocketIds -> SocketRecords]
      /\ webSockets' \in [WebSockets -> WebSocketRecords]
  BY Zenon DEF SocketsTyped
<1>4. /\ accepted' \subseteq Events /\ written' \cup dropped' \cup lost' \subseteq Events
      /\ confused' \in BOOLEAN
  BY DEF HistoryTyped
<1> QED
  BY <1>1, <1>2, <1>3, <1>4, Zenon
  DEF AnalyticsTypeOK, SocketRecords, WebSocketRecords, Answers

\* A part of a step whose calls were open before.
LEMMA PartTypeInv ==
  ASSUME TypeInv, NEW waits, PartTyped(waits), attempts' = attempts,
         \A e \in Events : Open(waits[e]) => Open(call[e]),
         accepted' \subseteq Events, written' \cup lost' \subseteq Events, confused' \in BOOLEAN
  PROVE  TypeInv'
<1>1. CallsTyped' /\ HistoryTyped'
  BY TypeInvParts DEF PartTyped, CallsTyped, HistoryTyped
<1>2. AnalyticsTypeOK'
  BY <1>1, PartsAreTypes DEF PartTyped
<1>3. AttemptsLeft'
  BY DEF TypeInv, AttemptsLeft, PartTyped, Open
<1> QED
  BY <1>2, <1>3 DEF TypeInv

LEMMA OnOpenType ==
  ASSUME TypeInv, NEW w \in WebSockets, OnOpen(w)
  PROVE  TypeInv'
<1>1. webSockets[w] \in WebSocketRecords
  BY TypeInvParts DEF SocketsTyped
<1> DEFINE in == Append(webSockets[w].in, [event |-> None, answer |-> "open"])
<1>2. in \in Seq([event : Events \cup {None}, answer : Answers])
  BY <1>1 DEF WebSocketRecords, Answers
<1>3. [webSockets[w] EXCEPT !.state = "open", !.in = in] \in WebSocketRecords
  <2> HIDE DEF in
  <2> QED
    BY <1>1, <1>2 DEF WebSocketRecords
<1>4. webSockets' = [webSockets EXCEPT ![w] = [webSockets[w] EXCEPT !.state = "open", !.in = in]]
  BY TypeInvParts DEF OnOpen, SocketsTyped
<1>5. SocketsTyped'
  BY <1>3, <1>4, TypeInvParts DEF OnOpen, SocketsTyped
<1>6. PartTyped(call)
  BY <1>5, TypeInvParts
  DEF OnOpen, PartTyped, ClientTyped, CallsTyped, HistoryTyped, client, calls, history
<1> QED
  BY <1>6, PartTypeInv, TypeInvParts DEF OnOpen, HistoryTyped, calls, history

LEMMA AcknowledgeType ==
  ASSUME TypeInv, NEW w \in WebSockets, Acknowledge(w)
  PROVE  TypeInv'
<1> PICK e \in webSockets[w].out, answer \in {"ok", "unexpected", "refused"} :
      webSockets' = [webSockets EXCEPT ![w].out = @ \ {e},
                       ![w].in = Append(@, [event |-> e, answer |-> answer])]
  BY DEF Acknowledge
<1>1. webSockets[w] \in WebSocketRecords
  BY TypeInvParts DEF SocketsTyped
<1> DEFINE in == Append(webSockets[w].in, [event |-> e, answer |-> answer])
           out == webSockets[w].out \ {e}
<1>2. in \in Seq([event : Events \cup {None}, answer : Answers]) /\ out \subseteq Events
  BY <1>1 DEF WebSocketRecords, Answers
<1>3. [webSockets[w] EXCEPT !.out = out, !.in = in] \in WebSocketRecords
  <2> HIDE DEF in, out
  <2> QED
    BY <1>1, <1>2 DEF WebSocketRecords
<1>4. webSockets' = [webSockets EXCEPT ![w] = [webSockets[w] EXCEPT !.out = out, !.in = in]]
  BY TypeInvParts DEF SocketsTyped
<1>5. SocketsTyped'
  <2>1. sock' = sock
    BY DEF Acknowledge
  <2>2. SocketsTyped
    BY TypeInvParts
  <2> HIDE DEF in, out
  <2> QED
    BY <1>3, <1>4, <2>1, <2>2 DEF SocketsTyped
<1>6. PartTyped(call)
  BY <1>5, TypeInvParts
  DEF Acknowledge, PartTyped, ClientTyped, CallsTyped, HistoryTyped, client, calls, history
<1> QED
  BY <1>6, PartTypeInv, TypeInvParts DEF Acknowledge, HistoryTyped, calls, history

LEMMA HeadAndTail ==
  ASSUME NEW S, NEW queue \in Seq(S), queue # <<>>
  PROVE  Head(queue) \in S /\ Tail(queue) \in Seq(S)
  OBVIOUS

\* The first message of a WebSocket is read.
LEMMA ReadType ==
  ASSUME SocketsTyped, NEW w \in WebSockets, webSockets[w].in # <<>>
  PROVE  /\ Head(webSockets[w].in) \in [event : Events \cup {None}, answer : Answers]
         /\ Tail(webSockets[w].in) \in Seq([event : Events \cup {None}, answer : Answers])
<1>1. webSockets[w].in \in Seq([event : Events \cup {None}, answer : Answers])
  BY DEF SocketsTyped, WebSocketRecords
<1> QED
  BY <1>1, HeadAndTail, Zenon

LEMMA SendAgainType ==
  ASSUME SocketsTyped, NEW s \in SocketIds
  PROVE  SendAgain(s) \ {Other} \subseteq Events
<1>1. sock[s].queue \in Seq(Events \cup {Other})
  BY DEF SocketsTyped, SocketRecords
<1> QED
  BY <1>1 DEF SendAgain, ToSet

LEMMA HandleOpenType ==
  ASSUME TypeInv, NEW w \in WebSockets, NEW s \in SocketIds,
         webSockets[w].in # <<>>, HandleOpen(s, w)
  PROVE  TypeInv'
<1>0. PICK failed \in SUBSET (SendAgain(s) \cap Events) :
      LET sent == SendAgain(s) \ ({Other} \cup failed)
      IN /\ webSockets' = [x \in WebSockets |-> [webSockets[x] EXCEPT
              !.in = IF x = w THEN Tail(@) ELSE @,
              !.out = IF x = sock[s].ws THEN @ \cup sent ELSE @]]
         /\ written' = written \cup sent
         /\ lost' = lost \cup failed
  BY Zenon DEF HandleOpen
<1> DEFINE opened == [sock[s] EXCEPT !.isOpen = TRUE, !.state = "connected",
                                     !.count = 0, !.queue = <<>>]
           in(x) == IF x = w THEN Tail(webSockets[x].in) ELSE webSockets[x].in
           out(x) == IF x = sock[s].ws
                     THEN webSockets[x].out \cup (SendAgain(s) \ ({Other} \cup failed))
                     ELSE webSockets[x].out
           read(x) == [webSockets[x] EXCEPT !.in = in(x), !.out = out(x)]
<1>1. opened \in SocketRecords
  <2>1. sock[s] \in SocketRecords /\ <<>> \in Seq(Events \cup {Other})
    BY TypeInvParts DEF SocketsTyped
  <2> QED
    BY <2>1 DEF SocketRecords
<1>2. sock' = [sock EXCEPT ![s] = opened]
  BY TypeInvParts DEF HandleOpen, SocketsTyped
<1>3. sock' \in [SocketIds -> SocketRecords]
  <2> HIDE DEF opened
  <2> QED
    BY <1>1, <1>2, TypeInvParts DEF SocketsTyped
<1>4. ASSUME NEW x \in WebSockets
      PROVE  read(x) \in WebSocketRecords
  <2>1. webSockets[x] \in WebSocketRecords
    BY TypeInvParts DEF SocketsTyped
  <2>2. /\ in(x) \in Seq([event : Events \cup {None}, answer : Answers])
        /\ out(x) \subseteq Events
    BY <2>1, TypeInvParts, ReadType, SendAgainType DEF WebSocketRecords
  <2> HIDE DEF in, out
  <2> QED
    BY <2>1, <2>2 DEF WebSocketRecords
<1>5. webSockets' = [x \in WebSockets |-> read(x)]
  BY <1>0
<1>6. webSockets' \in [WebSockets -> WebSocketRecords]
  <2> HIDE DEF read
  <2> QED
    BY <1>4, <1>5
<1>7. session' \in {"connecting", "connected", "closed"}
  BY TypeInvParts DEF HandleOpen, Connected, ClientTyped
<1>8. PartTyped(call)
  BY <1>3, <1>6, <1>7, TypeInvParts
  DEF HandleOpen, PartTyped, SocketsTyped, ClientTyped, CallsTyped, HistoryTyped, calls
<1>9. written' \cup lost' \subseteq Events
  BY <1>0, TypeInvParts, SendAgainType DEF HistoryTyped
<1>10. confused' \in BOOLEAN
  BY DEF HandleOpen
<1> QED
  BY <1>8, <1>9, <1>10, PartTypeInv, TypeInvParts DEF HandleOpen, HistoryTyped, calls

LEMMA HandleAcknowledgeType ==
  ASSUME TypeInv, NEW w \in WebSockets, NEW s \in SocketIds,
         webSockets[w].in # <<>>, NEW e \in Events \cup {None},
         NEW answer \in Answers, answer # "open", HandleAcknowledge(s, w, e, answer)
  PROVE  TypeInv'
<1>1. webSockets[w] \in WebSocketRecords
  BY TypeInvParts DEF SocketsTyped
<1> DEFINE in == Tail(webSockets[w].in)
<1>2. in \in Seq([event : Events \cup {None}, answer : Answers])
  BY TypeInvParts, ReadType
<1>3. webSockets' = [webSockets EXCEPT ![w] = [webSockets[w] EXCEPT !.in = in]]
  BY TypeInvParts DEF HandleAcknowledge, SocketsTyped
<1>4. SocketsTyped'
  <2> HIDE DEF in
  <2>1. [webSockets[w] EXCEPT !.in = in] \in WebSocketRecords
    BY <1>1, <1>2 DEF WebSocketRecords
  <2> QED
    BY <1>3, <2>1, TypeInvParts DEF HandleAcknowledge, SocketsTyped
<1>5. /\ call' \in [Events -> CallStates]
      /\ \A x \in Events : Open(call'[x]) => Open(call[x])
  <2>1. CASE ~sock[s].heard \/ call[e] # "waiting"
    BY <2>1, TypeInvParts DEF HandleAcknowledge, CallsTyped
  <2>2. CASE ~(~sock[s].heard \/ call[e] # "waiting")
    <3>1. PICK to \in {"resolved", "backoff", "rejected"} :
            call' = [call EXCEPT ![e] = to]
      BY <2>2 DEF HandleAcknowledge, Answers
    <3> QED
      BY <2>2, <3>1, TypeInvParts DEF CallsTyped, CallStates, Open
  <2> QED
    BY <2>1, <2>2
<1>6. PartTyped(call)
  BY <1>4, <1>5, TypeInvParts
  DEF HandleAcknowledge, PartTyped, ClientTyped, HistoryTyped, client, history
<1> QED
  BY <1>6, PartTypeInv, TypeInvParts DEF HandleAcknowledge, HistoryTyped, history

LEMMA OnMessageType ==
  ASSUME TypeInv, NEW w \in WebSockets, OnMessage(w)
  PROVE  TypeInv'
<1> DEFINE s == webSockets[w].owner
           message == Head(webSockets[w].in)
<1>1. /\ s \in SocketIds /\ message.event \in Events \cup {None}
      /\ message.answer \in Answers
  BY TypeInvParts, ReadType DEF OnMessage, SocketsTyped, WebSocketRecords
<1>2. CASE message.answer = "open"
  BY <1>1, <1>2, HandleOpenType DEF OnMessage
<1>3. CASE message.answer # "open"
  BY <1>1, <1>3, HandleAcknowledgeType DEF OnMessage
<1> QED
  BY <1>2, <1>3

LEMMA OnCloseType ==
  ASSUME TypeInv, NEW w \in WebSockets,
         NEW code \in {"reconnect", "destroy", "broken", "failed", "expired"},
         OnClose(w, code)
  PROVE  TypeInv'
<1> DEFINE s == webSockets[w].owner
<1>1. s \in SocketIds
  BY TypeInvParts DEF SocketsTyped, WebSocketRecords
<1>2. call \in [Events -> CallStates] /\ None \in Events \cup {Other, None}
  BY TypeInvParts DEF CallsTyped
<1>3. confused' \in BOOLEAN /\ written' \cup lost' \subseteq Events /\ attempts' = attempts
  <2>1. confused' \in BOOLEAN
    <3> DEFINE late == /\ webSockets[w].state = "closing"
                       /\ code # "destroy" /\ ~IsInternalReconnectClose(w, code)
    <3>1. confused' = (confused \/ late)
      BY DEF OnClose
    <3> HIDE DEF late
    <3> QED
      BY <3>1
  <2> QED
    BY <2>1, TypeInvParts DEF OnClose, HistoryTyped
<1>4. CASE IsInternalReconnectClose(w, code)
  <2>1. webSockets' = [webSockets EXCEPT ![w] = Ended(w)]
    BY <1>4 DEF OnClose
  <2>2. sock' = [sock EXCEPT ![s].closing = None]
    BY <1>4 DEF OnClose
  <2>3. SocketsTyped'
    <3>1. sock[s] \in SocketRecords
      BY <1>1, TypeInvParts DEF SocketsTyped
    <3>2. [sock[s] EXCEPT !.closing = None] \in SocketRecords
      BY <3>1 DEF SocketRecords
    <3>3. sock' = [sock EXCEPT ![s] = [sock[s] EXCEPT !.closing = None]]
      BY <2>2
    <3>4. sock' \in [SocketIds -> SocketRecords]
      BY <3>2, <3>3, TypeInvParts DEF SocketsTyped
    <3> QED
      BY <2>1, <3>4, TypeInvParts, EndedType DEF SocketsTyped
  <2>4. UNCHANGED <<client, call, accepted, dropped>>
    BY <1>4 DEF OnClose
  <2>5. PartTyped(call)
    BY <2>3, <2>4, TypeInvParts
    DEF PartTyped, ClientTyped, CallsTyped, HistoryTyped, client
  <2> QED
    BY <1>3, <2>4, <2>5, PartTypeInv, TypeInvParts DEF HistoryTyped
<1>5. CASE ~IsInternalReconnectClose(w, code) /\ code = "expired"
  <2>1. TokenExpired(s, w)
    BY <1>5 DEF OnClose
  <2>2. PartTyped(call) /\ accepted' = {}
    BY <1>1, <2>1, TypeInvParts, TokenExpiredType
  <2> QED
    BY <1>3, <2>2, PartTypeInv
<1>6. CASE ~IsInternalReconnectClose(w, code) /\ code # "expired"
  <2>1. /\ Reconnect(s, w, None, call) \/ Fail(s, "destroy", w, call)
        /\ accepted' = accepted
    BY <1>6 DEF OnClose
  <2>2. PartTyped(call)
    BY <1>1, <1>2, <2>1, TypeInvParts, ReconnectType, FailType
  <2> QED
    BY <1>3, <2>1, <2>2, PartTypeInv, TypeInvParts DEF HistoryTyped
<1> QED
  BY <1>4, <1>5, <1>6

LEMMA ReconnectTimerType ==
  ASSUME TypeInv, NEW s \in SocketIds, ReconnectTimer(s)
  PROVE  TypeInv'
<1> PICK w \in WebSockets :
      /\ webSockets' = [webSockets EXCEPT ![w] = NewWebSocket(s)]
      /\ sock' = [sock EXCEPT ![s].timers = @ - 1, ![s].ws = w, ![s].count = @ + 1]
  BY FreeType DEF ReconnectTimer
<1>1. sock[s] \in SocketRecords
  BY TypeInvParts DEF SocketsTyped
<1> DEFINE timers == sock[s].timers - 1
           count == sock[s].count + 1
           made == [sock[s] EXCEPT !.timers = timers, !.ws = w, !.count = count]
<1>2. timers \in Nat /\ count \in Nat
  <2>1. sock[s].timers \in Nat /\ sock[s].count \in Nat
    BY <1>1 DEF SocketRecords
  <2>2. sock[s].timers > 0
    BY DEF ReconnectTimer
  <2> QED
    BY <2>1, <2>2
<1>3. made \in SocketRecords
  <2> HIDE DEF timers, count
  <2> QED
    BY <1>1, <1>2 DEF SocketRecords
<1>4. sock' = [sock EXCEPT ![s] = made]
  BY TypeInvParts DEF SocketsTyped
<1>5. SocketsTyped'
  <2> HIDE DEF made
  <2> QED
    BY <1>3, <1>4, TypeInvParts, NewWebSocketType DEF SocketsTyped
<1>6. PartTyped(call)
  BY <1>5, TypeInvParts
  DEF ReconnectTimer, PartTyped, ClientTyped, CallsTyped, HistoryTyped, client, calls, history
<1> QED
  BY <1>6, PartTypeInv, TypeInvParts DEF ReconnectTimer, HistoryTyped, calls, history

\* What a Socket is after a WebSocket that could not be made.
RetriedIs(s) ==
  /\ sock' \in [SocketIds -> SocketRecords]
  /\ \A t \in SocketIds : t # s => sock'[t] = sock[t]
  /\ sock'[s].ws = None /\ sock'[s].heard = sock[s].heard
  /\ sock'[s].state = "reconnecting"
  /\ sock'[s].timers = sock[s].timers /\ sock'[s].timers > 0
  /\ sock'[s].queue = sock[s].queue

LEMMA RetriedType ==
  ASSUME SocketsTyped, NEW s \in SocketIds, ConnectThrows(s),
         ~(sock[s].count >= MaxReconnects)
  PROVE  RetriedIs(s)
<1> DEFINE base == Reconnecting(s, None, None)
           timers == base.timers - 1
           count == base.count + 1
           next == [base EXCEPT !.timers = timers, !.count = count]
<1>1. sock[s] \in SocketRecords /\ sock[s].timers > 0
  BY DEF SocketsTyped, ConnectThrows
<1>2. /\ base \in SocketRecords
      /\ base.ws = None /\ base.heard = sock[s].heard /\ base.state = "reconnecting"
      /\ base.timers = sock[s].timers + 1
      /\ base.queue = sock[s].queue
  BY ReconnectedType DEF Pushed
<1>3. timers = sock[s].timers /\ timers \in Nat /\ count \in Nat
  BY <1>1, <1>2 DEF SocketRecords
<1>4. sock' = [sock EXCEPT ![s] = next]
  BY DEF ConnectThrows
<1> HIDE DEF base, timers, count
<1>5. /\ next \in SocketRecords
      /\ next.ws = base.ws /\ next.heard = base.heard /\ next.state = base.state
      /\ next.timers = timers /\ next.queue = base.queue
  BY <1>2, <1>3 DEF SocketRecords
<1> HIDE DEF next
<1> QED
  BY <1>1, <1>2, <1>3, <1>4, <1>5 DEF RetriedIs, SocketsTyped

LEMMA ConnectThrowsType ==
  ASSUME TypeInv, NEW s \in SocketIds, ConnectThrows(s)
  PROVE  TypeInv'
<1>1. call \in [Events -> CallStates]
  BY TypeInvParts DEF CallsTyped
<1>2. CASE sock[s].count >= MaxReconnects
  <2>1. Fail(s, "reconnect", None, call)
    BY <1>2 DEF ConnectThrows
  <2> QED
    BY <1>1, <2>1, FailType, PartTypeInv, TypeInvParts DEF ConnectThrows, HistoryTyped
<1>3. CASE ~(sock[s].count >= MaxReconnects)
  <2>1. RetriedIs(s)
    BY <1>3, TypeInvParts, RetriedType
  <2>2. webSockets' \in [WebSockets -> WebSocketRecords]
    BY <1>3, TypeInvParts, WithClosedType DEF ConnectThrows
  <2>3. UNCHANGED <<client, call, dropped>>
    BY <1>3 DEF ConnectThrows
  <2>4. PartTyped(call)
    BY <2>1, <2>2, <2>3, TypeInvParts
    DEF RetriedIs, PartTyped, SocketsTyped, ClientTyped, CallsTyped, HistoryTyped, client
  <2> QED
    BY <2>4, PartTypeInv, TypeInvParts DEF ConnectThrows, HistoryTyped
<1> QED
  BY <1>2, <1>3

\* Nothing but the caller's part changes.
LEMMA SendWhenClosedType ==
  ASSUME TypeInv, NEW e \in Events, SendWhenClosed(e)
  PROVE  TypeInv'
<1>1. PartTyped(call)
  BY TypeInvParts DEF SendWhenClosed, PartTyped, SocketsTyped, ClientTyped, CallsTyped,
     HistoryTyped, CallStates, Open, client, history
<1> QED
  BY <1>1, PartTypeInv, TypeInvParts DEF SendWhenClosed, HistoryTyped, history

LEMMA SendWhenConnectingType ==
  ASSUME TypeInv, NEW e \in Events, SendWhenConnecting(e)
  PROVE  TypeInv'
<1>1. socket \in SocketIds
  BY TypeInvParts DEF SendWhenConnecting, Closed, ClientTyped
<1>2. sock' \in [SocketIds -> SocketRecords] /\ dropped' \subseteq Events
  BY <1>1, TypeInvParts, PushType DEF SendWhenConnecting
<1>3. PartTyped(call)
  BY <1>2, TypeInvParts DEF SendWhenConnecting, PartTyped, SocketsTyped, ClientTyped,
     CallsTyped, HistoryTyped, CallStates, Open, client
<1> QED
  BY <1>3, PartTypeInv, TypeInvParts DEF SendWhenConnecting, HistoryTyped

LEMMA SendOtherType ==
  ASSUME TypeInv, SendOther
  PROVE  TypeInv'
<1>1. socket \in SocketIds
  BY TypeInvParts DEF SendOther, Closed, ClientTyped
<1>2. sock' \in [SocketIds -> SocketRecords] /\ dropped' \subseteq Events
  BY <1>1, TypeInvParts, PushType DEF SendOther
<1>3. PartTyped(call)
  BY <1>2, TypeInvParts DEF SendOther, PartTyped, SocketsTyped, ClientTyped, CallsTyped,
     HistoryTyped, client, calls
<1> QED
  BY <1>3, PartTypeInv, TypeInvParts DEF SendOther, HistoryTyped, calls

\* A send writes, or waits for a reconnect.
LEMMA SocketSendType ==
  ASSUME TypeInv, socket \in SocketIds, NEW e \in Events, SocketSend(e)
  PROVE  /\ PartTyped([call EXCEPT ![e] = "waiting"])
         /\ accepted' \subseteq Events /\ written' \cup lost' \subseteq Events /\ confused' \in BOOLEAN
<1> DEFINE waits == [call EXCEPT ![e] = "waiting"]
<1>1. waits \in [Events -> CallStates]
  BY TypeInvParts DEF CallsTyped, CallStates
<1>2. accepted' \subseteq Events /\ written' \cup lost' \subseteq Events /\ confused' \in BOOLEAN
  BY TypeInvParts DEF SocketSend, HistoryTyped
<1>3. CASE /\ sock[socket].isOpen /\ CanSend(socket)
           /\ webSockets' = [webSockets EXCEPT ![sock[socket].ws].out = @ \cup {e}]
           /\ written' = written \cup {e} /\ call' = waits
           /\ UNCHANGED <<client, sock, dropped>>
  <2> DEFINE current == sock[socket].ws
             out == webSockets[current].out \cup {e}
  <2>1. current \in WebSockets
    BY <1>3, TypeInvParts DEF CanSend, SocketsTyped, SocketRecords
  <2>2. webSockets[current] \in WebSocketRecords
    BY <2>1, TypeInvParts DEF SocketsTyped
  <2>3. out \subseteq Events
    BY <2>2 DEF WebSocketRecords
  <2>4. [webSockets[current] EXCEPT !.out = out] \in WebSocketRecords
    <3> HIDE DEF current, out
    <3> QED
      BY <2>2, <2>3 DEF WebSocketRecords
  <2>5. webSockets' = [webSockets EXCEPT ![current] = [webSockets[current] EXCEPT !.out = out]]
    BY <1>3
  <2>6. SocketsTyped'
    <3> HIDE DEF current, out
    <3> QED
      BY <1>3, <2>1, <2>4, <2>5, TypeInvParts DEF SocketsTyped
  <2>7. call' = waits /\ UNCHANGED <<client, dropped>>
    BY <1>3
  <2> HIDE DEF waits
  <2>8. PartTyped(waits)
    BY <1>1, <2>6, <2>7, TypeInvParts DEF PartTyped, ClientTyped, HistoryTyped, client
  <2> QED
    BY <1>2, <2>8 DEF waits
<1>4. CASE ResendAfterReconnect(socket, e, waits)
  <2> HIDE DEF waits
  <2>1. PartTyped(waits)
    BY <1>1, <1>4, TypeInvParts, ResendType
  <2> QED
    BY <1>2, <2>1 DEF waits
<1> QED
  BY <1>3, <1>4 DEF SocketSend

LEMMA SendClientEventType ==
  ASSUME TypeInv, NEW e \in Events, SendClientEvent(e)
  PROVE  TypeInv'
<1>1. socket \in SocketIds
  BY TypeInvParts DEF SendClientEvent, Closed, ClientTyped
<1>2. \A x \in Events : Open([call EXCEPT ![e] = "waiting"][x]) => Open(call[x])
  BY TypeInvParts DEF SendClientEvent, CallsTyped, Open
<1> QED
  BY <1>1, <1>2, SocketSendType, PartTypeInv DEF SendClientEvent

LEMMA AcknowledgeTimesOutType ==
  ASSUME TypeInv, NEW e \in Events, AcknowledgeTimesOut(e)
  PROVE  TypeInv'
<1> DEFINE waits == [call EXCEPT ![e] = "rejected"]
<1>1. /\ waits \in [Events -> CallStates]
      /\ \A x \in Events : Open(waits[x]) => Open(call[x])
  BY TypeInvParts DEF CallsTyped, CallStates, Open
<1>2. /\ attempts' = attempts
      /\ accepted' \subseteq Events /\ written' \cup lost' \subseteq Events /\ confused' \in BOOLEAN
  BY TypeInvParts DEF AcknowledgeTimesOut, HistoryTyped
<1>3. CASE socket = None
  <2>1. call' = waits /\ UNCHANGED <<client, sock, webSockets, dropped>>
    BY <1>3 DEF AcknowledgeTimesOut
  <2> HIDE DEF waits
  <2>2. PartTyped(waits)
    BY <1>1, <2>1, TypeInvParts DEF PartTyped, SocketsTyped, ClientTyped, HistoryTyped, client
  <2> QED
    BY <1>1, <1>2, <2>2, PartTypeInv
<1>4. CASE socket # None
  <2>1. socket \in SocketIds /\ ResendAfterReconnect(socket, e, waits)
    BY <1>4, TypeInvParts DEF AcknowledgeTimesOut, ClientTyped
  <2> HIDE DEF waits
  <2>2. PartTyped(waits)
    BY <1>1, <2>1, TypeInvParts, ResendType
  <2> QED
    BY <1>1, <1>2, <2>2, PartTypeInv
<1> QED
  BY <1>3, <1>4

LEMMA TryAgainType ==
  ASSUME TypeInv, NEW e \in Events, TryAgain(e)
  PROVE  TypeInv'
<1>1. /\ MaxAttempts \in Nat /\ attempts[e] \in 0 .. MaxAttempts
      /\ attempts[e] < MaxAttempts
  BY BoundsAssumption, TypeInvParts DEF TryAgain, TypeInv, AttemptsLeft, CallsTyped
<1>2. /\ attempts' = [attempts EXCEPT ![e] = attempts[e] + 1]
      /\ attempts' \in [Events -> 0 .. MaxAttempts]
  BY <1>1, TypeInvParts DEF TryAgain, CallsTyped
<1>3. CASE socket = None \/ attempts[e] + 1 = MaxAttempts
  <2>1. /\ call' = [call EXCEPT ![e] = "rejected"]
        /\ UNCHANGED <<client, sock, webSockets, history>>
    BY <1>3 DEF TryAgain
  <2>2. CallsTyped'
    BY <1>2, <2>1, TypeInvParts DEF CallsTyped, CallStates
  <2>3. AnalyticsTypeOK'
    BY <2>1, <2>2, Zenon DEF TypeInv, AnalyticsTypeOK, CallsTyped, CallStates, client, history
  <2>4. AttemptsLeft'
    BY <1>2, <2>1, TypeInvParts DEF TypeInv, AttemptsLeft, CallsTyped
  <2> QED
    BY <2>3, <2>4 DEF TypeInv
<1>4. CASE ~(socket = None \/ attempts[e] + 1 = MaxAttempts)
  <2>1. SocketSend(e) /\ socket \in SocketIds
    BY <1>4, TypeInvParts DEF TryAgain, ClientTyped
  <2>2. /\ PartTyped([call EXCEPT ![e] = "waiting"])
        /\ accepted' \subseteq Events /\ written' \cup lost' \subseteq Events /\ confused' \in BOOLEAN
    BY <2>1, SocketSendType
  <2>3. AnalyticsTypeOK'
    <3>1. CallsTyped' /\ HistoryTyped'
      BY <1>2, <2>2 DEF PartTyped, CallsTyped, HistoryTyped
    <3> QED
      BY <2>2, <3>1, PartsAreTypes DEF PartTyped
  <2>4. AttemptsLeft'
    <3> SUFFICES ASSUME NEW x \in Events, Open(call'[x])
                 PROVE  attempts'[x] < MaxAttempts
      BY DEF AttemptsLeft, Open
    <3>1. CASE x = e
      BY <1>1, <1>2, <1>4, <3>1, TypeInvParts DEF CallsTyped
    <3>2. CASE x # e
      <4>1. Open(call[x]) /\ attempts'[x] = attempts[x]
        BY <1>2, <2>2, <3>2, TypeInvParts DEF PartTyped, CallsTyped, Open
      <4> QED
        BY <4>1 DEF TypeInv, AttemptsLeft, Open
    <3> QED
      BY <3>1, <3>2
  <2> QED
    BY <2>3, <2>4 DEF TypeInv
<1> QED
  BY <1>3, <1>4

LEMMA ContextType ==
  ASSUME TypeInv, SetNewSkyWayAuthToken \/ SessionCloses \/ UNCHANGED analytics
  PROVE  TypeInv'
<1>1. /\ token' \in {"first", "set", "used"}
      /\ session' \in {"connecting", "connected", "closed"}
  BY TypeInvParts
  DEF SetNewSkyWayAuthToken, SessionCloses, analytics, client, ClientTyped
<1>2. UNCHANGED <<socket, isClosed, calls, sock, webSockets, history>>
  BY DEF SetNewSkyWayAuthToken, SessionCloses, analytics, client
<1>3. AnalyticsTypeOK'
  BY <1>1, <1>2, Zenon DEF TypeInv, AnalyticsTypeOK, calls, history
<1>4. AttemptsLeft'
  BY <1>2 DEF TypeInv, AttemptsLeft, calls
<1> QED
  BY <1>3, <1>4 DEF TypeInv


LEMMA AnalyticsInitTypes == AnalyticsInit => TypeInv
<1> SUFFICES ASSUME AnalyticsInit PROVE TypeInv
  OBVIOUS
<1> PICK first \in WebSockets :
      /\ sock = [s \in SocketIds |-> IF s = 1 THEN NewSocket(first) ELSE NoSocket]
      /\ webSockets = [w \in WebSockets |->
           IF w = first THEN NewWebSocket(1)
           ELSE [NewWebSocket(1) EXCEPT !.state = "closed"]]
  BY BoundsAssumption DEF AnalyticsInit
<1>1. NewSocket(first) \in SocketRecords /\ NoSocket \in SocketRecords
  <2>1. NewSocket(first) \in SocketRecords /\ NewSocket(None) \in SocketRecords
    BY NewSocketType
  <2> QED
    BY <2>1 DEF NoSocket, SocketRecords
<1>2. /\ NewWebSocket(1) \in WebSocketRecords
      /\ [NewWebSocket(1) EXCEPT !.state = "closed"] \in WebSocketRecords
  <2>1. NewWebSocket(1) \in WebSocketRecords
    BY NewWebSocketType DEF SocketIds
  <2> QED
    BY <2>1 DEF WebSocketRecords
<1>3. SocketsTyped
  BY <1>1, <1>2 DEF SocketsTyped
<1>4. ClientTyped /\ HistoryTyped
  BY DEF AnalyticsInit, ClientTyped, HistoryTyped, SocketIds
<1>5. CallsTyped /\ AttemptsLeft
  BY BoundsAssumption DEF AnalyticsInit, CallsTyped, CallStates, AttemptsLeft
<1> QED
  BY <1>3, <1>4, <1>5, TypesInParts DEF TypeInv

LEMMA AnalyticsNextType == TypeInv /\ [AnalyticsNext]_analytics => TypeInv'
<1> SUFFICES ASSUME TypeInv, [AnalyticsNext]_analytics PROVE TypeInv'
  OBVIOUS
<1>1. ASSUME NEW w \in WebSockets,
             \/ OnOpen(w) \/ OnMessage(w) \/ Acknowledge(w)
             \/ \E code \in {"reconnect", "destroy", "broken", "failed", "expired"} :
                  OnClose(w, code)
      PROVE  TypeInv'
  BY <1>1, OnOpenType, OnMessageType, AcknowledgeType, OnCloseType
<1>2. ASSUME NEW e \in Events, Report(e) \/ AcknowledgeTimesOut(e) \/ TryAgain(e)
      PROVE  TypeInv'
  BY <1>2, SendWhenClosedType, SendWhenConnectingType, SendClientEventType,
     AcknowledgeTimesOutType, TryAgainType DEF Report
<1> QED
  BY <1>1, <1>2, ReconnectTimerType, ConnectThrowsType, SendOtherType, ContextType
  DEF AnalyticsNext

\* The parts of the type of the analytics client are kept together.
THEOREM AnalyticsTypeCorrect == AnalyticsSpec => []AnalyticsTypeOK
<1>1. TypeInv => AnalyticsTypeOK
  BY DEF TypeInv
<1> QED
  BY <1>1, AnalyticsInitTypes, AnalyticsNextType, PTL DEF AnalyticsSpec

-----------------------------------------------------------------------------
(* What the WebSockets are used for.                                       *)

\* Sockets and WebSockets are left alone but for what is written, read and
\* queued, and but for a WebSocket that opens.
LineUnchanged ==
  /\ socket' = socket /\ isClosed' = isClosed /\ confused' = confused
  /\ \A s \in SocketIds :
       /\ sock'[s].ws = sock[s].ws /\ sock'[s].closing = sock[s].closing
       /\ sock'[s].heard = sock[s].heard /\ sock'[s].timers = sock[s].timers
       /\ sock'[s].state = sock[s].state
  /\ \A w \in WebSockets :
       /\ webSockets'[w].owner = webSockets[w].owner
       /\ \/ webSockets'[w].state = webSockets[w].state
          \/ webSockets'[w].state = "open" /\ webSockets[w].state = "connecting"

LEMMA LineFrame ==
  ASSUME TypeInv, LineInv, LineUnchanged
  PROVE  LineInv'
<1> USE DEF LineUnchanged, LineInv
<1>0. \A s \in SocketIds : sock[s].ws \in WebSockets \cup {None}
  BY TypeInvParts DEF SocketsTyped, SocketRecords
<1>1. \A w \in WebSockets : w # None
  BY NoneAssumption
<1>2. OwnersKnown' /\ HeardIsClients'
  BY <1>0 DEF OwnersKnown, HeardIsClients
<1>3. SocketIsServed'
  BY <1>0 DEF SocketIsServed
<1>4. ASSUME ~confused' PROVE Orderly'
  <2>1. Orderly
    BY <1>4
  <2>2. ClosedHasNone' /\ ClientHears' /\ OneTimer'
    BY <2>1 DEF Orderly, ClosedHasNone, ClientHears, OneTimer
  <2>3. LiveIsCurrent'
    <3> SUFFICES ASSUME NEW w \in WebSockets, Live(w)'
                 PROVE  /\ sock'[webSockets'[w].owner].heard
                        /\ sock'[webSockets'[w].owner].ws = w
      BY DEF LiveIsCurrent
    <3>1. Live(w) /\ webSockets[w].owner \in SocketIds
      BY <1>1, TypeInvParts DEF Live, SocketsTyped, WebSocketRecords
    <3> QED
      BY <2>1, <3>1 DEF Orderly, LiveIsCurrent
  <2>4. CurrentIsLive'
    BY <1>0, <2>1 DEF Orderly, CurrentIsLive
  <2> QED
    BY <2>2, <2>3, <2>4 DEF Orderly
<1> QED
  BY <1>2, <1>3, <1>4

\* Of the WebSockets, one has ended and that of the Socket is told to close.
LEMMA WithClosedIs ==
  ASSUME TypeInv, NEW s \in SocketIds, NEW code, NEW ended, NEW w \in WebSockets
  PROVE  LET told == WithClosed(s, code, ended)
         IN /\ told[w].owner = webSockets[w].owner
            /\ w = ended => told[w].state = "closed"
            /\ w # ended /\ w = sock[s].ws /\ Live(w) => told[w].state = "closing"
            /\ w # ended /\ ~(w = sock[s].ws /\ Live(w)) => told[w] = webSockets[w]
<1>1. webSockets[w] \in WebSocketRecords
  BY TypeInvParts DEF SocketsTyped
<1>2. CASE w = ended
  BY <1>2, EndedType, TypeInvParts DEF WithClosed
<1>3. CASE w # ended /\ w = sock[s].ws /\ Live(w)
  BY <1>1, <1>3 DEF WithClosed, WebSocketRecords
<1>4. CASE w # ended /\ ~(w = sock[s].ws /\ Live(w))
  BY <1>4 DEF WithClosed
<1> QED
  BY <1>2, <1>3, <1>4

\* Sockets and what they refer to, in this state.
LEMMA SocketFacts ==
  ASSUME TypeInv
  PROVE  /\ None \notin WebSockets /\ None \notin SocketIds
         /\ \A s \in SocketIds : /\ sock[s].ws \in WebSockets \cup {None}
                                 /\ sock[s].closing \in WebSockets \cup {None}
                                 /\ sock[s].timers \in Nat
         /\ \A w \in WebSockets : webSockets[w].owner \in SocketIds
         /\ socket \in SocketIds \cup {None}
<1>1. /\ None \notin WebSockets /\ None \notin SocketIds
      /\ socket \in SocketIds \cup {None}
  BY NoneAssumption, TypeInvParts DEF SocketIds, ClientTyped
<1>2. \A s \in SocketIds : /\ sock[s].ws \in WebSockets \cup {None}
                           /\ sock[s].closing \in WebSockets \cup {None}
                           /\ sock[s].timers \in Nat
  BY TypeInvParts DEF SocketsTyped, SocketRecords
<1>3. \A w \in WebSockets : webSockets[w].owner \in SocketIds
  BY TypeInvParts DEF SocketsTyped, WebSocketRecords
<1> QED
  BY <1>1, <1>2, <1>3

\* A Socket that is destroyed takes its WebSocket with it, and nobody else's.
LEMMA FailLine ==
  ASSUME TypeInv, LineInv, NEW s \in SocketIds, NEW code \in {"reconnect", "destroy"},
         NEW ended \in WebSockets \cup {None}, NEW waits, Fail(s, code, ended, waits),
         confused => confused', ended # None => webSockets[ended].owner = s
  PROVE  LineInv'
<1>1. /\ sock' = [sock EXCEPT ![s] = Destroyed(s, ended)]
      /\ webSockets' = WithClosed(s, code, ended)
      /\ \/ sock[s].heard /\ ~isClosed /\ socket' = None
         \/ /\ ~(sock[s].heard /\ ~isClosed)
            /\ socket' = socket /\ isClosed' = isClosed
  BY DEF Fail, Dispose
<1>2. /\ ~sock'[s].heard /\ sock'[s].closing = None
      /\ sock'[s].ws = IF sock[s].ws = ended THEN None ELSE sock[s].ws
      /\ sock[s].timers <= 1 => sock'[s].timers = 0
      /\ \A t \in SocketIds \ {s} : sock'[t] = sock[t]
  BY <1>1, TypeInvParts, DestroyedType DEF SocketsTyped
<1>3. \A w \in WebSockets :
        /\ webSockets'[w].owner = webSockets[w].owner
        /\ w = ended => webSockets'[w].state = "closed"
        /\ w # ended /\ w = sock[s].ws /\ Live(w) => webSockets'[w].state = "closing"
        /\ w # ended /\ ~(w = sock[s].ws /\ Live(w)) => webSockets'[w] = webSockets[w]
  BY <1>1, WithClosedIs
<1>4. \A t \in SocketIds \ {s} : sock[t].ws # None =>
        sock[t].ws \in WebSockets /\ webSockets'[sock[t].ws] = webSockets[sock[t].ws]
  BY <1>3, SocketFacts DEF LineInv, OwnersKnown
<1>5. OwnersKnown'
  BY <1>2, <1>3, SocketFacts DEF LineInv, OwnersKnown
<1>6. HeardIsClients'
  BY <1>1, <1>2 DEF LineInv, HeardIsClients
<1>7. SocketIsServed'
  BY <1>2, <1>4 DEF LineInv, SocketIsServed
<1>8. ASSUME ~confused' PROVE Orderly'
  <2>1. Orderly
    BY <1>8 DEF LineInv
  <2>2. ClosedHasNone'
    BY <1>1, <2>1 DEF Orderly, ClosedHasNone
  <2>3. ClientHears'
    BY <1>1, <1>2, <2>1, SocketFacts DEF Orderly, ClosedHasNone, ClientHears
  <2>4. LiveIsCurrent'
    <3> SUFFICES ASSUME NEW w \in WebSockets, Live(w)'
                 PROVE  /\ sock'[webSockets'[w].owner].heard
                        /\ sock'[webSockets'[w].owner].ws = w
      BY DEF LiveIsCurrent
    <3>1. w # ended /\ ~(w = sock[s].ws /\ Live(w))
      BY <1>3 DEF Live
    <3>2. webSockets'[w] = webSockets[w]
      BY <1>3, <3>1
    <3>3. Live(w)
      BY <3>2 DEF Live
    <3>4. webSockets[w].owner # s
      BY <2>1, <3>1, <3>3 DEF Orderly, LiveIsCurrent
    <3> QED
      BY <1>2, <2>1, <3>2, <3>3, <3>4, SocketFacts DEF Orderly, LiveIsCurrent
  <2>5. OneTimer'
    <3>1. sock[s].timers <= 1
      BY <2>1, SocketFacts DEF Orderly, OneTimer
    <3> QED
      BY <1>2, <2>1, <3>1 DEF Orderly, OneTimer
  <2>6. CurrentIsLive'
    BY <1>2, <1>4, <2>1 DEF Orderly, CurrentIsLive
  <2> QED
    BY <2>2, <2>3, <2>4, <2>5, <2>6 DEF Orderly
<1> QED
  BY <1>5, <1>6, <1>7, <1>8 DEF LineInv

\* A Socket that reconnects has a timer.
LEMMA ReconnectLine ==
  ASSUME TypeInv, LineInv, NEW s \in SocketIds,
         NEW ended \in WebSockets \cup {None}, NEW e \in Events \cup {Other, None},
         NEW waits, Reconnect(s, ended, e, waits),
         confused => confused', ended # None => webSockets[ended].owner = s,
         ~confused' => sock[s].heard /\ sock[s].timers = 0
  PROVE  LineInv'
<1>a. CASE sock[s].count >= MaxReconnects
  <2>1. Fail(s, "reconnect", ended, waits)
    BY <1>a DEF Reconnect
  <2> QED
    BY <2>1, FailLine
<1>b. CASE ~(sock[s].count >= MaxReconnects)
  <2>1. /\ sock' = [sock EXCEPT ![s] = Reconnecting(s, ended, e)]
        /\ webSockets' = WithClosed(s, "reconnect", ended)
        /\ socket' = socket /\ isClosed' = isClosed
    BY <1>b DEF Reconnect, client
  <2>2. /\ sock'[s].heard = sock[s].heard /\ sock'[s].ws = None
        /\ sock'[s].timers = sock[s].timers + 1 /\ sock'[s].state = "reconnecting"
        /\ \A t \in SocketIds \ {s} : sock'[t] = sock[t]
    BY <2>1, TypeInvParts, ReconnectedType DEF SocketsTyped
  <2>3. \A w \in WebSockets :
          /\ webSockets'[w].owner = webSockets[w].owner
          /\ w = ended => webSockets'[w].state = "closed"
          /\ w # ended /\ w = sock[s].ws /\ Live(w) => webSockets'[w].state = "closing"
          /\ w # ended /\ ~(w = sock[s].ws /\ Live(w)) => webSockets'[w] = webSockets[w]
    BY <2>1, WithClosedIs
  <2>4. \A t \in SocketIds \ {s} : sock[t].ws # None =>
          sock[t].ws \in WebSockets /\ webSockets'[sock[t].ws] = webSockets[sock[t].ws]
    BY <2>3, SocketFacts DEF LineInv, OwnersKnown
  <2>5. OwnersKnown'
    BY <2>2, <2>3, SocketFacts DEF LineInv, OwnersKnown
  <2>6. HeardIsClients'
    BY <2>1, <2>2 DEF LineInv, HeardIsClients
  <2>7. SocketIsServed'
    <3>1. sock'[s].timers > 0
      BY <2>2, SocketFacts
    <3> QED
      BY <2>2, <2>4, <3>1 DEF LineInv, SocketIsServed
  <2>8. ASSUME ~confused' PROVE Orderly'
    <3>1. Orderly /\ sock[s].heard /\ sock[s].timers = 0
      BY <2>8 DEF LineInv
    <3>2. ClosedHasNone' /\ ClientHears'
      BY <2>1, <2>2, <3>1 DEF Orderly, ClosedHasNone, ClientHears
    <3>3. LiveIsCurrent'
      <4> SUFFICES ASSUME NEW w \in WebSockets, Live(w)'
                   PROVE  /\ sock'[webSockets'[w].owner].heard
                          /\ sock'[webSockets'[w].owner].ws = w
        BY DEF LiveIsCurrent
      <4>1. w # ended /\ ~(w = sock[s].ws /\ Live(w))
        BY <2>3 DEF Live
      <4>2. webSockets'[w] = webSockets[w]
        BY <2>3, <4>1
      <4>3. Live(w)
        BY <4>2 DEF Live
      <4>4. webSockets[w].owner # s
        BY <3>1, <4>1, <4>3 DEF Orderly, LiveIsCurrent
      <4>5. webSockets[w].owner \in SocketIds \ {s}
        BY <4>4, SocketFacts
      <4>6. sock'[webSockets[w].owner] = sock[webSockets[w].owner]
        BY <2>2, <4>5
      <4>7. /\ sock[webSockets[w].owner].heard
            /\ sock[webSockets[w].owner].ws = w
        BY <3>1, <4>3 DEF Orderly, LiveIsCurrent
      <4>8. webSockets'[w].owner = webSockets[w].owner
        BY <4>2
      <4> QED
        BY <4>6, <4>7, <4>8
    <3>4. OneTimer'
      <4>1. sock'[s].heard /\ sock'[s].timers = 1
        BY <2>2, <3>1
      <4> QED
        BY <2>2, <3>1, <4>1 DEF Orderly, OneTimer
    <3>5. CurrentIsLive'
      BY <2>2, <2>4, <3>1 DEF Orderly, CurrentIsLive
    <3> QED
      BY <3>2, <3>3, <3>4, <3>5 DEF Orderly
  <2> QED
    BY <2>5, <2>6, <2>7, <2>8 DEF LineInv
<1> QED
  BY <1>a, <1>b

\* The Sockets when the token has expired: none that the client listened to.
LEMMA ExpiredSocketsAre ==
  ASSUME TypeInv, LineInv, NEW s \in SocketIds, NEW ended \in WebSockets,
         NEW t \in SocketIds
  PROVE  LET expired == SocketsExpired(s, ended)[t]
         IN /\ ~expired.heard
            /\ expired.ws \in {sock[t].ws, None}
            /\ expired.closing # None =>
                 expired.closing = sock[t].closing /\ expired.closing # expired.ws
            /\ sock[t].timers <= 1 /\ t = socket => expired.timers = 0
            /\ t # socket => expired.timers = sock[t].timers
            /\ t = s => expired.ws # ended
<1>1. sock[t] \in SocketRecords
  BY TypeInvParts DEF SocketsTyped
<1>2. CASE t = socket
  BY <1>2, TypeInvParts, DestroyedType, SocketFacts DEF SocketsExpired
<1>3. CASE t # socket /\ t = s
  <2> DEFINE current == IF sock[t].ws = ended THEN None ELSE sock[t].ws
             closing == IF sock[t].closing = ended THEN None ELSE sock[t].closing
  <2>1. SocketsExpired(s, ended)[t] = [sock[t] EXCEPT !.closing = closing, !.ws = current]
    BY <1>3 DEF SocketsExpired
  <2>2. ~sock[t].heard
    BY <1>3 DEF LineInv, HeardIsClients
  <2>3. closing # None => closing = sock[t].closing /\ closing # current
    BY DEF LineInv, OwnersKnown
  <2>4. current \in {sock[t].ws, None} /\ current # ended
    BY SocketFacts
  <2> HIDE DEF current, closing
  <2> QED
    BY <1>1, <1>3, <2>1, <2>2, <2>3, <2>4 DEF SocketRecords
<1>4. CASE t # socket /\ t # s
  BY <1>4 DEF SocketsExpired, LineInv, HeardIsClients, OwnersKnown
<1> QED
  BY <1>2, <1>3, <1>4

LEMMA ExpiredWebSocketsAre ==
  ASSUME TypeInv, NEW ended \in WebSockets, NEW w \in WebSockets
  PROVE  LET expired == WebSocketsExpired(ended)[w]
         IN /\ expired.owner = webSockets[w].owner
            /\ w = ended => expired.state = "closed"
            /\ expired.state \in {"connecting", "open"} => w # ended /\ Live(w)
<1>1. webSockets[w] \in WebSocketRecords /\ w # None
  BY TypeInvParts, SocketFacts DEF SocketsTyped
<1>2. CASE socket = None
  BY <1>1, <1>2, EndedType, TypeInvParts DEF WebSocketsExpired, SocketsTyped, Live
<1>3. CASE socket # None
  <2>1. socket \in SocketIds /\ WebSocketsExpired(ended) = WithClosed(socket, "destroy", ended)
    BY <1>3, SocketFacts DEF WebSocketsExpired
  <2> QED
    BY <1>1, <2>1, WithClosedIs DEF Live
<1> QED
  BY <1>2, <1>3

\* The Socket of a WebSocket that is closed with an expired token is replaced,
\* if there is a new token, by one with a WebSocket of its own.
LEMMA TokenExpiredLine ==
  ASSUME TypeInv, LineInv, NEW ended \in WebSockets,
         TokenExpired(webSockets[ended].owner, ended),
         webSockets[ended].state # "closed",
         confused => confused', ~confused' => Live(ended)
  PROVE  LineInv'
<1> DEFINE s == webSockets[ended].owner
           socks == SocketsExpired(s, ended)
           webs == WebSocketsExpired(ended)
<1>0. s \in SocketIds
  BY SocketFacts
<1>1. \A t \in SocketIds :
        /\ ~socks[t].heard
        /\ socks[t].ws \in {sock[t].ws, None}
        /\ socks[t].closing # None =>
             socks[t].closing = sock[t].closing /\ socks[t].closing # socks[t].ws
        /\ sock[t].timers <= 1 /\ t = socket => socks[t].timers = 0
        /\ t # socket => socks[t].timers = sock[t].timers
  BY <1>0, ExpiredSocketsAre
<1>2. \A w \in WebSockets :
        /\ webs[w].owner = webSockets[w].owner
        /\ webs[w].state \in {"connecting", "open"} => w # ended /\ Live(w)
  BY ExpiredWebSocketsAre
<1>3. isClosed' = isClosed
  BY DEF TokenExpired
<1>4. /\ socks \in [SocketIds -> SocketRecords]
      /\ webs \in [WebSockets -> WebSocketRecords]
  BY <1>0, ExpiredType, TypeInvParts
<1>5. ASSUME ~confused'
      PROVE  /\ Orderly /\ ~isClosed /\ socket = s
             /\ \A w \in WebSockets : webs[w].state \notin {"connecting", "open"}
             /\ \A t \in SocketIds : ~(socks[t].timers > 0)
  <2>1. Orderly /\ Live(ended)
    BY <1>5 DEF LineInv
  <2>2. socket = s /\ sock[s].ws = ended
    BY <2>1, <1>0 DEF Orderly, LiveIsCurrent, LineInv, HeardIsClients
  <2>3. ~isClosed
    BY <1>0, <2>1, <2>2, SocketFacts DEF Orderly, ClosedHasNone
  <2>4. ASSUME NEW w \in WebSockets, webs[w].state \in {"connecting", "open"}
        PROVE  FALSE
    <3>1. w # ended /\ Live(w)
      BY <1>2, <2>4
    <3>2. sock[webSockets[w].owner].heard /\ sock[webSockets[w].owner].ws = w
      BY <2>1, <3>1 DEF Orderly, LiveIsCurrent
    <3>3. webSockets[w].owner = s
      BY <2>2, <3>2, SocketFacts DEF LineInv, HeardIsClients
    <3> QED
      BY <2>2, <3>1, <3>2, <3>3
  <2>5. ASSUME NEW t \in SocketIds, socks[t].timers > 0
        PROVE  FALSE
    <3>1. CASE t = socket
      BY <1>1, <2>1, <2>5, <3>1, SocketFacts DEF Orderly, OneTimer
    <3>2. CASE t # socket
      BY <1>1, <2>1, <2>5, <3>2 DEF Orderly, OneTimer, LineInv, HeardIsClients
    <3> QED
      BY <3>1, <3>2
  <2> QED
    BY <2>1, <2>2, <2>3, <2>4, <2>5
<1> HIDE DEF s, socks, webs
<1>6. CASE token = "set"
  <2>1. PICK w \in Free :
          /\ socket' = 2
          /\ sock' = [socks EXCEPT ![2] = NewSocket(w)]
          /\ webSockets' = [webs EXCEPT ![w] = NewWebSocket(2)]
    BY <1>6, FreeType DEF TokenExpired, s, socks, webs
  <2>2. /\ w \in WebSockets /\ w # None
        /\ \A t \in SocketIds : sock[t].ws # w /\ sock[t].closing # w
    BY SocketFacts DEF Free
  <2>3. /\ sock'[2] = NewSocket(w)
        /\ \A t \in SocketIds \ {2} : sock'[t] = socks[t]
        /\ webSockets'[w] = NewWebSocket(2)
        /\ \A x \in WebSockets \ {w} : webSockets'[x] = webs[x]
    BY <1>4, <2>1, <2>2 DEF SocketIds
  <2>4. OwnersKnown'
    <3> SUFFICES ASSUME NEW t \in SocketIds
                 PROVE  /\ sock'[t].ws # None => webSockets'[sock'[t].ws].owner = t
                        /\ sock'[t].closing # None => sock'[t].closing # sock'[t].ws
      BY DEF OwnersKnown
    <3>1. CASE t = 2
      BY <2>3, <3>1 DEF NewSocket, NewWebSocket
    <3>2. CASE t # 2
      <4>1. sock'[t] = socks[t]
        BY <2>3, <3>2
      <4>2. sock'[t].ws # None => sock'[t].ws = sock[t].ws /\ sock[t].ws \in WebSockets \ {w}
        BY <1>1, <2>2, <4>1, SocketFacts
      <4> QED
        BY <1>1, <1>2, <2>3, <4>1, <4>2 DEF LineInv, OwnersKnown
    <3> QED
      BY <3>1, <3>2
  <2>5. HeardIsClients'
    BY <1>1, <2>1, <2>3 DEF HeardIsClients
  <2>6. SocketIsServed'
    BY <1>1, <2>2, <2>3 DEF SocketIsServed, NewSocket, NewWebSocket
  <2>7. ASSUME ~confused' PROVE Orderly'
    <3>1. ClosedHasNone' /\ ClientHears'
      BY <1>3, <1>5, <2>1, <2>3, <2>7 DEF ClosedHasNone, ClientHears, NewSocket
    <3>2. LiveIsCurrent'
      BY <1>5, <2>3, <2>7 DEF LiveIsCurrent, Live, NewSocket, NewWebSocket
    <3>3. OneTimer'
      BY <1>5, <2>3, <2>7 DEF OneTimer, NewSocket
    <3>4. CurrentIsLive'
      BY <1>1, <2>3 DEF CurrentIsLive, NewSocket, NewWebSocket
    <3> QED
      BY <3>1, <3>2, <3>3, <3>4 DEF Orderly
  <2> QED
    BY <2>4, <2>5, <2>6, <2>7 DEF LineInv
<1>7. CASE token # "set"
  <2>1. socket' = None /\ sock' = socks /\ webSockets' = webs
    BY <1>7 DEF TokenExpired, s, socks, webs
  <2>2. OwnersKnown'
    BY <1>1, <1>2, <2>1, SocketFacts DEF LineInv, OwnersKnown
  <2>3. HeardIsClients' /\ SocketIsServed'
    BY <1>1, <2>1 DEF HeardIsClients, SocketIsServed
  <2>4. ASSUME ~confused' PROVE Orderly'
    <3>1. ClosedHasNone' /\ ClientHears'
      BY <1>3, <1>5, <2>1, <2>4, SocketFacts DEF ClosedHasNone, ClientHears
    <3>2. LiveIsCurrent' /\ OneTimer' /\ CurrentIsLive'
      BY <1>1, <1>5, <2>1, <2>4 DEF LiveIsCurrent, Live, OneTimer, CurrentIsLive
    <3> QED
      BY <3>1, <3>2 DEF Orderly
  <2> QED
    BY <2>2, <2>3, <2>4 DEF LineInv
<1> QED
  BY <1>6, <1>7

-----------------------------------------------------------------------------
(* Each action keeps LineInv.                                              *)

LEMMA AnalyticsInitLine == AnalyticsInit => LineInv
<1> SUFFICES ASSUME AnalyticsInit PROVE LineInv
  OBVIOUS
<1> PICK first \in WebSockets :
      /\ sock = [s \in SocketIds |-> IF s = 1 THEN NewSocket(first) ELSE NoSocket]
      /\ webSockets = [w \in WebSockets |->
           IF w = first THEN NewWebSocket(1)
           ELSE [NewWebSocket(1) EXCEPT !.state = "closed"]]
  BY BoundsAssumption DEF AnalyticsInit
<1>1. /\ sock[1] = NewSocket(first) /\ sock[2] = NoSocket
      /\ webSockets[first] = NewWebSocket(1)
      /\ \A w \in WebSockets \ {first} : webSockets[w].state = "closed"
      /\ socket = 1 /\ ~isClosed /\ first # None
  BY NoneAssumption DEF AnalyticsInit, SocketIds, NewWebSocket
<1>2. OwnersKnown /\ HeardIsClients /\ SocketIsServed
  BY <1>1 DEF OwnersKnown, HeardIsClients, SocketIsServed, SocketIds, NoSocket,
              NewSocket, NewWebSocket
<1>3. ClosedHasNone /\ ClientHears
  BY <1>1 DEF ClosedHasNone, ClientHears, NewSocket
<1>4. LiveIsCurrent
  BY <1>1 DEF LiveIsCurrent, Live, NewSocket, NewWebSocket
<1>5. OneTimer /\ CurrentIsLive
  <2>1. \A s \in SocketIds : sock[s].timers = 0 /\ sock[s].ws \in {first, None}
    BY <1>1 DEF SocketIds, NoSocket, NewSocket
  <2> QED
    BY <1>1, <2>1 DEF OneTimer, CurrentIsLive, NewWebSocket
<1> QED
  BY <1>2, <1>3, <1>4, <1>5 DEF LineInv, Orderly

\* A WebSocket that its Socket has replaced ends.
LEMMA InternalCloseLine ==
  ASSUME TypeInv, LineInv, NEW w \in WebSockets, webSockets[w].state = "closing",
         sock[webSockets[w].owner].closing = w,
         sock' = [sock EXCEPT ![webSockets[w].owner].closing = None],
         webSockets' = [webSockets EXCEPT ![w] = Ended(w)],
         UNCHANGED client, confused' = confused
  PROVE  LineInv'
<1> DEFINE s == webSockets[w].owner
<1>1. s \in SocketIds /\ w # None /\ sock[s] \in SocketRecords /\ webSockets[w] \in WebSocketRecords
  BY SocketFacts, TypeInvParts DEF SocketsTyped
<1>2. /\ sock'[s].closing = None
      /\ \A t \in SocketIds :
           /\ sock'[t].ws = sock[t].ws /\ sock'[t].heard = sock[t].heard
           /\ sock'[t].timers = sock[t].timers /\ sock'[t].state = sock[t].state
           /\ t # s => sock'[t].closing = sock[t].closing
  BY <1>1, TypeInvParts DEF SocketsTyped, SocketRecords
<1>3. \A t \in SocketIds : sock[t].ws # w
  BY <1>1 DEF LineInv, OwnersKnown
<1>4. /\ webSockets'[w].state = "closed" /\ webSockets'[w].owner = webSockets[w].owner
      /\ \A x \in WebSockets \ {w} : webSockets'[x] = webSockets[x]
  BY <1>1, EndedType, TypeInvParts DEF SocketsTyped
<1>5. socket' = socket /\ isClosed' = isClosed
  BY DEF client
<1>5a. \A x \in WebSockets : Live(x)' => x # w /\ Live(x) /\ webSockets'[x] = webSockets[x]
  BY <1>1, <1>4 DEF Live
<1>5b. \A t \in SocketIds : sock[t].ws # None => webSockets'[sock[t].ws] = webSockets[sock[t].ws]
  BY <1>3, <1>4, SocketFacts
<1> HIDE DEF s
<1>6. OwnersKnown' /\ HeardIsClients'
  BY <1>2, <1>5, <1>5b DEF LineInv, OwnersKnown, HeardIsClients
<1>7. SocketIsServed'
  BY <1>2, <1>5b DEF LineInv, SocketIsServed
<1>8. ASSUME ~confused' PROVE Orderly'
  <2>1. Orderly
    BY <1>8 DEF LineInv
  <2>2. ClosedHasNone' /\ ClientHears' /\ OneTimer'
    BY <1>2, <1>5, <2>1 DEF Orderly, ClosedHasNone, ClientHears, OneTimer
  <2>3. LiveIsCurrent'
    BY <1>2, <1>5a, <2>1, SocketFacts DEF Orderly, LiveIsCurrent
  <2>4. CurrentIsLive'
    BY <1>2, <1>5b, <2>1 DEF Orderly, CurrentIsLive
  <2> QED
    BY <2>2, <2>3, <2>4 DEF Orderly
<1> QED
  BY <1>6, <1>7, <1>8 DEF LineInv

LEMMA OnCloseLine ==
  ASSUME TypeInv, LineInv, NEW w \in WebSockets,
         NEW code \in {"reconnect", "destroy", "broken", "failed", "expired"},
         OnClose(w, code)
  PROVE  LineInv'
<1> DEFINE s == webSockets[w].owner
<1>0. s \in SocketIds /\ w # None /\ (confused => confused')
  BY SocketFacts DEF OnClose
<1>1. webSockets[w].state \in {"open", "connecting", "closing"}
  BY DEF OnClose, Codes
<1>2. CASE IsInternalReconnectClose(w, code)
  <2>1. /\ sock' = [sock EXCEPT ![s].closing = None]
        /\ webSockets' = [webSockets EXCEPT ![w] = Ended(w)]
        /\ UNCHANGED client /\ confused' = confused
    BY <1>2, TypeInvParts DEF OnClose, HistoryTyped
  <2>2. webSockets[w].state = "closing" /\ sock[s].closing = w
    BY <1>1, <1>2 DEF OnClose, Codes, IsInternalReconnectClose
  <2> QED
    BY <2>1, <2>2, InternalCloseLine
<1>3. CASE ~IsInternalReconnectClose(w, code) /\ code = "expired"
  <2>1. TokenExpired(s, w) /\ (~confused' => Live(w))
    BY <1>0, <1>1, <1>3 DEF OnClose, Live
  <2> QED
    BY <1>0, <1>1, <2>1, TokenExpiredLine
<1>4. CASE ~IsInternalReconnectClose(w, code) /\ code = "broken"
  <2>1. Reconnect(s, w, None, call) /\ (~confused' => Live(w))
    BY <1>0, <1>1, <1>4 DEF OnClose, Live
  <2>2. ASSUME ~confused' PROVE sock[s].heard /\ sock[s].timers = 0
    <3>1. Orderly
      BY <1>0, <2>2 DEF LineInv
    <3>2. sock[s].heard /\ sock[s].ws = w
      BY <2>1, <2>2, <3>1 DEF Orderly, LiveIsCurrent
    <3> QED
      BY <1>0, <3>1, <3>2, SocketFacts DEF Orderly, OneTimer
  <2> QED
    BY <1>0, <2>1, <2>2, ReconnectLine
<1>5. CASE ~IsInternalReconnectClose(w, code) /\ code \notin {"expired", "broken"}
  <2>1. Fail(s, "destroy", w, call)
    BY <1>5 DEF OnClose
  <2> QED
    BY <1>0, <2>1, FailLine
<1> QED
  BY <1>2, <1>3, <1>4, <1>5

\* The timer makes the only WebSocket that the Socket has.
LEMMA ReconnectTimerLine ==
  ASSUME TypeInv, LineInv, NEW s \in SocketIds, ReconnectTimer(s)
  PROVE  LineInv'
<1>0. PICK w \in Free :
      /\ webSockets' = [webSockets EXCEPT ![w] = NewWebSocket(s)]
      /\ sock' = [sock EXCEPT ![s].timers = @ - 1, ![s].ws = w, ![s].count = @ + 1]
  BY FreeType DEF ReconnectTimer
<1>1. /\ w \in WebSockets /\ w # None
      /\ \A t \in SocketIds : sock[t].ws # w /\ sock[t].closing # w
  BY SocketFacts DEF Free
<1>2. /\ sock'[s].ws = w /\ sock'[s].timers = sock[s].timers - 1
      /\ sock'[s].heard = sock[s].heard /\ sock'[s].closing = sock[s].closing
      /\ \A t \in SocketIds \ {s} : sock'[t] = sock[t]
  BY <1>0, TypeInvParts DEF SocketsTyped, SocketRecords
<1>3. /\ webSockets'[w].owner = s /\ webSockets'[w].state = "connecting"
      /\ \A x \in WebSockets \ {w} : webSockets'[x] = webSockets[x]
  BY <1>0, <1>1, TypeInvParts DEF SocketsTyped, NewWebSocket
<1>4. /\ socket' = socket /\ isClosed' = isClosed /\ confused' = confused
      /\ sock[s].timers > 0
  BY DEF ReconnectTimer, client, history
<1>5. \A t \in SocketIds \ {s} :
        sock[t].ws # None => webSockets'[sock[t].ws] = webSockets[sock[t].ws]
  BY <1>1, <1>3, SocketFacts
<1>6. OwnersKnown'
  <2> SUFFICES ASSUME NEW t \in SocketIds
               PROVE  /\ sock'[t].ws # None => webSockets'[sock'[t].ws].owner = t
                      /\ sock'[t].closing # None => sock'[t].closing # sock'[t].ws
    BY DEF OwnersKnown
  <2>1. CASE t = s
    BY <1>1, <1>2, <1>3, <2>1
  <2>2. CASE t # s
    BY <1>2, <1>5, <2>2 DEF LineInv, OwnersKnown
  <2> QED
    BY <2>1, <2>2
<1>7. HeardIsClients' /\ SocketIsServed'
  <2>1. HeardIsClients'
    BY <1>2, <1>4 DEF LineInv, HeardIsClients
  <2> SUFFICES ASSUME NEW t \in SocketIds, sock'[t].heard
               PROVE  \/ sock'[t].timers > 0
                      \/ sock'[t].ws # None /\ webSockets'[sock'[t].ws].state # "closed"
    BY <2>1 DEF SocketIsServed
  <2>2. CASE t = s
    BY <1>1, <1>2, <1>3, <2>2
  <2>3. CASE t # s
    BY <1>2, <1>5, <2>3 DEF LineInv, SocketIsServed
  <2> QED
    BY <2>2, <2>3
<1>8. ASSUME ~confused' PROVE Orderly'
  <2>1. /\ Orderly /\ sock[s].heard /\ sock[s].ws = None /\ sock[s].timers = 1
    BY <1>4, <1>8 DEF LineInv, Orderly, OneTimer
  <2>2. ClosedHasNone' /\ ClientHears'
    BY <1>2, <1>4, <2>1 DEF Orderly, ClosedHasNone, ClientHears
  <2>3. LiveIsCurrent'
    <3> SUFFICES ASSUME NEW x \in WebSockets, Live(x)'
                 PROVE  /\ sock'[webSockets'[x].owner].heard
                        /\ sock'[webSockets'[x].owner].ws = x
      BY DEF LiveIsCurrent
    <3>1. CASE x = w
      BY <1>2, <1>3, <2>1, <3>1
    <3>2. CASE x # w
      <4>1. webSockets'[x] = webSockets[x] /\ Live(x)
        BY <1>3, <3>2 DEF Live
      <4>2. /\ sock[webSockets[x].owner].heard
            /\ sock[webSockets[x].owner].ws = x
        BY <2>1, <4>1 DEF Orderly, LiveIsCurrent
      <4>3. webSockets[x].owner \in SocketIds \ {s}
        BY <2>1, <4>2, SocketFacts
      <4> QED
        BY <1>2, <4>1, <4>2, <4>3
    <3> QED
      BY <3>1, <3>2
  <2>4. OneTimer'
    <3>1. ~(sock'[s].timers > 0)
      BY <1>2, <2>1
    <3> QED
      BY <1>2, <2>1, <3>1 DEF Orderly, OneTimer
  <2>5. CurrentIsLive'
    <3>1. sock'[s].ws = w /\ webSockets'[w].state # "closing"
      BY <1>2, <1>3
    <3>2. \A t \in SocketIds \ {s} : sock'[t] = sock[t]
      BY <1>2
    <3> QED
      BY <1>5, <2>1, <3>1, <3>2 DEF Orderly, CurrentIsLive
  <2> QED
    BY <2>2, <2>3, <2>4, <2>5 DEF Orderly
<1> QED
  BY <1>6, <1>7, <1>8 DEF LineInv

\* A WebSocket that cannot be made leaves the Socket with a timer, if only with
\* the one that has just been used.
LEMMA ConnectThrowsLine ==
  ASSUME TypeInv, LineInv, NEW s \in SocketIds, ConnectThrows(s)
  PROVE  LineInv'
<1>1. confused' = confused
  BY DEF ConnectThrows
<1>2. CASE sock[s].count >= MaxReconnects
  <2>1. Fail(s, "reconnect", None, call)
    BY <1>2 DEF ConnectThrows
  <2> QED
    BY <1>1, <2>1, FailLine
<1>3. CASE ~(sock[s].count >= MaxReconnects)
  <2>1. RetriedIs(s)
    BY <1>3, TypeInvParts, RetriedType
  <2>2. /\ sock'[s].heard = sock[s].heard /\ sock'[s].ws = None
        /\ sock'[s].timers = sock[s].timers /\ sock'[s].timers > 0
        /\ sock'[s].state = "reconnecting"
        /\ \A t \in SocketIds \ {s} : sock'[t] = sock[t]
    BY <2>1 DEF RetriedIs
  <2>3. socket' = socket /\ isClosed' = isClosed
    BY <1>3 DEF ConnectThrows, client
  <2>4. \A w \in WebSockets :
          /\ webSockets'[w].owner = webSockets[w].owner
          /\ w = sock[s].ws /\ Live(w) => webSockets'[w].state = "closing"
          /\ ~(w = sock[s].ws /\ Live(w)) => webSockets'[w] = webSockets[w]
    <3>1. webSockets' = WithClosed(s, "reconnect", None)
      BY <1>3 DEF ConnectThrows
    <3> QED
      BY <3>1, WithClosedIs, NoneAssumption
  <2>5. \A t \in SocketIds \ {s} : sock[t].ws # None =>
          sock[t].ws \in WebSockets /\ webSockets'[sock[t].ws] = webSockets[sock[t].ws]
    BY <2>4, SocketFacts DEF LineInv, OwnersKnown
  <2>6. OwnersKnown'
    BY <2>2, <2>4, SocketFacts DEF LineInv, OwnersKnown
  <2>7. HeardIsClients'
    BY <2>2, <2>3 DEF LineInv, HeardIsClients
  <2>8. SocketIsServed'
    BY <2>2, <2>5 DEF LineInv, SocketIsServed
  <2>9. ASSUME ~confused' PROVE Orderly'
    <3>1. Orderly /\ sock[s].heard /\ sock[s].ws = None /\ sock[s].timers = 1
      BY <1>1, <2>2, <2>9 DEF LineInv, Orderly, OneTimer
    <3>2. ClosedHasNone' /\ ClientHears'
      BY <2>2, <2>3, <3>1 DEF Orderly, ClosedHasNone, ClientHears
    <3>3. \A w \in WebSockets : webSockets'[w] = webSockets[w]
      BY <2>4, <3>1, SocketFacts
    <3>4. LiveIsCurrent'
      BY <2>2, <3>1, <3>3, SocketFacts DEF Orderly, LiveIsCurrent, Live
    <3>5. OneTimer'
      BY <2>2, <3>1 DEF Orderly, OneTimer
    <3>6. CurrentIsLive'
      BY <2>2, <2>5, <3>1 DEF Orderly, CurrentIsLive
    <3> QED
      BY <3>2, <3>4, <3>5, <3>6 DEF Orderly
  <2> QED
    BY <2>6, <2>7, <2>8, <2>9 DEF LineInv
<1> QED
  BY <1>2, <1>3

\* Of the Socket that is open only the state changes: it is connected, and it
\* has no timer if the WebSocket is its own.
LEMMA HandleOpenLine ==
  ASSUME TypeInv, LineInv, NEW s \in SocketIds, NEW w \in WebSockets, HandleOpen(s, w)
  PROVE  LineInv'
<1>1. /\ socket' = socket /\ isClosed' = isClosed
      /\ \A t \in SocketIds :
           /\ sock'[t].ws = sock[t].ws /\ sock'[t].closing = sock[t].closing
           /\ sock'[t].heard = sock[t].heard /\ sock'[t].timers = sock[t].timers
           /\ t # s => sock'[t].state = sock[t].state
      /\ \A x \in WebSockets :
           /\ webSockets'[x].owner = webSockets[x].owner
           /\ webSockets'[x].state = webSockets[x].state
  <2>1. \A t \in SocketIds :
           /\ sock'[t].ws = sock[t].ws /\ sock'[t].closing = sock[t].closing
           /\ sock'[t].heard = sock[t].heard /\ sock'[t].timers = sock[t].timers
           /\ t # s => sock'[t].state = sock[t].state
    <3>1. sock \in [SocketIds -> SocketRecords]
      BY TypeInvParts DEF SocketsTyped
    <3>2. sock' = [sock EXCEPT ![s].isOpen = TRUE, ![s].state = "connected",
                               ![s].count = 0, ![s].queue = <<>>]
      BY DEF HandleOpen
    <3>3. sock'[s] = [sock[s] EXCEPT !.isOpen = TRUE, !.state = "connected", !.count = 0, !.queue = <<>>]
      BY <3>1, <3>2
    <3>4. \A t \in SocketIds \ {s} : sock'[t] = sock[t]
      BY <3>1, <3>2
    <3>5. sock[s] \in SocketRecords
      BY <3>1
    <3>6. /\ sock'[s].ws = sock[s].ws /\ sock'[s].closing = sock[s].closing
          /\ sock'[s].heard = sock[s].heard /\ sock'[s].timers = sock[s].timers
      BY <3>3, <3>5 DEF SocketRecords
    <3> QED
      BY <3>4, <3>6
  <2>2. ASSUME NEW x \in WebSockets
        PROVE  /\ webSockets'[x].owner = webSockets[x].owner
               /\ webSockets'[x].state = webSockets[x].state
    <3>0. PICK failed \in SUBSET (SendAgain(s) \cap Events) :
          webSockets' = [y \in WebSockets |-> [webSockets[y] EXCEPT
            !.in = IF y = w THEN Tail(@) ELSE @,
            !.out = IF y = sock[s].ws THEN @ \cup (SendAgain(s) \ ({Other} \cup failed))
                    ELSE @]]
      BY Zenon DEF HandleOpen
    <3> DEFINE in == IF x = w THEN Tail(webSockets[x].in) ELSE webSockets[x].in
               out == IF x = sock[s].ws
                      THEN webSockets[x].out \cup (SendAgain(s) \ ({Other} \cup failed))
                      ELSE webSockets[x].out
    <3>1. webSockets'[x] = [webSockets[x] EXCEPT !.in = in, !.out = out]
      BY <3>0
    <3>2. webSockets[x] \in WebSocketRecords
      BY TypeInvParts DEF SocketsTyped
    <3> HIDE DEF in, out
    <3> QED
      BY <3>1, <3>2 DEF WebSocketRecords
  <2> QED
    BY <2>1, <2>2 DEF HandleOpen
<1>2. OwnersKnown' /\ HeardIsClients'
  BY <1>1, SocketFacts DEF LineInv, OwnersKnown, HeardIsClients
<1>3. SocketIsServed'
  BY <1>1, SocketFacts DEF LineInv, SocketIsServed
<1>4. ASSUME ~confused' PROVE Orderly'
  <2>1. Orderly /\ sock[s].ws = w /\ w # None
    BY <1>4, SocketFacts DEF LineInv, HandleOpen
  <2>2. ClosedHasNone' /\ ClientHears'
    BY <1>1, <2>1 DEF Orderly, ClosedHasNone, ClientHears
  <2>3. LiveIsCurrent'
    BY <1>1, <2>1, SocketFacts DEF Orderly, LiveIsCurrent, Live
  <2>4. OneTimer'
    <3>1. ~(sock[s].timers > 0)
      BY <2>1 DEF Orderly, OneTimer
    <3> QED
      BY <1>1, <2>1, <3>1 DEF Orderly, OneTimer
  <2>5. CurrentIsLive'
    BY <1>1, <2>1, SocketFacts DEF Orderly, CurrentIsLive
  <2> QED
    BY <2>2, <2>3, <2>4, <2>5 DEF Orderly
<1> QED
  BY <1>2, <1>3, <1>4 DEF LineInv

\* A push leaves the lines alone.
PushedOnly ==
  \A t \in SocketIds :
    /\ sock'[t].ws = sock[t].ws /\ sock'[t].closing = sock[t].closing
    /\ sock'[t].heard = sock[t].heard /\ sock'[t].timers = sock[t].timers
    /\ sock'[t].state = sock[t].state

LEMMA PushLine ==
  ASSUME TypeInv, NEW s \in SocketIds, NEW e,
         sock' = [sock EXCEPT ![s].queue = Pushed(@, e)]
  PROVE  PushedOnly
<1> DEFINE queue == Pushed(sock[s].queue, e)
<1>1. sock' = [sock EXCEPT ![s].queue = queue]
  OBVIOUS
<1> HIDE DEF queue
<1>2. \A t \in SocketIds \ {s} : sock'[t] = sock[t]
  BY <1>1, TypeInvParts DEF SocketsTyped
<1>3. sock[s] \in SocketRecords /\ sock'[s] = [sock[s] EXCEPT !.queue = queue]
  BY <1>1, TypeInvParts DEF SocketsTyped
<1>4. /\ sock'[s].ws = sock[s].ws /\ sock'[s].closing = sock[s].closing
      /\ sock'[s].heard = sock[s].heard /\ sock'[s].timers = sock[s].timers
      /\ sock'[s].state = sock[s].state
  BY <1>3 DEF SocketRecords
<1> QED
  BY <1>2, <1>4 DEF PushedOnly

\* An event that was not acknowledged is pushed, and the Socket reconnects.
LEMMA ResendLine ==
  ASSUME TypeInv, LineInv, socket \in SocketIds, NEW e \in Events, NEW waits,
         ResendAfterReconnect(socket, e, waits), confused' = confused
  PROVE  LineInv'
<1>1. CASE sock[socket].state # "reconnecting"
  <2>1. Reconnect(socket, None, e, waits)
    BY <1>1 DEF ResendAfterReconnect
  <2>2. ASSUME ~confused' PROVE sock[socket].heard /\ sock[socket].timers = 0
    <3>1. Orderly
      BY <2>2 DEF LineInv
    <3> QED
      BY <1>1, <3>1, SocketFacts DEF Orderly, ClientHears, OneTimer
  <2> QED
    BY <2>1, <2>2, ReconnectLine
<1>2. CASE sock[socket].state = "reconnecting"
  <2>1. /\ sock' = [sock EXCEPT ![socket].queue = Pushed(@, e)]
        /\ UNCHANGED client /\ webSockets' = webSockets
    BY <1>2 DEF ResendAfterReconnect, Push
  <2>2. PushedOnly
    BY <2>1, PushLine DEF Push, ResendAfterReconnect
  <2>3. LineUnchanged
    <3>1. /\ socket' = socket /\ isClosed' = isClosed /\ confused' = confused
          /\ webSockets' = webSockets
      BY <2>1 DEF client
    <3> QED
      BY <2>2, <3>1 DEF LineUnchanged, PushedOnly
  <2> QED
    BY <2>3, LineFrame
<1> QED
  BY <1>1, <1>2

\* Actions that leave the Sockets and WebSockets alone but for their contents.
LEMMA OtherLine ==
  ASSUME TypeInv, LineInv,
         \/ UNCHANGED <<socket, isClosed, sock, webSockets, confused>>
         \/ \E w \in WebSockets : OnOpen(w) \/ Acknowledge(w)
         \/ \E e \in Events : SendWhenConnecting(e)
         \/ SendOther
  PROVE  LineInv'
<1>1. CASE UNCHANGED <<socket, isClosed, sock, webSockets, confused>>
  BY <1>1, LineFrame DEF LineUnchanged
<1>2. ASSUME NEW w \in WebSockets, OnOpen(w) \/ Acknowledge(w)
      PROVE  LineInv'
  <2>1. /\ sock' = sock /\ socket' = socket /\ isClosed' = isClosed /\ confused' = confused
    BY <1>2 DEF OnOpen, Acknowledge, client, history
  <2>2. webSockets[w] \in WebSocketRecords
    BY TypeInvParts DEF SocketsTyped
  <2>3. /\ \A x \in WebSockets \ {w} : webSockets'[x] = webSockets[x]
        /\ webSockets'[w].owner = webSockets[w].owner
        /\ \/ webSockets'[w].state = webSockets[w].state
           \/ webSockets'[w].state = "open" /\ webSockets[w].state = "connecting"
    <3>1. CASE OnOpen(w)
      <4> DEFINE in == Append(webSockets[w].in, [event |-> None, answer |-> "open"])
      <4>1. webSockets' = [webSockets EXCEPT ![w] = [webSockets[w] EXCEPT
                             !.state = "open", !.in = in]]
        BY <2>2, <3>1, TypeInvParts DEF OnOpen, SocketsTyped, WebSocketRecords
      <4> HIDE DEF in
      <4> QED
        BY <2>2, <3>1, <4>1, TypeInvParts DEF OnOpen, SocketsTyped, WebSocketRecords
    <3>2. CASE Acknowledge(w)
      <4> PICK e \in webSockets[w].out, answer \in {"ok", "unexpected", "refused"} :
            webSockets' = [webSockets EXCEPT ![w].out = @ \ {e},
                             ![w].in = Append(@, [event |-> e, answer |-> answer])]
        BY <3>2 DEF Acknowledge
      <4> DEFINE in == Append(webSockets[w].in, [event |-> e, answer |-> answer])
                 out == webSockets[w].out \ {e}
      <4>1. webSockets' = [webSockets EXCEPT ![w] = [webSockets[w] EXCEPT
                             !.out = out, !.in = in]]
        BY <2>2, TypeInvParts DEF SocketsTyped, WebSocketRecords
      <4> HIDE DEF in, out
      <4> QED
        BY <2>2, <4>1, TypeInvParts DEF SocketsTyped, WebSocketRecords
    <3> QED
      BY <1>2, <3>1, <3>2
  <2>4. LineUnchanged
    BY <2>1, <2>3 DEF LineUnchanged
  <2> QED
    BY <2>4, LineFrame
<1>3. ASSUME NEW e \in Events \cup {Other}, ~Closed, socket \in SocketIds, Push(socket, e),
             UNCHANGED <<client, webSockets, confused>>
      PROVE  LineInv'
  <2>1. PushedOnly
    BY <1>3, PushLine DEF Push
  <2>2. /\ socket' = socket /\ isClosed' = isClosed /\ confused' = confused
        /\ webSockets' = webSockets
    BY <1>3 DEF client
  <2>3. LineUnchanged
    BY <2>1, <2>2 DEF LineUnchanged, PushedOnly
  <2> QED
    BY <2>3, LineFrame
<1>4. ~Closed => socket \in SocketIds
  BY SocketFacts DEF Closed
<1>5. ASSUME NEW e \in Events, SendWhenConnecting(e) PROVE LineInv'
  BY <1>3, <1>4, <1>5 DEF SendWhenConnecting
<1>6. CASE SendOther
  BY <1>3, <1>4, <1>6 DEF SendOther
<1> QED
  BY <1>1, <1>2, <1>5, <1>6

LEMMA SocketSendLine ==
  ASSUME TypeInv, LineInv, socket \in SocketIds, NEW e \in Events, SocketSend(e)
  PROVE  LineInv'
<1> DEFINE waits == [call EXCEPT ![e] = "waiting"]
<1>1. confused' = confused
  BY DEF SocketSend
<1>2. CASE /\ CanSend(socket)
           /\ webSockets' = [webSockets EXCEPT ![sock[socket].ws].out = @ \cup {e}]
           /\ UNCHANGED <<client, sock, dropped>>
  <2> DEFINE w == sock[socket].ws
             out == webSockets[w].out \cup {e}
  <2>1. w \in WebSockets /\ webSockets[w] \in WebSocketRecords
    BY <1>2, SocketFacts, TypeInvParts DEF CanSend, SocketsTyped
  <2>2. webSockets' = [webSockets EXCEPT ![w] = [webSockets[w] EXCEPT !.out = out]]
    BY <1>2, <2>1
  <2> HIDE DEF w, out
  <2>3. /\ \A x \in WebSockets \ {w} : webSockets'[x] = webSockets[x]
        /\ webSockets'[w].owner = webSockets[w].owner
        /\ webSockets'[w].state = webSockets[w].state
    BY <2>1, <2>2, TypeInvParts DEF SocketsTyped, WebSocketRecords
  <2>4. socket' = socket /\ isClosed' = isClosed /\ sock' = sock
    BY <1>2 DEF client
  <2>5. LineUnchanged
    BY <1>1, <2>3, <2>4 DEF LineUnchanged
  <2> QED
    BY <2>5, LineFrame
<1>3. CASE ResendAfterReconnect(socket, e, waits)
  BY <1>1, <1>3, ResendLine
<1> QED
  BY <1>2, <1>3 DEF SocketSend

LEMMA CallsLine ==
  ASSUME TypeInv, LineInv, NEW e \in Events,
         Report(e) \/ AcknowledgeTimesOut(e) \/ TryAgain(e)
  PROVE  LineInv'
<1>1. CASE SendWhenClosed(e)
  BY <1>1, OtherLine DEF SendWhenClosed, client, history
<1>2. CASE SendWhenConnecting(e)
  BY <1>2, OtherLine
<1>3. CASE SendClientEvent(e)
  BY <1>3, SocketSendLine, SocketFacts DEF SendClientEvent, Closed
<1>4. CASE AcknowledgeTimesOut(e)
  <2>1. confused' = confused
    BY <1>4 DEF AcknowledgeTimesOut
  <2>2. CASE socket = None
    BY <1>4, <2>1, <2>2, OtherLine DEF AcknowledgeTimesOut, client
  <2>3. CASE socket # None
    BY <1>4, <2>1, <2>3, ResendLine, SocketFacts DEF AcknowledgeTimesOut
  <2> QED
    BY <2>2, <2>3
<1>5. CASE TryAgain(e)
  <2>1. CASE socket = None \/ attempts[e] + 1 = MaxAttempts
    <3>1. UNCHANGED <<client, sock, webSockets, history>>
      BY <1>5, <2>1 DEF TryAgain
    <3> QED
      BY <3>1, OtherLine DEF client, history
  <2>2. CASE ~(socket = None \/ attempts[e] + 1 = MaxAttempts)
    <3>1. SocketSend(e) /\ socket \in SocketIds
      BY <1>5, <2>2, SocketFacts DEF TryAgain
    <3> QED
      BY <3>1, SocketSendLine
  <2> QED
    BY <2>1, <2>2
<1> QED
  BY <1>1, <1>2, <1>3, <1>4, <1>5 DEF Report

\* A message comes from a WebSocket: it is open, or an answer.
LEMMA OnMessageLine ==
  ASSUME TypeInv, LineInv, NEW w \in WebSockets, OnMessage(w)
  PROVE  LineInv'
<1> DEFINE s == webSockets[w].owner
           message == Head(webSockets[w].in)
<1>0. s \in SocketIds
  BY SocketFacts
<1>1. CASE message.answer = "open"
  <2>1. HandleOpen(s, w)
    BY <1>1 DEF OnMessage
  <2> QED
    BY <1>0, <2>1, HandleOpenLine
<1>2. CASE message.answer # "open"
  <2>1. HandleAcknowledge(s, w, message.event, message.answer)
    BY <1>2 DEF OnMessage
  <2> HIDE DEF s, message
  <2>2. /\ webSockets' = [webSockets EXCEPT ![w].in = Tail(@)]
        /\ sock' = sock /\ socket' = socket /\ isClosed' = isClosed /\ confused' = confused
    BY <2>1 DEF HandleAcknowledge, client, history
  <2>3. \A x \in WebSockets : /\ webSockets'[x].owner = webSockets[x].owner
                              /\ webSockets'[x].state = webSockets[x].state
    BY <2>2, TypeInvParts DEF SocketsTyped, WebSocketRecords
  <2>4. LineUnchanged
    BY <2>2, <2>3 DEF LineUnchanged
  <2> QED
    BY <2>4, LineFrame
<1> QED
  BY <1>1, <1>2

LEMMA AnalyticsNextLine ==
  TypeInv /\ LineInv /\ [AnalyticsNext]_analytics => LineInv'
<1> SUFFICES ASSUME TypeInv, LineInv, [AnalyticsNext]_analytics PROVE LineInv'
  OBVIOUS
<1>1. ASSUME NEW w \in WebSockets,
             \/ OnOpen(w) \/ OnMessage(w) \/ Acknowledge(w)
             \/ \E code \in {"reconnect", "destroy", "broken", "failed", "expired"} :
                  OnClose(w, code)
      PROVE  LineInv'
  BY <1>1, OtherLine, OnMessageLine, OnCloseLine
<1>2. ASSUME SetNewSkyWayAuthToken \/ SessionCloses \/ UNCHANGED analytics
      PROVE  LineInv'
  <2>1. UNCHANGED <<socket, isClosed, sock, webSockets, confused>>
    BY <1>2 DEF SetNewSkyWayAuthToken, SessionCloses, analytics, client, history
  <2> QED
    BY <2>1, OtherLine
<1> QED
  BY <1>1, <1>2, CallsLine, ReconnectTimerLine, ConnectThrowsLine, OtherLine
  DEF AnalyticsNext

\* A Socket that has not been destroyed has a WebSocket that may still open or
\* close, or a timer to make one: the close events of Socket.connect, in any
\* order, never leave it waiting for nothing (socket.ts:144 and 216).
THEOREM SocketsServed == AnalyticsSpec => []SocketIsServed
<1>1. AnalyticsInit => TypeInv /\ LineInv
  BY AnalyticsInitTypes, AnalyticsInitLine
<1>2. TypeInv /\ LineInv /\ [AnalyticsNext]_analytics => (TypeInv /\ LineInv)'
  BY AnalyticsNextType, AnalyticsNextLine
<1>3. TypeInv /\ LineInv => SocketIsServed
  BY DEF LineInv
<1> QED
  BY <1>1, <1>2, <1>3, PTL DEF AnalyticsSpec

-----------------------------------------------------------------------------
(* What becomes of the events.                                             *)

\* The queue of the client's Socket, if it still has that one, and event e
\* are in the queue or have overflowed.
Kept(e) ==
  socket' # None =>
    /\ socket' = socket /\ dropped \subseteq dropped'
    /\ (ToSet(sock[socket].queue) \cup {e}) \cap Events
         \subseteq ToSet(sock'[socket].queue) \cup dropped'

LEMMA QueuedFrame ==
  ASSUME TypeInv, UnsentQueued, NEW e, Kept(e),
         written \subseteq written', lost \subseteq lost',
         accepted' \subseteq accepted \cup ({e} \cap Events)
  PROVE  UnsentQueued'
<1> SUFFICES ASSUME socket' # None, NEW x \in accepted'
             PROVE  x \in written' \cup dropped' \cup lost' \cup ToSet(sock'[socket].queue)
  BY DEF UnsentQueued, Kept
<1>1. /\ dropped \subseteq dropped' /\ socket # None
      /\ (ToSet(sock[socket].queue) \cup {e}) \cap Events
           \subseteq ToSet(sock'[socket].queue) \cup dropped'
  BY DEF Kept
<1>2. accepted \subseteq Events
  BY TypeInvParts DEF HistoryTyped
<1>3. x \in Events /\ (x \in accepted \/ x = e)
  BY <1>2
<1>4. CASE x = e
  BY <1>1, <1>3, <1>4
<1>5. CASE x \in accepted
  <2>1. x \in written \cup dropped \cup lost \cup ToSet(sock[socket].queue)
    BY <1>1, <1>5 DEF UnsentQueued
  <2> QED
    BY <1>1, <1>3, <2>1
<1> QED
  BY <1>3, <1>4, <1>5

LEMMA PushKeeps ==
  ASSUME TypeInv, socket \in SocketIds, NEW e \in Events \cup {Other}, Push(socket, e),
         socket' = socket
  PROVE  Kept(e)
<1> DEFINE queue == sock[socket].queue
<1>1. queue \in Seq(Events \cup {Other}) /\ sock[socket] \in SocketRecords
  BY TypeInvParts DEF SocketsTyped, SocketRecords
<1>2. (ToSet(queue) \cup {e}) \cap Events
        \subseteq ToSet(Pushed(queue, e)) \cup Overflows(queue, e)
  BY <1>1, PushedKeeps
<1>3. sock'[socket].queue = Pushed(queue, e)
  BY <1>1, TypeInvParts DEF Push, SocketsTyped, SocketRecords
<1>4. dropped' = dropped \cup Overflows(queue, e)
  BY DEF Push
<1> QED
  BY <1>2, <1>3, <1>4 DEF Kept

\* The client has no Socket when its Socket has failed.
LEMMA FailKeeps ==
  ASSUME TypeInv, Orderly, NEW s \in SocketIds, NEW code, NEW ended, NEW waits,
         Fail(s, code, ended, waits), NEW e, s = socket \/ e \notin Events
  PROVE  Kept(e)
<1>1. CASE sock[s].heard /\ ~isClosed
  BY <1>1 DEF Fail, Dispose, Kept
<1>2. CASE ~(sock[s].heard /\ ~isClosed)
  <2>1. socket' = socket /\ dropped' = dropped
    BY <1>2 DEF Fail
  <2>2. s # socket
    BY <1>2, SocketFacts DEF Orderly, ClientHears, ClosedHasNone
  <2>3. sock'[socket] = sock[socket] \/ socket = None
    BY <2>2, SocketFacts, TypeInvParts DEF Fail, SocketsTyped
  <2> QED
    BY <2>1, <2>2, <2>3 DEF Kept
<1> QED
  BY <1>1, <1>2

LEMMA ReconnectKeeps ==
  ASSUME TypeInv, Orderly, NEW s \in SocketIds, NEW ended, NEW e \in Events \cup {Other, None},
         NEW waits, Reconnect(s, ended, e, waits), s = socket \/ e \notin Events
  PROVE  Kept(e)
<1>1. CASE sock[s].count >= MaxReconnects
  BY <1>1, FailKeeps DEF Reconnect
<1>2. CASE ~(sock[s].count >= MaxReconnects)
  <2>1. /\ sock' = [sock EXCEPT ![s] = Reconnecting(s, ended, e)]
        /\ dropped' = dropped \cup Overflows(sock[s].queue, e)
        /\ socket' = socket
    BY <1>2 DEF Reconnect, client
  <2>2. CASE s = socket
    <3> DEFINE queue == sock[s].queue
    <3>1. queue \in Seq(Events \cup {Other})
      BY TypeInvParts DEF SocketsTyped, SocketRecords
    <3>2. (ToSet(queue) \cup {e}) \cap Events
            \subseteq ToSet(Pushed(queue, e)) \cup Overflows(queue, e)
      BY <3>1, PushedKeeps
    <3>3. Reconnecting(s, ended, e).queue = Pushed(queue, e)
      BY ReconnectedType, TypeInvParts
    <3>4. sock'[s].queue = Pushed(queue, e)
      BY <2>1, <3>3, TypeInvParts DEF SocketsTyped
    <3> QED
      BY <2>1, <2>2, <3>2, <3>4 DEF Kept
  <2>3. CASE s # socket
    <3>1. sock'[socket] = sock[socket] \/ socket = None
      BY <2>1, <2>3, SocketFacts, TypeInvParts DEF SocketsTyped
    <3> QED
      BY <2>1, <2>3, <3>1 DEF Kept
  <2> QED
    BY <2>2, <2>3
<1> QED
  BY <1>1, <1>2

LEMMA ResendKeeps ==
  ASSUME TypeInv, Orderly, socket \in SocketIds, NEW e \in Events, NEW waits,
         ResendAfterReconnect(socket, e, waits)
  PROVE  Kept(e)
<1>1. CASE sock[socket].state # "reconnecting"
  BY <1>1, ReconnectKeeps DEF ResendAfterReconnect
<1>2. CASE sock[socket].state = "reconnecting"
  BY <1>2, PushKeeps DEF ResendAfterReconnect, client
<1> QED
  BY <1>1, <1>2

\* No queue is touched.
LEMMA SameQueueKeeps ==
  ASSUME TypeInv, UnsentQueued, socket' = socket, accepted' = accepted, written' = written,
         dropped' = dropped, lost' = lost,
         \A s \in SocketIds : sock'[s].queue = sock[s].queue
  PROVE  UnsentQueued'
<1>1. Kept(None)
  BY SocketFacts, NoneAssumption DEF Kept
<1> QED
  BY <1>1, QueuedFrame

\* The queue is sent, or lost, when the WebSocket is open: it is the one of the
\* Socket, and it is not about to close.
LEMMA HandleOpenQueued ==
  ASSUME TypeInv, Orderly, UnsentQueued, NEW s \in SocketIds, NEW w \in WebSockets,
         webSockets[w].state \in {"open", "closing"}, HandleOpen(s, w), ~confused'
  PROVE  UnsentQueued'
<1>1. sock[s].ws = w /\ w # None /\ socket' = socket /\ accepted' = accepted
      /\ dropped' = dropped
  BY SocketFacts DEF HandleOpen
<1>2. CASE s = socket
  <2>1. CanSend(s)
    BY <1>1, <1>2 DEF Orderly, ClientHears, CurrentIsLive, CanSend
  <2>2. /\ ToSet(sock[s].queue) \ {Other} \subseteq written' \cup lost'
        /\ written \subseteq written' /\ lost \subseteq lost'
    BY <2>1 DEF HandleOpen, SendAgain
  <2>3. Other \notin accepted
    BY TypeInvParts, NoneAssumption DEF HistoryTyped
  <2>4. accepted \subseteq written' \cup dropped \cup lost'
    BY <1>1, <1>2, <2>2, <2>3, SocketFacts DEF UnsentQueued
  <2> QED
    BY <1>1, <2>4 DEF UnsentQueued
<1>3. CASE s # socket
  <2>1. sock'[socket] = sock[socket] \/ socket = None
    BY <1>3, SocketFacts, TypeInvParts DEF HandleOpen, SocketsTyped
  <2>2. written \subseteq written' /\ lost \subseteq lost'
    BY DEF HandleOpen
  <2>3. Kept(None)
    BY <1>1, <2>1, NoneAssumption DEF Kept
  <2> QED
    BY <1>1, <2>2, <2>3, QueuedFrame
<1> QED
  BY <1>2, <1>3

LEMMA OnCloseQueued ==
  ASSUME TypeInv, Orderly, UnsentQueued, NEW w \in WebSockets,
         NEW code \in {"reconnect", "destroy", "broken", "failed", "expired"},
         OnClose(w, code)
  PROVE  UnsentQueued'
<1> DEFINE s == webSockets[w].owner
<1>0. s \in SocketIds /\ written' = written /\ lost' = lost /\ None \notin Events
  BY SocketFacts, NoneAssumption DEF OnClose
<1>1. CASE IsInternalReconnectClose(w, code)
  <2>1. /\ sock' = [sock EXCEPT ![s].closing = None]
        /\ socket' = socket /\ accepted' = accepted /\ dropped' = dropped
    BY <1>1 DEF OnClose, client
  <2>2. \A t \in SocketIds : sock'[t].queue = sock[t].queue
    BY <2>1, TypeInvParts DEF SocketsTyped, SocketRecords
  <2> QED
    BY <1>0, <2>1, <2>2, SameQueueKeeps
<1>2. CASE ~IsInternalReconnectClose(w, code) /\ code = "expired"
  BY <1>2 DEF OnClose, TokenExpired, UnsentQueued
<1>3. CASE ~IsInternalReconnectClose(w, code) /\ code # "expired"
  <2>1. accepted' = accepted
    BY <1>3 DEF OnClose
  <2>2. Kept(None)
    <3>1. CASE code = "broken"
      <4>1. Reconnect(s, w, None, call)
        BY <1>3, <3>1 DEF OnClose
      <4> QED
        BY <1>0, <4>1, ReconnectKeeps
    <3>2. CASE code # "broken"
      <4>1. Fail(s, "destroy", w, call)
        BY <1>3, <3>2 DEF OnClose
      <4> QED
        BY <1>0, <4>1, FailKeeps
    <3> QED
      BY <3>1, <3>2
  <2> QED
    BY <1>0, <2>1, <2>2, QueuedFrame
<1> QED
  BY <1>1, <1>2, <1>3

LEMMA SocketSendQueued ==
  ASSUME TypeInv, Orderly, UnsentQueued, socket \in SocketIds, NEW e \in Events, SocketSend(e)
  PROVE  UnsentQueued'
<1> DEFINE waits == [call EXCEPT ![e] = "waiting"]
<1>1. accepted' = accepted \cup {e} /\ lost' = lost
  BY DEF SocketSend
<1>2. CASE written' = written \cup {e} /\ UNCHANGED <<client, sock, dropped>>
  BY <1>1, <1>2 DEF UnsentQueued, client
<1>3. CASE ResendAfterReconnect(socket, e, waits) /\ UNCHANGED written
  BY <1>1, <1>3, ResendKeeps, QueuedFrame
<1> QED
  BY <1>2, <1>3 DEF SocketSend

LEMMA CallsQueued ==
  ASSUME TypeInv, Orderly, UnsentQueued, NEW e \in Events,
         Report(e) \/ AcknowledgeTimesOut(e) \/ TryAgain(e)
  PROVE  UnsentQueued'
<1>1. CASE SendWhenClosed(e)
  BY <1>1, SameQueueKeeps DEF SendWhenClosed, client, history
<1>2. CASE SendWhenConnecting(e)
  <2>1. /\ socket \in SocketIds /\ Push(socket, e) /\ socket' = socket
        /\ accepted' = accepted \cup {e} /\ written' = written /\ lost' = lost
    BY <1>2, SocketFacts DEF SendWhenConnecting, Closed, client
  <2> QED
    BY <2>1, PushKeeps, QueuedFrame
<1>3. CASE SendClientEvent(e)
  BY <1>3, SocketSendQueued, SocketFacts DEF SendClientEvent, Closed
<1>4. CASE AcknowledgeTimesOut(e)
  <2>1. accepted' = accepted /\ written' = written /\ lost' = lost
    BY <1>4 DEF AcknowledgeTimesOut
  <2>2. CASE socket = None
    BY <1>4, <2>1, <2>2, SameQueueKeeps DEF AcknowledgeTimesOut, client
  <2>3. CASE socket # None
    BY <1>4, <2>1, <2>3, ResendKeeps, QueuedFrame, SocketFacts DEF AcknowledgeTimesOut
  <2> QED
    BY <2>2, <2>3
<1>5. CASE TryAgain(e)
  <2>1. CASE socket = None \/ attempts[e] + 1 = MaxAttempts
    <3>1. UNCHANGED <<client, sock, webSockets, history>>
      BY <1>5, <2>1 DEF TryAgain
    <3> QED
      BY <3>1, SameQueueKeeps DEF client, history
  <2>2. CASE ~(socket = None \/ attempts[e] + 1 = MaxAttempts)
    <3>1. SocketSend(e) /\ socket \in SocketIds
      BY <1>5, <2>2, SocketFacts DEF TryAgain
    <3> QED
      BY <3>1, SocketSendQueued
  <2> QED
    BY <2>1, <2>2
<1> QED
  BY <1>1, <1>2, <1>3, <1>4, <1>5 DEF Report

LEMMA OnMessageQueued ==
  ASSUME TypeInv, Orderly, UnsentQueued, NEW w \in WebSockets, OnMessage(w), ~confused'
  PROVE  UnsentQueued'
<1> DEFINE s == webSockets[w].owner
           message == Head(webSockets[w].in)
<1>0. s \in SocketIds
  BY SocketFacts
<1>1. CASE message.answer = "open"
  <2>1. HandleOpen(s, w) /\ webSockets[w].state \in {"open", "closing"}
    BY <1>1 DEF OnMessage
  <2> QED
    BY <1>0, <2>1, HandleOpenQueued
<1>2. CASE message.answer # "open"
  <2>1. HandleAcknowledge(s, w, message.event, message.answer)
    BY <1>2 DEF OnMessage
  <2> HIDE DEF s, message
  <2> QED
    BY <2>1, SameQueueKeeps DEF HandleAcknowledge, client, history
<1> QED
  BY <1>1, <1>2

\* A WebSocket that has come back once is not forgotten.
LEMMA ConfusedStays ==
  ASSUME TypeInv, [AnalyticsNext]_analytics, confused
  PROVE  confused'
<1>1. ASSUME NEW w \in WebSockets, OnMessage(w) PROVE confused'
  BY <1>1 DEF OnMessage, HandleOpen, HandleAcknowledge, history
<1>2. ASSUME NEW e \in Events, Report(e) \/ AcknowledgeTimesOut(e) \/ TryAgain(e)
      PROVE  confused'
  BY <1>2 DEF Report, SendWhenClosed, SendWhenConnecting, SendClientEvent, SocketSend,
              AcknowledgeTimesOut, TryAgain, history
<1> QED
  BY <1>1, <1>2 DEF AnalyticsNext, OnOpen, Acknowledge, OnClose, ReconnectTimer,
     ConnectThrows, SendOther, SetNewSkyWayAuthToken, SessionCloses, analytics, history

LEMMA ConnectThrowsQueued ==
  ASSUME TypeInv, Orderly, UnsentQueued, NEW s \in SocketIds, ConnectThrows(s)
  PROVE  UnsentQueued'
<1>1. accepted' = accepted /\ written' = written /\ lost' = lost
  BY DEF ConnectThrows
<1>2. CASE sock[s].count >= MaxReconnects
  <2>1. Fail(s, "reconnect", None, call)
    BY <1>2 DEF ConnectThrows
  <2>2. Kept(None)
    BY <2>1, FailKeeps, NoneAssumption
  <2> QED
    BY <1>1, <2>2, QueuedFrame
<1>3. CASE ~(sock[s].count >= MaxReconnects)
  <2>1. RetriedIs(s)
    BY <1>3, TypeInvParts, RetriedType
  <2>2. \A t \in SocketIds : sock'[t].queue = sock[t].queue
    BY <2>1 DEF RetriedIs
  <2>3. socket' = socket /\ dropped' = dropped
    BY <1>3 DEF ConnectThrows, client
  <2> QED
    BY <1>1, <2>2, <2>3, SameQueueKeeps
<1> QED
  BY <1>2, <1>3

LEMMA AnalyticsNextQueued ==
  ASSUME TypeInv, LineInv, ~confused => UnsentQueued, [AnalyticsNext]_analytics, ~confused'
  PROVE  UnsentQueued'
<1>1. Orderly /\ UnsentQueued
  BY ConfusedStays DEF LineInv
<1>2. ASSUME NEW w \in WebSockets, OnOpen(w) \/ Acknowledge(w)
      PROVE  UnsentQueued'
  BY <1>1, <1>2, SameQueueKeeps DEF OnOpen, Acknowledge, client, history
<1>3. ASSUME NEW s \in SocketIds, ReconnectTimer(s)
      PROVE  UnsentQueued'
  <2>1. \A t \in SocketIds : sock'[t].queue = sock[t].queue
    BY <1>3, TypeInvParts DEF ReconnectTimer, SocketsTyped, SocketRecords
  <2> QED
    BY <1>1, <1>3, <2>1, SameQueueKeeps DEF ReconnectTimer, client, history
<1>4. CASE SendOther
  <2>1. /\ socket \in SocketIds /\ Push(socket, Other) /\ socket' = socket
        /\ accepted' = accepted /\ written' = written /\ lost' = lost
    BY <1>4, SocketFacts DEF SendOther, Closed, client
  <2> QED
    BY <1>1, <2>1, PushKeeps, QueuedFrame
<1>5. CASE SetNewSkyWayAuthToken \/ SessionCloses \/ UNCHANGED analytics
  BY <1>1, <1>5, SameQueueKeeps
  DEF SetNewSkyWayAuthToken, SessionCloses, analytics, client, history
<1> QED
  BY <1>1, <1>2, <1>3, <1>4, <1>5, OnMessageQueued, OnCloseQueued, CallsQueued,
     ConnectThrowsQueued
  DEF AnalyticsNext

AnalyticsInv == TypeInv /\ LineInv /\ (~confused => UnsentQueued)

\* No event is lost because a connection breaks: what the client's Socket has been
\* given has been written, or is in the queue, or has overflowed, or the one write
\* that empties the queue has failed, until a WebSocket that was given up opens
\* late or closes with another code (socket.ts:270, 345 and 366).
THEOREM UnsentAlwaysQueued == AnalyticsSpec => []UnsentIsQueued
<1>1. AnalyticsInit => AnalyticsInv
  <2>1. AnalyticsInit => UnsentQueued
    BY DEF AnalyticsInit, UnsentQueued
  <2> QED
    BY <2>1, AnalyticsInitTypes, AnalyticsInitLine DEF AnalyticsInv
<1>2. AnalyticsInv /\ [AnalyticsNext]_analytics => AnalyticsInv'
  BY AnalyticsNextType, AnalyticsNextLine, AnalyticsNextQueued DEF AnalyticsInv
<1>3. AnalyticsInv => UnsentIsQueued
  BY DEF AnalyticsInv, UnsentQueued, UnsentIsQueued
<1> QED
  BY <1>1, <1>2, <1>3, PTL DEF AnalyticsSpec
=============================================================================
