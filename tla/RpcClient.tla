----------------------------- MODULE RpcClient -----------------------------
(***************************************************************************)
(* RtcRpcApiClient and its RPC (packages/rtc-rpc-api-client, client.ts and *)
(* rpc.ts): JSON-RPC requests over a WebSocket that is replaced whenever   *)
(* it is lost.                                                             *)
(*                                                                         *)
(* RPC.connect overwrites _ws and neither closes nor silences the socket   *)
(* that was there: a socket that is still connecting, or still open, lives *)
(* on with its handlers, and its close event is taken for a lost           *)
(* connection too.  _reconnect calls itself when it fails, so what the     *)
(* close of one socket starts is one reconnector, and several may run at   *)
(* once; a reconnector is named by the socket whose close started it.      *)
(*                                                                         *)
(* The model starts with socket 1 open and the channel's events subscribed *)
(* on it.  Server and network are external.                                *)
(***************************************************************************)
EXTENDS Integers

CONSTANTS
  Requests,          \* requests of the application, each made at most once
  MaxRetry,          \* _reconnectLimit
  MaxSockets         \* bound: how many sockets are ever made

ASSUME MaxRetryAssumption == MaxRetry \in Nat \ {0}
ASSUME MaxSocketsAssumption == MaxSockets \in Nat \ {0}

Sockets == 1 .. MaxSockets

VARIABLES
  closed,            \* RPC.closed
  reconnecting,
  reconnectCount,
  hasChannel,        \* _subscribingChannelEvents is not empty
  ws,                \* the socket in _ws, which is the one made last
  sockets,           \* readyState of each; closing becomes closed with onclose
  reconnectors,      \* the running calls of _reconnect: phase, and its socket
  status,            \* of each request, as its caller sees it
  pendingRequests,
  outbox,            \* in _send, before its setTimeout of 0 ms
  inflight, replies, \* per socket: on their way to, and back from, the server
  executions,        \* how often the server has executed each request
  subscribedOn,      \* the sockets the server sends the channel's events on
  \* history
  resent,            \* requests that resolvePendingRequests has sent again
  overlapped         \* two reconnectors have run at once

requestVars == <<status, pendingRequests, outbox, resent>>
serverVars == <<inflight, replies, executions, subscribedOn>>
vars == <<closed, reconnecting, reconnectCount, hasChannel, ws, sockets,
          reconnectors, overlapped, requestVars, serverVars>>

Idle == [phase |-> "none", sock |-> 0]
Reconnector(phase, sock) == [phase |-> phase, sock |-> sock]
Running(a) == reconnectors[a].phase # "none"
SocketOf(a) == sockets[reconnectors[a].sock]
Outstanding(r) == status[r] \in {"waiting", "pending"}

\* A connect is still waiting for this socket to open.
Awaited(s) ==
  \E a \in Sockets : reconnectors[a] = Reconnector("connecting", s)

Init ==
  /\ closed = FALSE /\ reconnecting = FALSE /\ reconnectCount = 0
  /\ hasChannel \in BOOLEAN
  /\ ws = 1
  /\ sockets = [s \in Sockets |-> IF s = 1 THEN "open" ELSE "unused"]
  /\ reconnectors = [a \in Sockets |-> Idle]
  /\ status = [r \in Requests |-> "idle"]
  /\ pendingRequests = {} /\ outbox = {}
  /\ inflight = [s \in Sockets |-> {}] /\ replies = [s \in Sockets |-> {}]
  /\ executions = [r \in Requests |-> 0]
  /\ subscribedOn = IF hasChannel THEN {1} ELSE {}
  /\ resent = {} /\ overlapped = FALSE

-----------------------------------------------------------------------------
(* Requests.                                                               *)

\* RPC.request up to its first await.
Request(r) ==
  /\ status[r] = "idle"
  /\ IF closed
     THEN /\ status' = [status EXCEPT ![r] = "failed"]
          /\ UNCHANGED <<pendingRequests, outbox>>
     ELSE IF reconnecting
     THEN /\ status' = [status EXCEPT ![r] = "pending"]
          /\ pendingRequests' = pendingRequests \cup {r}
          /\ UNCHANGED outbox
     ELSE /\ status' = [status EXCEPT ![r] = "waiting"]
          /\ outbox' = outbox \cup {r}
          /\ UNCHANGED pendingRequests
  /\ UNCHANGED <<closed, reconnecting, reconnectCount, hasChannel, ws, sockets,
                 reconnectors, overlapped, resent, serverVars>>

\* The setTimeout of _send: a socket that is not open takes no request.
Transmit(r) ==
  /\ r \in outbox
  /\ outbox' = outbox \ {r}
  /\ inflight' = IF sockets[ws] = "open"
                 THEN [inflight EXCEPT ![ws] = @ \cup {r}] ELSE inflight
  /\ UNCHANGED <<closed, reconnecting, reconnectCount, hasChannel, ws, sockets,
                 reconnectors, overlapped, status, pendingRequests, resent,
                 replies, executions, subscribedOn>>

\* The server (external) executes a request and sends the answer.
ServerExecutes(s, r) ==
  /\ r \in inflight[s]
  /\ inflight' = [inflight EXCEPT ![s] = @ \ {r}]
  /\ replies' = [replies EXCEPT ![s] = @ \cup {r}]
  /\ executions' = [executions EXCEPT ![r] = @ + 1]
  /\ UNCHANGED <<closed, reconnecting, reconnectCount, hasChannel, ws, sockets,
                 reconnectors, overlapped, requestVars, subscribedOn>>

\* onmessage of any socket; the first answer settles the request.
DeliverReply(s, r) ==
  /\ r \in replies[s]
  /\ replies' = [replies EXCEPT ![s] = @ \ {r}]
  /\ status' = IF Outstanding(r) THEN [status EXCEPT ![r] = "answered"] ELSE status
  /\ UNCHANGED <<closed, reconnecting, reconnectCount, hasChannel, ws, sockets,
                 reconnectors, overlapped, pendingRequests, outbox, resent,
                 inflight, executions, subscribedOn>>

\* rpcTimeout (20 s) is over, long after the setTimeout of _send.  A pending
\* request stays in the list although its caller has given up.
RequestTimesOut(r) ==
  /\ Outstanding(r) /\ r \notin outbox
  /\ status' = [status EXCEPT ![r] = "failed"]
  /\ UNCHANGED <<closed, reconnecting, reconnectCount, hasChannel, ws, sockets,
                 reconnectors, overlapped, pendingRequests, outbox, resent,
                 serverVars>>

-----------------------------------------------------------------------------
(* Sockets.                                                                *)

\* Messages on a socket are lost with it.
Drop(s) ==
  /\ sockets' = [sockets EXCEPT ![s] = "closing"]
  /\ inflight' = [inflight EXCEPT ![s] = {}]
  /\ replies' = [replies EXCEPT ![s] = {}]

\* A connection breaks; one that was given up may still fail, too.
SocketDrops(s) ==
  /\ sockets[s] = "open" \/ (sockets[s] = "connecting" /\ ~Awaited(s))
  /\ Drop(s)
  /\ UNCHANGED <<closed, reconnecting, reconnectCount, hasChannel, ws,
                 reconnectors, overlapped, requestVars, executions, subscribedOn>>

\* A socket opens after its connect had timed out; nobody waits for it.
AbandonedSocketOpens(s) ==
  /\ sockets[s] = "connecting" /\ ~Awaited(s)
  /\ sockets' = [sockets EXCEPT ![s] = "open"]
  /\ UNCHANGED <<closed, reconnecting, reconnectCount, hasChannel, ws,
                 reconnectors, overlapped, requestVars, serverVars>>

\* Mutant: only the requests that wait for an answer hear of the close.
FailWaitingOnly ==
  status' = [r \in Requests |-> IF status[r] = "waiting" THEN "failed" ELSE status[r]]

\* onClosed fails every request in progress.
FailRequests ==
  status' = [r \in Requests |-> IF Outstanding(r) THEN "failed" ELSE status[r]]

\* RPC.close.
CloseRpc ==
  /\ closed' = TRUE
  /\ FailRequests
  /\ IF sockets[ws] \in {"connecting", "open"}
     THEN Drop(ws) ELSE UNCHANGED <<sockets, inflight, replies>>

\* Mutant: requests that wait for an answer are left to the old connection.
DisconnectKeepsWaiting == UNCHANGED <<status, pendingRequests>>

\* request, onDisconnected: what waits for an answer will be sent again.
RequestsDisconnected ==
  LET waiting == {r \in Requests : status[r] = "waiting"} IN
  /\ status' = [r \in Requests |-> IF r \in waiting THEN "pending" ELSE status[r]]
  /\ pendingRequests' = pendingRequests \cup waiting

\* _reconnect up to its back-off, below the limit.
EnterReconnect(a) ==
  /\ reconnecting' = TRUE
  /\ reconnectCount' = reconnectCount + 1
  /\ reconnectors' = [reconnectors EXCEPT ![a] = Reconnector("backoff", 0)]
  /\ overlapped' = (overlapped \/ \E b \in Sockets \ {a} : Running(b))

(***************************************************************************)
(* onclose, with any code but the usage limit's: onDisconnected runs the   *)
(* client's handler, then the requests'.  The count is 0 whenever          *)
(* reconnecting is FALSE, so the limit is not met here.                    *)
(***************************************************************************)
SocketCloses(s) ==
  /\ sockets[s] = "closing"
  /\ sockets' = [sockets EXCEPT ![s] = "closed"]
  /\ IF closed
     THEN UNCHANGED <<reconnecting, reconnectCount, reconnectors, overlapped,
                      status, pendingRequests>>
     ELSE /\ RequestsDisconnected
          /\ IF reconnecting
             THEN UNCHANGED <<reconnecting, reconnectCount, reconnectors, overlapped>>
             ELSE EnterReconnect(s)
  /\ UNCHANGED <<closed, hasChannel, ws, outbox, resent, serverVars>>

\* onclose with code 4291: the RPC is closed instead.
UsageLimitExceeded(s) ==
  /\ sockets[s] = "open"
  /\ ~closed
  /\ closed' = TRUE
  /\ FailRequests
  /\ sockets' = [t \in Sockets |->
       IF t = s THEN "closed"
       ELSE IF t = ws /\ sockets[t] \in {"connecting", "open"} THEN "closing"
       ELSE sockets[t]]
  /\ inflight' = [t \in Sockets |-> IF t \in {s, ws} THEN {} ELSE inflight[t]]
  /\ replies' = [t \in Sockets |-> IF t \in {s, ws} THEN {} ELSE replies[t]]
  /\ UNCHANGED <<reconnecting, reconnectCount, hasChannel, ws, reconnectors,
                 overlapped, pendingRequests, outbox, resent, executions, subscribedOn>>

\* RtcRpcApiClient.close, called by the context when it is disposed.
Close ==
  /\ ~closed
  /\ CloseRpc
  /\ UNCHANGED <<reconnecting, reconnectCount, hasChannel, ws, reconnectors,
                 overlapped, pendingRequests, outbox, resent, executions, subscribedOn>>

-----------------------------------------------------------------------------
(* _reconnect.                                                             *)

\* The back-off (100 ms or more) is over: connect makes a new socket.
BackoffElapsed(a) ==
  /\ reconnectors[a].phase = "backoff"
  /\ outbox = {}
  /\ ws < MaxSockets
  /\ ws' = ws + 1
  /\ sockets' = [sockets EXCEPT ![ws + 1] = "connecting"]
  /\ reconnectors' = [reconnectors EXCEPT ![a] = Reconnector("connecting", ws + 1)]
  /\ UNCHANGED <<closed, reconnecting, reconnectCount, hasChannel, overlapped,
                 requestVars, serverVars>>

\* Mutant: the list is not emptied once its requests are on their way.
ResolveKeepsRequests ==
  /\ outbox' = outbox \cup pendingRequests
  /\ resent' = resent \cup pendingRequests
  /\ UNCHANGED pendingRequests

\* resolvePendingRequests.
ResolvePendingRequests ==
  /\ outbox' = outbox \cup pendingRequests
  /\ resent' = resent \cup pendingRequests
  /\ pendingRequests' = {}

\* Mutant: the channels are not subscribed to again.
ReconnectedSkipsChannels(a) == Idle

\* What is left of _reconnect once connected: the channels are subscribed to
\* again, with requests that a closed client refuses at once.
Reconnected(a) ==
  IF ~hasChannel THEN Idle
  ELSE Reconnector(IF closed THEN "failed" ELSE "resubscribing", reconnectors[a].sock)

SocketOpens(a) ==
  /\ reconnectors[a].phase = "connecting" /\ SocketOf(a) = "connecting"
  /\ sockets' = [sockets EXCEPT ![reconnectors[a].sock] = "open"]
  /\ reconnecting' = FALSE
  /\ reconnectCount' = 0
  /\ ResolvePendingRequests
  /\ reconnectors' = [reconnectors EXCEPT ![a] = Reconnected(a)]
  /\ UNCHANGED <<closed, hasChannel, ws, overlapped, status, serverVars>>

\* onerror: the socket could not be opened, or was closed before; its onclose
\* and the catch of _reconnect follow in either order.
ConnectFails(a) ==
  /\ reconnectors[a].phase = "connecting"
  /\ sockets' = IF SocketOf(a) = "connecting"
                THEN [sockets EXCEPT ![reconnectors[a].sock] = "closing"] ELSE sockets
  /\ reconnectors' = [reconnectors EXCEPT ![a].phase = "failed"]
  /\ UNCHANGED <<closed, reconnecting, reconnectCount, hasChannel, ws, overlapped,
                 requestVars, serverVars>>

\* 10 s without onopen: the socket is left as it is.
ConnectTimesOut(a) ==
  /\ reconnectors[a].phase = "connecting" /\ SocketOf(a) = "connecting"
  /\ reconnectors' = [reconnectors EXCEPT ![a].phase = "failed"]
  /\ UNCHANGED <<closed, reconnecting, reconnectCount, hasChannel, ws, sockets,
                 overlapped, requestVars, serverVars>>

(***************************************************************************)
(* The answer to subscribeChannelEvents, asked over whatever was _ws since *)
(* this reconnector connected: request moves it to a later socket when its *)
(* connection is lost, and subscribeChannelEvents retries it.              *)
(***************************************************************************)
ResubscribeSucceeds(a) ==
  /\ reconnectors[a].phase = "resubscribing" /\ ~closed
  /\ \E s \in reconnectors[a].sock .. ws :
       /\ sockets[s] = "open"
       /\ subscribedOn' = subscribedOn \cup {s}
  /\ reconnectors' = [reconnectors EXCEPT ![a] = Idle]
  /\ UNCHANGED <<closed, reconnecting, reconnectCount, hasChannel, ws, sockets,
                 overlapped, requestVars, inflight, replies, executions>>

\* It times out, is refused, or the client is closed.
ResubscribeFails(a) ==
  /\ reconnectors[a].phase = "resubscribing"
  /\ reconnectors' = [reconnectors EXCEPT ![a].phase = "failed"]
  /\ UNCHANGED <<closed, reconnecting, reconnectCount, hasChannel, ws, sockets,
                 overlapped, requestVars, serverVars>>

\* Mutant: at the limit nothing is closed.
GiveUpQuietly == UNCHANGED <<closed, status, sockets, inflight, replies>>

\* The limit is reached: onFatalError, and close.
GiveUp ==
  IF closed THEN UNCHANGED <<closed, status, sockets, inflight, replies>>
  ELSE CloseRpc

LimitReached == reconnectCount >= MaxRetry

\* The catch of _reconnect calls _reconnect again.
Retry(a) ==
  /\ reconnectors[a].phase = "failed"
  /\ IF LimitReached
     THEN /\ GiveUp
          /\ reconnectors' = [reconnectors EXCEPT ![a] = Idle]
          /\ UNCHANGED <<reconnecting, reconnectCount, overlapped>>
     ELSE /\ EnterReconnect(a)
          /\ UNCHANGED <<closed, status, sockets, inflight, replies>>
  /\ UNCHANGED <<hasChannel, ws, pendingRequests, outbox, resent, executions,
                 subscribedOn>>

Next ==
  \/ \E r \in Requests :
       \/ Request(r) \/ Transmit(r) \/ RequestTimesOut(r)
       \/ \E s \in Sockets : ServerExecutes(s, r) \/ DeliverReply(s, r)
  \/ \E s \in Sockets :
       \/ SocketDrops(s) \/ AbandonedSocketOpens(s)
       \/ SocketCloses(s) \/ UsageLimitExceeded(s)
  \/ \E a \in Sockets :
       \/ BackoffElapsed(a) \/ SocketOpens(a) \/ ConnectFails(a)
       \/ ConnectTimesOut(a) \/ ResubscribeSucceeds(a) \/ ResubscribeFails(a)
       \/ Retry(a)
  \/ Close

Spec == Init /\ [][Next]_vars

\* The timers fire, a connect is settled by its own timeout, and a socket that
\* breaks reports it.
Fairness ==
  /\ \A r \in Requests : WF_vars(Transmit(r))
  /\ \A s \in Sockets :
       /\ WF_vars(SocketCloses(s))
       /\ WF_vars(BackoffElapsed(s))
       /\ WF_vars(SocketOpens(s) \/ ConnectFails(s) \/ ConnectTimesOut(s))
       /\ WF_vars(Retry(s))

FairSpec == Spec /\ Fairness

-----------------------------------------------------------------------------
\* The shape of the state; no reconnector counts beyond the limit.
TypeOK ==
  /\ closed \in BOOLEAN /\ reconnecting \in BOOLEAN /\ hasChannel \in BOOLEAN
  /\ reconnectCount \in 0 .. MaxRetry
  /\ ws \in Sockets
  /\ sockets \in [Sockets -> {"unused", "connecting", "open", "closing", "closed"}]
  /\ reconnectors \in
       [Sockets -> [phase : {"none", "backoff", "connecting", "resubscribing", "failed"},
                    sock : 0 .. MaxSockets]]
  /\ status \in [Requests -> {"idle", "waiting", "pending", "answered", "failed"}]
  /\ pendingRequests \subseteq Requests /\ outbox \subseteq Requests
  /\ inflight \in [Sockets -> SUBSET Requests]
  /\ replies \in [Sockets -> SUBSET Requests]
  /\ executions \in [Requests -> Nat]
  /\ subscribedOn \subseteq Sockets
  /\ resent \subseteq Requests /\ overlapped \in BOOLEAN

\* Several sockets report their close and several reconnectors share one flag
\* and one counter, yet the flag is never left set with nobody to reset it: it
\* makes every later request wait.
ReconnectingIsServed ==
  reconnecting /\ ~closed =>
    \E a \in Sockets : reconnectors[a].phase \in {"backoff", "connecting", "failed"}

\* The list of pending requests is resolved when a socket opens, and only
\* then: an entry never sits there without a reconnect to wait for.
PendingAwaitsReconnect == pendingRequests # {} /\ ~closed => reconnecting

\* A request that has not been sent a second time is on its way, or will be
\* sent again, for as long as its caller waits, wherever the loss of the
\* connection met it; only overlapping reconnects break this.
RequestIsOnItsWay ==
  \A r \in Requests :
    Outstanding(r) /\ r \notin resent /\ ~overlapped =>
      \/ r \in pendingRequests \cup outbox
      \/ \E s \in Sockets : r \in inflight[s] \cup replies[s]
      \/ status[r] = "waiting" /\ \E s \in Sockets : sockets[s] = "closing"

\* Reconnecting may execute a request twice, never more often, and never when
\* it was not sent again.
ExecutedAtMostTwice ==
  \A r \in Requests : executions[r] <= IF r \in resent THEN 2 ELSE 1

\* Whatever sockets and reconnectors there were, once all is quiet the channel's
\* events arrive on the current socket, which is open or has yet to report
\* that it is not.
EventsFlowWhenQuiet ==
  ~closed /\ (\A a \in Sockets : ~Running(a)) =>
    /\ sockets[ws] \in {"open", "closing"}
    /\ hasChannel => ws \in subscribedOn

\* A closed client leaves no caller waiting.
ClosedLeavesNobodyWaiting == closed => \A r \in Requests : ~Outstanding(r)

\* A lost connection is replaced, or the client gives up and closes.
LostConnectionIsReplaced ==
  sockets[ws] \in {"closing", "closed"}
    ~> (sockets[ws] = "open" \/ closed \/ ws = MaxSockets)
=============================================================================
