------------------------------ MODULE Analytics ------------------------------
(***************************************************************************)
(* The analytics client (packages/analytics-client) and its session in the *)
(* core package: reports that are sent to a server which acknowledges them,*)
(* over a WebSocket that is made again when it breaks.                     *)
(*                                                                         *)
(* The client has a Socket for each token; the Socket has one WebSocket    *)
(* after the other.  The close event of a WebSocket that was given up comes*)
(* when the next one may exist already, with the code it was closed with,  *)
(* or with another one when the network is gone.  A Socket that has been   *)
(* destroyed can still be told that its WebSocket has closed.              *)
(***************************************************************************)
EXTENDS Naturals, SequencesExt

CONSTANTS
  Events, Other,     \* the reports that are followed, and any other one
  WebSockets,        \* those that exist at a time
  MaxReconnects,     \* reconnects in a row (5 in the code)
  MaxResend,         \* events kept for the next connection (200)
  MaxAttempts,       \* sends of an event that the server failed on (6)
  None

ASSUME BoundsAssumption ==
  {MaxReconnects, MaxResend, MaxAttempts} \subseteq Nat \ {0} /\ WebSockets # {}
ASSUME NoneAssumption ==
  /\ {None, Other} \cap (Events \cup WebSockets) = {} /\ None # Other
  /\ None \notin {1, 2}   \* SocketIds

VARIABLES
  socket,            \* the client's Socket, if any
  isClosed, token,   \* whether the client is closed; has a new token been set
  call, attempts,    \* the send of each event
  session,           \* the AnalyticsSession
  sock,              \* the Sockets
  webSockets,
  \* history
  accepted,          \* events the client's Socket has been given
  written, dropped,  \* those that were sent, and that overflowed the queue
  lost,              \* those that could not be written when they were sent again
  confused           \* whether a WebSocket that had been given up has opened,
                     \*   or closed with an unexpected code

client == <<socket, isClosed, token, session>>
calls == <<call, attempts>>
history == <<accepted, written, dropped, lost, confused>>
analytics == <<client, calls, sock, webSockets, history>>

\* One for each token.  Tokens are updated once.
SocketIds == {1, 2}

AnalyticsTypeOK ==
  /\ socket \in SocketIds \cup {None} /\ isClosed \in BOOLEAN
  /\ token \in {"first", "set", "used"}
  /\ session \in {"connecting", "connected", "closed"}
  /\ call \in [Events -> {"none", "waiting", "backoff", "resolved", "rejected"}]
  /\ attempts \in [Events -> 0..MaxAttempts]
  /\ sock \in [SocketIds -> [
       ws : WebSockets \cup {None}, closing : WebSockets \cup {None},
       isOpen : BOOLEAN, heard : BOOLEAN, count : Nat, timers : Nat,
       state : {"connecting", "connected", "reconnecting", "closed"},
       queue : Seq(Events \cup {Other})]]
  /\ webSockets \in [WebSockets -> [
       state : {"connecting", "open", "closing", "closed"}, owner : SocketIds,
       code : {None, "reconnect", "destroy"}, out : SUBSET Events,
       in : Seq([event : Events \cup {None}, answer : {"open", "ok", "unexpected", "refused"}])]]
  /\ accepted \subseteq Events /\ written \cup dropped \cup lost \subseteq Events
  /\ confused \in BOOLEAN

NewSocket(w) ==
  [ws |-> w, closing |-> None, isOpen |-> FALSE, heard |-> TRUE, count |-> 0,
   timers |-> 0, state |-> "connecting", queue |-> <<>>]

NewWebSocket(s) ==
  [state |-> "connecting", owner |-> s, code |-> None, out |-> {}, in |-> <<>>]

NoSocket == [NewSocket(None) EXCEPT !.heard = FALSE, !.state = "closed"]
Ended(w) == [webSockets[w] EXCEPT !.state = "closed", !.out = {}, !.in = <<>>, !.code = None]

AnalyticsInit ==
  /\ socket = 1 /\ isClosed = FALSE /\ token = "first" /\ session = "connecting"
  /\ call = [e \in Events |-> "none"] /\ attempts = [e \in Events |-> 0]
  /\ LET first == CHOOSE w \in WebSockets : TRUE
     IN /\ sock = [s \in SocketIds |-> IF s = 1 THEN NewSocket(first) ELSE NoSocket]
        /\ webSockets = [w \in WebSockets |->
             IF w = first THEN NewWebSocket(1)
             ELSE [NewWebSocket(1) EXCEPT !.state = "closed"]]
  /\ accepted = {} /\ written = {} /\ dropped = {} /\ lost = {} /\ confused = FALSE

-----------------------------------------------------------------------------
(* The Socket.                                                             *)

Live(w) == w # None /\ webSockets[w].state \in {"connecting", "open"}

\* Nothing refers to them: one stands for the next WebSocket that is made.
Free == {w \in WebSockets :
  /\ webSockets[w].state = "closed"
  /\ \A s \in SocketIds : w \notin {sock[s].ws, sock[s].closing}}

\* The WebSocket of a Socket is told to close; another one has just ended.
WithClosed(s, code, ended) ==
  [w \in WebSockets |->
     IF w = ended THEN Ended(w)
     ELSE IF w = sock[s].ws /\ Live(w)
     THEN [webSockets[w] EXCEPT !.state = "closing", !.code = code, !.out = {}]
     ELSE webSockets[w]]

\* The timer that is cleared is the last one that was set.  A WebSocket that
\* has closed is as good as none.
Destroyed(s, ended) ==
  [sock[s] EXCEPT !.state = "closed", !.closing = None, !.heard = FALSE,
                     !.ws = IF @ = ended THEN None ELSE @,
                     !.timers = IF @ = 0 THEN 0 ELSE @ - 1]

\* The queue with one more event, unless it is there: the oldest one goes.
Pushed(queue, e) ==
  IF e = None \/ Contains(queue, e) THEN queue
  ELSE IF Len(queue) >= MaxResend THEN Append(Tail(queue), e)
  ELSE Append(queue, e)

Overflows(queue, e) ==
  IF e # None /\ ~Contains(queue, e) /\ Len(queue) >= MaxResend
  THEN {Head(queue)} \ {Other} ELSE {}

Push(s, e) ==
  /\ sock' = [sock EXCEPT ![s].queue = Pushed(@, e)]
  /\ dropped' = dropped \cup Overflows(sock[s].queue, e)

Cancelled(waits) ==
  [e \in Events |-> IF waits[e] = "waiting" THEN "rejected" ELSE waits[e]]

\* The session hears that the Socket is closed, and sees that the client is.
SessionHears == session' = "closed"

Dispose(waits) ==
  /\ isClosed' = TRUE /\ socket' = None /\ call' = Cancelled(waits)
  /\ SessionHears

\* onConnectionFailed, and then the Socket closes.
Fail(s, code, ended, waits) ==
  /\ webSockets' = WithClosed(s, code, ended)
  /\ sock' = [sock EXCEPT ![s] = Destroyed(s, ended)]
  /\ IF sock[s].heard /\ ~isClosed THEN Dispose(waits)
     ELSE /\ call' = waits
          /\ UNCHANGED <<socket, isClosed, session>>
  /\ UNCHANGED <<token, dropped>>

Reconnecting(s, ended, e) ==
  [sock[s] EXCEPT
     !.ws = None, !.isOpen = FALSE, !.state = "reconnecting",
     !.closing = IF Live(sock[s].ws) /\ sock[s].ws # ended THEN sock[s].ws
                 ELSE IF @ = ended THEN None ELSE @,
     !.timers = @ + 1, !.queue = Pushed(@, e)]

Reconnect(s, ended, e, waits) ==
  IF sock[s].count >= MaxReconnects
  THEN Fail(s, "reconnect", ended, waits)
  ELSE /\ webSockets' = WithClosed(s, "reconnect", ended)
       /\ sock' = [sock EXCEPT ![s] = Reconnecting(s, ended, e)]
       /\ dropped' = dropped \cup Overflows(sock[s].queue, e)
       /\ call' = waits
       /\ UNCHANGED client

ResendAfterReconnect(s, e, waits) ==
  IF sock[s].state # "reconnecting" THEN Reconnect(s, None, e, waits)
  ELSE /\ Push(s, e) /\ call' = waits
       /\ UNCHANGED <<client, webSockets>>

\* The timer of a reconnect fires: a WebSocket is made.
ReconnectTimer(s) ==
  /\ sock[s].timers > 0 /\ Free # {}
  /\ LET w == CHOOSE w \in Free : TRUE
     IN /\ webSockets' = [webSockets EXCEPT ![w] = NewWebSocket(s)]
        /\ sock' = [sock EXCEPT
             ![s].timers = @ - 1, ![s].ws = w, ![s].count = @ + 1]
  /\ UNCHANGED <<client, calls, history>>

\* Or it cannot be made, and the Socket reconnects before this attempt is counted.
ConnectThrows(s) ==
  /\ sock[s].timers > 0
  /\ IF sock[s].count >= MaxReconnects
     THEN Fail(s, "reconnect", None, call)
     ELSE /\ webSockets' = WithClosed(s, "reconnect", None)
          /\ sock' = [sock EXCEPT ![s] =
               [Reconnecting(s, None, None) EXCEPT !.timers = @ - 1, !.count = @ + 1]]
          /\ UNCHANGED <<client, call, dropped>>
  /\ UNCHANGED <<attempts, accepted, written, lost, confused>>

-----------------------------------------------------------------------------
(* Events of a WebSocket.                                                  *)

\* The token has expired: the client takes a new Socket if it has a new
\* token, and none if it has not.  It listens to Sockets it has destroyed.
SocketsExpired(s, ended) ==
  [t \in SocketIds |->
     IF t = socket THEN Destroyed(t, ended)
     ELSE IF t = s THEN [sock[t] EXCEPT !.closing = IF @ = ended THEN None ELSE @,
                                        !.ws = IF @ = ended THEN None ELSE @]
     ELSE sock[t]]

WebSocketsExpired(ended) ==
  IF socket = None THEN [webSockets EXCEPT ![ended] = Ended(ended)]
  ELSE WithClosed(socket, "destroy", ended)

TokenExpired(s, ended) ==
  /\ call' = Cancelled(call)
  /\ IF token = "set"
     THEN LET w == CHOOSE w \in Free : TRUE
          IN /\ Free # {}
             /\ socket' = 2 /\ token' = "used"
             /\ sock' = [SocketsExpired(s, ended) EXCEPT ![2] = NewSocket(w)]
             /\ webSockets' = [WebSocketsExpired(ended) EXCEPT ![w] = NewWebSocket(2)]
     ELSE /\ socket' = None /\ UNCHANGED token
          /\ sock' = SocketsExpired(s, ended)
          /\ webSockets' = WebSocketsExpired(ended)
  /\ accepted' = {}
  /\ UNCHANGED <<isClosed, session, dropped>>

\* Mutant: a flag, instead of the WebSocket that is being closed.
ReconnectIsClosing(w, code) == sock[webSockets[w].owner].closing # None

IsInternalReconnectClose(w, code) ==
  code = "reconnect" /\ sock[webSockets[w].owner].closing = w

\* Codes: that of a close of our own; "broken" for those that lead to a
\* reconnect; "failed" for those that do not; "expired".
Codes(w) ==
  CASE webSockets[w].state = "open" -> {"broken", "failed", "expired"}
    [] webSockets[w].state = "connecting" -> {"broken"}
    [] webSockets[w].state = "closing" ->
         {webSockets[w].code, "broken", "failed", "expired"}
    [] OTHER -> {}

OnClose(w, code) ==
  LET s == webSockets[w].owner
  IN /\ code \in Codes(w)
     /\ IF IsInternalReconnectClose(w, code)
        THEN /\ sock' = [sock EXCEPT ![s].closing = None]
             /\ webSockets' = [webSockets EXCEPT ![w] = Ended(w)]
             /\ UNCHANGED <<client, call, accepted, dropped>>
        ELSE IF code = "expired" THEN TokenExpired(s, w)
        ELSE /\ IF code = "broken" THEN Reconnect(s, w, None, call)
                ELSE Fail(s, "destroy", w, call)
             /\ UNCHANGED accepted
     /\ confused' = \/ confused
                    \/ /\ webSockets[w].state = "closing"
                       /\ code # "destroy" /\ ~IsInternalReconnectClose(w, code)
     /\ UNCHANGED <<attempts, written, lost>>

\* The server accepts the connection, and says so.
OnOpen(w) ==
  /\ webSockets[w].state = "connecting"
  /\ webSockets' = [webSockets EXCEPT ![w].state = "open",
       ![w].in = Append(@, [event |-> None, answer |-> "open"])]
  /\ UNCHANGED <<client, calls, sock, history>>

\* What was queued is written if the WebSocket is open.
CanSend(s) == sock[s].ws # None /\ webSockets[sock[s].ws].state = "open"

\* Mutant: only after a reconnect; the queue is emptied in any case.
SendAgainAfterReconnect(s) ==
  IF CanSend(s) /\ sock[s].count # 0 THEN ToSet(sock[s].queue) ELSE {}

SendAgain(s) == IF CanSend(s) THEN ToSet(sock[s].queue) ELSE {}

\* connect resolves, and the session is connected.
Connected(s) ==
  session' = IF sock[s].heard /\ session = "connecting" THEN "connected" ELSE session

\* The queue is emptied, though a write may fail, which is only logged.
HandleOpen(s, w) ==
  /\ sock' = [sock EXCEPT ![s].isOpen = TRUE, ![s].state = "connected",
                          ![s].count = 0, ![s].queue = <<>>]
  /\ \E failed \in SUBSET (SendAgain(s) \cap Events) :
       LET sent == SendAgain(s) \ ({Other} \cup failed)
       IN /\ webSockets' = [x \in WebSockets |-> [webSockets[x] EXCEPT
               !.in = IF x = w THEN Tail(@) ELSE @,
               !.out = IF x = sock[s].ws THEN @ \cup sent ELSE @]]
          /\ written' = written \cup sent
          /\ lost' = lost \cup failed
  /\ Connected(s)
  /\ confused' = (confused \/ w # sock[s].ws)
  /\ UNCHANGED <<socket, isClosed, token, calls, accepted, dropped>>

\* An acknowledgement: the server may have failed, and is tried again later.
HandleAcknowledge(s, w, e, answer) ==
  /\ webSockets' = [webSockets EXCEPT ![w].in = Tail(@)]
  /\ call' = IF ~sock[s].heard \/ call[e] # "waiting" THEN call
             ELSE [call EXCEPT ![e] = CASE answer = "ok" -> "resolved"
                                        [] answer = "unexpected" -> "backoff"
                                        [] answer = "refused" -> "rejected"]
  /\ UNCHANGED <<client, attempts, sock, history>>

OnMessage(w) ==
  /\ webSockets[w].state \in {"open", "closing"} /\ webSockets[w].in # <<>>
  /\ LET s == webSockets[w].owner
         message == Head(webSockets[w].in)
     IN IF message.answer = "open" THEN HandleOpen(s, w)
        ELSE HandleAcknowledge(s, w, message.event, message.answer)

\* The server gets an event and acknowledges it.  What it does before it is
\* told to close may be heard of later.
Acknowledge(w) ==
  /\ webSockets[w].state = "open"
  /\ \E e \in webSockets[w].out, answer \in {"ok", "unexpected", "refused"} :
       webSockets' = [webSockets EXCEPT ![w].out = @ \ {e},
         ![w].in = Append(@, [event |-> e, answer |-> answer])]
  /\ UNCHANGED <<client, calls, sock, history>>

-----------------------------------------------------------------------------
(* The client.                                                             *)

\* Socket.send: a write fails, or there is nothing to write to.
SocketSend(e) ==
  LET s == socket
      waits == [call EXCEPT ![e] = "waiting"]
  IN /\ accepted' = accepted \cup {e}
     /\ \/ /\ sock[s].isOpen /\ CanSend(s)
           /\ webSockets' = [webSockets EXCEPT ![sock[s].ws].out = @ \cup {e}]
           /\ written' = written \cup {e} /\ call' = waits
           /\ UNCHANGED <<client, sock, dropped>>
        \/ /\ ResendAfterReconnect(s, e, waits)
           /\ UNCHANGED written
     /\ UNCHANGED <<lost, confused>>

Closed == socket # None => sock[socket].state = "closed"

SendWhenClosed(e) ==
  /\ call[e] = "none" /\ Closed
  /\ call' = [call EXCEPT ![e] = "rejected"]
  /\ UNCHANGED <<client, attempts, sock, webSockets, history>>

\* The event will be sent, but nobody waits for it.
SendWhenConnecting(e) ==
  /\ call[e] = "none" /\ ~Closed /\ sock[socket].state = "connecting"
  /\ Push(socket, e)
  /\ accepted' = accepted \cup {e}
  /\ call' = [call EXCEPT ![e] = "rejected"]
  /\ UNCHANGED <<client, attempts, webSockets, written, lost, confused>>

SendClientEvent(e) ==
  /\ call[e] = "none" /\ ~Closed /\ sock[socket].state # "connecting"
  /\ SocketSend(e)
  /\ UNCHANGED attempts

\* The reports of the client: each hands one event over and waits for it.
Report(e) == SendWhenClosed(e) \/ SendWhenConnecting(e) \/ SendClientEvent(e)

\* Other reports wait in the queue too, and may make it overflow.
SendOther ==
  /\ ~Closed /\ sock[socket].state \in {"connecting", "reconnecting"}
  /\ Push(socket, Other)
  /\ UNCHANGED <<client, calls, webSockets, accepted, written, lost, confused>>

\* The acknowledgement does not come in time: the event goes to the queue,
\* and the call is over.
AcknowledgeTimesOut(e) ==
  /\ call[e] = "waiting"
  /\ LET waits == [call EXCEPT ![e] = "rejected"]
     IN IF socket = None
        THEN call' = waits /\ UNCHANGED <<client, sock, webSockets, dropped>>
        ELSE ResendAfterReconnect(socket, e, waits)
  /\ UNCHANGED <<attempts, accepted, written, lost, confused>>

TryAgain(e) ==
  /\ call[e] = "backoff"
  /\ attempts' = [attempts EXCEPT ![e] = @ + 1]
  /\ IF socket = None \/ attempts[e] + 1 = MaxAttempts
     THEN /\ call' = [call EXCEPT ![e] = "rejected"]
          /\ UNCHANGED <<client, sock, webSockets, history>>
     ELSE SocketSend(e)

\* The context has a new token.
SetNewSkyWayAuthToken ==
  /\ token = "first" /\ socket # None
  /\ token' = "set"
  /\ UNCHANGED <<socket, isClosed, session, calls, sock, webSockets, history>>

\* connectWithTimeout is over, or the context is disposed of.
SessionCloses ==
  /\ session # "closed" /\ session' = "closed"
  /\ UNCHANGED <<socket, isClosed, token, calls, sock, webSockets, history>>

-----------------------------------------------------------------------------
AnalyticsNext ==
  \/ \E w \in WebSockets :
       \/ OnOpen(w)
       \/ OnMessage(w)
       \/ Acknowledge(w)
       \/ \E code \in {"reconnect", "destroy", "broken", "failed", "expired"} : OnClose(w, code)
  \/ \E s \in SocketIds : ReconnectTimer(s) \/ ConnectThrows(s)
  \/ \E e \in Events :
       \/ Report(e)
       \/ AcknowledgeTimesOut(e)
       \/ TryAgain(e)
  \/ SendOther
  \/ SetNewSkyWayAuthToken
  \/ SessionCloses

AnalyticsSpec == AnalyticsInit /\ [][AnalyticsNext]_analytics

-----------------------------------------------------------------------------
(* Properties.                                                             *)

\* A Socket that has not been destroyed has a WebSocket that may still open or
\* close, or a timer to make one: whatever closes in whatever order, it does not
\* wait for nothing (socket.ts:144 and 216).
SocketIsServed ==
  \A s \in SocketIds :
    sock[s].heard =>
      \/ sock[s].timers > 0
      \/ sock[s].ws # None /\ webSockets[sock[s].ws].state # "closed"

\* An event that the client's Socket has been given is written sooner or later, or
\* it is in the queue (socket.ts:270 and 345), whatever connections break.  It is
\* lost only if the queue has overflowed, if the one write that empties the queue
\* fails (socket.ts:366), or with the Socket of a token that has expired.
\* Excluded: a WebSocket that has been given up opens late, or another one is
\* made for its close event; the events are lost that are queued when it opens.
UnsentIsQueued ==
  socket # None /\ ~confused /\ sock[socket].state # "closed" =>
    accepted \subseteq written \cup dropped \cup lost \cup ToSet(sock[socket].queue)
=============================================================================
