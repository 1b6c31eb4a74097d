---------------------------- MODULE SfuTransport ----------------------------
(***************************************************************************)
(* SFUTransport (packages/sfu-bot/src/connection/transport/transport.ts):  *)
(* the connection state it shows and the ICE restarts it makes when the    *)
(* mediasoup transport loses its connection.                               *)
(*                                                                         *)
(* Every loss reported while no restart is under way starts a handler that *)
(* gives the connection some time and then calls restartIce, which calls   *)
(* itself until the connection is back or the back-off is exceeded.  The   *)
(* states "connecting" and "connected" overwrite "reconnecting", so that a *)
(* second loss can start a second restart beside the first; both use the   *)
(* one back-off.  When the request of a restart fails, restartIce is       *)
(* called from within it, and that call's caller then goes on waiting.     *)
(*                                                                         *)
(* mediasoup, the network and the SFU's REST API are external.             *)
(***************************************************************************)
EXTENDS Integers

CONSTANTS
  Handlers,          \* bound: handlers of state changes that run at once
  Times,             \* times of the BackOff
  MaxNested          \* bound: failed requests one restart makes in a row

ASSUME TimesAssumption == Times \in Nat \ {0}
ASSUME MaxNestedAssumption == MaxNested \in Nat

VARIABLES
  ms,                \* connectionState of the mediasoup transport
  connectionState,   \* what SFUTransport shows
  count,             \* of _backoffIceRestart
  disableRestartIce, \* option of the bot
  left,              \* the bot has left the channel
  phase,             \* of each handler: the await it is at
  callers            \* of each handler: calls of restartIce around the innermost

vars == <<ms, connectionState, count, disableRestartIce, left, phase, callers>>

States == {"new", "connecting", "connected", "disconnected", "failed", "closed"}
Restarting == {"backoff", "updating", "asking", "watching"}
exceeded == count >= Times
closed == ms = "closed"

TypeOK ==
  /\ ms \in States
  /\ connectionState \in {"new", "connecting", "connected", "reconnecting", "disconnected"}
  /\ count \in 0 .. Times
  /\ disableRestartIce \in BOOLEAN /\ left \in BOOLEAN
  /\ phase \in [Handlers -> Restarting \cup {"idle", "buffering"}]
  /\ callers \in [Handlers -> 0 .. MaxNested]

Init ==
  /\ ms = "new" /\ connectionState = "new"
  /\ count = 0 /\ left = FALSE
  /\ disableRestartIce \in BOOLEAN
  /\ phase = [h \in Handlers |-> "idle"]
  /\ callers = [h \in Handlers |-> 0]

-----------------------------------------------------------------------------
(* restartIce.                                                             *)

\* The innermost call of h is over, and so are those around it when the
\* connection is there; otherwise the next one waits for it.
Return(h) ==
  IF callers[h] = 0 \/ ms = "connected"
  THEN /\ phase' = [phase EXCEPT ![h] = "idle"]
       /\ callers' = [callers EXCEPT ![h] = 0]
  ELSE /\ phase' = [phase EXCEPT ![h] = "watching"]
       /\ callers' = [callers EXCEPT ![h] = @ - 1]

\* Mutant: the end of a restart is not shown.
EndQuietly == count' = 0 /\ UNCHANGED connectionState

\* What checkNeedEnd does when it says that the restart is over.
End ==
  IF left THEN /\ connectionState' = "disconnected"
               /\ UNCHANGED count
          ELSE /\ connectionState' = "connected"
               /\ count' = 0

\* Mutant: nothing shows that no more is tried.
GiveUpQuietly(h) ==
  /\ exceeded
  /\ Return(h)
  /\ UNCHANGED <<connectionState, count>>

GiveUp(h) ==
  /\ exceeded
  /\ IF callers[h] > 0 /\ ms = "connected"
     THEN End
     ELSE /\ connectionState' = "disconnected"
          /\ UNCHANGED count
  /\ Return(h)

\* Mutant: the attempt is not counted.
RestartUncounted(h, around) ==
  /\ connectionState' = "reconnecting"
  /\ phase' = [phase EXCEPT ![h] = "backoff"]
  /\ callers' = [callers EXCEPT ![h] = around]
  /\ UNCHANGED count

StartRestart(h, around) ==
  /\ ~exceeded
  /\ connectionState' = "reconnecting"
  /\ count' = count + 1
  /\ phase' = [phase EXCEPT ![h] = "backoff"]
  /\ callers' = [callers EXCEPT ![h] = around]

\* restartIce called by h, up to its first await.
RestartIce(h) == GiveUp(h) \/ StartRestart(h, callers[h])

\* A transport that is closed throws: no call goes on.
Throw(h) ==
  /\ phase' = [phase EXCEPT ![h] = "idle"]
  /\ callers' = [callers EXCEPT ![h] = 0]
  /\ UNCHANGED <<connectionState, count>>

\* checkNeedEnd, and the next await if it does not end.
ContinueUnlessOver(h, next) ==
  IF left \/ ms = "connected"
  THEN End /\ Return(h)
  ELSE /\ phase' = [phase EXCEPT ![h] = next]
       /\ UNCHANGED <<connectionState, count, callers>>

BackoffElapses(h) ==
  /\ phase[h] = "backoff"
  /\ ContinueUnlessOver(h, "updating")
  /\ UNCHANGED <<ms, disableRestartIce, left>>

\* updateIceParams settles; updateIceServers follows.
IceParamsUpdated(h, failed) ==
  /\ phase[h] = "updating"
  /\ \/ failed /\ RestartIce(h)
     \/ ~failed /\ closed /\ Throw(h)
     \/ ~failed /\ ~closed /\ ContinueUnlessOver(h, "asking")
  /\ UNCHANGED <<ms, disableRestartIce, left>>

\* _mediasoupRestartIce calls restartIce and, when that is over, lets its
\* own caller wait for the connection.
RestartWithin(h) ==
  IF exceeded
  THEN /\ IF ms = "connected"
          THEN End
          ELSE connectionState' = "disconnected" /\ UNCHANGED count
       /\ phase' = [phase EXCEPT ![h] = IF ms = "connected" THEN "idle" ELSE "watching"]
       /\ callers' = [callers EXCEPT ![h] = IF ms = "connected" THEN 0 ELSE @]
  ELSE StartRestart(h, callers[h] + 1)

\* What follows when the API has answered: mediasoup restarts ICE, and the
\* call waits for the connection unless it is there.
AwaitConnection(h) ==
  IF ms = "connected"
  THEN End /\ Return(h)
  ELSE /\ phase' = [phase EXCEPT ![h] = "watching"]
       /\ UNCHANGED <<connectionState, count, callers>>

\* iceRestart of the API settles.
IceRestartAnswered(h, failed) ==
  /\ phase[h] = "asking"
  /\ \/ failed /\ callers[h] < MaxNested /\ RestartWithin(h)
     \/ ~failed /\ closed /\ Throw(h)
     \/ ~failed /\ ~closed /\ AwaitConnection(h)
  /\ UNCHANGED <<ms, disableRestartIce, left>>

\* _waitForMsConnectionState gives up; connected ends it at once.
WatchTimesOut(h) ==
  /\ phase[h] = "watching"
  /\ RestartIce(h)
  /\ UNCHANGED <<ms, disableRestartIce, left>>

-----------------------------------------------------------------------------
(* onMediasoupConnectionStateChanged.                                      *)

MsConnecting ==
  /\ ms \notin {"connecting", "connected", "closed"}
  /\ ms' = "connecting" /\ connectionState' = "connecting"
  /\ UNCHANGED <<count, disableRestartIce, left, phase, callers>>

\* Every watch for the connection resolves before the next event: the
\* handlers that gave it time are done, and so are the restarts.
MsConnected ==
  /\ ms \notin {"new", "connected", "closed"}
  /\ ms' = "connected"
  /\ LET resolved == {h \in Handlers : phase[h] \in {"buffering", "watching"}}
     IN /\ phase' = [h \in Handlers |-> IF h \in resolved THEN "idle" ELSE phase[h]]
        /\ callers' = [h \in Handlers |-> IF h \in resolved THEN 0 ELSE callers[h]]
        /\ IF \E h \in Handlers : phase[h] = "watching"
           THEN End
           ELSE connectionState' = "connected" /\ UNCHANGED count
  /\ UNCHANGED <<disableRestartIce, left>>

MsLost(state) ==
  /\ state # ms /\ ms \notin {"new", "closed"}
  /\ ms' = state
  /\ IF connectionState = "reconnecting"
     THEN UNCHANGED phase
     ELSE \E h \in Handlers : /\ phase[h] = "idle"
                              /\ phase' = [phase EXCEPT ![h] = "buffering"]
  /\ UNCHANGED <<connectionState, count, disableRestartIce, left, callers>>

\* iceDisconnectBufferTimeout is over without a connection.
BufferElapses(h) ==
  /\ phase[h] = "buffering"
  /\ IF connectionState # "reconnecting" /\ ~disableRestartIce
     THEN RestartIce(h)
     ELSE /\ phase' = [phase EXCEPT ![h] = "idle"]
          /\ UNCHANGED <<connectionState, count, callers>>
  /\ UNCHANGED <<ms, disableRestartIce, left>>

BotLeaves ==
  /\ ~left /\ left' = TRUE
  /\ UNCHANGED <<ms, connectionState, count, disableRestartIce, phase, callers>>

Close ==
  /\ ~closed
  /\ ms' = "closed" /\ connectionState' = "disconnected"
  /\ UNCHANGED <<count, disableRestartIce, left, phase, callers>>

-----------------------------------------------------------------------------
Proceeds(h) ==
  \/ BackoffElapses(h)
  \/ \E failed \in BOOLEAN : \/ IceParamsUpdated(h, failed)
                             \/ IceRestartAnswered(h, failed)
  \/ WatchTimesOut(h)
  \/ BufferElapses(h)

Next ==
  \/ \E h \in Handlers : Proceeds(h)
  \/ MsConnecting
  \/ MsConnected
  \/ \E state \in {"disconnected", "failed"} : MsLost(state)
  \/ BotLeaves
  \/ Close

\* Timers elapse and requests settle (they have timeouts); the network and
\* the application owe nothing.
Fairness == \A h \in Handlers : WF_vars(Proceeds(h))

Spec == Init /\ [][Next]_vars /\ Fairness

-----------------------------------------------------------------------------
(* Properties.                                                             *)

\* A transport that shows "reconnecting" has a restart under way that will
\* reach a connection or show "disconnected", although any number of
\* restarts share the state and the count (restartIce, transport.ts:215).
\* Closing is excluded: a restart that meets it throws.
ReconnectingIsServed ==
  connectionState = "reconnecting" /\ ~closed
    => \E h \in Handlers : phase[h] \in Restarting

\* Once no restart is under way, a connection that is there is shown, unless
\* the restarts have used up their attempts or the bot has left: no loop that
\* ends late leaves its own state behind (checkNeedEnd, transport.ts:240).
ConnectionIsShown ==
  (/\ ms = "connected" /\ ~left /\ ~exceeded
   /\ \A h \in Handlers : phase[h] \notin Restarting)
    => connectionState = "connected"

\* Nobody who looks at a transport waits for a reconnect for ever: it
\* succeeds or is given up, whatever requests fail (transport.ts:216-227).
ReconnectingEnds ==
  connectionState = "reconnecting" ~> connectionState # "reconnecting" \/ closed
=============================================================================
