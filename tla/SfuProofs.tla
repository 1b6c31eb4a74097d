------------------------------ MODULE SfuProofs ------------------------------
(***************************************************************************)
(* Proofs about SfuTransport, for any number of handlers that run at once, *)
(* any number of attempts and any depth of nested restarts, and, in the    *)
(* second part, about SfuReceiving, for any number of subscriptions and    *)
(* retries.                                                                *)
(*                                                                         *)
(* SfuTransport's properties are inductive next to its types.  A restart   *)
(* that is over has said so (End, GiveUp), unless the transport is closed; *)
(* hence "reconnecting" without a restart is never left behind.  And the   *)
(* count falls only in End, which shows the connection; hence a connection *)
(* that is not shown has a restart under way or has used up its attempts.  *)
(***************************************************************************)
EXTENDS SfuTransport, SfuReceiving, TLAPS

\* What the code that follows an await is built from.
USE DEF Restarting

LEMMA InitType == Init => TypeOK
<1> SUFFICES ASSUME Init PROVE TypeOK
  OBVIOUS
<1>1. 0 \in 0 .. Times /\ 0 \in 0 .. MaxNested
  BY TimesAssumption, MaxNestedAssumption
<1>2. disableRestartIce \in BOOLEAN /\ left \in BOOLEAN
  BY DEF Init
<1>3. /\ phase \in [Handlers -> Restarting \cup {"idle", "buffering"}]
      /\ callers \in [Handlers -> 0 .. MaxNested]
  BY <1>1 DEF Init
<1> QED
  BY <1>1, <1>2, <1>3, Zenon DEF Init, TypeOK, States

\* The innermost call of a handler returns into a call around it or ends.
LEMMA ReturnType ==
  ASSUME TypeOK, NEW h \in Handlers, Return(h)
  PROVE  /\ phase' \in [Handlers -> Restarting \cup {"idle", "buffering"}]
         /\ callers' \in [Handlers -> 0 .. MaxNested]
  BY MaxNestedAssumption DEF TypeOK, Return

LEMMA EndType ==
  ASSUME TypeOK, End
  PROVE  /\ connectionState' \in {"connected", "disconnected"}
         /\ count' \in 0 .. Times
  BY TimesAssumption DEF TypeOK, End

LEMMA StartType ==
  ASSUME TypeOK, NEW h \in Handlers, NEW around \in 0 .. MaxNested,
         StartRestart(h, around)
  PROVE  /\ connectionState' = "reconnecting"
         /\ count' \in 0 .. Times
         /\ phase' \in [Handlers -> Restarting \cup {"idle", "buffering"}]
         /\ callers' \in [Handlers -> 0 .. MaxNested]
  BY TimesAssumption DEF TypeOK, StartRestart, exceeded

\* The part of the state that the code of a handler writes.
Shown == {"new", "connecting", "connected", "reconnecting", "disconnected"}

HandlerType ==
  /\ connectionState \in Shown
  /\ count \in 0 .. Times
  /\ phase \in [Handlers -> Restarting \cup {"idle", "buffering"}]
  /\ callers \in [Handlers -> 0 .. MaxNested]

LEMMA RestartType ==
  ASSUME TypeOK, NEW h \in Handlers, RestartIce(h)
  PROVE  HandlerType'
<1>1. CASE GiveUp(h)
  BY <1>1, ReturnType, EndType DEF TypeOK, HandlerType, Shown, GiveUp
<1>2. CASE StartRestart(h, callers[h])
  <2>1. callers[h] \in 0 .. MaxNested
    BY DEF TypeOK
  <2> QED
    BY <1>2, <2>1, StartType DEF HandlerType, Shown
<1> QED
  BY <1>1, <1>2 DEF RestartIce

LEMMA ContinueType ==
  ASSUME TypeOK, NEW h \in Handlers, NEW next \in Restarting,
         ContinueUnlessOver(h, next)
  PROVE  HandlerType'
<1>1. CASE left \/ ms = "connected"
  BY <1>1, ReturnType, EndType DEF HandlerType, Shown, ContinueUnlessOver
<1>2. CASE ~(left \/ ms = "connected")
  BY <1>2 DEF TypeOK, HandlerType, Shown, ContinueUnlessOver
<1> QED
  BY <1>1, <1>2

LEMMA ThrowType ==
  ASSUME TypeOK, NEW h \in Handlers, Throw(h)
  PROVE  HandlerType'
  BY MaxNestedAssumption DEF TypeOK, HandlerType, Shown, Throw

LEMMA AnsweredType ==
  ASSUME TypeOK, NEW h \in Handlers, NEW failed \in BOOLEAN,
         IceRestartAnswered(h, failed)
  PROVE  HandlerType'
<1>1. CASE failed /\ callers[h] < MaxNested /\ RestartWithin(h)
  <2>1. CASE exceeded
    <3>1. connectionState' \in Shown /\ count' \in 0 .. Times
      BY <1>1, <2>1, EndType DEF TypeOK, RestartWithin, Shown
    <3>2. /\ phase' \in [Handlers -> Restarting \cup {"idle", "buffering"}]
          /\ callers' \in [Handlers -> 0 .. MaxNested]
      BY <1>1, <2>1, MaxNestedAssumption DEF TypeOK, RestartWithin
    <3> QED
      BY <3>1, <3>2 DEF HandlerType
  <2>2. CASE ~exceeded
    <3>1. callers[h] + 1 \in 0 .. MaxNested
      BY <1>1, MaxNestedAssumption DEF TypeOK
    <3>2. StartRestart(h, callers[h] + 1)
      BY <1>1, <2>2 DEF RestartWithin
    <3> QED
      BY <3>1, <3>2, StartType DEF HandlerType, Shown
  <2> QED
    BY <2>1, <2>2
<1>2. CASE ~failed /\ closed /\ Throw(h)
  BY <1>2, ThrowType
<1>3. CASE ~failed /\ ~closed /\ AwaitConnection(h)
  <2>1. CASE ms = "connected"
    BY <1>3, <2>1, ReturnType, EndType DEF HandlerType, Shown, AwaitConnection
  <2>2. CASE ms # "connected"
    BY <1>3, <2>2 DEF TypeOK, HandlerType, Shown, AwaitConnection
  <2> QED
    BY <2>1, <2>2
<1> QED
  BY <1>1, <1>2, <1>3 DEF IceRestartAnswered

LEMMA ProceedsType ==
  ASSUME TypeOK, NEW h \in Handlers, Proceeds(h)
  PROVE  HandlerType' /\ UNCHANGED <<ms, disableRestartIce, left>>
<1>1. CASE BackoffElapses(h)
  BY <1>1, ContinueType DEF BackoffElapses
<1>2. ASSUME NEW failed \in BOOLEAN, IceParamsUpdated(h, failed)
      PROVE  HandlerType' /\ UNCHANGED <<ms, disableRestartIce, left>>
  BY <1>2, RestartType, ThrowType, ContinueType DEF IceParamsUpdated
<1>3. ASSUME NEW failed \in BOOLEAN, IceRestartAnswered(h, failed)
      PROVE  HandlerType' /\ UNCHANGED <<ms, disableRestartIce, left>>
  BY <1>3, AnsweredType DEF IceRestartAnswered
<1>4. CASE WatchTimesOut(h)
  BY <1>4, RestartType DEF WatchTimesOut
<1>5. CASE BufferElapses(h)
  <2>1. CASE connectionState # "reconnecting" /\ ~disableRestartIce
    BY <1>5, <2>1, RestartType DEF BufferElapses
  <2>2. CASE ~(connectionState # "reconnecting" /\ ~disableRestartIce)
    BY <1>5, <2>2 DEF BufferElapses, TypeOK, HandlerType, Shown
  <2> QED
    BY <1>5, <2>1, <2>2 DEF BufferElapses
<1> QED
  BY <1>1, <1>2, <1>3, <1>4, <1>5 DEF Proceeds

LEMMA NextType ==
  ASSUME TypeOK, [Next]_vars
  PROVE  TypeOK'
<1>1. ASSUME NEW h \in Handlers, Proceeds(h)
      PROVE  TypeOK'
  BY <1>1, ProceedsType DEF TypeOK, HandlerType, Shown
<1>2. CASE MsConnecting
  BY <1>2 DEF TypeOK, States, MsConnecting
<1>3. CASE MsConnected
  <2>1. connectionState' \in {"connected", "disconnected"} /\ count' \in 0 .. Times
    BY <1>3, EndType DEF TypeOK, MsConnected
  <2>2. /\ phase' \in [Handlers -> Restarting \cup {"idle", "buffering"}]
        /\ callers' \in [Handlers -> 0 .. MaxNested]
    BY <1>3, MaxNestedAssumption DEF TypeOK, MsConnected
  <2> QED
    BY <1>3, <2>1, <2>2 DEF TypeOK, States, MsConnected
<1>4. ASSUME NEW state \in {"disconnected", "failed"}, MsLost(state)
      PROVE  TypeOK'
  BY <1>4 DEF TypeOK, States, MsLost
<1>5. CASE BotLeaves
  BY <1>5 DEF TypeOK, BotLeaves
<1>6. CASE Close
  BY <1>6 DEF TypeOK, States, Close
<1>7. CASE UNCHANGED vars
  BY <1>7 DEF TypeOK, vars
<1> QED
  BY <1>1, <1>2, <1>3, <1>4, <1>5, <1>6, <1>7 DEF Next

\* The types, whatever handlers run at once: the count never passes Times.
THEOREM TransportTypeCorrect == Spec => []TypeOK
  BY InitType, NextType, PTL DEF Spec

-----------------------------------------------------------------------------
(* What a step of a handler leaves behind.                                 *)

\* h goes on, or the transport is closed, or what is shown is true: nobody
\* reconnects, and a connection that is there is shown as far as it must be.
Told(h) ==
  \/ phase[h] \in Restarting
  \/ closed
  \/ /\ connectionState # "reconnecting"
     /\ connectionState = "connected" \/ ms # "connected" \/ left \/ exceeded

LEMMA EndTells ==
  ASSUME TypeOK, NEW h \in Handlers, End, UNCHANGED <<ms, left>>
  PROVE  Told(h)'
  BY DEF TypeOK, End, Told, exceeded, closed

LEMMA RestartTells ==
  ASSUME TypeOK, NEW h \in Handlers, RestartIce(h), UNCHANGED <<ms, left>>
  PROVE  Told(h)'
<1>1. CASE GiveUp(h)
  <2>1. CASE callers[h] > 0 /\ ms = "connected"
    BY <1>1, <2>1, EndTells DEF GiveUp
  <2>2. CASE ~(callers[h] > 0 /\ ms = "connected")
    BY <1>1, <2>2 DEF GiveUp, Told, exceeded
  <2> QED
    BY <2>1, <2>2
<1>2. CASE StartRestart(h, callers[h])
  BY <1>2 DEF TypeOK, StartRestart, Told
<1> QED
  BY <1>1, <1>2 DEF RestartIce

LEMMA ContinueTells ==
  ASSUME TypeOK, NEW h \in Handlers, NEW next \in Restarting,
         ContinueUnlessOver(h, next), UNCHANGED <<ms, left>>
  PROVE  Told(h)'
<1>1. CASE left \/ ms = "connected"
  BY <1>1, EndTells DEF ContinueUnlessOver
<1>2. CASE ~(left \/ ms = "connected")
  BY <1>2 DEF TypeOK, ContinueUnlessOver, Told
<1> QED
  BY <1>1, <1>2

LEMMA AnsweredTells ==
  ASSUME TypeOK, NEW h \in Handlers, NEW failed \in BOOLEAN,
         IceRestartAnswered(h, failed)
  PROVE  Told(h)'
<1>0. UNCHANGED <<ms, left>>
  BY DEF IceRestartAnswered
<1>1. CASE failed /\ callers[h] < MaxNested /\ RestartWithin(h)
  <2>1. CASE exceeded /\ ms = "connected"
    BY <1>0, <1>1, <2>1, EndTells DEF RestartWithin
  <2>2. CASE exceeded /\ ms # "connected"
    BY <1>0, <1>1, <2>2 DEF TypeOK, RestartWithin, Told
  <2>3. CASE ~exceeded
    BY <1>1, <2>3 DEF TypeOK, RestartWithin, StartRestart, Told
  <2> QED
    BY <2>1, <2>2, <2>3
<1>2. CASE ~failed /\ closed
  BY <1>0, <1>2 DEF Told, closed
<1>3. CASE ~failed /\ ~closed /\ AwaitConnection(h)
  <2>1. CASE ms = "connected"
    BY <1>0, <1>3, <2>1, EndTells DEF AwaitConnection
  <2>2. CASE ms # "connected"
    BY <1>3, <2>2 DEF TypeOK, AwaitConnection, Told
  <2> QED
    BY <2>1, <2>2
<1> QED
  BY <1>1, <1>2, <1>3 DEF IceRestartAnswered

\* The other handlers are not touched.
Alone(h) == \A k \in Handlers \ {h} : phase'[k] = phase[k]

LEMMA RestartAlone ==
  ASSUME TypeOK, NEW h \in Handlers, RestartIce(h)
  PROVE  Alone(h)
<1>1. CASE GiveUp(h)
  BY <1>1 DEF TypeOK, GiveUp, Return, Alone
<1>2. CASE StartRestart(h, callers[h])
  BY <1>2 DEF TypeOK, StartRestart, Alone
<1> QED
  BY <1>1, <1>2 DEF RestartIce

LEMMA ContinueAlone ==
  ASSUME TypeOK, NEW h \in Handlers, NEW next, ContinueUnlessOver(h, next)
  PROVE  Alone(h)
  BY DEF TypeOK, ContinueUnlessOver, Return, Alone

LEMMA AnsweredAlone ==
  ASSUME TypeOK, NEW h \in Handlers, NEW failed \in BOOLEAN,
         IceRestartAnswered(h, failed)
  PROVE  Alone(h)
<1>1. CASE RestartWithin(h)
  BY <1>1 DEF TypeOK, RestartWithin, StartRestart, Alone
<1>2. CASE Throw(h)
  BY <1>2 DEF TypeOK, Throw, Alone
<1>3. CASE AwaitConnection(h)
  BY <1>3 DEF TypeOK, AwaitConnection, Return, Alone
<1> QED
  BY <1>1, <1>2, <1>3 DEF IceRestartAnswered

\* A handler that was not restarting ends and shows nothing.
EndsUnseen(h) ==
  /\ phase[h] \notin Restarting
  /\ UNCHANGED <<ms, left, connectionState, count>>

LEMMA ProceedsTells ==
  ASSUME TypeOK, NEW h \in Handlers, Proceeds(h)
  PROVE  Alone(h) /\ (Told(h)' \/ EndsUnseen(h))
<1>1. CASE BackoffElapses(h)
  BY <1>1, ContinueTells, ContinueAlone DEF BackoffElapses
<1>2. ASSUME NEW failed \in BOOLEAN, IceParamsUpdated(h, failed)
      PROVE  Alone(h) /\ Told(h)'
  <2>1. CASE failed /\ RestartIce(h)
    BY <1>2, <2>1, RestartTells, RestartAlone DEF IceParamsUpdated
  <2>2. CASE ~failed /\ closed /\ Throw(h)
    BY <1>2, <2>2 DEF TypeOK, IceParamsUpdated, Throw, Told, closed, Alone
  <2>3. CASE ~failed /\ ~closed /\ ContinueUnlessOver(h, "asking")
    BY <1>2, <2>3, ContinueTells, ContinueAlone DEF IceParamsUpdated
  <2> QED
    BY <1>2, <2>1, <2>2, <2>3 DEF IceParamsUpdated
<1>3. ASSUME NEW failed \in BOOLEAN, IceRestartAnswered(h, failed)
      PROVE  Alone(h) /\ Told(h)'
  BY <1>3, AnsweredTells, AnsweredAlone
<1>4. CASE WatchTimesOut(h)
  BY <1>4, RestartTells, RestartAlone DEF WatchTimesOut
<1>5. CASE BufferElapses(h)
  <2>1. CASE connectionState # "reconnecting" /\ ~disableRestartIce
    BY <1>5, <2>1, RestartTells, RestartAlone DEF BufferElapses
  <2>2. CASE ~(connectionState # "reconnecting" /\ ~disableRestartIce)
    BY <1>5, <2>2 DEF TypeOK, BufferElapses, Alone, EndsUnseen
  <2> QED
    BY <2>1, <2>2
<1> QED
  BY <1>1, <1>2, <1>3, <1>4, <1>5 DEF Proceeds

-----------------------------------------------------------------------------
(* The invariant.                                                          *)

TransportInv == TypeOK /\ ReconnectingIsServed /\ ConnectionIsShown

LEMMA TransportInitInv == Init => TransportInv
  BY InitType DEF Init, TransportInv, ReconnectingIsServed, ConnectionIsShown

LEMMA ProceedsInv ==
  ASSUME TransportInv, NEW h \in Handlers, Proceeds(h)
  PROVE  ReconnectingIsServed' /\ ConnectionIsShown'
<1>1. TypeOK /\ Alone(h)
  BY ProceedsTells DEF TransportInv
<1>2. CASE Told(h)'
  BY <1>2 DEF Told, ReconnectingIsServed, ConnectionIsShown, exceeded, closed
<1>3. CASE EndsUnseen(h)
  <2>1. \A k \in Handlers : phase[k] \in Restarting => phase'[k] \in Restarting
    BY <1>1, <1>3 DEF Alone, EndsUnseen
  <2>2. UNCHANGED <<ms, left, connectionState, exceeded, closed>>
    BY <1>3 DEF EndsUnseen, exceeded, closed
  <2> QED
    BY <2>1, <2>2 DEF TransportInv, ReconnectingIsServed, ConnectionIsShown
<1> QED
  BY <1>1, <1>2, <1>3, ProceedsTells

LEMMA TransportNextInv ==
  ASSUME TransportInv, [Next]_vars
  PROVE  TransportInv'
<1> SUFFICES ReconnectingIsServed' /\ ConnectionIsShown'
  BY NextType DEF TransportInv
<1>1. ASSUME NEW h \in Handlers, Proceeds(h)
      PROVE  ReconnectingIsServed' /\ ConnectionIsShown'
  BY <1>1, ProceedsInv
<1>2. CASE MsConnecting
  BY <1>2 DEF MsConnecting, ReconnectingIsServed, ConnectionIsShown
<1>3. CASE MsConnected
  BY <1>3 DEF MsConnected, End, ReconnectingIsServed, ConnectionIsShown
<1>4. ASSUME NEW state \in {"disconnected", "failed"}, MsLost(state)
      PROVE  ReconnectingIsServed' /\ ConnectionIsShown'
  <2>1. ConnectionIsShown'
    BY <1>4 DEF MsLost, ConnectionIsShown
  <2>2. CASE connectionState = "reconnecting"
    BY <1>4, <2>1, <2>2 DEF MsLost, TransportInv, ReconnectingIsServed, closed
  <2>3. CASE connectionState # "reconnecting"
    BY <1>4, <2>1, <2>3 DEF MsLost, ReconnectingIsServed
  <2> QED
    BY <2>1, <2>2, <2>3
<1>5. CASE BotLeaves
  BY <1>5 DEF BotLeaves, TransportInv, ReconnectingIsServed, ConnectionIsShown, closed
<1>6. CASE Close
  BY <1>6 DEF Close, ReconnectingIsServed, ConnectionIsShown
<1>7. CASE UNCHANGED vars
  BY <1>7 DEF vars, TransportInv, ReconnectingIsServed, ConnectionIsShown,
              exceeded, closed
<1> QED
  BY <1>1, <1>2, <1>3, <1>4, <1>5, <1>6, <1>7 DEF Next

\* Whoever sees "reconnecting" has a restart under way, however many share the
\* state and the count (transport.ts:215).
THEOREM TransportReconnectingServed == Spec => []ReconnectingIsServed
<1>1. TransportInv => ReconnectingIsServed
  BY DEF TransportInv
<1> QED
  BY <1>1, TransportInitInv, TransportNextInv, PTL DEF Spec

\* A connection that is there is shown once no restart is under way
\* (transport.ts:240).
THEOREM TransportConnectionShown == Spec => []ConnectionIsShown
<1>1. TransportInv => ConnectionIsShown
  BY DEF TransportInv
<1> QED
  BY <1>1, TransportInitInv, TransportNextInv, PTL DEF Spec

-----------------------------------------------------------------------------
(* SfuReceiving.                                                           *)

\* Making and answering a consumer: of request and reply at most one is there,
\* and only while consume asks; one that waits has seen the SFU's transport
\* without finding it in the repository.
AskingInOrder ==
  \A s \in Subs :
    /\ request[s] => consume[s] = "asking" /\ reply[s] = "none"
    /\ reply[s] # "none" => consume[s] = "asking" /\ sfuTransport
    /\ consume[s] = "waiting" => sfuTransport /\ ~transport
    /\ known[s] = "none" => consume[s] = "none"

\* Something excuses that the options are not there.
Excused ==
  \E t \in Subs : retries[t] > 0 \/ consume[t] \in {"releasing", "failed"}

\* The transport that the SFU has made is announced or will be.
OptionsOnTheirWay ==
  sfuTransport /\ ~transport => (\E t \in Subs : reply[t] = "options") \/ Excused

\* A consumer is that of a consume that is done, and of a subscription that the
\* replica lists; a failed consume has been released.
ConsumersFollow ==
  \A s \in Subs :
    /\ s \in consumers => consume[s] = "done"
    /\ consume[s] = "done" /\ known[s] = "subscribed" => s \in consumers
    /\ s \in consumers /\ s \notin overtaken => known[s] = "subscribed"
    /\ consume[s] = "failed" /\ s \notin stranded => known[s] = "ended"
    /\ consume[s] \in Consuming /\ known[s] = "ended" => s \in overtaken

ReceivingInv ==
  /\ ReceivingTypeOK
  /\ AskingInOrder
  /\ OptionsOnTheirWay
  /\ ConsumersFollow

\* The steps that only the caller of subscribe, the server and the channel's
\* events for the bot take: what the SFU is asked for is left alone.
CallerStep ==
  UNCHANGED <<known, consume, sfu, loaded, transport, consumers, streams, overtaken,
              stranded>>

LEMMA ReceivingInitInv == ReceivingInit => ReceivingInv
<1> SUFFICES ASSUME ReceivingInit PROVE ReceivingInv
  OBVIOUS
<1>1. 0 \in 0 .. MaxRetries
  BY MaxRetriesAssumption
<1>2. ReceivingTypeOK
  BY <1>1, Zenon DEF ReceivingInit, ReceivingTypeOK
<1> QED
  BY <1>2 DEF ReceivingInit, ReceivingInv, AskingInOrder, OptionsOnTheirWay,
              ConsumersFollow, Consuming

LEMMA CallerStepInv ==
  ASSUME ReceivingInv, CallerStep, ReceivingTypeOK'
  PROVE  ReceivingInv'
<1> USE DEF ReceivingInv, CallerStep, sfu
<1>1. AskingInOrder'
  BY DEF AskingInOrder
<1>2. OptionsOnTheirWay'
  BY DEF OptionsOnTheirWay, Excused
<1>3. ConsumersFollow'
  BY DEF ConsumersFollow
<1> QED
  BY <1>1, <1>2, <1>3

\* The calls of subscribe and the RTC API server.
LEMMA CallersInv ==
  ASSUME ReceivingInv, NEW s \in Subs,
         \/ Subscribe(s) \/ ServerSubscribes(s) \/ SubscribeFails(s)
         \/ SubscribeContinues(s) \/ SubscribeTimesOut(s) \/ ServerUnsubscribes(s)
  PROVE  ReceivingInv'
<1>1. CallerStep
  BY DEF Subscribe, ServerSubscribes, SubscribeFails, SubscribeContinues,
         SubscribeTimesOut, ServerUnsubscribes, CallerStep
<1>2. ReceivingTypeOK
  BY DEF ReceivingInv
<1>3. call' \in [Subs -> {"idle", "asking", "watching", "resolved", "rejected"}]
  BY <1>2 DEF Subscribe, ServerSubscribes, SubscribeFails, SubscribeContinues,
         SubscribeTimesOut, ServerUnsubscribes, ReceivingTypeOK
<1>4. channel' \in [Subs -> {"none", "subscribed", "ended"}]
  BY <1>2 DEF Subscribe, ServerSubscribes, SubscribeFails, SubscribeContinues,
         SubscribeTimesOut, ServerUnsubscribes, ReceivingTypeOK
<1>5. botLeft' \in BOOLEAN /\ leftKnown' \in BOOLEAN
  BY <1>2, Zenon DEF Subscribe, ServerSubscribes, SubscribeFails, SubscribeContinues,
         SubscribeTimesOut, ServerUnsubscribes, ReceivingTypeOK
<1>6. ReceivingTypeOK'
  BY <1>1, <1>2, <1>3, <1>4, <1>5, Zenon DEF CallerStep, sfu, ReceivingTypeOK
<1> QED
  BY <1>1, <1>6, CallerStepInv

LEMMA EventSubscribedInv ==
  ASSUME ReceivingInv, NEW s \in Subs, EventSubscribed(s)
  PROVE  ReceivingInv'
<1> USE DEF ReceivingInv, EventSubscribed
<1>0. consume[s] = "none" /\ reply[s] = "none"
  BY DEF ReceivingTypeOK, AskingInOrder
<1>1. ReceivingTypeOK'
  BY DEF ReceivingTypeOK, Consuming
<1>2. AskingInOrder'
  BY <1>0 DEF AskingInOrder, ReceivingTypeOK
<1>3. OptionsOnTheirWay'
  BY <1>0 DEF OptionsOnTheirWay, Excused, ReceivingTypeOK
<1>4. ConsumersFollow'
  BY <1>0 DEF ConsumersFollow, ReceivingTypeOK, Consuming
<1> QED
  BY <1>1, <1>2, <1>3, <1>4

LEMMA DeviceLoadedInv ==
  ASSUME ReceivingInv, NEW s \in Subs, DeviceLoaded(s)
  PROVE  ReceivingInv'
<1> USE DEF ReceivingInv, DeviceLoaded
<1>1. ReceivingTypeOK'
  BY DEF ReceivingTypeOK, Consuming
<1>2. AskingInOrder'
  BY DEF AskingInOrder, ReceivingTypeOK
<1>3. OptionsOnTheirWay'
  BY DEF OptionsOnTheirWay, Excused, ReceivingTypeOK
<1>4. ConsumersFollow'
  BY DEF ConsumersFollow, ReceivingTypeOK, Consuming
<1> QED
  BY <1>1, <1>2, <1>3, <1>4

\* The one step that makes the SFU's transport leaves its options behind.
LEMMA SfuCreatesConsumerInv ==
  ASSUME ReceivingInv, NEW s \in Subs, SfuCreatesConsumer(s)
  PROVE  ReceivingInv'
<1> USE DEF ReceivingInv, SfuCreatesConsumer
<1>0. consume[s] = "asking" /\ reply[s] = "none"
  BY DEF AskingInOrder
<1>1. ReceivingTypeOK'
  BY DEF ReceivingTypeOK
<1>2. AskingInOrder'
  BY <1>0 DEF AskingInOrder, ReceivingTypeOK
<1>3. OptionsOnTheirWay'
  BY <1>0 DEF OptionsOnTheirWay, Excused, ReceivingTypeOK
<1>4. ConsumersFollow'
  BY DEF ConsumersFollow
<1> QED
  BY <1>1, <1>2, <1>3, <1>4

LEMMA CreateConsumerRetriesInv ==
  ASSUME ReceivingInv, NEW s \in Subs, CreateConsumerRetries(s)
  PROVE  ReceivingInv'
<1> USE DEF ReceivingInv, CreateConsumerRetries
<1>0. consume[s] = "asking"
  BY DEF AskingInOrder
<1>1. ReceivingTypeOK'
  BY MaxRetriesAssumption DEF ReceivingTypeOK
<1>2. AskingInOrder'
  BY <1>0 DEF AskingInOrder, ReceivingTypeOK
<1>3. retries'[s] > 0
  BY MaxRetriesAssumption DEF ReceivingTypeOK
<1>4. OptionsOnTheirWay'
  BY <1>3 DEF OptionsOnTheirWay, Excused
<1>5. ConsumersFollow'
  BY DEF ConsumersFollow
<1> QED
  BY <1>1, <1>2, <1>4, <1>5

\* The options make the transport and release all that wait for it; a plain
\* answer leaves the transport as it is.
LEMMA ConsumerCreatedInv ==
  ASSUME ReceivingInv, NEW s \in Subs, ConsumerCreated(s)
  PROVE  ReceivingInv'
<1> USE DEF ReceivingInv, ConsumerCreated, GetTransport
<1>0. consume[s] = "asking" /\ sfuTransport /\ ~request[s]
  BY DEF AskingInOrder
<1>1. ReceivingTypeOK'
  BY DEF ReceivingTypeOK, Consuming
<1>2. ASSUME NEW t \in Subs
      PROVE  consume'[t] = IF t = s \/ consume[t] = "waiting"
                           THEN IF transport' THEN "consuming" ELSE "waiting"
                           ELSE consume[t]
  OBVIOUS
<1>3. AskingInOrder'
  <2> SUFFICES ASSUME NEW t \in Subs
               PROVE  /\ request'[t] => consume'[t] = "asking" /\ reply'[t] = "none"
                      /\ reply'[t] # "none" => consume'[t] = "asking" /\ sfuTransport'
                      /\ consume'[t] = "waiting" => sfuTransport' /\ ~transport'
                      /\ known'[t] = "none" => consume'[t] = "none"
    BY DEF AskingInOrder
  <2>1. CASE t = s
    BY <1>0, <1>2, <2>1 DEF AskingInOrder, ReceivingTypeOK
  <2>2. CASE t # s
    BY <1>0, <1>2, <2>2 DEF AskingInOrder, ReceivingTypeOK
  <2> QED
    BY <2>1, <2>2
<1>4. OptionsOnTheirWay'
  BY <1>0, <1>2 DEF OptionsOnTheirWay, Excused, ReceivingTypeOK
<1>5. ConsumersFollow'
  BY <1>0, <1>2 DEF ConsumersFollow, Consuming
<1> QED
  BY <1>1, <1>3, <1>4, <1>5

LEMMA ConsumedInv ==
  ASSUME ReceivingInv, NEW s \in Subs, Consumed(s)
  PROVE  ReceivingInv'
<1> USE DEF ReceivingInv, Consumed, EmitSubscribed, sfu
<1>1. ReceivingTypeOK'
  BY DEF ReceivingTypeOK, Consuming
<1>2. AskingInOrder'
  BY DEF AskingInOrder, ReceivingTypeOK
<1>3. OptionsOnTheirWay'
  BY DEF OptionsOnTheirWay, Excused, ReceivingTypeOK
<1>4. known[s] = "subscribed" \/ s \in overtaken
  BY DEF AskingInOrder, ConsumersFollow, ReceivingTypeOK, Consuming
<1>5. ConsumersFollow'
  BY <1>4 DEF ConsumersFollow, ReceivingTypeOK, Consuming
<1> QED
  BY <1>1, <1>2, <1>3, <1>5

LEMMA ConsumeFailsInv ==
  ASSUME ReceivingInv, NEW s \in Subs, ConsumeFails(s)
  PROVE  ReceivingInv'
<1> USE DEF ReceivingInv, ConsumeFails
<1>1. ReceivingTypeOK'
  BY DEF ReceivingTypeOK
<1>2. AskingInOrder'
  BY DEF AskingInOrder, ReceivingTypeOK, Consuming
<1>3. consume'[s] = "releasing"
  BY DEF ReceivingTypeOK
<1>4. OptionsOnTheirWay'
  BY <1>3 DEF OptionsOnTheirWay, Excused
<1>5. ConsumersFollow'
  BY DEF ConsumersFollow, ReceivingTypeOK, Consuming
<1> QED
  BY <1>1, <1>2, <1>4, <1>5

LEMMA ReleasedInv ==
  ASSUME ReceivingInv, NEW s \in Subs, NEW refused \in BOOLEAN, Released(s, refused)
  PROVE  ReceivingInv'
<1> USE DEF ReceivingInv, Released, sfu
<1>1. ReceivingTypeOK'
  BY DEF ReceivingTypeOK
<1>2. AskingInOrder'
  BY DEF AskingInOrder, ReceivingTypeOK
<1>3. OptionsOnTheirWay'
  BY DEF OptionsOnTheirWay, Excused, ReceivingTypeOK
<1>4. ConsumersFollow'
  BY DEF ConsumersFollow, ReceivingTypeOK, Consuming
<1> QED
  BY <1>1, <1>2, <1>3, <1>4

LEMMA EventUnsubscribedInv ==
  ASSUME ReceivingInv, NEW s \in Subs, EventUnsubscribed(s)
  PROVE  ReceivingInv'
<1> USE DEF ReceivingInv, EventUnsubscribed, StopSubscribing, sfu
<1>1. ReceivingTypeOK'
  BY DEF ReceivingTypeOK
<1>2. AskingInOrder'
  BY DEF AskingInOrder, ReceivingTypeOK
<1>3. OptionsOnTheirWay'
  BY DEF OptionsOnTheirWay, Excused
<1>4. ConsumersFollow'
  BY DEF ConsumersFollow, ReceivingTypeOK
<1> QED
  BY <1>1, <1>2, <1>3, <1>4

LEMMA ReceivingNextInv == ReceivingInv /\ [ReceivingNext]_receiving => ReceivingInv'
<1> SUFFICES ASSUME ReceivingInv, [ReceivingNext]_receiving PROVE ReceivingInv'
  OBVIOUS
<1>1. CASE \E s \in Subs :
             \/ ReceivingProceeds(s) \/ Subscribe(s) \/ ServerSubscribes(s)
             \/ SubscribeFails(s) \/ SfuCreatesConsumer(s)
             \/ CreateConsumerRetries(s) \/ ConsumeFails(s) \/ ServerUnsubscribes(s)
  <2> PICK s \in Subs :
             \/ ReceivingProceeds(s) \/ Subscribe(s) \/ ServerSubscribes(s)
             \/ SubscribeFails(s) \/ SfuCreatesConsumer(s)
             \/ CreateConsumerRetries(s) \/ ConsumeFails(s) \/ ServerUnsubscribes(s)
    BY <1>1
  <2>1. CASE ReceivingProceeds(s)
    BY <2>1, CallersInv, EventSubscribedInv, DeviceLoadedInv, ConsumerCreatedInv,
       ConsumedInv, ReleasedInv, EventUnsubscribedInv DEF ReceivingProceeds
  <2>2. CASE \/ Subscribe(s) \/ ServerSubscribes(s) \/ SubscribeFails(s)
             \/ ServerUnsubscribes(s)
    BY <2>2, CallersInv
  <2>3. CASE SfuCreatesConsumer(s) \/ CreateConsumerRetries(s) \/ ConsumeFails(s)
    BY <2>3, SfuCreatesConsumerInv, CreateConsumerRetriesInv, ConsumeFailsInv
  <2> QED
    BY <2>1, <2>2, <2>3
<1>2. CASE ServerRemovesBot \/ EventBotLeft
  <2>1. CallerStep
    BY <1>2 DEF ServerRemovesBot, EventBotLeft, CallerStep
  <2>2. ReceivingTypeOK
    BY DEF ReceivingInv
  <2>3. /\ call' \in [Subs -> {"idle", "asking", "watching", "resolved", "rejected"}]
        /\ channel' \in [Subs -> {"none", "subscribed", "ended"}]
    BY <1>2, <2>2 DEF ReceivingTypeOK, ServerRemovesBot, EventBotLeft
  <2>4. botLeft' \in BOOLEAN /\ leftKnown' \in BOOLEAN
    BY <1>2, <2>2, Zenon DEF ReceivingTypeOK, ServerRemovesBot, EventBotLeft
  <2>5. ReceivingTypeOK'
    BY <2>1, <2>2, <2>3, <2>4, Zenon DEF CallerStep, sfu, ReceivingTypeOK
  <2> QED
    BY <2>1, <2>5, CallerStepInv
<1>3. CASE UNCHANGED receiving
  BY <1>3 DEF receiving, sfu, ReceivingInv, ReceivingTypeOK, AskingInOrder,
              OptionsOnTheirWay, Excused, ConsumersFollow
<1> QED
  BY <1>1, <1>2, <1>3 DEF ReceivingNext

\* Receiving keeps its types for any number of subscriptions and retries.
THEOREM ReceivingTypeCorrect == ReceivingSpec => []ReceivingTypeOK
<1>1. ReceivingInv => ReceivingTypeOK
  BY DEF ReceivingInv
<1> QED
  BY <1>1, ReceivingInitInv, ReceivingNextInv, PTL DEF ReceivingSpec

\* However many consumes share the transport and in whatever order the SFU's
\* answers come, one that waits for the transport's announcement will get it,
\* unless an answer was lost or a consume has failed (receiver.ts:135).
THEOREM TransportsAnnounced == ReceivingSpec => []TransportIsOnItsWay
<1>1. ReceivingInv => TransportIsOnItsWay
  BY DEF ReceivingInv, AskingInOrder, OptionsOnTheirWay, Excused, TransportIsOnItsWay
<1> QED
  BY <1>1, ReceivingInitInv, ReceivingNextInv, PTL DEF ReceivingSpec

\* When nothing is under way for a subscription, it is listed exactly if it has
\* an open consumer, unless it ended while consume was running or its
\* unsubscribe failed (connection/index.ts:112, receiver.ts:256).
THEOREM SubscriptionsReceived == ReceivingSpec => []SubscriptionIsReceived
<1>1. ReceivingInv => SubscriptionIsReceived
  BY DEF ReceivingInv, ReceivingTypeOK, AskingInOrder, ConsumersFollow,
         SubscriptionIsReceived
<1> QED
  BY <1>1, ReceivingInitInv, ReceivingNextInv, PTL DEF ReceivingSpec
=============================================================================
