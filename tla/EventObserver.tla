--------------------------- MODULE EventObserver ---------------------------
(***************************************************************************)
(* EventObserverImpl (eventObserver.ts): the jitter buffer between the     *)
(* RTC API server and a channel's replica.                                 *)
(*                                                                         *)
(* The server (external) numbers the events of a channel, sends each once  *)
(* to a subscriber, and again from an offset on when subscribeChannelEvents *)
(* asks for it.  The code is written for events that come late, twice or   *)
(* not at all, so the network does all of that.                            *)
(***************************************************************************)
EXTENDS EventJitterBuffer

CONSTANTS
  MaxVersion,        \* bound: the last event the server publishes
  MaxLosses,         \* bound: how many events the network may lose
  MayReject          \* subscribeChannelEvents may fail

ASSUME MaxVersionAssumption == MaxVersion \in Nat /\ MaxVersion >= Snapshot
ASSUME MaxLossesAssumption == MaxLosses \in Nat
ASSUME MayRejectAssumption == MayReject \in BOOLEAN

VARIABLES
  head,       \* the last version the server has published
  wire,       \* the events on their way to the client
  losses,
  disposed,
  prompt      \* every recovery is answered, and its events arrive within
              \* eventSubscribeTimeout; chosen once

networkVars == <<head, wire, losses, disposed, prompt>>
vars == <<bufferVars, networkVars>>

Init ==
  /\ BufferInit
  /\ head = Snapshot
  /\ wire = {}
  /\ losses = 0
  /\ disposed = FALSE
  /\ prompt \in BOOLEAN

\* An event happens in the channel and is sent to the subscriber.
Publish ==
  /\ head < MaxVersion
  /\ head' = head + 1
  /\ wire' = wire \cup {head + 1}
  /\ UNCHANGED <<bufferVars, losses, disposed, prompt>>

\* With prompt recoveries nothing is lost while a recovery is under way.
Lose ==
  /\ losses < MaxLosses
  /\ prompt => packetLifeTimer.phase # "settling"
  /\ \E v \in wire : wire' = wire \ {v}
  /\ losses' = losses + 1
  /\ UNCHANGED <<bufferVars, head, disposed, prompt>>

\* client.onEvent; the network may keep a copy and deliver it again.
OnEvent(v) ==
  /\ ~disposed
  /\ v \in wire
  /\ Push(v)
  /\ wire' = wire \/ wire' = wire \ {v}
  /\ UNCHANGED <<head, losses, disposed, prompt>>

OnTimer == TimerFires /\ UNCHANGED networkVars

\* The server answers the recovery request and resends from its offset on.
RecoveryAnswered ==
  /\ RecoverySubscribed
  /\ wire' = wire \cup (packetLifeTimer.version .. head)
  /\ UNCHANGED <<head, losses, disposed, prompt>>

RecoveryFails == MayReject /\ ~prompt /\ RecoveryRejected /\ UNCHANGED networkVars

RecoveryEnds ==
  /\ prompt /\ ~disposed => presentVersion >= packetLifeTimer.version
  /\ RecoverySettled
  /\ UNCHANGED networkVars

\* dispose removes the listeners; the buffer and its timer live on.
Dispose ==
  /\ ~disposed
  /\ disposed' = TRUE
  /\ UNCHANGED <<bufferVars, head, wire, losses, prompt>>

Next ==
  \/ Publish \/ Lose \/ Dispose
  \/ \E v \in wire : OnEvent(v)
  \/ OnTimer
  \/ RecoveryAnswered \/ RecoveryFails \/ RecoveryEnds

Spec == Init /\ [][Next]_vars

(***************************************************************************)
(* The event loop delivers what has arrived and fires its timers; the RPC  *)
(* client settles every request (timeout).                                 *)
(***************************************************************************)
Fairness ==
  /\ \A v \in Snapshot + 1 .. MaxVersion :
       WF_vars(v \in wire /\ OnEvent(v) /\ wire' = wire \ {v})
  /\ WF_vars(OnTimer)
  /\ WF_vars(RecoveryAnswered \/ RecoveryFails)
  /\ WF_vars(RecoveryEnds)

FairSpec == Spec /\ Fairness

-----------------------------------------------------------------------------
\* The shape of the state, of the network's part too.
TypeOK ==
  /\ BufferTypeOK
  /\ head \in Snapshot .. MaxVersion
  /\ wire \subseteq Snapshot + 1 .. head
  /\ losses \in 0 .. MaxLosses
  /\ disposed \in BOOLEAN /\ prompt \in BOOLEAN

\* The buffer invents nothing: what it holds and what it has emitted are
\* events the server published.
HoldsPublished == presentVersion <= head /\ eventBuffer \subseteq 1 .. head

\* The promise to the replica (OrderedDelivery): a prefix of the server's log.
Promise == INSTANCE OrderedDelivery WITH published <- head, delivered <- emitted
ImplementsOrderedDelivery == Promise!Spec

\* The reason the buffer exists (packetLostHappened and onPacketLost): with
\* recoveries that work, an event held back behind a gap is emitted in the
\* end, whatever was lost before it.
HeldBackIsEmitted ==
  \A v \in Snapshot + 1 .. MaxVersion :
    prompt /\ v \in eventBuffer ~> (v <= presentVersion \/ disposed)

\* The log of push calls a loss resolved when the missing event arrives, and
\* the replica goes on (eventObserver.ts:126).  With recoveries that work the
\* buffer looks after the next gap from then on: its timer is not left in the
\* state from which no callback runs again.
PromptRecoveryIsWatchedAgain ==
  prompt /\ eventBuffer # {} /\ ~packetLostHappened => packetLifeTimer.phase # "spent"
=============================================================================
