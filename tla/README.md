# A TLA+ model of the SkyWay Node.js SDK

This directory holds TLA+ modules for the parts of the SDK where several actors meet
(the RTC API's WebSocket, a channel and the calls on it, the connections between two
persons and to an SFU, rooms, analytics), TLC configurations that check them on small
instances, and proofs, checked by TLAPS, of the theorems that hold for every instance.
Paths below are relative to `src/`, and `core/`, `rtc-api-client/` and so on stand for
`src/packages/core/src/` and its siblings.

    tlc -config EventObserver.cfg MCEventObserver     (a run, listed in PROJECT.json)
    tlapm ChannelEventProofs.tla                      (the proofs of two modules)

`PROJECT.json` lists the runs, the source lines each definition models (`map`),
a mutation of the code that each property notices (`mutants`), the hazards and
the theorems.

## 1. The system

A program joins a *channel*, publishes streams there and subscribes to those of
others. The server (RTC API) keeps the channel; every client keeps a replica of
it, fed by a log of numbered events. Media flow over a WebRTC connection between
two persons (negotiated over a signaling service) or through an SFU bot.

    application -> Room -> SkyWayChannelImpl -> LocalPerson -> P2PConnection(Sender, Receiver)
                               |                    |                 |
                          ChannelImpl          SFU bot          SignalingSession
                               |
                          EventObserver
                               |
                          RtcRpcApiClient / RPC -- WebSocket -- RTC API

Everything runs on one JavaScript thread. Interleaving happens at `await`s,
timers, WebSocket and peer-connection callbacks, and between the two peers.

| Component | State | Operations | Hard behaviour | What makes it correct |
|---|---|---|---|---|
| **EventObserver** (`rtc-api-client/infrastructure/eventObserver.ts`) | presentVersion, the buffer, one timer, packetLostHappened | push, timer callback, recovery request, dispose | events late, twice, lost; a timer that meets an outstanding recovery; keys sorted as strings | the replica sees a prefix of the log; no gap is left without a timer; what is held back comes out |
| **Sender/Receiver** (`core/plugin/internal/person/connection`) | publications, transceivers, the pending list, `_isNegotiating`; streams by publication, `publicationInfo` | add, remove, answers, produce/unproduce, ICE restart | calls come from a queue and from the answer handler; offers name all sections, including those that the other side does not know yet | one negotiation at a time; offers are accepted; both ends agree in the end |
| **P2PConnection** (`connection/index.ts`) | a queue per side shared by both directions | start/stop publishing and subscribing, `_closeIfNeeded` | a subscriber waits at the head of its queue for the stream | subscriptions bring streams; an unused connection closes |
| **RPC and RtcRpcApiClient** (`rtc-rpc-api-client/rpc.ts`, `client.ts`) | `_ws`, closed, reconnecting, the count, pending requests | request, connect, close, `_reconnect`, resubscribe | sockets that are abandoned but live on; overlapping reconnects; loss between request and answer | no request is forgotten or run more than twice; events flow on the current socket; a close ends it all |
| **RtcApiClient, RtcApiImpl** | an observer | conversions and calls | a request that is refused, or executed with its answer lost | each call asks for what its caller waits for |
| **ChannelImpl** (`rtc-api-client/domain/channel.ts`) | members, publications, subscriptions, version | event handlers; operations that wait for the answer and the event | the answer and the event come in either order, or the event is undone before the answer comes | the replica is what the log says; each call settles |
| **SkyWayChannelImpl** (`core/channel/index.ts`) | wrappers of the same, `_localPerson` | join, leave, close, dispose, metadata | what runs after an await finds the channel changed; watches without a limit | its objects are those of the lists; calls settle, and only on their own change |
| **LocalPerson and agents** (`core/member/localPerson`) | publishing and subscribing in progress, a queue of requests, the lease | publish, subscribe, their inverses, the agents, `_setupTtlTimer`, dispose | the event of one's own call may be handled before the call returns; the member goes while the person is made | a connection exists for every subscription; the person ends with its member |
| **RemotePerson, MessageBuffer** | `_connections` by local person, buffered messages | `_getOrCreateConnection`, `resolveMessagingBuffer` | the two sides close and create at different times, and messages carry no connection id | a stream that is waited for is on its way; both sides have a connection or neither |
| **SignalingSession** (`core/external/signaling.ts`) | chunks in assembly, backlog | send, receive, reconnect | send reports success when nothing was sent | a message arrives whole or is reported |
| **Peer, IceManager** | ICE candidates that wait for a description | restartIce, token updates | an ICE restart does not look at `_isNegotiating` | one negotiation at a time |
| **Publication, Subscription** | state, streams and their tracks | enable, disable, replaceStream | the event comes after the timeout; a disabled stream may stop its track | local and remote state agree; the stream sends what the state says |
| **SFU bot** (`sfu-bot/`) | a transport in each direction, producers, consumers, forwardings | startForwarding, stopForwarding, consume, unconsume, restartIce | restarts that overlap and nest; answers that race; calls beside the queue | a reconnect ends; a subscription has its consumer, a forwarding its producer; the SFU is asked to confirm every subscription |
| **Rooms** (`room/`) | members, publications, subscriptions | handlers of the channel's events; join, publish, unpublish, enable, subscribe | one publication of the room stands for two of the channel | the room shows its channel; calls settle |
| **Analytics** (`analytics-client/`) | one Socket per token, its WebSockets, a resend queue, acknowledgements | reports, reconnect, new token, close | late close events with codes of their own; writes that fail | a connection is made again; no report is lost because a connection breaks |
| **Context, token, media** | the token and two timers; devices | updateAuthToken, dispose | an update overlaps another | - |

`hazards` in PROJECT.json is the list of what can go wrong at which line.

## 2. What is modelled

### EventJitterBuffer, EventObserver, OrderedDelivery

`EventJitterBuffer` is the class of that name with the `onPacketLost` callback of
EventObserverImpl. An event is its version. The variables are the class's fields;
`packetLifeTimer` is the timer handle together with how far its asynchronous
callback has got (`armed`, then the two awaits of the recovery, `requesting` and
`settling`); `spent` is a handle that stays defined although no callback will
run, which is what line 161 leaves behind. `emitted` is history. `push` is one
action per branch, `handlePacketLifetime` and `resolveEvents` are operators of
the actions that call them. The keys of the buffer are compared as decimal
strings, as `sort()` does; the operator is right for versions below 1000.

`EventObserver` puts a server and a network around it: events are published,
delivered in any order, delivered again or lost, and resent from the offset of a
recovery request. `OrderedDelivery` is the abstract specification: the replica
sees a prefix of the log. `EventObserver` refines it with `published <- head`,
`delivered <- emitted`.

`prompt`, chosen at the start, says that each recovery succeeds within
`eventSubscribeTimeout`. Only then is the liveness property claimed, because
the code does not survive a recovery that is late (section 4).

### P2PNegotiation

One connection from its creation to its close, in one direction: a publisher with
its `Sender`, a subscriber with its `Receiver`, the pub/sub queue of each, and
signaling as two ordered channels. Media publications only; a publication's
section is its mid. `otherDirection` says whether the other direction carries
media, which is all `_closeIfNeeded` asks about it.

| Model | Code |
|---|---|
| `Subscribe`, `Unsubscribe` | the channel's events, on both sides, up to the queues |
| `StartPublishing`, `StopPublishing` | the queue runs `Sender.add` to its first await, or `remove`, which nobody awaits |
| `Add`, `Remove` | with the early returns, the pending list and the negotiating flag; `ignored` records that a removal found its publication gone |
| `CreateOffer`, `SendOffer`, `SendOfferFails` | the awaits after it |
| `HandleReceiverAnswer` | the answer, then one entry of the pending list |
| `HandleOffer` | produce and unproduce at the receiver: validation, tracks, answer |
| `StartSubscribing`, `StopSubscribing`, `StartSubscribingTimesOut` | the receiver's queue |

### RpcClient

`RtcRpcApiClient` and `RPC` together (their `closed` flags change together and
are one variable), after the first connect. Every socket ever made is kept with
its readyState, because an abandoned one still calls its handlers. A running
`_reconnect` is a *reconnector*, named after the socket whose close started it;
`reconnectors` holds where each of them is. A request's `status` is what its caller
sees; `outbox` is the `setTimeout(0)` of `_send`; `inflight` and `replies` are the
network per socket. The API methods of client.ts only wrap `request` and are left
out.

### ChannelReplica

The two replicas that a client keeps of a channel, and the calls that add to
them. `listed` is the lists of ChannelImpl, `objects` the maps of
SkyWayChannelImpl (members, publications and subscriptions in one set, each named
by the call that makes it). A call's `phase` says how far it has got:

| Phase | join, publish, subscribe |
|---|---|
| `queued` | in the `_requestQueue` of the person (publish, subscribe) |
| `requesting`, `answered` | the request is out; the server has carried it out |
| `awaiting` | the answer has come before the event, which is watched |
| `continuing` | ChannelImpl is done: createLocalPerson, setEnabled or the promise chain |
| `done`, `failed` | the object is in the maps, or the call has thrown |

`HandleEvent` is a whole event: ChannelImpl changes its list and emits, and
SkyWayChannelImpl's handler runs within that emit. `resolveEvents` of the event
observer emits several events in one go, with no promise continuation between
them; `emitting` is true inside such a batch and holds the calls back. The server
is external: a publication needs its publisher and a subscription its publication
and subscriber, and what depends on something is removed before it, which is the
order the handlers need. `ServerRemoves` stands for every way in which something
ends: leave, unpublish, unsubscribe, by the person itself or by another, and the
time to live.

Abstracted: every publish has a stream of its own (the check of `published` never
refuses), `subscribe` ends with `_addSubscription` and not with the stream's
arrival (that part is in P2PNegotiation), names, metadata and closing.

### Publication

One local media publication, from the end of `publish` on: the state of the server, the
state of PublicationImpl, and the switch `on` of each stream, three copies of one bit;
and what the switch is for, the `track` that the stream gives its senders: its own or an
empty one. `_disable` of the stream (media.ts) gives them the empty one and, with the
option `stopTrackWhenDisabled` (the streams in `Stopping`), stops the one it had;
`setEnabled` (video.ts, audio.ts) then leaves the empty one in place when the stream is
enabled, since the code that would acquire the device again is commented out. `stopped`
says which streams have lost their own track that way, or by the option
releaseOldStream. A call's `phase` says where it waits: `starting` (createLogPayload),
`muting` and `unmuting` (the queue of the stream), `waiting` (the watch of the internal
event of enable, or of `onDisabled`), `resuming` (the continuation of enable is due). As
in ChannelReplica, `emitting` holds continuations back while a batch of events is
handled. `notices` are `_disable` handlers that have yet to emit. `faulty` and
`overlapped` are history: a request failed or an event came late; calls overlapped. The
server is external: it executes a request or refuses it, and `Repeats` says whether it
tells the channel of a request that changed nothing. Each stream replaces the current
one once, which bounds the queues. A canceled publication, data streams (whose switch is
immediate), metadata and encodings are left out.

### ChannelSession

The other calls on one channel object, and the life of its local person. An `operation`
is what a call asks for (an update of metadata or a removal, of the channel, its member,
publication or subscription); its `phase` and `request` run side by side, as the promise
that watches for the event and the request that may reject it do. `Matches` is the
predicate of the watch. What the server has done is an event on the `wire`; others may
change or remove anything, and a removal takes what depends on it along. As in
ChannelReplica events may be handled several in one go (`emitting`). A call whose event
comes is `told`; it resolves in `Resume`, when its promise goes on after the last event
of the batch. A later event of the batch may have changed what it asked for by then,
which the history variable `overwritten` keeps. Promises go on before anything else
comes from outside (`settled`). `person` is createLocalPerson with its awaits; `timer`,
`renewing` and `fatal` are the keepalive interval, its request under way and
`onFatalError`. The actions `Dispose...` are the application's.

### PersonConnection

The composition of what P2PNegotiation has one of: two persons, connections in
both directions, and their re-creation. `events` is the channel's log, which both
persons handle in order, each at its pace (`at`). `jobs` is the queue of a
connection, `conn` its number (0 for none; the numbers are the model's, no message
carries one). An add or a remove is one message; `buffer` and `excluded` are those of
MessageBuffer. The history variables name what the code does not survive:
`missed` (a message came before its event when the buffer no longer kept it),
`stranded` (a call was queued when its connection closed), `late` (a publication was
subscribed to before `publish` had set its stream), `crossed` (a message reached the
wrong connection), `failed` (a wait has timed out).

### SfuTransport, SfuReceiving, SfuForwarding

`SfuTransport`: SFUTransport's state, and every handler of a lost connection as a
process with the await it is at (`phase`) and the calls of `restartIce` around the
innermost (`callers`). mediasoup's connection state changes as the network likes.

`SfuReceiving`: subscribe with its wait for the stream, `Receiver.consume` with the
transport that all consumers share, and `stopSubscribing`; answers of the SFU in
either order, lost ones asked for again.

`SfuForwarding`: the queue of starts, the senders, producers and Forwardings, the
relaying publications at the server (`relay`) and in the replica (`known`), and
stops, which do not go through the queue. mediasoup asks for the producer once its
transport is connected: `producing` waits for that with the watch of onProduce,
`unwatched` without it, since the watch's timeout is only logged; what is asked for then
stays `unanswered`. `confirmation` is the one request by which a Forwarding has a
subscription confirmed: it is asked, and ends well or badly without anybody
noticing. `overlapped` and `blinked` are history: a
publication was forwarded again before the last forwarding's end, and a relaying
publication came and went in events handled in one go.

### Room

One room of the default kind with its channel. The room's handlers run within the
channel's, so `HandleEvent` is both. `publications` is what the room shows, one for
each stream; `shown(s)` is the channel's publication behind it, which is the relaying
one unless the stream is published `p2p`. `toggle` and `awaited` are the two waits of
enable and disable of a RoomPublication.

### Analytics

AnalyticsClient with a Socket for each of two tokens, and the WebSockets of both:
`closing` is `_reconnectClosingWebSocket`, `timers` counts the reconnects due, `queue` is
the resend queue. `call` and `attempts` are `_sendClientEvent` with its retries. A WebSocket
that is given up may close with the code it was closed with or with any other,
as often as that happens: ws reports 1006 for one that was still connecting. A write may
fail, and when it is one of those that empty the queue, its report is `lost`. A Socket whose
token has expired goes with its queue, so `accepted` starts again with the next Socket.
A WebSocket that cannot even be made (`ConnectThrows`, the catch in `_connect`) is modelled
for those that the timer makes; the first one of a Socket is always made. In
this port of the SDK context.ts never makes the session; the model is of the code
as it stands.

### Names

The proofs about two models may share a module (section 5), and a module can extend two
others only if their names differ. That is why `SfuReceiving`, `Analytics`, `Room` and
`PersonConnection` have a `ReceivingNext`, `AnalyticsNext`, `RoomNext` and
`PersonsNext`, and why some actions of theirs have a word more than the method they
model (`RunStartPublishing`).

## 3. The runs

| Run | Bounds | Question |
|---|---|---|
| `event_observer` | events 8..11 after snapshot 7, 2 losses | order, no stuck gap; refinement of OrderedDelivery |
| `p2p_negotiation` | 2 publications, 5 calls, 1 failing send | one negotiation, accepted offers, agreement, streams |
| `rpc_client` | 1 request, 4 sockets, limit 2 | requests and events across overlapping reconnects |
| `channel_replica` | 2 joins, 1 publish, 1 subscribe, 1 publication of another, 3 events unhandled | answers against events; agreement of the two replicas |
| `publication` | 2 enables, 1 disable, 2 streams, one of which stops its track | state, stream and server under refusals, late and batched events |
| `channel_session` | 2 calls of any kind, 1 value, 1 action of others | calls resolve when their change is made, and settle; the person ends with its member |
| `person_connection` | 2 persons, 5 events of the channel; symmetry of the persons | streams come, nobody waits for each other, connections agree |
| `sfu_transport` | 2 handlers, 3 attempts, 2 nested failures | restarts that share state and count |
| `sfu_receiving` | 2 subscriptions, 1 retry | the shared transport; ends that meet a consume |
| `sfu_forwarding` | 2 forwardings, 1 or 2 publications, 1 subscriber | producers follow; confirmations asked for; settled |
| `room` | 1 stream, with or without the bot, 2 events unhandled | the room shows its channel; calls settle |
| `analytics` | 1 followed report and others, 2 WebSockets, 2 tokens, limits 1, 1, 2 | the connection is made again; what becomes of reports |

Why the bounds are enough to be interesting:

- Four events leave room for two separate gaps with an event buffered behind each;
  9 and 10 are the first versions that the string order confuses. Two losses are
  a loss and the loss of its resend.
- Two publications and five calls allow subscribe, subscribe, unsubscribe,
  subscribe again and unsubscribe while each negotiation runs: an add and a
  remove in the pending list, in each order, and a publication that comes back.
- Four sockets: the first, one abandoned while connecting, its replacement, and
  a socket after the overlap. The limit of reconnects is 8 in the code; 2 lets the
  give-up meet everything else. Requests meet each other only in the
  sets they are kept in, so one shows what there is; with two requests and
  four sockets a run takes longer than a few minutes.
- Two joins, a publish and a subscribe can meet in one queue, or in the queues
  of two persons of the same channel object. Three events on the wire are an
  entry added and removed again in one batch with another event behind them; one
  event is enough to be before or after an answer.
- Two enables and a disable are enough for calls that overlap, one that follows
  another, and a late event of the first beside the second. Two disables as
  well (804000 states, a few minutes) show nothing more.

- Two calls of any kind in `channel_session` can be the same request twice, one in
  the queue behind the other, or two whose events look alike; one action of the
  others is enough to remove or change what a call is about, or to undo it within its
  batch. Whether calls settle is asked apart, of a person without an interval: no call
  waits for the interval, and liveness of the whole takes too long.
- In `publication` the first stream stops its track when disabled and the one that
  replaces it does not, so that both kinds are enabled, disabled and replaced.
- Five events of the channel are a connection that is closed and made again with
  both persons' publications subscribed to over it (six take 25 times as long). The
  invariants are the same for both persons and no liveness is claimed, so the
  symmetry is sound.
- Two handlers and three attempts let a restart start beside another that has
  failed twice within itself. Two subscriptions and two forwardings are the fewest
  that share a transport or a publication. The limits of the code (8 attempts; 5
  reconnects, 200 queued and 6 sends in analytics) are only made smaller, so that
  they are met.
- One stream in `room`: the room keeps streams apart, and with its relay a stream is
  already two publications, two subscriptions' worth of events and a member.

`CHECK_DEADLOCK FALSE` in all runs: the bounds end each behaviour, and a disposed
observer, closed connection or closed client rightly stops, as does a channel in
which everybody has done what they were going to do.

### Properties

*EventObserver.* `GapHasTimer` (no gap without a timer handle),
`PromptRecoveryIsWatchedAgain` (recoveries in time never leave a spent handle, and
after one nothing is left spent), `ImplementsOrderedDelivery`, `HeldBackIsEmitted`
(liveness).

*P2PNegotiation.* `OneNegotiationAtATime` holds without conditions. The others
assume `undisturbed`: no send failed and no removal was ignored, since after
either the code does not recover. `OffersAreAccepted`, `EndsAgreeWhenQuiet`,
`SubscriptionBringsStream` (liveness).

*RpcClient.* `ReconnectingIsServed`, `RequestIsOnItsWay` (for reconnects that do not
overlap: the code loses requests when they do), `ExecutedAtMostTwice`,
`EventsFlowWhenQuiet`, `ClosedLeavesNobodyWaiting`, `LostConnectionIsReplaced`
(liveness).

*ChannelReplica.* `ReplicasAgree`: no handler misses its object, and the objects are
those of the lists but for what was removed while its call was unfinished
(`overtaken`, see section 4), which is as much as the code achieves.
`TimeoutMeansGone`, `RemovedPersonLeaves`, `QueuedRequestSettles` (liveness).

*Publication.* `StreamFollowsState` holds whatever overlaps or fails: disabled, the stream
sends an empty track, and enabled its own live one, but for a stream with
`stopTrackWhenDisabled` that has been stopped, which sends an empty track from then on
(section 4).
`LastCallHolds` is for a last call that had the publication to itself, without
failures. `CallSettles` (liveness) claims nothing of the server.

*ChannelSession.* `CallSettles` (liveness): although most watches have no limit,
whatever others remove. `ResolvedMeansDone` (an action property): a call resolves
only when what it removes is gone from server and object, or the object shows the metadata
it set, unless a later event of the same batch has set others.
`PersonLivesWithMember`.

*PersonConnection.* `StreamIsOnItsWay`, `NobodyWaitsForEachOther` and
`QuietPersonsAgree`, all for behaviours in which none of the history variables above
has come true: each of them is something the code does and does not recover from.

*SFU.* `ReconnectingIsServed`, `ConnectionIsShown`, `ReconnectingEnds` (liveness);
`TransportIsOnItsWay` (without lost answers: the SFU gives the options once),
`SubscriptionIsReceived` (but for subscriptions that ended during consume);
`ProducerFollowsForwarding` (but for `overlapped` and `blinked`),
`SubscribersAreAsked` (that the SFU is asked to confirm, not that it does), `CallsSettle`
(liveness; but for the queue behind a producer that nobody answers).

*Room.* `RoomShowsChannel`, `LocalMemberIsShown`, `CallsSettle` (liveness; enable and
disable unless the relaying publication ends).

*Analytics.* `SocketIsServed`; `UnsentIsQueued` (written, queued, overflowed, or `lost`
in the write that empties the queue) unless a WebSocket that had been given up opens or
closes with an unexpected code (`confused`).

Every module has a type invariant, `TypeOK` (`RoomTypeOK`, `PersonsTypeOK` and so on where
names carry a prefix). It is proved for all of them but `ChannelSession` (section 5),
whose type invariant TLC finds to hold on the instance.

### Fairness

Weak fairness, on what the runtime does by itself: the event loop runs timers and
promise continuations, so an armed timer fires (`OnTimer`, `Retry`, `BackoffElapsed`)
and a started operation goes on (`CreateOffer`, `SendOffer`, the queues). A connect
settles because it has its own timeout; a request because of `rpcTimeout`. What is on
the wire arrives or is lost (`Lose` is bounded), signaling delivers what it accepted,
and a subscription's wait ends by `rtcConfig.timeout`. In `ChannelReplica` and
`Publication` an event on the wire is handled, the server answers or the request times
out (`rtcApi.timeout`), a watch ends by the same timeout, and continuations run. A watch
is taken to time out only when no event is on its way: the timeout is long against the
delivery of an event. In `Publication` not even an answer of the server is assumed: the
watch of each call times out. In `ChannelSession`, `Room` and the SFU modules it is
likewise requests that settle (they have timeouts), events that arrive, and timers that
elapse: `Proceeds` is the disjunction of just these for one call. A refusal and a good
answer are one alternative, so no server is assumed to grant anything. In
`SfuForwarding` it is assumed of mediasoup that its transport connects, and it asks for
the producer, or it fails; that whoever is asked then answers is not. Nothing is assumed
of the application or of connections staying up.

## 4. What the code does

The models follow the code in the points below, where a reader may expect
otherwise; the properties leave them out by history variables or conditions. First
what is in the modules.

- *EventObserver.* A timer that fires while an earlier recovery is outstanding
  returns with its handle defined (`eventObserver.ts:161`). No timer is armed again
  until that recovery settles in time, so later gaps may go unnoticed.
- *Sender.* `remove` deletes the publication before it queues itself; from the
  pending list it finds it gone and returns (`sender.ts:791`): the section stays active
  and the entries behind it are not taken. An unsubscribe that comes while the add
  is pending is ignored, the add runs later, and the connection does not close.
- *RtcRpcApiClient.* A close during the back-off of a reconnect does not stop it: the
  closed client connects (`client.ts:148`).
- *join.* It looks at `_localPerson` before its awaits and sets it after them
  (`channel/index.ts:524`, `195`), so two joins at once both succeed.
- *Replicas.* What is removed while its join or publish is unfinished (or its
  subscribe, when both events come in one batch) is put back by the call and stays
  in the maps (`channel/index.ts:190-196`, `localPerson/index.ts:539-542`).
- *Publication.* `enable` switches the state on in the continuation of its watch,
  without looking at what has come since (`publication/index.ts:495`): it overrides a
  disable handled in the same batch, and the state 'canceled' too. A stream that stops its
  track when disabled (the default of the factory's camera and microphone streams,
  `media/factory.ts:105`, `122`) sends nothing when it is enabled again: `setEnabled` has
  nothing to give the senders (`video.ts:52`, `audio.ts:60`), where `media.ts:195` promises
  that the device is acquired again.
- *Calls of a channel.* A call goes on after the whole batch its event was in
  (`domain/channel.ts:420`), when the object may show what somebody else set. An
  earlier event with the same value, somebody else's, resolves it as well.
- *Connections.* The calls queued in a connection that closes are lost. A message that
  comes before its event is dropped once its requester has been served
  (`messageBuffer.ts:32`, `56`). A publication subscribed to before `publish` has set its
  stream makes `startPublishing` late (`agent/publishing.ts:26`), and two persons can
  then wait for each other until the timeout.
- *createLocalPerson.* A join that fails after the signaling session has been set up
  leaves that session open, and a leave or dispose during createLocalPerson leaves
  session and interval running. `_handleOnMemberMetadataUpdate` tells the local
  person twice (`channel/index.ts:440`). Watches without a limit wait for ever once
  the channel is disposed.
- *SFU.* An unsubscription during consume finds no consumer, and the one that is then
  made stays open (`receiver.ts:256`). `startForwarding` of a publication whose earlier
  forwarding has not gone replaces its sender, and the end of the earlier one closes
  the producer of the later (`connection/index.ts:70`). A start under way when the bot
  leaves may leave its producer open. When mediasoup asks for the producer after the
  watch has given up (`sender.ts:456`), nobody answers: `produce` never settles
  (`sender.ts:479`) and the queue of starts waits behind it. The failure of a confirmation
  is swallowed and not tried again (`forwarding.ts:39`, `42`): the SFU cuts the
  subscription off.
- *Room.* A relaying publication whose original is not known is hidden; `_publishAsSFU`
  may put back a publication that has ended; `localRoomMember` stays when the member
  left before join was over; enable, disable and the remote members' subscribe and
  unsubscribe wait without a limit for an event that may not come.
- *Analytics.* The close of a WebSocket given up for a reconnect may come with another
  code than 4000 and causes one more reconnect (`socket.ts:144`, `216`); a late 'open'
  writes the queue to a closing WebSocket (`socket.ts:345`); a second reconnect
  forgets which WebSocket the first has closed; a write that fails while the queue is
  sent again loses its report, since the queue is emptied all the same (`socket.ts:366`),
  while a report that fails on its own is queued; the token's expiry drops the old Socket
  with its queue; when the token expires and the new one
  comes after the socket was closed, it is ignored (`analyticsClient.ts:264`); when
  the queue overflows the oldest report goes (`socket.ts:290`).

And what was read, but is outside of the models: the token's two timers are set from
`this.authToken` after an await, so that overlapping updates set them from each
other's token, and dispose clears only the reminder (`context.ts:320-408`); the SFU
API client's iceRestart uses the headers of its construction; restartIce of a P2P
sender starts beside a negotiation (`sender.ts:204`).

## 5. What is proved

From the assumptions on the constants only (the snapshot is a natural
number, the bounds are), for every value of the bounds and sets the modules take:

`ChannelEventProofs` (the buffer, the observer, and the room)

- `BufferSafety`: the buffer in an arbitrary environment
  is type correct and satisfies `EmittedInOrder`, `NothingReadyWaits`, `GapHasTimer`
  and `LossFlagMeansGap`. The inductive invariant `BufferInv` adds
  `ArmedWatchesEvent`: an armed timer watches an event that is in the buffer or
  has been emitted. Without it `LossFlagMeansGap` is not inductive:
  a timer over an empty buffer could find a loss. Of the order of the keys the proof
  uses only that the event chosen is in the buffer, so it holds for versions
  beyond 1000 as well. `GapsHaveTimers` carries it to the observer with its server.
- `ObserverTypeCorrect`, and `ObserverDeliversInOrder`: `Spec` implements
  `OrderedDelivery`. `ObserverInv` adds to
  `BufferInv` that the buffer holds published events only, and that a recovery
  asks for events after the snapshot. A `push` of the expected version maps to
  `Deliver` with the length of the run, `Publish` to `Publish`, all else stutters.
- `PromptRecoveryWatchedAgain`, from `PromptInv`, which fits the flag of a loss to the
  phases of the timer while recoveries are prompt: a loss that is outstanding during a
  recovery means that its offset has not been emitted, which is what the end of the
  recovery waits for; so an armed timer finds the flag down, and only a disposed
  observer leaves it spent.
- `RoomTypeCorrect`, `RoomAlwaysShowsChannel` and `LocalMemberAlwaysShown`, for any number
  of streams. `RoomInv` adds that a thing is added once (`AddedOnce`), that streams
  without the bot have no relaying publication anywhere (`RelaysForBot`), and that join
  resolves after its member has been seen (`JoinedSeen`).

`WebSocketProofs` (RpcClient and Analytics)

- `ClientTypeCorrect`, `ReconnectingServed`,
  `PendingRequestsAwaitReconnect` and `ClosedFailsRequests`, from `ClientInv`, which
  adds `CountNeedsFlag` (the counter is 0 unless reconnecting, so the close of a
  socket, which does not look at the limit, cannot pass it) and `HasSocket` (who
  waits for a socket has made one).
- `EventsFlowOnceQuiet`, however reconnects overlap: `QuietInv` says that a flag that is up
  is pursued by a reconnector, which will retry or connects the current socket, and
  that an open client is pursued or has its current socket open, or with its close to
  come, with the channel's events subscribed or asked for on it.
- `RequestsExecutedAtMostTwice`. It counts what may still reach the server: the copies of
  a request in the outbox, on sockets and in executions are at most one, and one more
  once the pending list has been sent again (`SendingsCounted`, `SentAgainOnce`).
- `RequestsOnTheirWay`, for runs in which no two reconnectors have met: sockets are used in
  their order and those to come are untouched (`LaterUnused`), at most one
  reconnector runs (`SoleReconnector`), and a pending request is in the list that it
  will send (`WayInv`).
- `AnalyticsTypeCorrect`, `SocketsServed` and `UnsentAlwaysQueued`, for any number of
  reports and WebSockets. `SocketsServed` takes `LineInv`: a WebSocket a Socket has is
  its own and not the one it closes, and the client listens to its own Socket alone
  (`OwnersKnown`, `HeardIsClients`); and, while no WebSocket that was given up has come
  back, `Orderly`: only the client's Socket is at work, with one live WebSocket or with
  none and one timer. Given that, `UnsentQueued` is inductive: what an opening WebSocket
  takes from the queue is written or `lost`.

`ChannelReplicaProofs`

- `ReplicaTypeCorrect`, and `NoTimeoutOverExisting` (`Spec
  => []TimeoutMeansGone`), for any number of calls and any length of the wire. Two
  conjuncts of `ReplicaInv` carry the argument: `AwaitedComes`, what exists and is
  awaited is listed or its event is on the wire, and `RemovedIsGone`, a removal on
  the wire is of something that has gone (so that an entry found missing from the
  list after its answer was never there or is gone). `EarlyIsUnknown` and
  `QueuesHoldTheQueued` say that a request is sent once, so nothing that has gone
  comes back.
- `ReplicasAlwaysAgree` and `RemovedPersonsLeave`, from `AgreeInv`, which is kept given the
  first: what the wire may hold and in which order. Each event is there once, what is
  added is new (`AddedIsNew`), what is removed is listed or its addition is ahead
  (`RemovedFollows`), and a publication outlasts its subscriptions at the server
  and on the wire (`TargetStays`, `NeededFirst`), so that handlers find what they look
  up.

`PublicationProofs`

- `PublicationTypeCorrect`, and `StreamIsAsStateSays` (`Spec =>
  []StreamFollowsState`). `StreamFollowsState` speaks of empty queues only; the
  inductive form, `QueueEndsAtState`, says that the last entry of the queue of the
  stream, or the switch where the queue is empty, is what the state says. With it goes
  `LiveTracks`: a stream gives its senders the empty track while it is off, and its own live
  one while it is on, unless it is one that has been stopped for good.
- `AloneCallHolds`. The property is about the end of a call; `CleanInv` says where
  server, client, wire and tasks are at each stage of the one call under way
  (`Stage`, `TasksOwned`), and that all is settled between calls, as long as no call
  overlapped another and no request failed.

`P2PNegotiationProofs` (P2PNegotiation and PersonConnection)

- `NegotiationTypeCorrect` and `NegotiationsTakeTurns` hold of every run. `OneAtATime` is
  inductive with `Stages`, which ties a task between two awaits to the flag and to the
  signaling state, and the types take that mids are as many as the channel's
  events (`WorkBounded`).
- `OffersAlwaysAccepted` and `EndsAlwaysAgree`, while undisturbed. `UndisturbedInv` has
  a side of the sender: sections are those of the transceivers, one each; a publication
  has a transceiver until its removal has had its turn; and the pub/sub queue leads from
  what is published, after the pending list, to what is subscribed to (`QueueLeads`,
  which speaks of a function from the places of the queue to sets, in place of a
  recursion). And one of the receiver: it knows every section but that of the
  negotiation under way (`ReceiverKnows`), so an offer never has it refuse.
- `PersonsTypeCorrect`, for any number of events, which takes that a connection is made
  for an event at most (`ConnectionsCounted`), and that MessageBuffer has handed over
  what it kept (`HandedOver`).
- `StreamsOnTheirWay`, `NoMutualWait` and `PersonsAgree`, while undisturbed. The events
  that `LogInOrder` promises alternate. A queue holds one call for each event from the
  one it has got to, `done(p)` (`QueueInTurn`), which makes a state of both sides
  comparable although they handle events at their own pace; what a connection carries is
  what is subscribed to after that event, and without a connection nothing is
  (`SideAgrees`). `Direction` is about one publisher and its subscriber: messages are in
  the order of their events and none offers a stream that is over (`SentInOrder`), what
  was published is on its way, has come, or is over (`NoneForgotten`), and a stream that
  has come belongs to a subscription of now or still to come (`StreamHasCause`). Each is
  needed: without `NotBeforeEnd`, for example, a subscription behind an end could have
  brought its stream before the end took it away. That the two do not wait for each
  other follows at once: each head would be for an event ahead of the other's.

`SfuProofs` (SfuTransport and SfuReceiving)

- `TransportTypeCorrect`, `TransportReconnectingServed` and
  `TransportConnectionShown`, for any number of handlers, attempts and nested
  failures. The argument is `Told`: a step of a handler leaves it restarting, or the
  transport closed, or the state shown true; the one exception (`EndsUnseen`) is a
  handler that was not restarting. The two properties are inductive given this and the
  types.
- `ReceivingTypeCorrect`, `TransportsAnnounced` and `SubscriptionsReceived`, for any number
  of subscriptions and retries: of a request and its reply one at most is there
  (`AskingInOrder`), the options of a transport that has been made are in a reply unless
  something excuses it (`OptionsOnTheirWay`), and a consumer is that of a consume that
  is done (`ConsumersFollow`).

`SfuForwardingProofs`

- `ForwardingTypeCorrect`, `ProducersFollowForwardings` and
  `SubscribersAreAlwaysAsked`, for any number of forwardings, publications and
  subscribers. `ForwardingInv` adds which sender `removeSender` meets: only the head of
  the queue runs (`HeadRuns`), so the sender of a forwarding that is asked for, or
  whose relaying publication is not gone, is the one kept unless its publication has
  been forwarded twice at a time (`SenderIsKept`); no sender is kept under another
  publication (`SenderHasOrigin`); and a forwarding in the list has heard of its
  relaying publication and listens for its end (`StartedIsKnown`, `ListedListens`). That a
  running forwarding has asked for each of its subscriptions is `StartedAsks`.

`ChannelSessionProofs`

- `CallsResolveWhenDone` (`Spec => ResolvedMeansDone`) and `PersonLives` (`Spec =>
  []PersonLivesWithMember`), for any number of calls and values and anything that others
  do. The first is about a step that comes after the one of its event: `ToldIsDone` says
  that what a call was told is still so, or is `overwritten`, which takes that a removal
  on the wire is of something gone from the server (`RemovalIsGone`) and that the object
  lists its channel while the server has it (`ChannelListed`). The second is inductive
  with `DisposedForAReason` (what ends a person before its join is over is the end of
  its member or channel) and `NoLeaseYet` (before join is over no tick and no failed
  lease).

Every safety property that a run checks is so proved. The assumptions say that bounds are
numbers and that names which stand for different things are different: the calls of
`ChannelReplica` and of `Publication` (where none is called "event" or "replace", the
model's names for who else queues a switch of the stream), `None` and the streams,
reports or WebSockets, and two persons.

Only model-checked: the liveness properties (`HeldBackIsEmitted`,
`SubscriptionBringsStream`, `LostConnectionIsReplaced`, `QueuedRequestSettles`,
`CallSettles`, `CallsSettle`, `ReconnectingEnds`), which are beyond the prover, and the
type invariant of `ChannelSession`: its queue is cleared of a call with `SelectSeq`,
which is defined by recursion over the sequence, and what it returns could be shown only
by induction.

## 6. What is not modelled, and the plan

- *Peer, IceManager, candidates and ICE restarts of P2P connections*: what they do is
  WebRTC's, which the models take as a connection that works.
- *Data publications, encodings, replaceTrack, statistics, codecs*: data that no
  property tells apart, or one call of the browser's.
- *SignalingSession's chunks and acknowledgements*: its client is an external package;
  the models use it as an ordered channel that may fail to send.
- *Context and token*: see section 4.
- *Creating and finding channels and rooms, the P2P and SFU kinds of rooms, joining of
  bots*: single requests, or the same handlers with one kind of publication.
- In the modelled parts: the first connect of the RPC client; a second subscription
  to a publication whose first one is still being stopped (`overtaken` in
  P2PNegotiation).

The plan, in order of importance:

1. ICE restart as a second source of offers in `P2PNegotiation`.
2. SignalingSession: chunks, failures, session close.
3. The context's token and timers.
