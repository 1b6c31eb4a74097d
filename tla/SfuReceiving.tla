---------------------------- MODULE SfuReceiving ----------------------------
(***************************************************************************)
(* Subscribing to what an SFU bot publishes: LocalPersonImpl.subscribe     *)
(* with its wait for the stream, SFUConnection.startSubscribing and        *)
(* stopSubscribing, Receiver.consume, and TransportRepository              *)
(* (packages/core and packages/sfu-bot).                                   *)
(*                                                                         *)
(* All consumers of a person share one transport for receiving.  The SFU   *)
(* gives its options only with the first consumer, and that answer may     *)
(* come after later ones: consume then waits for onTransportCreated.       *)
(* Meanwhile the subscription may end in the channel, and a consume that   *)
(* fails unsubscribes.  A subscription is named by the call that makes it; *)
(* the queue of the person's requests is ChannelReplica's, here calls may  *)
(* overlap.  The RTC API server and the SFU are external.                  *)
(***************************************************************************)
EXTENDS Integers

CONSTANTS
  Subs,              \* subscriptions, each to another publication of the bot
  MaxRetries         \* times of the BackOff of createConsumer

ASSUME MaxRetriesAssumption == MaxRetries \in Nat

VARIABLES
  call,              \* of each subscribe, as its caller sees it
  channel,           \* each subscription, at the RTC API server
  known,             \*   and as far as the replica has handled its events
  consume,           \* the await its consume is at
  request, reply,    \* createConsumer: on its way, its answer, and how often
  retries,           \*   it was sent again
  sfuTransport,      \* the SFU has made the transport
  loaded,            \* the mediasoup device
  transport,         \* the transport is in the repository
  consumers,         \* subscriptions whose Receiver has an open consumer
  streams,           \* subscriptions that have been given a stream
  botLeft, leftKnown, \* the bot has left; the event has been handled
  \* history
  overtaken,         \* ended before their consume did
  stranded           \* failed consumes whose unsubscribe failed too

sfu == <<request, reply, retries, sfuTransport>>
receiving == <<call, channel, known, consume, sfu, loaded, transport, consumers,
               streams, botLeft, leftKnown, overtaken, stranded>>

Consuming == {"capabilities", "asking", "waiting", "consuming"}

ReceivingTypeOK ==
  /\ call \in [Subs -> {"idle", "asking", "watching", "resolved", "rejected"}]
  /\ channel \in [Subs -> {"none", "subscribed", "ended"}]
  /\ known \in [Subs -> {"none", "subscribed", "ended"}]
  /\ consume \in [Subs -> Consuming \cup {"none", "releasing", "failed", "done"}]
  /\ request \in [Subs -> BOOLEAN]
  /\ reply \in [Subs -> {"none", "plain", "options"}]
  /\ retries \in [Subs -> 0 .. MaxRetries]
  /\ sfuTransport \in BOOLEAN /\ loaded \in BOOLEAN /\ transport \in BOOLEAN
  /\ consumers \subseteq streams /\ streams \subseteq Subs
  /\ botLeft \in BOOLEAN /\ leftKnown \in BOOLEAN
  /\ overtaken \subseteq Subs /\ stranded \subseteq Subs

ReceivingInit ==
  /\ call = [s \in Subs |-> "idle"]
  /\ channel = [s \in Subs |-> "none"] /\ known = [s \in Subs |-> "none"]
  /\ consume = [s \in Subs |-> "none"]
  /\ request = [s \in Subs |-> FALSE] /\ reply = [s \in Subs |-> "none"]
  /\ retries = [s \in Subs |-> 0]
  /\ sfuTransport = FALSE /\ loaded = FALSE /\ transport = FALSE
  /\ consumers = {} /\ streams = {}
  /\ botLeft = FALSE /\ leftKnown = FALSE
  /\ overtaken = {} /\ stranded = {}

-----------------------------------------------------------------------------
(* subscribe, as its caller sees it.                                       *)

\* subscribe up to the request.
Subscribe(s) ==
  /\ call[s] = "idle" /\ ~leftKnown
  /\ call' = [call EXCEPT ![s] = "asking"]
  /\ UNCHANGED <<channel, known, consume, sfu, loaded, transport, consumers,
                 streams, botLeft, leftKnown, overtaken, stranded>>

\* The server subscribes and tells the channel.
ServerSubscribes(s) ==
  /\ call[s] = "asking" /\ channel[s] = "none" /\ ~botLeft
  /\ channel' = [channel EXCEPT ![s] = "subscribed"]
  /\ UNCHANGED <<call, known, consume, sfu, loaded, transport, consumers,
                 streams, botLeft, leftKnown, overtaken, stranded>>

\* The server refuses, or its answer does not come.
SubscribeFails(s) ==
  /\ call[s] = "asking"
  /\ call' = [call EXCEPT ![s] = "rejected"]
  /\ UNCHANGED <<channel, known, consume, sfu, loaded, transport, consumers,
                 streams, botLeft, leftKnown, overtaken, stranded>>

\* _subscribe resolves, its event seen: the stream may be there already, or
\* its consume may have failed before anybody watched.
SubscribeContinues(s) ==
  /\ call[s] = "asking" /\ known[s] # "none"
  /\ call' = [call EXCEPT ![s] = IF s \in streams THEN "resolved" ELSE "watching"]
  /\ UNCHANGED <<channel, known, consume, sfu, loaded, transport, consumers,
                 streams, botLeft, leftKnown, overtaken, stranded>>

\* The first of the three watches to time out rejects.
SubscribeTimesOut(s) ==
  /\ call[s] = "watching"
  /\ call' = [call EXCEPT ![s] = "rejected"]
  /\ UNCHANGED <<channel, known, consume, sfu, loaded, transport, consumers,
                 streams, botLeft, leftKnown, overtaken, stranded>>

-----------------------------------------------------------------------------
(* startSubscribing and consume.                                           *)

\* The subscription's event: a Receiver is made, and asks for a consumer as
\* soon as the device is loaded.
EventSubscribed(s) ==
  /\ known[s] = "none" /\ channel[s] # "none"
  /\ known' = [known EXCEPT ![s] = "subscribed"]
  /\ consume' = [consume EXCEPT ![s] = IF loaded THEN "asking" ELSE "capabilities"]
  /\ request' = [request EXCEPT ![s] = loaded]
  /\ UNCHANGED <<call, channel, reply, retries, sfuTransport, loaded, transport,
                 consumers, streams, botLeft, leftKnown, overtaken, stranded>>

\* getRtpCapabilities and loadDevice.
DeviceLoaded(s) ==
  /\ consume[s] = "capabilities"
  /\ loaded' = TRUE
  /\ consume' = [consume EXCEPT ![s] = "asking"]
  /\ request' = [request EXCEPT ![s] = TRUE]
  /\ UNCHANGED <<call, channel, known, reply, retries, sfuTransport, transport,
                 consumers, streams, botLeft, leftKnown, overtaken, stranded>>

\* The SFU makes the consumer; whoever is first is told of the transport.
SfuCreatesConsumer(s) ==
  /\ request[s] /\ ~botLeft
  /\ request' = [request EXCEPT ![s] = FALSE]
  /\ reply' = [reply EXCEPT ![s] = IF sfuTransport THEN "plain" ELSE "options"]
  /\ sfuTransport' = TRUE
  /\ UNCHANGED <<call, channel, known, consume, retries, loaded, transport,
                 consumers, streams, botLeft, leftKnown, overtaken, stranded>>

\* createConsumer does not get its answer and asks again.
CreateConsumerRetries(s) ==
  /\ request[s] \/ reply[s] # "none"
  /\ retries[s] < MaxRetries
  /\ retries' = [retries EXCEPT ![s] = @ + 1]
  /\ request' = [request EXCEPT ![s] = TRUE]
  /\ reply' = [reply EXCEPT ![s] = "none"]
  /\ UNCHANGED <<call, channel, known, consume, sfuTransport, loaded, transport,
                 consumers, streams, botLeft, leftKnown, overtaken, stranded>>

\* Mutant: a new transport is not announced.
CreateTransportQuietly(s) ==
  /\ transport' = (transport \/ reply[s] = "options")
  /\ consume' = [consume EXCEPT ![s] = IF transport' THEN "consuming" ELSE "waiting"]

\* createTransport puts the transport into the repository and announces it
\* to those that wait; without it, s waits.
GetTransport(s) ==
  /\ transport' = (transport \/ reply[s] = "options")
  /\ consume' = [t \in Subs |->
       IF t = s \/ consume[t] = "waiting"
       THEN IF transport' THEN "consuming" ELSE "waiting"
       ELSE consume[t]]

ConsumerCreated(s) ==
  /\ reply[s] # "none"
  /\ GetTransport(s)
  /\ reply' = [reply EXCEPT ![s] = "none"]
  /\ UNCHANGED <<call, channel, known, request, retries, sfuTransport, loaded,
                 consumers, streams, botLeft, leftKnown, overtaken, stranded>>

\* The subscription gets its stream, and subscribe resolves.
EmitSubscribed(s) ==
  /\ streams' = streams \cup {s}
  /\ call' = [call EXCEPT ![s] = IF @ = "watching" THEN "resolved" ELSE @]

Consumed(s) ==
  /\ consume[s] = "consuming"
  /\ consume' = [consume EXCEPT ![s] = "done"]
  /\ consumers' = consumers \cup {s}
  /\ EmitSubscribed(s)
  /\ UNCHANGED <<channel, known, sfu, loaded, transport, botLeft, leftKnown,
                 overtaken, stranded>>

\* Capabilities or a consumer are refused, the transport is not announced in
\* time, or the codec is not supported: startSubscribing unsubscribes.
ConsumeFails(s) ==
  /\ consume[s] \in Consuming
  /\ consume' = [consume EXCEPT ![s] = "releasing"]
  /\ request' = [request EXCEPT ![s] = FALSE]
  /\ reply' = [reply EXCEPT ![s] = "none"]
  /\ UNCHANGED <<call, channel, known, retries, sfuTransport, loaded, transport,
                 consumers, streams, botLeft, leftKnown, overtaken, stranded>>

\* The unsubscribe is over, one way or the other: subscribe is told.
Released(s, refused) ==
  /\ consume[s] = "releasing"
  /\ refused \/ known[s] = "ended"
  /\ consume' = [consume EXCEPT ![s] = "failed"]
  /\ stranded' = IF refused THEN stranded \cup {s} ELSE stranded
  /\ call' = [call EXCEPT ![s] = IF @ = "watching" THEN "rejected" ELSE @]
  /\ UNCHANGED <<channel, known, sfu, loaded, transport, consumers, streams,
                 botLeft, leftKnown, overtaken>>

-----------------------------------------------------------------------------
(* The end of a subscription.                                              *)

\* The person unsubscribes, the publication ends, or a failed consume asks.
ServerUnsubscribes(s) ==
  /\ channel[s] = "subscribed"
  /\ channel' = [channel EXCEPT ![s] = "ended"]
  /\ UNCHANGED <<call, known, consume, sfu, loaded, transport, consumers,
                 streams, botLeft, leftKnown, overtaken, stranded>>

\* Mutant: the consumer stays open.
Unconsume(s) == UNCHANGED consumers

\* stopSubscribing, whose unconsume finds a consumer once consume is over.
StopSubscribing(s) == consumers' = consumers \ {s}

EventUnsubscribed(s) ==
  /\ known[s] = "subscribed" /\ channel[s] = "ended"
  /\ known' = [known EXCEPT ![s] = "ended"]
  /\ StopSubscribing(s)
  /\ overtaken' = IF consume[s] \in Consuming THEN overtaken \cup {s} ELSE overtaken
  /\ UNCHANGED <<call, channel, consume, sfu, loaded, transport, streams, botLeft,
                 leftKnown, stranded>>

ServerRemovesBot ==
  /\ ~botLeft /\ botLeft' = TRUE
  /\ channel' = [s \in Subs |-> IF channel[s] = "subscribed" THEN "ended" ELSE channel[s]]
  /\ UNCHANGED <<call, known, consume, sfu, loaded, transport, consumers,
                 streams, leftKnown, overtaken, stranded>>

\* The event comes after those of the bot's publications; those that wait
\* for a stream are told.
EventBotLeft ==
  /\ botLeft /\ ~leftKnown /\ leftKnown' = TRUE
  /\ \A s \in Subs : known[s] = channel[s]
  /\ call' = [s \in Subs |-> IF call[s] = "watching" THEN "rejected" ELSE call[s]]
  /\ UNCHANGED <<channel, known, consume, sfu, loaded, transport, consumers,
                 streams, botLeft, overtaken, stranded>>

-----------------------------------------------------------------------------
\* Timers elapse, requests settle and events arrive.
ReceivingProceeds(s) ==
  \/ SubscribeContinues(s)
  \/ SubscribeTimesOut(s)
  \/ EventSubscribed(s)
  \/ DeviceLoaded(s)
  \/ ConsumerCreated(s)
  \/ Consumed(s)
  \/ \E refused \in BOOLEAN : Released(s, refused)
  \/ EventUnsubscribed(s)

ReceivingNext ==
  \/ \E s \in Subs :
       \/ ReceivingProceeds(s)
       \/ Subscribe(s)
       \/ ServerSubscribes(s)
       \/ SubscribeFails(s)
       \/ SfuCreatesConsumer(s)
       \/ CreateConsumerRetries(s)
       \/ ConsumeFails(s)
       \/ ServerUnsubscribes(s)
  \/ ServerRemovesBot
  \/ EventBotLeft

ReceivingSpec == ReceivingInit /\ [][ReceivingNext]_receiving

-----------------------------------------------------------------------------
(* Properties.                                                             *)

\* A consume that waits for the transport waits for an answer that is on its
\* way, unless the answer was lost and asked for again: the SFU does not
\* repeat the options, and nobody must miss the announcement
\* (Receiver.consume, receiver.ts:135).
TransportIsOnItsWay ==
  \A s \in Subs : consume[s] = "waiting" =>
    \/ \E t \in Subs : reply[t] = "options"
    \/ \E t \in Subs : retries[t] > 0 \/ consume[t] \in {"releasing", "failed"}

\* When nothing is under way for a subscription, the channel and the SFU
\* agree about it: subscribed with an open consumer, or neither.  Excluded
\* are the ends that came while consume was running, which find no consumer
\* to close (receiver.ts:256), and unsubscribes that failed.
SubscriptionIsReceived ==
  \A s \in Subs :
    (/\ known[s] = channel[s]
     /\ consume[s] \in {"done", "failed"}
     /\ s \notin overtaken \cup stranded)
    => (known[s] = "subscribed" <=> s \in consumers)
=============================================================================
