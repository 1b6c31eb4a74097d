--------------------------- MODULE SfuForwarding ---------------------------
(***************************************************************************)
(* Forwarding through an SFU bot (packages/sfu-bot): startForwarding and   *)
(* stopForwarding of SFUBotMember, the Sender of each forwarding, and      *)
(* Forwarding itself, which asks the SFU to confirm every subscription.    *)
(*                                                                         *)
(* Starts go through one queue; a start asks the SFU, opens a producer and *)
(* waits for the relaying publication to appear in the channel.  A stop    *)
(* does not go through the queue, and the producer is closed when the      *)
(* relaying publication goes.  SFUConnection keeps one sender for each     *)
(* original publication, the one made last.  mediasoup asks for the        *)
(* producer by an event, and a watch with a limit answers it: an event     *)
(* that comes later is answered by nobody, and its start waits for ever.   *)
(*                                                                         *)
(* A forwarding is named by the call that starts it.  The SFU, the RTC API *)
(* server and mediasoup are external.                                      *)
(***************************************************************************)
EXTENDS Sequences

CONSTANTS
  Forwards,          \* forwardings that are started
  Pubs,              \* publications of the local person
  Subscribers,
  None

ASSUME NoneAssumption == None \notin Forwards

VARIABLES
  phase,             \* of each startForwarding
  origin,            \* the publication it forwards
  queue,             \* _startForwardQueue; its head runs
  senders,           \* of each publication, the forwarding whose sender is kept
  producers,         \* forwardings whose sender has an open producer
  forwardings,       \* _forwardings
  listening,         \* forwardings that listen for the end of their publication
  stop,              \* of each stopForwarding, as its caller sees it
  relay, known,      \* each relaying publication: at the server, in the replica
  subscribers,       \*   and its subscriptions, as far as the replica knows
  confirmation,      \*   and the request that confirms each of these
  left,              \* the bot has left, as the replica knows
  \* history
  overlapped,        \* publications forwarded again before the end of a forwarding
  blinked            \* whose publication came and went while nothing could run

member == <<queue, senders, producers, forwardings, listening>>
vars == <<phase, origin, member, stop, relay, known, subscribers, confirmation,
          left, overlapped, blinked>>

\* Until mediasoup has its answer a start is "producing", "unwatched" once the
\* watch has given up, "creating" while the SFU makes the producer, or "unanswered".
Running == {"asking", "producing", "unwatched", "creating", "unanswered", "announcing"}
running(f) == phase[f] \in Running
over(f) == phase[f] \in {"started", "failed"}

TypeOK ==
  /\ phase \in [Forwards -> Running \cup {"idle", "queued", "started", "failed"}]
  /\ origin \in [Forwards -> Pubs]
  /\ queue \in Seq(Forwards)
  /\ senders \in [Pubs -> Forwards \cup {None}]
  /\ forwardings \subseteq Forwards
  /\ producers \subseteq Forwards
  /\ listening \subseteq Forwards
  /\ stop \in [Forwards -> {"none", "waiting", "resolved", "rejected"}]
  /\ relay \in [Forwards -> {"none", "active", "ended"}]
  /\ known \in [Forwards -> {"none", "listed", "gone"}]
  /\ subscribers \in [Forwards -> SUBSET Subscribers]
  /\ confirmation \in [Forwards -> [Subscribers -> {"none", "asked", "confirmed", "failed"}]]
  /\ left \in BOOLEAN
  /\ overlapped \subseteq Pubs /\ blinked \subseteq Forwards

Init ==
  /\ phase = [f \in Forwards |-> "idle"]
  /\ origin \in [Forwards -> Pubs]
  /\ queue = <<>>
  /\ senders = [p \in Pubs |-> None]
  /\ producers = {} /\ forwardings = {} /\ listening = {}
  /\ stop = [f \in Forwards |-> "none"]
  /\ relay = [f \in Forwards |-> "none"]
  /\ known = [f \in Forwards |-> "none"]
  /\ subscribers = [f \in Forwards |-> {}]
  /\ confirmation = [f \in Forwards |-> [u \in Subscribers |-> "none"]]
  /\ left = FALSE /\ overlapped = {} /\ blinked = {}

-----------------------------------------------------------------------------
(* startForwarding.                                                        *)

StartForwarding(f) ==
  /\ phase[f] = "idle"
  /\ phase' = [phase EXCEPT ![f] = "queued"]
  /\ queue' = Append(queue, f)
  /\ UNCHANGED <<origin, senders, producers, forwardings, listening, stop, relay,
                 known, subscribers, confirmation, left, overlapped, blinked>>

\* Mutant: the sender of an earlier forwarding is kept.
KeepSender(f) ==
  IF senders[origin[f]] = None
  THEN senders' = [senders EXCEPT ![origin[f]] = f]
  ELSE UNCHANGED senders

\* addSender replaces the sender of the publication.
AddSender(f) == senders' = [senders EXCEPT ![origin[f]] = f]

\* The publication's last forwarding may be under way, or not yet gone.
SameOrigin(f) == {g \in Forwards \ {f} : origin[g] = origin[f]}
Overlaps(f) == \E g \in SameOrigin(f) : relay[g] # "none" /\ known[g] # "gone"

\* _startForwarding up to the SFU's answer; a bot that has left refuses.
StartRuns(f) ==
  /\ queue # <<>> /\ Head(queue) = f /\ phase[f] = "queued"
  /\ IF left
     THEN /\ phase' = [phase EXCEPT ![f] = "failed"]
          /\ queue' = Tail(queue)
          /\ UNCHANGED <<senders, overlapped>>
     ELSE /\ phase' = [phase EXCEPT ![f] = "asking"]
          /\ AddSender(f)
          /\ overlapped' = IF Overlaps(f) THEN overlapped \cup {origin[f]} ELSE overlapped
          /\ UNCHANGED queue
  /\ UNCHANGED <<origin, producers, forwardings, listening, stop, relay, known,
                 subscribers, confirmation, left, blinked>>

\* Sender.startForwarding asks; the transport that the answer names is there or
\* is made, the sender watches for onProduce and produces.
ForwardingAnswered(f) == phase' = [phase EXCEPT ![f] = "producing"]

SfuForwards(f) ==
  /\ phase[f] = "asking" /\ ~left
  /\ ForwardingAnswered(f)
  /\ relay' = [relay EXCEPT ![f] = "active"]
  /\ UNCHANGED <<origin, member, stop, known, subscribers, confirmation, left,
                 overlapped, blinked>>

\* The watch gives up, which is only logged.
OnProduceTimesOut(f) ==
  /\ phase[f] = "producing"
  /\ phase' = [phase EXCEPT ![f] = "unwatched"]
  /\ UNCHANGED <<origin, member, stop, relay, known, subscribers, confirmation, left,
                 overlapped, blinked>>

\* mediasoup asks for the producer once its transport has connected, and waits for
\* the answer without a limit.
OnProduce(f) ==
  /\ \/ phase[f] = "producing" /\ phase' = [phase EXCEPT ![f] = "creating"]
     \/ phase[f] = "unwatched" /\ phase' = [phase EXCEPT ![f] = "unanswered"]
  /\ UNCHANGED <<origin, member, stop, relay, known, subscribers, confirmation, left,
                 overlapped, blinked>>

\* Mutant: only later subscriptions are confirmed.
ConfirmLater(f) == UNCHANGED confirmation

\* new Forwarding asks for the subscriptions that are there already.
ConfirmExisting(f) ==
  confirmation' = [confirmation EXCEPT ![f] =
    [u \in Subscribers |-> IF u \in subscribers[f] THEN "asked" ELSE @[u]]]

\* The one request ends; its failure is swallowed.
ConfirmationEnds(f, u, failed) ==
  /\ confirmation[f][u] = "asked"
  /\ confirmation' = [confirmation EXCEPT ![f][u] = IF failed THEN "failed" ELSE "confirmed"]
  /\ UNCHANGED <<phase, origin, member, stop, relay, known, subscribers, left,
                 overlapped, blinked>>

\* The forwarding is entered, and the next start runs.
Register(f) ==
  /\ phase' = [phase EXCEPT ![f] = "started"]
  /\ queue' = Tail(queue)
  /\ forwardings' = forwardings \cup {f}
  /\ listening' = listening \cup {f}
  /\ ConfirmExisting(f)

Wait(f) ==
  /\ phase' = [phase EXCEPT ![f] = "announcing"]
  /\ UNCHANGED <<queue, forwardings, listening, confirmation>>

\* createProducer is answered, and so is mediasoup: _produce is over, and the
\* relaying publication may be there already.
Produced(f) ==
  /\ phase[f] = "creating"
  /\ producers' = producers \cup {f}
  /\ IF known[f] = "listed" THEN Register(f) ELSE Wait(f)
  /\ UNCHANGED <<origin, senders, stop, relay, known, subscribers, left,
                 overlapped, blinked>>

\* Mutant: a start that fails keeps the queue waiting.
FailAndBlock(f) == UNCHANGED queue

LeaveQueue(f) == queue' = Tail(queue)

\* The SFU refuses the forwarding or the producer, mediasoup fails before it asks,
\* or the publication does not appear in time: what has been opened stays open.
StartFails(f) ==
  /\ running(f) /\ phase[f] # "unanswered"
  /\ phase' = [phase EXCEPT ![f] = "failed"]
  /\ LeaveQueue(f)
  /\ UNCHANGED <<origin, senders, producers, forwardings, listening, stop, relay,
                 known, subscribers, confirmation, left, overlapped, blinked>>

-----------------------------------------------------------------------------
(* The channel's events.                                                   *)

\* The relaying publication appears; the start that waits for it goes on.
EventPublished(f) ==
  /\ relay[f] # "none" /\ known[f] = "none"
  /\ known' = [known EXCEPT ![f] = "listed"]
  /\ IF phase[f] = "announcing"
     THEN Register(f)
     ELSE UNCHANGED <<phase, queue, forwardings, listening, confirmation>>
  /\ UNCHANGED <<origin, senders, producers, stop, relay, subscribers, left,
                 overlapped, blinked>>

\* It appears and goes in events handled in one go: a start that waits for
\* it goes on afterwards, and listens for what is past.
EventsPublishedUnpublished(f) ==
  /\ relay[f] = "ended" /\ known[f] = "none"
  /\ known' = [known EXCEPT ![f] = "gone"]
  /\ blinked' = blinked \cup {f}
  /\ IF phase[f] = "announcing"
     THEN Register(f)
     ELSE UNCHANGED <<phase, queue, forwardings, listening, confirmation>>
  /\ UNCHANGED <<origin, senders, producers, stop, relay, subscribers, left,
                 overlapped>>

\* Somebody subscribes to it; a Forwarding asks to have it confirmed.
EventSubscribed(f, u) ==
  /\ known[f] = "listed" /\ relay[f] = "active" /\ u \notin subscribers[f]
  /\ subscribers' = [subscribers EXCEPT ![f] = @ \cup {u}]
  /\ confirmation' = [confirmation EXCEPT ![f][u] =
                        IF phase[f] = "started" THEN "asked" ELSE @]
  /\ UNCHANGED <<phase, origin, member, stop, relay, known, left, overlapped, blinked>>

\* removeSender: unproduce of whatever sender the publication has.
RemoveSender(p) == producers' = producers \ {senders[p]}

\* It goes: a forwarding that listens ends, and its stop resolves.
EventUnpublished(f) ==
  /\ relay[f] = "ended" /\ known[f] = "listed"
  /\ known' = [known EXCEPT ![f] = "gone"]
  /\ IF f \in listening
     THEN /\ listening' = listening \ {f}
          /\ RemoveSender(origin[f])
          /\ stop' = [stop EXCEPT ![f] = IF @ = "waiting" THEN "resolved" ELSE @]
     ELSE UNCHANGED <<listening, producers, stop>>
  /\ UNCHANGED <<phase, origin, queue, senders, forwardings, relay, subscribers,
                 confirmation, left, overlapped, blinked>>

\* The original publication ends, or somebody else ends the forwarding.
RelayEnds(f) ==
  /\ relay[f] = "active"
  /\ relay' = [relay EXCEPT ![f] = "ended"]
  /\ UNCHANGED <<phase, origin, member, stop, known, subscribers, confirmation,
                 left, overlapped, blinked>>

\* The bot's publications go before it leaves; its connection is closed.
EventBotLeft ==
  /\ ~left /\ left' = TRUE
  /\ \A f \in Forwards : relay[f] # "none" => known[f] = "gone"
  /\ senders' = [p \in Pubs |-> None]
  /\ UNCHANGED <<phase, origin, queue, producers, forwardings, listening, stop,
                 relay, known, subscribers, confirmation, overlapped, blinked>>

-----------------------------------------------------------------------------
(* stopForwarding.                                                         *)

\* The forwarding leaves the list before the SFU has answered.
StopForwarding(f) ==
  /\ stop[f] = "none" /\ phase[f] = "started"
  /\ IF left \/ f \notin forwardings
     THEN /\ stop' = [stop EXCEPT ![f] = "rejected"]
          /\ UNCHANGED forwardings
     ELSE /\ stop' = [stop EXCEPT ![f] = "waiting"]
          /\ forwardings' = forwardings \ {f}
  /\ UNCHANGED <<phase, origin, queue, senders, producers, listening, relay, known,
                 subscribers, confirmation, left, overlapped, blinked>>

\* The SFU refuses, or onForwardingStopped does not come in time.
StopFails(f) ==
  /\ stop[f] = "waiting"
  /\ stop' = [stop EXCEPT ![f] = "rejected"]
  /\ UNCHANGED <<phase, origin, member, relay, known, subscribers, confirmation,
                 left, overlapped, blinked>>

-----------------------------------------------------------------------------
\* Requests settle, timers elapse and events arrive; mediasoup connects its transport
\* and asks for the producer, or fails.
Proceeds(f) ==
  \/ StartRuns(f)
  \/ OnProduceTimesOut(f)
  \/ OnProduce(f)
  \/ Produced(f)
  \/ StartFails(f)
  \/ EventPublished(f)
  \/ EventUnpublished(f)
  \/ StopFails(f)

Next ==
  \/ \E f \in Forwards :
       \/ Proceeds(f)
       \/ StartForwarding(f)
       \/ SfuForwards(f)
       \/ EventsPublishedUnpublished(f)
       \/ \E u \in Subscribers :
            \/ EventSubscribed(f, u)
            \/ \E failed \in BOOLEAN : ConfirmationEnds(f, u, failed)
       \/ RelayEnds(f)
       \/ StopForwarding(f)
  \/ EventBotLeft

Fairness == \A f \in Forwards : WF_vars(Proceeds(f))

Spec == Init /\ [][Next]_vars /\ Fairness

-----------------------------------------------------------------------------
(* Properties.                                                             *)

\* A forwarding has an open producer exactly as long as its publication is
\* in the channel, for a publication that is forwarded again only after its
\* last forwarding has gone: the sender that is removed is the right one, and
\* neither a stop nor a start leaves the camera sending or the forwarding
\* silent (member.ts:251, connection/index.ts:70).
ProducerFollowsForwarding ==
  \A f \in Forwards :
    phase[f] = "started" /\ origin[f] \notin overlapped /\ f \notin blinked
      => (f \in producers <=> known[f] = "listed")

\* The SFU is asked to confirm every subscription of a running forwarding,
\* whether it was there before the forwarding or came later: it cuts off what is
\* not confirmed (forwarding.ts:37).  Whether it does confirm is not promised:
\* there is one request, and its failure is swallowed (forwarding.ts:39).
SubscribersAreAsked ==
  \A f \in Forwards : phase[f] = "started" /\ known[f] = "listed" =>
    \A u \in subscribers[f] : confirmation[f][u] # "none"

\* Every stop settles, and every start behind whatever else is in the queue,
\* whether the SFU refuses, answers late or never.  Excepted is the queue with a
\* start whose producer mediasoup asked for after the watch had given up
\* (sender.ts:456): nobody answers, and the start and those behind it wait.
CallsSettle ==
  \A f \in Forwards :
    /\ phase[f] = "queued" ~> over(f) \/ \E g \in Forwards : phase[g] = "unanswered"
    /\ stop[f] = "waiting" ~> stop[f] # "waiting"
=============================================================================
