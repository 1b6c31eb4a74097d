-------------------------- MODULE P2PNegotiation --------------------------
(***************************************************************************)
(* One P2PConnection between a person that publishes and a person that     *)
(* subscribes: packages/core/src/plugin/internal/person/connection, with   *)
(* index.ts (the pub/sub queue of each side), sender.ts (the publisher's   *)
(* Sender) and receiver.ts (the subscriber's Receiver).                    *)
(*                                                                         *)
(* The model is one direction of one connection, from its creation to its  *)
(* close; whether the other direction carries media is chosen at the start. *)
(* Publications are media publications: each has a section (m-line) of the *)
(* offer, named by its mid.  Signaling keeps the order of messages.        *)
(***************************************************************************)
EXTENDS Integers, Sequences, FiniteSets

CONSTANTS
  Publications,      \* the publications of the publishing person
  MaxCalls,          \* bound: subscribe and unsubscribe events of the channel
  MaxSendFailures    \* bound: signaling messages that cannot be sent

ASSUME MaxCallsAssumption == MaxCalls \in Nat
ASSUME MaxSendFailuresAssumption == MaxSendFailures \in Nat

VARIABLES
  subscribed,        \* the publications subscribed to, as the channel has it
  calls,
  otherDirection,    \* the other direction of the connection carries media
  \* the publisher
  pubQueue,          \* its _pubsubQueue
  publications, transceivers, pendingPublications, isNegotiating,
  sections,          \* the mids its peer connection sends on
  nextMid,
  senderState,       \* the signalingState of its peer connection
  tasks,             \* the calls of add and remove that are between two awaits
  \* the subscriber
  subQueue,          \* its _pubsubQueue
  subscriptions, streams, publicationInfo,
  remoteSections,    \* the sections of its remote description
  receiverState,
  \* signaling and history
  toReceiver, toSender, sendFailures,
  ignored,           \* publications whose removal returned early
  rejected,          \* the receiver has refused an offer
  overtaken          \* publications subscribed to again before the receiver
                     \* had stopped the earlier subscription

channelVars == <<subscribed, calls, otherDirection>>
senderVars == <<publications, transceivers, pendingPublications, isNegotiating,
                sections, nextMid, senderState, tasks, ignored>>
receiverVars == <<subscriptions, streams, publicationInfo, remoteSections,
                  receiverState, rejected, overtaken>>
vars == <<channelVars, pubQueue, senderVars, subQueue, receiverVars,
          toReceiver, toSender, sendFailures>>

Call(op, p) == [op |-> op, pub |-> p]
NoMid == 0
Task(at, op, p, owner) == [at |-> at, op |-> op, pub |-> p, owner |-> owner]

senderOpen == senderState # "closed"
receiverOpen == receiverState # "closed"

Init ==
  /\ subscribed = {} /\ calls = 0 /\ otherDirection \in BOOLEAN
  /\ pubQueue = <<>> /\ subQueue = <<>>
  /\ publications = {} /\ pendingPublications = <<>>
  /\ transceivers = [p \in Publications |-> NoMid]
  /\ isNegotiating = FALSE /\ senderState = "stable"
  /\ sections = {} /\ nextMid = 1 /\ tasks = {}
  /\ subscriptions = {} /\ receiverState = "stable" /\ remoteSections = {}
  /\ streams = [p \in Publications |-> NoMid]
  /\ publicationInfo = [p \in Publications |-> NoMid]
  /\ toReceiver = <<>> /\ toSender = <<>> /\ sendFailures = 0
  /\ ignored = {} /\ rejected = FALSE /\ overtaken = {}

-----------------------------------------------------------------------------
(* The channel: both persons see a subscription made or cancelled.  A call *)
(* after a side has closed would create a new connection.                  *)

Enqueue(queue, open, call) == IF open THEN Append(queue, call) ELSE queue

Subscribe(p) ==
  /\ calls < MaxCalls /\ p \notin subscribed /\ senderOpen /\ receiverOpen
  /\ subscribed' = subscribed \cup {p}
  /\ calls' = calls + 1
  /\ pubQueue' = Append(pubQueue, Call("start", p))
  /\ subQueue' = Append(subQueue, Call("start", p))
  /\ UNCHANGED <<otherDirection, senderVars, receiverVars, toReceiver, toSender,
                 sendFailures>>

Unsubscribe(p) ==
  /\ calls < MaxCalls /\ p \in subscribed
  /\ subscribed' = subscribed \ {p}
  /\ calls' = calls + 1
  /\ pubQueue' = Enqueue(pubQueue, senderOpen, Call("stop", p))
  /\ subQueue' = Enqueue(subQueue, receiverOpen, Call("stop", p))
  /\ UNCHANGED <<otherDirection, senderVars, receiverVars, toReceiver, toSender,
                 sendFailures>>

-----------------------------------------------------------------------------
(* The Sender.                                                             *)

\* Mutant: only the signaling state is looked at, which is still stable while
\* an offer is being made.
WaitForStateOnly(negotiating, state) == state # "stable"

\* The test at the head of add and remove.
MustWait(negotiating, state) == negotiating \/ state # "stable"

(***************************************************************************)
(* add and remove up to their first await, from the state the caller left: *)
(* the negotiating flag and the pending list are parameters because        *)
(* _handleReceiverAnswer changes them first.  owner is whoever awaits the  *)
(* call: the pub/sub queue or the answer handler; stopPublishing does not. *)
(***************************************************************************)
Add(p, negotiating, state, pending, owner) ==
  IF MustWait(negotiating, state)
  THEN /\ pendingPublications' = Append(pending, Call("add", p))
       /\ isNegotiating' = negotiating
       /\ UNCHANGED <<publications, transceivers, sections, nextMid, tasks, ignored>>
  ELSE /\ isNegotiating' = TRUE
       /\ pendingPublications' = pending
       /\ publications' = publications \cup {p}
       /\ transceivers' = [transceivers EXCEPT ![p] = nextMid]
       /\ sections' = sections \cup {nextMid}
       /\ nextMid' = nextMid + 1
       /\ tasks' = tasks \cup {Task("offer", "add", p, owner)}
       /\ UNCHANGED ignored

\* Mutant: the transceiver is forgotten but not stopped.
LeaveTransceiver(p) == sections

\* transceiver.stop() makes the section of the publication inactive.
StopTransceiver(p) == sections \ {transceivers[p]}

Remove(p, negotiating, state, pending) ==
  /\ publications' = publications \ {p}
  /\ UNCHANGED nextMid
  /\ IF p \notin publications
     THEN /\ ignored' = ignored \cup {p}
          /\ isNegotiating' = negotiating
          /\ pendingPublications' = pending
          /\ UNCHANGED <<transceivers, sections, tasks>>
     ELSE /\ UNCHANGED ignored
          /\ IF state = "closed"
             THEN /\ isNegotiating' = negotiating
                  /\ pendingPublications' = pending
                  /\ UNCHANGED <<transceivers, sections, tasks>>
             ELSE IF MustWait(negotiating, state)
             THEN /\ pendingPublications' = Append(pending, Call("remove", p))
                  /\ isNegotiating' = negotiating
                  /\ UNCHANGED <<transceivers, sections, tasks>>
             ELSE /\ isNegotiating' = TRUE
                  /\ pendingPublications' = pending
                  /\ transceivers' = [transceivers EXCEPT ![p] = NoMid]
                  /\ sections' = StopTransceiver(p)
                  /\ tasks' = tasks \cup {Task("offer", "remove", p, "nobody")}

queueIsFree == \A t \in tasks : t.owner # "queue"

\* startPublishing: the queue goes on when add has returned.
StartPublishing ==
  /\ pubQueue # <<>> /\ Head(pubQueue).op = "start" /\ queueIsFree
  /\ Add(Head(pubQueue).pub, isNegotiating, senderState, pendingPublications, "queue")
  /\ pubQueue' = Tail(pubQueue)
  /\ UNCHANGED <<channelVars, senderState, subQueue, receiverVars, toReceiver,
                 toSender, sendFailures>>

\* stopPublishing: remove is not awaited, and _closeIfNeeded follows at once.
StopPublishing ==
  /\ pubQueue # <<>> /\ Head(pubQueue).op = "stop" /\ queueIsFree
  /\ Remove(Head(pubQueue).pub, isNegotiating, senderState, pendingPublications)
  /\ senderState' = IF publications' = {} /\ ~otherDirection THEN "closed"
                    ELSE senderState
  /\ pubQueue' = Tail(pubQueue)
  /\ UNCHANGED <<channelVars, subQueue, receiverVars, toReceiver, toSender,
                 sendFailures>>

\* createOffer and setLocalDescription, which fail when close came between.
CreateOffer ==
  /\ \E t \in tasks :
       /\ t.at = "offer"
       /\ IF senderOpen
          THEN /\ tasks' = (tasks \ {t}) \cup {[t EXCEPT !.at = "send"]}
               /\ senderState' = "have-local-offer"
          ELSE tasks' = tasks \ {t} /\ UNCHANGED senderState
  /\ UNCHANGED <<channelVars, pubQueue, publications, transceivers,
                 pendingPublications, isNegotiating, sections, nextMid, ignored,
                 subQueue, receiverVars, toReceiver, toSender, sendFailures>>

\* signaling.send of the produce or unproduce message.
SendOffer ==
  /\ \E t \in tasks :
       /\ t.at = "send"
       /\ toReceiver' = Append(toReceiver, [op |-> t.op, pub |-> t.pub,
                                            mid |-> transceivers[t.pub],
                                            sections |-> sections])
       /\ tasks' = tasks \ {t}
  /\ UNCHANGED <<channelVars, pubQueue, publications, transceivers,
                 pendingPublications, isNegotiating, sections, nextMid,
                 senderState, ignored, subQueue, receiverVars, toSender,
                 sendFailures>>

\* The send fails: add or remove throws, and nothing resets _isNegotiating.
SendOfferFails ==
  /\ sendFailures < MaxSendFailures
  /\ sendFailures' = sendFailures + 1
  /\ \E t \in tasks : t.at = "send" /\ tasks' = tasks \ {t}
  /\ UNCHANGED <<channelVars, pubQueue, publications, transceivers,
                 pendingPublications, isNegotiating, sections, nextMid,
                 senderState, ignored, subQueue, receiverVars, toReceiver, toSender>>

\* _resolvePendingSender, after _isNegotiating was reset: one entry is taken.
ResolvePendingSender(pending) ==
  IF pending = <<>>
  THEN /\ isNegotiating' = FALSE
       /\ UNCHANGED <<publications, transceivers, pendingPublications, sections,
                      nextMid, tasks, ignored>>
  ELSE LET next == Head(pending) IN
       IF next.op = "add"
       THEN Add(next.pub, FALSE, "stable", Tail(pending), "answer")
       ELSE Remove(next.pub, FALSE, "stable", Tail(pending))

\* _handleReceiverAnswer; a closed connection has no listener any more.
HandleReceiverAnswer ==
  /\ toSender # <<>>
  /\ toSender' = Tail(toSender)
  /\ IF senderOpen
     THEN /\ senderState' = "stable"
          /\ ResolvePendingSender(pendingPublications)
     ELSE UNCHANGED senderVars
  /\ UNCHANGED <<channelVars, pubQueue, subQueue, receiverVars, toReceiver,
                 sendFailures>>

-----------------------------------------------------------------------------
(* The Receiver.                                                           *)

\* _validateRemoteOffer: every active section belongs to a known publication.
ValidateRemoteOffer(offered, info) ==
  \A mid \in offered : \E p \in Publications : info[p] = mid

\* Mutant: the track is looked up before the publication is known.
TracksBeforeInfo(offered, info) ==
  [p \in Publications |->
     IF publicationInfo[p] \in offered \ remoteSections THEN publicationInfo[p]
     ELSE streams[p]]

\* ontrack, for the sections that are new in the remote description.
TracksAdded(offered, info) ==
  [p \in Publications |->
     IF info[p] \in offered \ remoteSections THEN info[p] ELSE streams[p]]

Answer(offered, info) ==
  /\ publicationInfo' = info
  /\ remoteSections' = offered
  /\ streams' = TracksAdded(offered, info)
  /\ \/ toSender' = Append(toSender, "answer") /\ UNCHANGED sendFailures
     \/ /\ sendFailures < MaxSendFailures
        /\ sendFailures' = sendFailures + 1
        /\ UNCHANGED toSender
  /\ UNCHANGED rejected

HandleSenderProduce(m) ==
  LET info == [publicationInfo EXCEPT ![m.pub] = m.mid] IN
  IF ValidateRemoteOffer(m.sections, info)
  THEN Answer(m.sections, info)
  ELSE /\ publicationInfo' = info
       /\ rejected' = TRUE
       /\ UNCHANGED <<streams, remoteSections, toSender, sendFailures>>

\* Mutant: the publication stays known to the receiver.
UnproduceKeepsInfo(m) == Answer(m.sections, publicationInfo)

HandleSenderUnproduce(m) ==
  Answer(m.sections, [publicationInfo EXCEPT ![m.pub] = NoMid])

HandleOffer ==
  /\ toReceiver # <<>>
  /\ toReceiver' = Tail(toReceiver)
  /\ LET m == Head(toReceiver) IN
       IF ~receiverOpen
       THEN UNCHANGED <<publicationInfo, remoteSections, streams, rejected,
                        toSender, sendFailures>>
       ELSE IF m.op = "add" THEN HandleSenderProduce(m)
       ELSE HandleSenderUnproduce(m)
  /\ UNCHANGED <<channelVars, pubQueue, senderVars, subQueue, subscriptions,
                 receiverState, overtaken>>

\* startSubscribing waits at the head of the queue until the stream is there.
StartSubscribing ==
  /\ subQueue # <<>> /\ Head(subQueue).op = "start"
  /\ LET p == Head(subQueue).pub IN
       /\ subscriptions' = subscriptions \cup {p}
       /\ p \notin subscriptions \/ streams[p] # NoMid
       /\ subQueue' = IF streams[p] # NoMid THEN Tail(subQueue) ELSE subQueue
  /\ UNCHANGED <<channelVars, pubQueue, senderVars, streams, publicationInfo,
                 remoteSections, receiverState, rejected, overtaken, toReceiver,
                 toSender, sendFailures>>

(***************************************************************************)
(* rtcConfig.timeout is long against a negotiation: it elapses only when   *)
(* nothing is under way that could still bring the stream.                 *)
(***************************************************************************)
nothingUnderWay ==
  pubQueue = <<>> /\ tasks = {} /\ toReceiver = <<>> /\ toSender = <<>>

StartSubscribingTimesOut ==
  /\ subQueue # <<>> /\ Head(subQueue).op = "start"
  /\ Head(subQueue).pub \in subscriptions
  /\ streams[Head(subQueue).pub] = NoMid
  /\ nothingUnderWay
  /\ subQueue' = Tail(subQueue)
  /\ UNCHANGED <<channelVars, pubQueue, senderVars, receiverVars, toReceiver,
                 toSender, sendFailures>>

\* stopSubscribing: Receiver.remove, then _closeIfNeeded, which counts streams.
StopSubscribing ==
  /\ subQueue # <<>> /\ Head(subQueue).op = "stop"
  /\ LET p == Head(subQueue).pub IN
       /\ subscriptions' = subscriptions \ {p}
       /\ streams' = IF p \in subscriptions THEN [streams EXCEPT ![p] = NoMid]
                     ELSE streams
       /\ overtaken' = IF p \in subscribed THEN overtaken \cup {p} ELSE overtaken
  /\ receiverState' = IF ~otherDirection /\ \A p \in Publications : streams'[p] = NoMid
                      THEN "closed" ELSE receiverState
  /\ subQueue' = Tail(subQueue)
  /\ UNCHANGED <<channelVars, pubQueue, senderVars, publicationInfo,
                 remoteSections, rejected, toReceiver, toSender, sendFailures>>

Next ==
  \/ \E p \in Publications : Subscribe(p) \/ Unsubscribe(p)
  \/ StartPublishing \/ StopPublishing
  \/ CreateOffer \/ SendOffer \/ SendOfferFails
  \/ HandleReceiverAnswer
  \/ HandleOffer
  \/ StartSubscribing \/ StartSubscribingTimesOut \/ StopSubscribing

Spec == Init /\ [][Next]_vars

\* Promises and queues go on, signaling delivers, and the timeout elapses.
Fairness ==
  /\ WF_vars(StartPublishing) /\ WF_vars(StopPublishing)
  /\ WF_vars(CreateOffer) /\ WF_vars(SendOffer)
  /\ WF_vars(HandleReceiverAnswer) /\ WF_vars(HandleOffer)
  /\ WF_vars(StartSubscribing) /\ WF_vars(StartSubscribingTimesOut)
  /\ WF_vars(StopSubscribing)

FairSpec == Spec /\ Fairness

-----------------------------------------------------------------------------
Calls == [op : {"start", "stop"}, pub : Publications]
Mids == NoMid .. MaxCalls

\* The shape of the state; no more sections are made than the channel asked for.
TypeOK ==
  /\ subscribed \subseteq Publications /\ calls \in 0 .. MaxCalls
  /\ otherDirection \in BOOLEAN
  /\ pubQueue \in Seq(Calls) /\ subQueue \in Seq(Calls)
  /\ publications \subseteq Publications
  /\ transceivers \in [Publications -> Mids]
  /\ pendingPublications \in Seq([op : {"add", "remove"}, pub : Publications])
  /\ isNegotiating \in BOOLEAN
  /\ nextMid \in 1 .. calls + 1 /\ sections \subseteq 1 .. nextMid - 1
  /\ senderState \in {"stable", "have-local-offer", "closed"}
  /\ tasks \subseteq [at : {"offer", "send"}, op : {"add", "remove"},
                      pub : Publications, owner : {"queue", "answer", "nobody"}]
  /\ subscriptions \subseteq Publications
  /\ streams \in [Publications -> Mids]
  /\ publicationInfo \in [Publications -> Mids]
  /\ remoteSections \subseteq Mids
  /\ receiverState \in {"stable", "closed"}
  /\ toReceiver \in Seq([op : {"add", "remove"}, pub : Publications,
                         mid : Mids, sections : SUBSET Mids])
  /\ toSender \in Seq({"answer"})
  /\ sendFailures \in 0 .. MaxSendFailures
  /\ ignored \subseteq Publications /\ overtaken \subseteq Publications
  /\ rejected \in BOOLEAN

\* add and remove arrive from the pub/sub queue and from the answer handler,
\* yet one negotiation runs at a time: while an offer is being made, sent or
\* answered _isNegotiating holds every other one back, and an answer always
\* finds the offer it answers (setRemoteDescription would fail otherwise).
OneNegotiationAtATime ==
  LET made == Cardinality(tasks) IN
  /\ made + Len(toReceiver) + Len(toSender) <= 1
  /\ senderOpen =>
       /\ made + Len(toReceiver) + Len(toSender) = 1 => isNegotiating
       /\ toReceiver # <<>> \/ toSender # <<>> => senderState = "have-local-offer"

\* What the next three properties are about: every message could be sent and
\* no removal was ignored, which happens when one is asked for, or taken from
\* the pending list, while its publication is not in publications.
undisturbed == sendFailures = 0 /\ ignored = {}

\* The receiver never refuses an offer for a section it does not know, which
\* would leave the sender negotiating for ever.
OffersAreAccepted == undisturbed => ~rejected

\* When nothing is under way both ends agree with the channel and with each
\* other on what is published and on the section that carries it.
EndsAgreeWhenQuiet ==
  undisturbed /\ nothingUnderWay /\ senderOpen /\ receiverOpen =>
    /\ publications = subscribed
    /\ sections = {transceivers[p] : p \in publications}
    /\ remoteSections = sections
    /\ \A p \in Publications : publicationInfo[p] = transceivers[p]

\* A subscription brings its stream, whatever else is being negotiated, unless
\* the receiver stops an earlier subscription to the same publication later:
\* its streams are kept by publication, so that stop deletes the new stream.
SubscriptionBringsStream ==
  \A p \in Publications :
    p \in subscribed ~> \/ streams[p] # NoMid
                        \/ p \notin subscribed
                        \/ ~senderOpen \/ ~receiverOpen
                        \/ ~undisturbed \/ p \in overtaken
=============================================================================
