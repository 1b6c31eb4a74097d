----------------------- MODULE P2PNegotiationProofs -----------------------
(***************************************************************************)
(* Proofs about a connection between two persons: P2PNegotiation, for any  *)
(* number of publications, of calls and of messages that cannot be sent,   *)
(* and PersonConnection, for any number of events of the channel.          *)
(*                                                                         *)
(* P2PNegotiation.  NegotiationInv holds of every run: the types, and that *)
(* one negotiation runs at a time.  UndisturbedInv is kept given that:     *)
(* while every message can be sent and no removal was ignored, the         *)
(* sections are those of the transceivers, the pending list and the        *)
(* pub/sub queue lead from what is published to what is subscribed to, and *)
(* the receiver knows every section but that of the negotiation under way. *)
(*                                                                         *)
(* PersonConnection.  PersonsTypeInv holds of every run: the types, and    *)
(* that each connection was made for an event.  LogInOrder is what the     *)
(* channel promises of its events.  PersonInv is kept given both while the *)
(* run is undisturbed: the queue of a person holds one call for each event *)
(* from the one it has got to, done(p); what its connection carries is     *)
(* what is subscribed to after that event, and without a connection        *)
(* nothing is; and Direction relates what the other has sent to what has   *)
(* been heard, by the events both queues have got to, through connections  *)
(* that are closed and made again.                                         *)
(***************************************************************************)
EXTENDS P2PNegotiation, PersonConnection, FiniteSetTheorems, SequenceTheorems,
        WellFoundedInduction, TLAPS

PendingCalls == [op : {"add", "remove"}, pub : Publications]
Tasks == [at : {"offer", "send"}, op : {"add", "remove"},
          pub : Publications, owner : {"queue", "answer", "nobody"}]
Offers == [op : {"add", "remove"}, pub : Publications, mid : Mids, sections : SUBSET Mids]

\* Each section stands for a subscribe event of the channel, and so does each
\* call in the queue and in the pending list.
WorkBounded == nextMid - 1 + Len(pubQueue) + Len(pendingPublications) <= calls

MidsMade == \A p \in Publications : transceivers[p] < nextMid

OneAtATime ==
  /\ \A t, u \in tasks : t = u
  /\ tasks # {} => toReceiver = <<>> /\ toSender = <<>>
  /\ toReceiver # <<>> => toSender = <<>>
  /\ Len(toReceiver) <= 1 /\ Len(toSender) <= 1

Stages ==
  senderOpen =>
    /\ \A t \in tasks :
         /\ isNegotiating
         /\ t.at = "offer" => senderState = "stable"
         /\ t.at = "send" => senderState = "have-local-offer"
    /\ toReceiver # <<>> \/ toSender # <<>> => senderState = "have-local-offer"
    /\ senderState = "have-local-offer" => isNegotiating

NegotiationInv == TypeOK /\ WorkBounded /\ MidsMade /\ OneAtATime /\ Stages

\* What the sender has, and what the others have.
SenderShape ==
  /\ publications \subseteq Publications
  /\ transceivers \in [Publications -> Mids]
  /\ pendingPublications \in Seq(PendingCalls)
  /\ isNegotiating \in BOOLEAN
  /\ nextMid \in 1 .. calls + 1 /\ sections \subseteq 1 .. nextMid - 1
  /\ tasks \subseteq Tasks
  /\ ignored \subseteq Publications
  /\ MidsMade

OtherShape ==
  /\ subscribed \subseteq Publications /\ calls \in 0 .. MaxCalls
  /\ otherDirection \in BOOLEAN
  /\ pubQueue \in Seq(Calls) /\ subQueue \in Seq(Calls)
  /\ senderState \in {"stable", "have-local-offer", "closed"}
  /\ subscriptions \subseteq Publications
  /\ streams \in [Publications -> Mids]
  /\ publicationInfo \in [Publications -> Mids]
  /\ remoteSections \subseteq Mids
  /\ receiverState \in {"stable", "closed"}
  /\ toReceiver \in Seq(Offers) /\ toSender \in Seq({"answer"})
  /\ sendFailures \in 0 .. MaxSendFailures
  /\ overtaken \subseteq Publications
  /\ rejected \in BOOLEAN

LEMMA Shapes == TypeOK /\ MidsMade <=> SenderShape /\ OtherShape
BY DEF TypeOK, SenderShape, OtherShape, PendingCalls, Tasks, Offers

LEMMA ShapesKept == SenderShape' /\ OtherShape' => TypeOK' /\ MidsMade'
BY DEF TypeOK, SenderShape, OtherShape, PendingCalls, Tasks, Offers

LEMMA NegotiationInit == Init => NegotiationInv
<1> SUFFICES ASSUME Init PROVE NegotiationInv  OBVIOUS
<1>1. \A T : <<>> \in Seq(T) /\ Len(<<>>) = 0  OBVIOUS
<1>2. NoMid \in Mids /\ NoMid = 0  BY MaxCallsAssumption DEF Mids, NoMid
<1>3. TypeOK
  <2>1. SenderShape
    <3>1. pendingPublications \in Seq(PendingCalls)  BY <1>1 DEF Init
    <3>2. transceivers \in [Publications -> Mids] /\ MidsMade  BY <1>2 DEF Init, MidsMade
    <3>3. calls = 0 /\ nextMid = 1 /\ sections = {} /\ tasks = {} /\ publications = {}
          /\ ignored = {} /\ isNegotiating \in BOOLEAN
      BY DEF Init
    <3>. QED  BY <3>1, <3>2, <3>3 DEF SenderShape
  <2>2. streams \in [Publications -> Mids] /\ publicationInfo \in [Publications -> Mids]
    BY <1>2 DEF Init
  <2>3. pubQueue \in Seq(Calls) /\ subQueue \in Seq(Calls) /\ toReceiver \in Seq(Offers)
        /\ toSender \in Seq({"answer"})
    BY <1>1 DEF Init
  <2>4. calls \in 0 .. MaxCalls /\ sendFailures \in 0 .. MaxSendFailures
    BY MaxCallsAssumption, MaxSendFailuresAssumption DEF Init
  <2>5. OtherShape
    BY <2>2, <2>3, <2>4 DEF Init, OtherShape
  <2>. QED  BY <2>1, <2>5, Shapes
<1>4. WorkBounded /\ MidsMade  BY <1>1, <1>2 DEF Init, WorkBounded, MidsMade
<1>5. OneAtATime /\ Stages  BY <1>1 DEF Init, OneAtATime, Stages
<1>. QED  BY <1>3, <1>4, <1>5 DEF NegotiationInv

-----------------------------------------------------------------------------
(* Sequences.                                                              *)

LEMMA AppendedTo ==
  ASSUME NEW S, NEW s \in Seq(S), NEW e \in S
  PROVE  /\ Append(s, e) \in Seq(S) /\ Append(s, e) # <<>>
         /\ Len(s) \in Nat /\ Len(Append(s, e)) = Len(s) + 1
         /\ \A i \in 1..Len(s) : Append(s, e)[i] = s[i]
         /\ Append(s, e)[Len(s) + 1] = e
  OBVIOUS

LEMMA TakenFrom ==
  ASSUME NEW S, NEW s \in Seq(S), s # <<>>
  PROVE  /\ Head(s) = s[1] /\ Head(s) \in S
         /\ Len(s) \in Nat /\ 1 \in 1..Len(s)
         /\ Tail(s) \in Seq(S) /\ Len(Tail(s)) = Len(s) - 1
         /\ \A i \in 1..Len(Tail(s)) : i + 1 \in 1..Len(s) /\ Tail(s)[i] = s[i + 1]
  OBVIOUS

LEMMA EmptyOrNot ==
  ASSUME NEW S, NEW s \in Seq(S)
  PROVE  Len(s) \in Nat /\ (s = <<>> <=> Len(s) = 0)
  OBVIOUS

-----------------------------------------------------------------------------
(* add and remove.                                                         *)

\* They wait or return, or they begin a negotiation, when nothing is under way.
LEMMA BeginsOrWaits ==
  ASSUME NEW p \in Publications, NEW n \in BOOLEAN, NEW st, NEW pending,
         NEW o \in {"queue", "answer"},
         Add(p, n, st, pending, o) \/ Remove(p, n, st, pending)
  PROVE  \/ tasks' = tasks /\ isNegotiating' = n
         \/ /\ ~n /\ st = "stable" /\ isNegotiating' = TRUE
            /\ \E t \in Tasks : t.at = "offer" /\ t.pub = p /\ tasks' = tasks \cup {t}
<1>1. \A op \in {"add", "remove"}, w \in {"queue", "answer", "nobody"} :
        /\ Task("offer", op, p, w) \in Tasks
        /\ Task("offer", op, p, w).at = "offer" /\ Task("offer", op, p, w).pub = p
  BY DEF Task, Tasks
<1>2. CASE Add(p, n, st, pending, o)
  BY <1>1, <1>2 DEF Add, MustWait
<1>3. CASE Remove(p, n, st, pending)
  <2>1. CASE p \notin publications \/ st = "closed" \/ MustWait(n, st)
    BY <1>3, <2>1 DEF Remove
  <2>2. CASE ~(p \notin publications \/ st = "closed" \/ MustWait(n, st))
    <3>1. isNegotiating' = TRUE /\ tasks' = tasks \cup {Task("offer", "remove", p, "nobody")}
      BY <1>3, <2>2 DEF Remove
    <3>. QED  BY <1>1, <2>2, <3>1 DEF MustWait
  <2>. QED  BY <2>1, <2>2
<1>. QED  BY <1>2, <1>3

\* add makes one section at most, or one entry of the pending list.
LEMMA AddShape ==
  ASSUME TypeOK, MidsMade, NEW p \in Publications, NEW n \in BOOLEAN, NEW st,
         NEW pending \in Seq(PendingCalls), NEW o \in {"queue", "answer"},
         Add(p, n, st, pending, o), calls' = calls, nextMid + Len(pending) <= calls
  PROVE  SenderShape' /\ nextMid' + Len(pendingPublications') <= nextMid + Len(pending) + 1
<1>1. SenderShape /\ calls \in Nat /\ calls <= MaxCalls /\ Len(pending) \in Nat
  BY Shapes, MaxCallsAssumption DEF TypeOK
<1>2. tasks' \subseteq Tasks /\ isNegotiating' \in BOOLEAN
  <2>1. \/ tasks' = tasks /\ isNegotiating' = n
        \/ isNegotiating' = TRUE /\ \E t \in Tasks : tasks' = tasks \cup {t}
    BY BeginsOrWaits, Zenon
  <2>2. isNegotiating' \in BOOLEAN  BY <2>1, Zenon
  <2>3. tasks' \subseteq Tasks  BY <1>1, <2>1 DEF SenderShape
  <2>. QED  BY <2>2, <2>3
<1>3. CASE MustWait(n, st)
  <2>1. /\ pendingPublications' = Append(pending, Call("add", p)) /\ Call("add", p) \in PendingCalls
        /\ UNCHANGED <<publications, transceivers, sections, nextMid, ignored>>
    BY <1>3 DEF Add, Call, PendingCalls
  <2>2. pendingPublications' \in Seq(PendingCalls) /\ Len(pendingPublications') = Len(pending) + 1
    BY <2>1, AppendedTo
  <2>. QED  BY <1>1, <1>2, <2>1, <2>2 DEF SenderShape, MidsMade
<1>4. CASE ~MustWait(n, st)
  <2>1. /\ pendingPublications' = pending /\ publications' = publications \cup {p}
        /\ transceivers' = [transceivers EXCEPT ![p] = nextMid]
        /\ sections' = sections \cup {nextMid} /\ nextMid' = nextMid + 1 /\ ignored' = ignored
    BY <1>4 DEF Add
  <2>2. nextMid \in Mids /\ nextMid \in Nat /\ nextMid <= calls
    BY <1>1, MaxCallsAssumption DEF SenderShape, Mids, NoMid
  <2>3. \A q \in Publications : transceivers[q] \in Nat /\ transceivers[q] < nextMid
    BY <1>1 DEF SenderShape, MidsMade, Mids, NoMid
  <2>4. \A q \in Publications : transceivers'[q] < nextMid'
    BY <1>1, <2>1, <2>2, <2>3 DEF SenderShape
  <2>5. transceivers' \in [Publications -> Mids]
    BY <1>1, <2>1, <2>2 DEF SenderShape
  <2>6. sections' \subseteq 1 .. nextMid' - 1 /\ nextMid' \in 1 .. calls + 1
    BY <1>1, <2>1, <2>2 DEF SenderShape
  <2>. QED
    BY <1>1, <1>2, <2>1, <2>2, <2>4, <2>5, <2>6 DEF SenderShape, MidsMade
<1>. QED  BY <1>3, <1>4

\* remove makes no section, and one entry of the pending list at most.
LEMMA RemoveShape ==
  ASSUME TypeOK, MidsMade, NEW p \in Publications, NEW n \in BOOLEAN, NEW st,
         NEW pending \in Seq(PendingCalls),
         Remove(p, n, st, pending), calls' = calls
  PROVE  /\ SenderShape' /\ nextMid' = nextMid
         /\ Len(pendingPublications') <= Len(pending) + 1
<1>1. SenderShape /\ calls \in Nat /\ Len(pending) \in Nat
  BY Shapes, MaxCallsAssumption DEF TypeOK
<1>2. tasks' \subseteq Tasks /\ isNegotiating' \in BOOLEAN
  <2>1. \/ tasks' = tasks /\ isNegotiating' = n
        \/ isNegotiating' = TRUE /\ \E t \in Tasks : tasks' = tasks \cup {t}
    <3>1. "queue" \in {"queue", "answer"}  OBVIOUS
    <3>. QED  BY <3>1, BeginsOrWaits, Zenon
  <2>2. isNegotiating' \in BOOLEAN  BY <2>1, Zenon
  <2>3. tasks' \subseteq Tasks  BY <1>1, <2>1 DEF SenderShape
  <2>. QED  BY <2>2, <2>3
<1>3. /\ publications' \subseteq Publications /\ nextMid' = nextMid /\ ignored' \subseteq Publications
      /\ pendingPublications' = pending \/ pendingPublications' = Append(pending, Call("remove", p))
      /\ transceivers' = transceivers \/ transceivers' = [transceivers EXCEPT ![p] = NoMid]
      /\ sections' \subseteq sections
  BY <1>1 DEF Remove, SenderShape, StopTransceiver
<1>4. /\ pendingPublications' \in Seq(PendingCalls)
      /\ Len(pendingPublications') <= Len(pending) + 1
  <2>1. Call("remove", p) \in PendingCalls  BY DEF Call, PendingCalls
  <2>. QED  BY <1>1, <1>3, <2>1, AppendedTo
<1>5. /\ transceivers' \in [Publications -> Mids]
      /\ \A q \in Publications : transceivers'[q] < nextMid'
  <2>1. NoMid \in Mids /\ NoMid < nextMid
    BY <1>1, MaxCallsAssumption DEF Mids, NoMid, SenderShape
  <2>. QED  BY <1>1, <1>3, <2>1 DEF SenderShape, MidsMade
<1>. QED  BY <1>1, <1>2, <1>3, <1>4, <1>5 DEF SenderShape, MidsMade
-----------------------------------------------------------------------------
(* The steps of the channel.                                               *)

LEMMA ChannelTypes ==
  ASSUME NegotiationInv, NEW p \in Publications, Subscribe(p) \/ Unsubscribe(p)
  PROVE  NegotiationInv'
<1>1. SenderShape /\ OtherShape /\ WorkBounded /\ OneAtATime /\ Stages
  BY Shapes DEF NegotiationInv
<1>2. /\ UNCHANGED <<otherDirection, senderVars, receiverVars, toReceiver, toSender, sendFailures>>
      /\ calls' = calls + 1 /\ calls < MaxCalls
      /\ subscribed' \subseteq subscribed \cup {p}
      /\ \E op \in {"start", "stop"} :
           /\ pubQueue' \in {pubQueue, Append(pubQueue, Call(op, p))}
           /\ subQueue' \in {subQueue, Append(subQueue, Call(op, p))}
  BY DEF Subscribe, Unsubscribe, Enqueue
<1>3. \A op \in {"start", "stop"} : Call(op, p) \in Calls  BY DEF Call, Calls
<1>4. /\ pubQueue' \in Seq(Calls) /\ subQueue' \in Seq(Calls)
      /\ Len(pubQueue') <= Len(pubQueue) + 1 /\ Len(pubQueue) \in Nat
      /\ Len(pubQueue') \in Nat /\ Len(pendingPublications) \in Nat
  <2>1. /\ pubQueue \in Seq(Calls) /\ subQueue \in Seq(Calls)
        /\ pendingPublications \in Seq(PendingCalls)
    BY <1>1 DEF OtherShape, SenderShape
  <2>2. PICK c \in Calls : /\ pubQueue' \in {pubQueue, Append(pubQueue, c)}
                           /\ subQueue' \in {subQueue, Append(subQueue, c)}
    BY <1>2, <1>3
  <2>3. /\ Append(pubQueue, c) \in Seq(Calls) /\ Append(subQueue, c) \in Seq(Calls)
        /\ Len(Append(pubQueue, c)) = Len(pubQueue) + 1
        /\ Len(pubQueue) \in Nat /\ Len(pendingPublications) \in Nat
    BY <2>1, AppendedTo, EmptyOrNot
  <2>4. pubQueue' \in Seq(Calls) /\ subQueue' \in Seq(Calls)  BY <2>1, <2>2, <2>3
  <2>5. Len(pubQueue') \in Nat /\ Len(pubQueue') <= Len(pubQueue) + 1
    <3>1. pubQueue' = pubQueue \/ pubQueue' = Append(pubQueue, c)  BY <2>2
    <3>2. Len(pubQueue') = Len(pubQueue) \/ Len(pubQueue') = Len(pubQueue) + 1
      BY <2>3, <3>1, Zenon
    <3>. QED  BY <2>3, <3>2
  <2>. QED  BY <2>3, <2>4, <2>5
<1>5. calls \in Nat /\ calls' \in 0 .. MaxCalls
  BY <1>1, <1>2, MaxCallsAssumption DEF OtherShape
<1>6. SenderShape'
  BY <1>1, <1>2, <1>5 DEF SenderShape, senderVars, MidsMade
<1>7. OtherShape'
  BY <1>1, <1>2, <1>4, <1>5 DEF OtherShape, senderVars, receiverVars
<1>8. WorkBounded'
  BY <1>1, <1>2, <1>4, <1>5 DEF WorkBounded, SenderShape, senderVars
<1>9. OneAtATime' /\ Stages'
  BY <1>1, <1>2 DEF OneAtATime, Stages, senderVars, senderOpen
<1>. QED  BY <1>6, <1>7, <1>8, <1>9, ShapesKept DEF NegotiationInv

-----------------------------------------------------------------------------
(* The steps of the sender.                                                *)

LEMMA PublishingTypes ==
  ASSUME NegotiationInv, StartPublishing \/ StopPublishing
  PROVE  NegotiationInv'
<1> DEFINE p == Head(pubQueue).pub
<1>1. /\ TypeOK /\ MidsMade /\ SenderShape /\ OtherShape /\ WorkBounded /\ OneAtATime /\ Stages
      /\ isNegotiating \in BOOLEAN /\ pendingPublications \in Seq(PendingCalls)
  BY Shapes DEF NegotiationInv, SenderShape
<1>2. /\ pubQueue # <<>> /\ pubQueue' = Tail(pubQueue)
      /\ UNCHANGED <<channelVars, subQueue, receiverVars, toReceiver, toSender, sendFailures>>
      /\ \/ /\ Add(p, isNegotiating, senderState, pendingPublications, "queue")
            /\ senderState' = senderState
         \/ /\ Remove(p, isNegotiating, senderState, pendingPublications)
            /\ senderState' \in {"closed", senderState}
  BY DEF StartPublishing, StopPublishing
<1>3. /\ p \in Publications /\ Len(pubQueue) \in Nat /\ Len(pubQueue) >= 1
      /\ pubQueue' \in Seq(Calls) /\ Len(pubQueue') = Len(pubQueue) - 1
  <2>1. pubQueue \in Seq(Calls)  BY <1>1 DEF OtherShape
  <2>2. Head(pubQueue) \in Calls /\ Len(pubQueue) \in Nat /\ 1 \in 1..Len(pubQueue)
        /\ pubQueue' \in Seq(Calls) /\ Len(pubQueue') = Len(pubQueue) - 1
    BY <1>2, <2>1, TakenFrom
  <2>. QED  BY <2>2 DEF Calls
<1>4. Len(pendingPublications) \in Nat /\ nextMid \in Nat /\ calls \in Nat
  BY <1>1, EmptyOrNot DEF SenderShape, OtherShape
<1>5. nextMid + Len(pendingPublications) <= calls
  BY <1>1, <1>3, <1>4 DEF WorkBounded
<1>6. SenderShape' /\ nextMid' + Len(pendingPublications') <= nextMid + Len(pendingPublications) + 1
  <2>1. calls' = calls  BY <1>2 DEF channelVars
  <2>2. CASE Add(p, isNegotiating, senderState, pendingPublications, "queue")
    BY <1>1, <1>3, <1>5, <2>1, <2>2, AddShape
  <2>3. CASE Remove(p, isNegotiating, senderState, pendingPublications)
    <3>1. SenderShape' /\ nextMid' = nextMid
          /\ Len(pendingPublications') <= Len(pendingPublications) + 1
      BY <1>1, <1>3, <2>1, <2>3, RemoveShape
    <3>2. Len(pendingPublications') \in Nat  BY <3>1, EmptyOrNot DEF SenderShape
    <3>. QED  BY <1>4, <3>1, <3>2
  <2>. QED  BY <1>2, <2>2, <2>3
<1>7. OtherShape'
  BY <1>1, <1>2, <1>3 DEF OtherShape, channelVars, receiverVars
<1>8. WorkBounded'
  <2>1. Len(pendingPublications') \in Nat /\ nextMid' \in Nat
    BY <1>2, <1>6, <1>4, EmptyOrNot DEF SenderShape, channelVars
  <2>2. calls' = calls  BY <1>2 DEF channelVars
  <2>3. nextMid - 1 + Len(pubQueue) + Len(pendingPublications) <= calls  BY <1>1 DEF WorkBounded
  <2>4. nextMid' - 1 + Len(pubQueue') + Len(pendingPublications') <= calls
    <3>1. nextMid' + Len(pendingPublications') <= nextMid + Len(pendingPublications) + 1  BY <1>6
    <3>2. Len(pubQueue) \in Nat /\ Len(pubQueue') = Len(pubQueue) - 1  BY <1>3
    <3> DEFINE k == Len(pubQueue)
               k1 == Len(pubQueue')
               l == Len(pendingPublications)
               l1 == Len(pendingPublications')
               m1 == nextMid'
    <3>3. /\ k \in Nat /\ l \in Nat /\ l1 \in Nat /\ m1 \in Nat /\ nextMid \in Nat /\ calls \in Nat
          /\ k1 = k - 1 /\ m1 + l1 <= nextMid + l + 1 /\ nextMid - 1 + k + l <= calls
      BY <1>4, <2>1, <2>3, <3>1, <3>2
    <3> HIDE DEF k, k1, l, l1, m1
    <3>4. m1 - 1 + k1 + l1 <= calls  BY <3>3
    <3>. QED  BY <3>4 DEF k1, l1, m1
  <2>. QED  BY <2>2, <2>4 DEF WorkBounded
\* Nothing is under way when a negotiation begins.
<1>9. OneAtATime' /\ Stages'
  <2>1. \/ tasks' = tasks /\ isNegotiating' = isNegotiating
        \/ /\ ~isNegotiating /\ senderState = "stable" /\ isNegotiating' = TRUE
           /\ \E t \in Tasks : t.at = "offer" /\ t.pub = p /\ tasks' = tasks \cup {t}
    <3>1. "queue" \in {"queue", "answer"}  OBVIOUS
    <3>. QED  BY <1>1, <1>2, <1>3, <3>1, BeginsOrWaits
  <2>2. CASE tasks' = tasks /\ isNegotiating' = isNegotiating
    <3>1. UNCHANGED <<toReceiver, toSender>> /\ senderState' \in {"closed", senderState}
      BY <1>2
    <3>2. OneAtATime'  BY <1>1, <2>2, <3>1 DEF OneAtATime
    <3>3. Stages'  BY <1>1, <2>2, <3>1 DEF Stages, senderOpen
    <3>. QED  BY <3>2, <3>3
  <2>3. CASE /\ ~isNegotiating /\ senderState = "stable" /\ isNegotiating' = TRUE
             /\ \E t \in Tasks : t.at = "offer" /\ t.pub = p /\ tasks' = tasks \cup {t}
    <3>1. PICK t \in Tasks : t.at = "offer" /\ tasks' = tasks \cup {t}  BY <2>3
    <3>2. tasks = {} /\ toReceiver = <<>> /\ toSender = <<>>
      BY <1>1, <2>3 DEF Stages, senderOpen
    <3>3. tasks' = {t}  BY <3>1, <3>2
    <3>4. UNCHANGED <<toReceiver, toSender>> /\ senderState' \in {"closed", "stable"}
      BY <1>2, <2>3
    <3>5. OneAtATime'  BY <1>1, <3>2, <3>3, <3>4 DEF OneAtATime
    <3>6. Stages'  BY <2>3, <3>1, <3>2, <3>3, <3>4 DEF Stages, senderOpen
    <3>. QED  BY <3>5, <3>6
  <2>. QED  BY <2>1, <2>2, <2>3
<1>. QED  BY <1>6, <1>7, <1>8, <1>9, ShapesKept DEF NegotiationInv

\* createOffer and send, which move the one task on, or end it.
LEMMA OfferTypes ==
  ASSUME NegotiationInv, CreateOffer \/ SendOffer \/ SendOfferFails
  PROVE  NegotiationInv'
<1>1. /\ TypeOK /\ MidsMade /\ SenderShape /\ OtherShape /\ WorkBounded /\ OneAtATime /\ Stages
  BY Shapes DEF NegotiationInv
<1>2. /\ UNCHANGED <<channelVars, pubQueue, publications, transceivers, pendingPublications,
                      isNegotiating, sections, nextMid, ignored, subQueue, receiverVars, toSender>>
      /\ sendFailures' \in 0 .. MaxSendFailures
  <2>1. sendFailures \in 0 .. MaxSendFailures  BY <1>1 DEF OtherShape
  <2>2. CASE CreateOffer  BY <2>1, <2>2 DEF CreateOffer
  <2>3. CASE SendOffer  BY <2>1, <2>3 DEF SendOffer
  <2>4. CASE SendOfferFails
    <3>1. sendFailures' \in 0 .. MaxSendFailures
      BY <2>1, <2>4, MaxSendFailuresAssumption DEF SendOfferFails
    <3>. QED  BY <2>4, <3>1 DEF SendOfferFails
  <2>. QED  BY <2>2, <2>3, <2>4
<1>3. PICK t \in tasks :
        \/ /\ t.at = "offer" /\ senderOpen /\ tasks' = (tasks \ {t}) \cup {[t EXCEPT !.at = "send"]}
           /\ senderState' = "have-local-offer" /\ toReceiver' = toReceiver
        \/ /\ tasks' = tasks \ {t} /\ senderState' = senderState /\ toReceiver' = toReceiver
           /\ ~senderOpen \/ t.at = "send"
        \/ /\ t.at = "send" /\ tasks' = tasks \ {t} /\ senderState' = senderState
           /\ toReceiver' = Append(toReceiver, [op |-> t.op, pub |-> t.pub,
                                                mid |-> transceivers[t.pub], sections |-> sections])
  <2>1. CASE CreateOffer
    <3>1. PICK t \in tasks :
            /\ t.at = "offer"
            /\ IF senderOpen
               THEN /\ tasks' = (tasks \ {t}) \cup {[t EXCEPT !.at = "send"]}
                    /\ senderState' = "have-local-offer"
               ELSE tasks' = tasks \ {t} /\ senderState' = senderState
      BY <2>1 DEF CreateOffer
    <3>2. toReceiver' = toReceiver  BY <2>1 DEF CreateOffer
    <3>. QED  BY <3>1, <3>2
  <2>2. CASE SendOffer
    <3>1. senderState' = senderState  BY <2>2 DEF SendOffer
    <3>. QED  BY <2>2, <3>1 DEF SendOffer
  <2>3. CASE SendOfferFails
    <3>1. senderState' = senderState /\ toReceiver' = toReceiver  BY <2>3 DEF SendOfferFails
    <3>. QED  BY <2>3, <3>1 DEF SendOfferFails
  <2>. QED  BY <2>1, <2>2, <2>3
<1>4. /\ t \in Tasks /\ tasks = {t} /\ toReceiver = <<>> /\ toSender = <<>>
      /\ [t EXCEPT !.at = "send"] \in Tasks /\ [t EXCEPT !.at = "send"].at = "send"
  BY <1>1 DEF SenderShape, OneAtATime, Tasks
<1>5. [op |-> t.op, pub |-> t.pub, mid |-> transceivers[t.pub], sections |-> sections] \in Offers
  <2>1. sections \subseteq Mids /\ transceivers[t.pub] \in Mids
    <3>1. t.pub \in Publications  BY <1>4 DEF Tasks
    <3>2. nextMid \in Nat /\ nextMid - 1 <= MaxCalls
      BY <1>1, MaxCallsAssumption DEF SenderShape, OtherShape
    <3>. QED  BY <1>1, <3>1, <3>2, MaxCallsAssumption DEF SenderShape, Mids, NoMid
  <2>. QED  BY <1>4, <2>1 DEF Tasks, Offers
<1>6. CASE t.at = "offer" /\ senderOpen /\ tasks' = (tasks \ {t}) \cup {[t EXCEPT !.at = "send"]}
           /\ senderState' = "have-local-offer" /\ toReceiver' = toReceiver
  <2>1. tasks' = {[t EXCEPT !.at = "send"]}  BY <1>4, <1>6
  <2>2. isNegotiating  BY <1>1, <1>4, <1>6 DEF Stages
  <2>3. SenderShape'  BY <1>1, <1>2, <1>4, <2>1 DEF SenderShape, MidsMade, channelVars
  <2>4. OtherShape'  BY <1>1, <1>2, <1>6 DEF OtherShape, channelVars, receiverVars
  <2>5. WorkBounded'  BY <1>1, <1>2 DEF WorkBounded, channelVars
  <2>6. OneAtATime'  BY <1>1, <1>2, <1>4, <1>6, <2>1 DEF OneAtATime
  <2>7. Stages'  BY <1>2, <1>4, <1>6, <2>1, <2>2 DEF Stages
  <2>. QED  BY <2>3, <2>4, <2>5, <2>6, <2>7, ShapesKept DEF NegotiationInv
<1>7. CASE tasks' = tasks \ {t} /\ senderState' = senderState /\ toReceiver' = toReceiver
           /\ (~senderOpen \/ t.at = "send")
  <2>1. tasks' = {}  BY <1>4, <1>7
  <2>3. SenderShape'  BY <1>1, <1>2, <2>1 DEF SenderShape, MidsMade, channelVars
  <2>4. OtherShape'  BY <1>1, <1>2, <1>7 DEF OtherShape, channelVars, receiverVars
  <2>5. WorkBounded'  BY <1>1, <1>2 DEF WorkBounded, channelVars
  <2>6. OneAtATime'  BY <1>1, <1>2, <1>7, <2>1 DEF OneAtATime
  <2>7. Stages'  BY <1>1, <1>2, <1>4, <1>7, <2>1 DEF Stages, senderOpen
  <2>. QED  BY <2>3, <2>4, <2>5, <2>6, <2>7, ShapesKept DEF NegotiationInv
<1>8. CASE t.at = "send" /\ tasks' = tasks \ {t} /\ senderState' = senderState
           /\ toReceiver' = Append(toReceiver, [op |-> t.op, pub |-> t.pub,
                                                mid |-> transceivers[t.pub], sections |-> sections])
  <2>1. tasks' = {}  BY <1>4, <1>8
  <2>2. toReceiver \in Seq(Offers) /\ Len(toReceiver) = 0
    BY <1>1, <1>4 DEF OtherShape
  <2>3. toReceiver' \in Seq(Offers) /\ Len(toReceiver') = 1
    BY <1>5, <1>8, <2>2, AppendedTo
  <2>4. SenderShape'  BY <1>1, <1>2, <2>1 DEF SenderShape, MidsMade, channelVars
  <2>5. OtherShape'  BY <1>1, <1>2, <1>8, <2>3 DEF OtherShape, channelVars, receiverVars
  <2>6. WorkBounded'  BY <1>1, <1>2 DEF WorkBounded, channelVars
  <2>7. OneAtATime'  BY <1>1, <1>2, <1>4, <2>1, <2>3 DEF OneAtATime
  <2>8. Stages'  BY <1>1, <1>2, <1>4, <1>8, <2>1 DEF Stages, senderOpen
  <2>. QED  BY <2>4, <2>5, <2>6, <2>7, <2>8, ShapesKept DEF NegotiationInv
<1>. QED  BY <1>3, <1>6, <1>7, <1>8

\* The answer ends the negotiation, and the next one may begin.
LEMMA AnswerTypes ==
  ASSUME NegotiationInv, HandleReceiverAnswer
  PROVE  NegotiationInv'
<1>1. /\ TypeOK /\ MidsMade /\ SenderShape /\ OtherShape /\ WorkBounded /\ OneAtATime /\ Stages
      /\ pendingPublications \in Seq(PendingCalls)
  BY Shapes DEF NegotiationInv, SenderShape
<1>2. /\ toSender # <<>> /\ toSender' = Tail(toSender)
      /\ UNCHANGED <<channelVars, pubQueue, subQueue, receiverVars, toReceiver, sendFailures>>
  BY DEF HandleReceiverAnswer
<1>3. /\ tasks = {} /\ toReceiver = <<>> /\ toSender' = <<>> /\ toSender' \in Seq({"answer"})
  <2>1. toSender \in Seq({"answer"}) /\ Len(toSender) <= 1  BY <1>1 DEF OtherShape, OneAtATime
  <2>2. Len(toSender) \in Nat /\ toSender' \in Seq({"answer"}) /\ Len(toSender') = Len(toSender) - 1
        /\ 1 \in 1..Len(toSender)
    BY <1>2, <2>1, TakenFrom
  <2>3. Len(toSender') = 0  BY <2>1, <2>2
  <2>. QED  BY <1>1, <1>2, <2>2, <2>3, EmptyOrNot DEF OneAtATime
<1>4. CASE ~senderOpen
  <2>1. UNCHANGED senderVars  BY <1>4 DEF HandleReceiverAnswer
  <2>2. SenderShape'  BY <1>1, <1>2, <2>1 DEF SenderShape, MidsMade, senderVars, channelVars
  <2>3. OtherShape'
    BY <1>1, <1>2, <1>3, <2>1 DEF OtherShape, channelVars, receiverVars, senderVars
  <2>4. WorkBounded'  BY <1>1, <1>2, <2>1 DEF WorkBounded, channelVars, senderVars
  <2>5. OneAtATime' /\ Stages'
    BY <1>1, <1>2, <1>3, <1>4, <2>1 DEF OneAtATime, Stages, senderOpen, senderVars
  <2>. QED  BY <2>2, <2>3, <2>4, <2>5, ShapesKept DEF NegotiationInv
<1>5. CASE senderOpen
  <2>1. senderState' = "stable" /\ ResolvePendingSender(pendingPublications)
    BY <1>5 DEF HandleReceiverAnswer
  <2>2. OtherShape'
    BY <1>1, <1>2, <1>3, <2>1 DEF OtherShape, channelVars, receiverVars
  <2>3. Len(pendingPublications) \in Nat /\ nextMid \in Nat /\ calls \in Nat /\ calls' = calls
        /\ Len(pubQueue) \in Nat /\ pubQueue' = pubQueue
    BY <1>1, <1>2, EmptyOrNot DEF SenderShape, OtherShape, channelVars
  <2>4. CASE pendingPublications = <<>>
    <3>1. /\ isNegotiating' = FALSE
          /\ UNCHANGED <<publications, transceivers, pendingPublications, sections, nextMid, tasks, ignored>>
      BY <2>1, <2>4 DEF ResolvePendingSender
    <3>2. SenderShape'  BY <1>1, <2>3, <3>1 DEF SenderShape, MidsMade
    <3>3. WorkBounded'  BY <1>1, <2>3, <3>1 DEF WorkBounded
    <3>4. OneAtATime' /\ Stages'
      BY <1>1, <1>2, <1>3, <2>1, <3>1 DEF OneAtATime, Stages
    <3>. QED  BY <2>2, <3>2, <3>3, <3>4, ShapesKept DEF NegotiationInv
  <2>5. CASE pendingPublications # <<>>
    <3> DEFINE p == Head(pendingPublications).pub
               rest == Tail(pendingPublications)
    <3>1. /\ Head(pendingPublications) \in PendingCalls /\ rest \in Seq(PendingCalls)
          /\ Len(rest) = Len(pendingPublications) - 1
      BY <1>1, <2>5, TakenFrom
    <3>2. p \in Publications /\ Len(rest) \in Nat /\ FALSE \in BOOLEAN
          /\ nextMid + Len(rest) <= calls
      BY <1>1, <2>3, <3>1, EmptyOrNot DEF PendingCalls, WorkBounded
    <3>3. Add(p, FALSE, "stable", rest, "answer") \/ Remove(p, FALSE, "stable", rest)
      BY <2>1, <2>5 DEF ResolvePendingSender
    <3>4. SenderShape' /\ nextMid' + Len(pendingPublications') <= nextMid + Len(rest) + 1
      <4>1. CASE Add(p, FALSE, "stable", rest, "answer")
        BY <1>1, <2>3, <3>1, <3>2, <4>1, AddShape
      <4>2. CASE Remove(p, FALSE, "stable", rest)
        <5>1. SenderShape' /\ nextMid' = nextMid /\ Len(pendingPublications') <= Len(rest) + 1
          BY <1>1, <2>3, <3>1, <3>2, <4>2, RemoveShape
        <5>2. Len(pendingPublications') \in Nat  BY <5>1, EmptyOrNot DEF SenderShape
        <5>. QED  BY <2>3, <3>2, <5>1, <5>2
      <4>. QED  BY <3>3, <4>1, <4>2
    <3>5. WorkBounded'
      <4>1. Len(pendingPublications') \in Nat /\ nextMid' \in Nat
        BY <2>3, <3>4, EmptyOrNot DEF SenderShape
      <4>. QED  BY <1>1, <2>3, <3>1, <3>2, <3>4, <4>1 DEF WorkBounded
    <3>6. OneAtATime' /\ Stages'
      <4>1. \/ tasks' = tasks /\ isNegotiating' = FALSE
            \/ isNegotiating' = TRUE /\ \E t \in Tasks : t.at = "offer" /\ tasks' = tasks \cup {t}
        <5>1. "answer" \in {"queue", "answer"}  OBVIOUS
        <5>. QED  BY <3>2, <3>3, <5>1, BeginsOrWaits, Zenon
      <4>2. CASE tasks' = tasks
        BY <1>1, <1>2, <1>3, <2>1, <4>2 DEF OneAtATime, Stages
      <4>3. CASE isNegotiating' = TRUE /\ \E t \in Tasks : t.at = "offer" /\ tasks' = tasks \cup {t}
        <5>1. PICK t \in Tasks : t.at = "offer" /\ tasks' = {t}  BY <1>3, <4>3
        <5>. QED  BY <1>1, <1>2, <1>3, <2>1, <4>3, <5>1 DEF OneAtATime, Stages
      <4>. QED  BY <4>1, <4>2, <4>3
    <3>. QED  BY <2>2, <3>4, <3>5, <3>6, ShapesKept DEF NegotiationInv
  <2>. QED  BY <2>4, <2>5
<1>. QED  BY <1>4, <1>5

-----------------------------------------------------------------------------
(* The steps of the receiver.                                              *)

\* An offer is answered, refused or dropped, or its answer cannot be sent.
LEMMA ReceiverTypes ==
  ASSUME NegotiationInv,
         HandleOffer \/ StartSubscribing \/ StartSubscribingTimesOut \/ StopSubscribing
  PROVE  NegotiationInv'
<1>1. /\ TypeOK /\ MidsMade /\ SenderShape /\ OtherShape /\ WorkBounded /\ OneAtATime /\ Stages
  BY Shapes DEF NegotiationInv
<1>2. UNCHANGED <<channelVars, pubQueue, senderVars>>
  BY DEF HandleOffer, StartSubscribing, StartSubscribingTimesOut, StopSubscribing
<1>3. SenderShape' /\ WorkBounded'
  BY <1>1, <1>2 DEF SenderShape, MidsMade, WorkBounded, channelVars, senderVars
<1>4. NoMid \in Mids  BY MaxCallsAssumption DEF Mids, NoMid
<1>5. CASE HandleOffer
  <2> DEFINE m == Head(toReceiver)
  <2>1. /\ toReceiver # <<>> /\ toReceiver' = Tail(toReceiver)
        /\ UNCHANGED <<subQueue, subscriptions, receiverState, overtaken>>
    BY <1>5 DEF HandleOffer
  <2>2. /\ m \in Offers /\ toReceiver' \in Seq(Offers) /\ toReceiver' = <<>>
        /\ tasks = {} /\ toSender = <<>> /\ Len(toSender) = 0
    <3>1. toReceiver \in Seq(Offers) /\ Len(toReceiver) <= 1  BY <1>1 DEF OtherShape, OneAtATime
    <3>2. m \in Offers /\ toReceiver' \in Seq(Offers) /\ Len(toReceiver') = Len(toReceiver) - 1
          /\ Len(toReceiver) \in Nat /\ 1 \in 1..Len(toReceiver)
      BY <2>1, <3>1, TakenFrom
    <3>3. Len(toReceiver') = 0  BY <3>1, <3>2
    <3>. QED  BY <1>1, <2>1, <3>2, <3>3, EmptyOrNot DEF OneAtATime
  <2>3. /\ publicationInfo' \in [Publications -> Mids] /\ streams' \in [Publications -> Mids]
        /\ remoteSections' \subseteq Mids /\ rejected' \in BOOLEAN
        /\ sendFailures' \in 0 .. MaxSendFailures
        /\ toSender' = toSender \/ toSender' = Append(toSender, "answer")
    <3>1. /\ publicationInfo \in [Publications -> Mids] /\ streams \in [Publications -> Mids]
          /\ remoteSections \subseteq Mids /\ rejected \in BOOLEAN
          /\ sendFailures \in 0 .. MaxSendFailures
      BY <1>1 DEF OtherShape
    <3>2. ASSUME NEW info \in [Publications -> Mids], NEW offered \in SUBSET Mids,
                 Answer(offered, info)
          PROVE  /\ publicationInfo' \in [Publications -> Mids] /\ streams' \in [Publications -> Mids]
                 /\ remoteSections' \subseteq Mids /\ rejected' \in BOOLEAN
                 /\ sendFailures' \in 0 .. MaxSendFailures
                 /\ toSender' = toSender \/ toSender' = Append(toSender, "answer")
      <4>1. streams' \in [Publications -> Mids]
        BY <3>1, <3>2 DEF Answer, TracksAdded
      <4>2. sendFailures' \in 0 .. MaxSendFailures
        BY <3>1, <3>2, MaxSendFailuresAssumption DEF Answer
      <4>. QED  BY <3>1, <3>2, <4>1, <4>2 DEF Answer
    <3>3. m.pub \in Publications /\ m.mid \in Mids /\ m.sections \in SUBSET Mids
      BY <2>2 DEF Offers
    <3>4. /\ [publicationInfo EXCEPT ![m.pub] = m.mid] \in [Publications -> Mids]
          /\ [publicationInfo EXCEPT ![m.pub] = NoMid] \in [Publications -> Mids]
      BY <1>4, <3>1, <3>3
    <3>5. CASE ~receiverOpen
      BY <1>5, <3>1, <3>5 DEF HandleOffer
    <3>6. CASE receiverOpen /\ m.op = "add"
      <4>1. HandleSenderProduce(m)  BY <1>5, <3>6 DEF HandleOffer
      <4>2. CASE ValidateRemoteOffer(m.sections, [publicationInfo EXCEPT ![m.pub] = m.mid])
        <5>1. Answer(m.sections, [publicationInfo EXCEPT ![m.pub] = m.mid])
          BY <4>1, <4>2 DEF HandleSenderProduce
        <5>. QED  BY <3>2, <3>3, <3>4, <5>1
      <4>3. CASE ~ValidateRemoteOffer(m.sections, [publicationInfo EXCEPT ![m.pub] = m.mid])
        BY <3>1, <3>4, <4>1, <4>3 DEF HandleSenderProduce
      <4>. QED  BY <4>2, <4>3
    <3>7. CASE receiverOpen /\ m.op # "add"
      <4>1. Answer(m.sections, [publicationInfo EXCEPT ![m.pub] = NoMid])
        BY <1>5, <3>7 DEF HandleOffer, HandleSenderUnproduce
      <4>. QED  BY <3>2, <3>3, <3>4, <4>1
    <3>. QED  BY <3>5, <3>6, <3>7
  <2>4. toSender' \in Seq({"answer"}) /\ Len(toSender') <= 1
    <3>1. toSender \in Seq({"answer"}) /\ "answer" \in {"answer"}  BY <1>1 DEF OtherShape
    <3>2. Append(toSender, "answer") \in Seq({"answer"}) /\ Len(Append(toSender, "answer")) = 1
      BY <2>2, <3>1, AppendedTo
    <3>3. CASE toSender' = toSender  BY <2>2, <3>1, <3>3
    <3>4. CASE toSender' = Append(toSender, "answer")  BY <3>2, <3>4
    <3>. QED  BY <2>3, <3>3, <3>4
  <2>5. OtherShape'
    BY <1>1, <1>2, <2>1, <2>2, <2>3, <2>4 DEF OtherShape, channelVars, senderVars
  <2>6. OneAtATime'
    <3>1. tasks' = {} /\ Len(toReceiver') = 0  BY <1>2, <2>2 DEF senderVars
    <3>. QED  BY <2>2, <2>4, <3>1 DEF OneAtATime
  <2>7. Stages'
    <3>1. /\ tasks' = {} /\ isNegotiating' = isNegotiating /\ senderState' = senderState
      BY <1>2, <2>2 DEF senderVars
    <3>2. senderOpen => senderState = "have-local-offer" /\ isNegotiating
      BY <1>1, <2>1 DEF Stages
    <3>. QED  BY <3>1, <3>2 DEF Stages, senderOpen
  <2>. QED  BY <1>3, <2>5, <2>6, <2>7, ShapesKept DEF NegotiationInv
<1>6. CASE StartSubscribing \/ StartSubscribingTimesOut \/ StopSubscribing
  <2>1. /\ subQueue # <<>> /\ subQueue' \in {subQueue, Tail(subQueue)}
        /\ UNCHANGED <<publicationInfo, remoteSections, rejected, toReceiver, toSender, sendFailures>>
    BY <1>6 DEF StartSubscribing, StartSubscribingTimesOut, StopSubscribing, receiverVars
  <2>2. subQueue' \in Seq(Calls) /\ Head(subQueue).pub \in Publications
    <3>1. subQueue \in Seq(Calls) /\ subQueue # <<>>
      BY <1>1, <1>6 DEF OtherShape, StartSubscribing, StartSubscribingTimesOut, StopSubscribing
    <3>2. Head(subQueue) \in Calls /\ Tail(subQueue) \in Seq(Calls)  BY <3>1, TakenFrom
    <3>. QED  BY <2>1, <3>1, <3>2 DEF Calls
  <2>3. /\ subscriptions' \subseteq Publications /\ streams' \in [Publications -> Mids]
        /\ receiverState' \in {"stable", "closed"} /\ overtaken' \subseteq Publications
    <3>1. /\ subscriptions \subseteq Publications /\ streams \in [Publications -> Mids]
          /\ receiverState \in {"stable", "closed"} /\ overtaken \subseteq Publications
      BY <1>1 DEF OtherShape
    <3>2. CASE StartSubscribing  BY <2>2, <3>1, <3>2 DEF StartSubscribing
    <3>3. CASE StartSubscribingTimesOut  BY <3>1, <3>3 DEF StartSubscribingTimesOut, receiverVars
    <3>4. CASE StopSubscribing
      <4>1. subscriptions' \subseteq Publications /\ overtaken' \subseteq Publications
        BY <2>2, <3>1, <3>4 DEF StopSubscribing
      <4>2. streams' \in [Publications -> Mids]
        BY <1>4, <2>2, <3>1, <3>4 DEF StopSubscribing
      <4>3. receiverState' \in {"stable", "closed"}
        BY <3>1, <3>4 DEF StopSubscribing
      <4>. QED  BY <4>1, <4>2, <4>3
    <3>. QED  BY <1>6, <3>2, <3>3, <3>4
  <2>4. OtherShape'
    BY <1>1, <1>2, <2>1, <2>2, <2>3 DEF OtherShape, channelVars, senderVars
  <2>5. OneAtATime' /\ Stages'
    BY <1>1, <1>2, <2>1 DEF OneAtATime, Stages, senderOpen, senderVars
  <2>. QED  BY <1>3, <2>4, <2>5, ShapesKept DEF NegotiationInv
<1>. QED  BY <1>5, <1>6

LEMMA NegotiationNext == NegotiationInv /\ [Next]_vars => NegotiationInv'
<1> SUFFICES ASSUME NegotiationInv, [Next]_vars PROVE NegotiationInv'  OBVIOUS
<1>1. CASE UNCHANGED vars
  <2>1. SenderShape' /\ OtherShape'
    <3>1. SenderShape /\ OtherShape  BY Shapes DEF NegotiationInv
    <3>. QED  BY <1>1, <3>1 DEF SenderShape, OtherShape, MidsMade, vars, channelVars, senderVars, receiverVars
  <2>2. WorkBounded' /\ OneAtATime' /\ Stages'
    BY <1>1 DEF NegotiationInv, WorkBounded, OneAtATime, Stages, senderOpen, vars, channelVars,
         senderVars, receiverVars
  <2>. QED  BY <2>1, <2>2, ShapesKept DEF NegotiationInv
<1>2. CASE \E p \in Publications : Subscribe(p) \/ Unsubscribe(p)  BY <1>2, ChannelTypes
<1>3. CASE StartPublishing \/ StopPublishing  BY <1>3, PublishingTypes
<1>4. CASE CreateOffer \/ SendOffer \/ SendOfferFails  BY <1>4, OfferTypes
<1>5. CASE HandleReceiverAnswer  BY <1>5, AnswerTypes
<1>6. CASE HandleOffer \/ StartSubscribing \/ StartSubscribingTimesOut \/ StopSubscribing
  BY <1>6, ReceiverTypes
<1>. QED  BY <1>1, <1>2, <1>3, <1>4, <1>5, <1>6 DEF Next

LEMMA NegotiationAlways == Spec => []NegotiationInv
BY NegotiationInit, NegotiationNext, PTL DEF Spec

\* The state of both ends keeps its shape, and no publication gets a section
\* that the channel did not ask for.
THEOREM NegotiationTypeCorrect == Spec => []TypeOK
<1>1. NegotiationInv => TypeOK  BY DEF NegotiationInv
<1>. QED  BY <1>1, NegotiationAlways, PTL

\* One negotiation is under way at a time, whoever calls add and remove: the
\* offer being made or sent, the offer sent or the answer to it, one of them.
THEOREM NegotiationsTakeTurns == Spec => []OneNegotiationAtATime
<1>1. NegotiationInv => OneNegotiationAtATime
  <2> SUFFICES ASSUME NegotiationInv PROVE OneNegotiationAtATime  OBVIOUS
  <2>1. OneAtATime /\ Stages /\ toReceiver \in Seq(Offers) /\ toSender \in Seq({"answer"})
    BY Shapes DEF NegotiationInv, OtherShape
  <2>2. /\ Len(toReceiver) \in Nat /\ (toReceiver = <<>> <=> Len(toReceiver) = 0)
        /\ Len(toSender) \in Nat /\ (toSender = <<>> <=> Len(toSender) = 0)
    BY <2>1, EmptyOrNot
  <2>3. \/ tasks = {} /\ Cardinality(tasks) = 0
        \/ tasks # {} /\ Cardinality(tasks) = 1
    <3>1. CASE tasks = {}  BY <3>1, FS_EmptySet
    <3>2. CASE tasks # {}
      <4>1. PICK t \in tasks : tasks = {t}  BY <2>1, <3>2 DEF OneAtATime
      <4>. QED  BY <3>2, <4>1, FS_Singleton
    <3>. QED  BY <3>1, <3>2
  <2>4. Cardinality(tasks) + Len(toReceiver) + Len(toSender) <= 1
    BY <2>1, <2>2, <2>3 DEF OneAtATime
  <2>5. ASSUME senderOpen, Cardinality(tasks) + Len(toReceiver) + Len(toSender) = 1
        PROVE  isNegotiating
    BY <2>1, <2>2, <2>3, <2>5 DEF Stages
  <2>6. ASSUME senderOpen, toReceiver # <<>> \/ toSender # <<>>
        PROVE  senderState = "have-local-offer"
    BY <2>1, <2>6 DEF Stages
  <2>. QED  BY <2>4, <2>5, <2>6 DEF OneNegotiationAtATime
<1>. QED  BY <1>1, NegotiationAlways, PTL

-----------------------------------------------------------------------------
(* What is kept while nothing has disturbed the negotiation.               *)

Has(calling, c) == \E i \in 1 .. Len(calling) : calling[i] = c

\* No call waits twice, and a removal waits ahead of the publication's return.
InOrder(calling) ==
  /\ \A i, k \in 1 .. Len(calling) : calling[i] = calling[k] => i = k
  /\ \A i, k \in 1 .. Len(calling) :
       calling[i].op = "remove" /\ calling[k] = Call("add", calling[i].pub) => i < k

\* The sections are those of the transceivers, one for each.
SectionsOwned ==
  /\ \A p, q \in Publications :
       transceivers[p] = transceivers[q] /\ transceivers[p] # NoMid => p = q
  /\ \A mid \in sections : \E p \in Publications : transceivers[p] = mid
  /\ \A p \in Publications : transceivers[p] # NoMid => transceivers[p] \in sections

\* A publication has a transceiver until its removal has had its turn.
PendingInOrder ==
  /\ InOrder(pendingPublications)
  /\ \A p \in publications :
       /\ transceivers[p] # NoMid
       /\ ~Has(pendingPublications, Call("add", p))
       /\ ~Has(pendingPublications, Call("remove", p))
  /\ \A p \in Publications \ publications :
       transceivers[p] # NoMid <=> Has(pendingPublications, Call("remove", p))
  /\ pendingPublications # <<>> => isNegotiating

Wanted == {p \in Publications : p \in publications \/ Has(pendingPublications, Call("add", p))}

Follows(c, before, after) ==
  \/ c.op = "start" /\ c.pub \notin before /\ after = before \cup {c.pub}
  \/ c.op = "stop" /\ c.pub \in before /\ after = before \ {c.pub}

\* The calls of a queue lead from one set of publications to another.
Leads(queue, from, to) ==
  \E h \in [0 .. Len(queue) -> SUBSET Publications] :
    /\ h[0] = from /\ h[Len(queue)] = to
    /\ \A i \in 1 .. Len(queue) : Follows(queue[i], h[i - 1], h[i])

QueueLeads == Leads(pubQueue, Wanted, subscribed)

Knows(p) == publicationInfo[p] = transceivers[p]

ReceiverAgrees == remoteSections = sections /\ \A p \in Publications : Knows(p)

\* The receiver knows every section but that of the negotiation under way.
ReceiverKnows ==
  /\ \A t \in tasks :
       /\ t.op = "remove" => transceivers[t.pub] = NoMid
       /\ \A q \in Publications \ {t.pub} : Knows(q)
  /\ \A i \in 1 .. Len(toReceiver) :
       /\ toReceiver[i].op = "remove" => toReceiver[i].mid = NoMid
       /\ toReceiver[i].mid = transceivers[toReceiver[i].pub]
       /\ toReceiver[i].sections = sections
       /\ \A q \in Publications \ {toReceiver[i].pub} : Knows(q)
  /\ toSender # <<>> => ReceiverAgrees
  /\ senderOpen /\ tasks = {} /\ toReceiver = <<>> => ReceiverAgrees

GoesOn == isNegotiating /\ senderOpen => tasks # {} \/ toReceiver # <<>> \/ toSender # <<>>

SenderInv == undisturbed => SectionsOwned /\ (senderOpen => PendingInOrder /\ QueueLeads)

ReceiverInv == undisturbed => ~rejected /\ (receiverOpen => ReceiverKnows /\ GoesOn)

UndisturbedInv == SenderInv /\ ReceiverInv

LEMMA UndisturbedInit == Init => UndisturbedInv
<1> SUFFICES ASSUME Init PROVE UndisturbedInv  OBVIOUS
<1>1. \A c : ~Has(<<>>, c)  BY DEF Has
<1>2. InOrder(<<>>)  BY DEF InOrder
<1>3. SectionsOwned  BY DEF Init, SectionsOwned
<1>4. PendingInOrder  BY <1>1, <1>2 DEF Init, PendingInOrder
<1>5. QueueLeads
  <2>1. Wanted = {} /\ subscribed = {} /\ pubQueue = <<>>
    <3>1. publications = {} /\ pendingPublications = <<>>  BY DEF Init
    <3>2. \A p : ~(p \in publications \/ Has(pendingPublications, Call("add", p)))
      BY <1>1, <3>1
    <3>3. Wanted = {}  BY <3>2, Zenon DEF Wanted
    <3>. QED  BY <3>3 DEF Init
  <2>2. Len(pubQueue) = 0  BY <2>1
  <2> DEFINE h == [i \in 0 .. 0 |-> {}]
  <2>3. Leads(pubQueue, {}, {})
    <3>1. h \in [0 .. Len(pubQueue) -> SUBSET Publications] /\ h[0] = {}  BY <2>2
    <3>2. 1 .. Len(pubQueue) = {}  BY <2>2
    <3> HIDE DEF h
    <3>. QED  BY <2>2, <3>1, <3>2 DEF Leads
  <2>. QED  BY <2>1, <2>3 DEF QueueLeads
<1>6. ReceiverKnows  BY DEF Init, ReceiverKnows, ReceiverAgrees, Knows
<1>7. GoesOn /\ ~rejected  BY DEF Init, GoesOn
<1>. QED  BY <1>3, <1>4, <1>5, <1>6, <1>7 DEF UndisturbedInv, SenderInv, ReceiverInv

\* The pending list.
LEMMA InOrderAppended ==
  ASSUME NEW s \in Seq(PendingCalls), NEW c \in PendingCalls
  PROVE  /\ \A d : Has(Append(s, c), d) <=> Has(s, d) \/ d = c
         /\ InOrder(s) /\ ~Has(s, c) /\ (c.op = "remove" => ~Has(s, Call("add", c.pub)))
            => InOrder(Append(s, c))
<1> DEFINE n == Len(s)
           s1 == Append(s, c)
<1>1. /\ n \in Nat /\ Len(s1) = n + 1 /\ s1[n + 1] = c
      /\ \A i \in 1 .. n : s1[i] = s[i]
  BY AppendedTo
<1> HIDE DEF n, s1
<1>2. \A d : Has(s1, d) <=> Has(s, d) \/ d = c
  <2> SUFFICES ASSUME NEW d PROVE Has(s1, d) <=> Has(s, d) \/ d = c  OBVIOUS
  <2>1. \A i \in 1 .. Len(s1) : i \in 1 .. n \/ i = n + 1  BY <1>1
  <2>2. \A i \in 1 .. n : i \in 1 .. Len(s1)  BY <1>1
  <2>3. n + 1 \in 1 .. Len(s1)  BY <1>1
  <2>. QED  BY <1>1, <2>1, <2>2, <2>3 DEF Has, n
<1>3. ASSUME InOrder(s), ~Has(s, c), c.op = "remove" => ~Has(s, Call("add", c.pub))
      PROVE  InOrder(s1)
  <2>1. \A i \in 1 .. Len(s1) : \/ i \in 1 .. n /\ s1[i] = s[i] /\ s1[i] # c
                                \/ i = n + 1 /\ s1[i] = c
    <3>1. \A i \in 1 .. Len(s1) : i \in 1 .. n \/ i = n + 1  BY <1>1
    <3>2. \A i \in 1 .. n : s1[i] = s[i] /\ s1[i] # c  BY <1>1, <1>3 DEF Has, n
    <3>. QED  BY <1>1, <3>1, <3>2
  <2>2. ASSUME NEW i \in 1 .. Len(s1), NEW k \in 1 .. Len(s1), s1[i] = s1[k]
        PROVE  i = k
    BY <1>3, <2>1, <2>2 DEF InOrder, n
  <2>3. ASSUME NEW i \in 1 .. Len(s1), NEW k \in 1 .. Len(s1),
               s1[i].op = "remove", s1[k] = Call("add", s1[i].pub)
        PROVE  i < k
    <3>1. CASE i \in 1 .. n /\ k \in 1 .. n  BY <1>1, <1>3, <2>3, <3>1 DEF InOrder, n
    <3>2. CASE i = n + 1 /\ k \in 1 .. n
      BY <1>1, <1>3, <2>3, <3>2 DEF Has, n
    <3>3. CASE k = n + 1 /\ i \in 1 .. n  BY <1>1, <3>3
    <3>4. CASE k = n + 1 /\ i = n + 1  BY <1>1, <2>3, <3>4 DEF Call
    <3>. QED  BY <2>1, <3>1, <3>2, <3>3, <3>4
  <2>. QED  BY <2>2, <2>3 DEF InOrder
<1>. QED  BY <1>2, <1>3 DEF s1

LEMMA InOrderTaken ==
  ASSUME NEW s \in Seq(PendingCalls), s # <<>>, InOrder(s)
  PROVE  /\ InOrder(Tail(s))
         /\ \A d : Has(Tail(s), d) <=> Has(s, d) /\ d # Head(s)
         /\ Has(s, Head(s))
         /\ Head(s).op = "add" => ~Has(s, Call("remove", Head(s).pub))
<1> DEFINE n == Len(s)
           s1 == Tail(s)
<1>1. /\ Head(s) = s[1] /\ Head(s) \in PendingCalls /\ n \in Nat /\ 1 \in 1 .. n
      /\ s1 \in Seq(PendingCalls) /\ Len(s1) = n - 1
      /\ \A i \in 1 .. Len(s1) : i + 1 \in 1 .. n /\ s1[i] = s[i + 1]
  BY TakenFrom
<1> HIDE DEF n, s1
<1>2. InOrder(s1)
  <2>1. ASSUME NEW i \in 1 .. Len(s1), NEW k \in 1 .. Len(s1), s1[i] = s1[k]
        PROVE  i = k
    <3>1. i + 1 = k + 1  BY <1>1, <2>1 DEF InOrder, n
    <3>. QED  BY <3>1
  <2>2. ASSUME NEW i \in 1 .. Len(s1), NEW k \in 1 .. Len(s1),
               s1[i].op = "remove", s1[k] = Call("add", s1[i].pub)
        PROVE  i < k
    <3>1. /\ i + 1 \in 1 .. n /\ k + 1 \in 1 .. n
          /\ s[i + 1].op = "remove" /\ s[k + 1] = Call("add", s[i + 1].pub)
      BY <1>1, <2>2
    <3>2. i + 1 < k + 1  BY <3>1 DEF InOrder, n
    <3>. QED  BY <3>2
  <2>. QED  BY <2>1, <2>2 DEF InOrder
<1>3. ASSUME NEW d PROVE Has(s1, d) <=> Has(s, d) /\ d # Head(s)
  <2>1. ASSUME Has(s1, d) PROVE Has(s, d) /\ d # Head(s)
    <3>1. PICK i \in 1 .. Len(s1) : s1[i] = d  BY <2>1 DEF Has
    <3>2. i + 1 \in 1 .. n /\ s[i + 1] = d /\ i + 1 # 1  BY <1>1, <3>1
    <3>. QED  BY <1>1, <3>2 DEF Has, InOrder, n
  <2>2. ASSUME Has(s, d), d # Head(s) PROVE Has(s1, d)
    <3>1. PICK i \in 1 .. n : s[i] = d  BY <2>2 DEF Has, n
    <3>2. i # 1  BY <1>1, <2>2, <3>1
    <3>3. i - 1 \in 1 .. Len(s1) /\ (i - 1) + 1 = i  BY <1>1, <3>2
    <3>. QED  BY <1>1, <3>1, <3>3 DEF Has
  <2>. QED  BY <2>1, <2>2
<1>4. Has(s, Head(s))  BY <1>1 DEF Has, n
<1>5. ASSUME Head(s).op = "add", Has(s, Call("remove", Head(s).pub)) PROVE FALSE
  <2>1. PICK i \in 1 .. n : s[i] = Call("remove", Head(s).pub)  BY <1>5 DEF Has, n
  <2>2. s[i].op = "remove" /\ s[i].pub = Head(s).pub  BY <2>1 DEF Call
  <2>3. s[1] = Call("add", s[i].pub)  BY <1>1, <1>5, <2>2 DEF Call, PendingCalls
  <2>4. i < 1  BY <1>1, <2>1, <2>2, <2>3 DEF InOrder, n
  <2>. QED  BY <1>1, <2>4
<1>. QED  BY <1>2, <1>3, <1>4, <1>5 DEF s1

\* The queue of calls: one more at its end, one less at its head.
LEMMA LeadsAppended ==
  ASSUME NEW queue \in Seq(Calls), NEW from, NEW to, NEW to1 \in SUBSET Publications,
         NEW c \in Calls, Leads(queue, from, to), Follows(c, to, to1)
  PROVE  Leads(Append(queue, c), from, to1)
<1> DEFINE n == Len(queue)
           q1 == Append(queue, c)
<1>1. PICK h \in [0 .. n -> SUBSET Publications] :
        /\ h[0] = from /\ h[n] = to
        /\ \A i \in 1 .. n : Follows(queue[i], h[i - 1], h[i])
  BY DEF Leads
<1>2. /\ n \in Nat /\ Len(q1) = n + 1 /\ q1[n + 1] = c
      /\ \A i \in 1 .. n : q1[i] = queue[i]
  BY AppendedTo
<1> DEFINE h1 == [i \in 0 .. n + 1 |-> IF i = n + 1 THEN to1 ELSE h[i]]
<1> HIDE DEF n, q1
<1>3. h1 \in [0 .. Len(q1) -> SUBSET Publications]
  <2>1. \A i \in 0 .. n + 1 : i = n + 1 \/ i \in 0 .. n  BY <1>2
  <2>. QED  BY <1>2, <2>1
<1>4. h1[0] = from /\ h1[Len(q1)] = to1
  BY <1>1, <1>2
<1>5. ASSUME NEW i \in 1 .. Len(q1)
      PROVE  Follows(q1[i], h1[i - 1], h1[i])
  <2>1. CASE i = n + 1
    <3>1. h1[i] = to1 /\ h1[i - 1] = to  BY <1>1, <1>2, <2>1
    <3>. QED  BY <1>2, <2>1, <3>1
  <2>2. CASE i \in 1 .. n
    <3>1. h1[i] = h[i] /\ h1[i - 1] = h[i - 1]  BY <1>2, <2>2
    <3>. QED  BY <1>1, <1>2, <2>2, <3>1
  <2>. QED  BY <1>2, <2>1, <2>2
<1> HIDE DEF h1
<1>. QED  BY <1>3, <1>4, <1>5 DEF Leads, q1

LEMMA LeadsTaken ==
  ASSUME NEW queue \in Seq(Calls), queue # <<>>, NEW from, NEW to, Leads(queue, from, to)
  PROVE  \E next \in SUBSET Publications :
           Follows(Head(queue), from, next) /\ Leads(Tail(queue), next, to)
<1> DEFINE n == Len(queue)
           q1 == Tail(queue)
<1>1. PICK h \in [0 .. n -> SUBSET Publications] :
        /\ h[0] = from /\ h[n] = to
        /\ \A i \in 1 .. n : Follows(queue[i], h[i - 1], h[i])
  BY DEF Leads
<1>2. /\ Head(queue) = queue[1] /\ n \in Nat /\ 1 \in 1 .. n /\ Len(q1) = n - 1
      /\ \A i \in 1 .. Len(q1) : i + 1 \in 1 .. n /\ q1[i] = queue[i + 1]
  BY TakenFrom
<1> DEFINE h1 == [i \in 0 .. n - 1 |-> h[i + 1]]
<1> HIDE DEF n, q1
<1>3. h1 \in [0 .. Len(q1) -> SUBSET Publications]
  <2>1. \A i \in 0 .. n - 1 : i + 1 \in 0 .. n  BY <1>2
  <2>. QED  BY <1>2, <2>1
<1>4. h1[0] = h[1] /\ h1[Len(q1)] = to  BY <1>1, <1>2
<1>5. ASSUME NEW i \in 1 .. Len(q1)
      PROVE  Follows(q1[i], h1[i - 1], h1[i])
  <2>1. h1[i] = h[i + 1] /\ h1[i - 1] = h[i] /\ (i + 1) - 1 = i  BY <1>2
  <2>2. Follows(queue[i + 1], h[(i + 1) - 1], h[i + 1])  BY <1>1, <1>2
  <2>. QED  BY <1>2, <2>1, <2>2
<1>6. Leads(q1, h[1], to)
  <2> HIDE DEF h1
  <2>. QED  BY <1>3, <1>4, <1>5 DEF Leads
<1>7. Follows(Head(queue), from, h[1]) /\ h[1] \in SUBSET Publications
  <2>1. 1 - 1 = 0 /\ 1 \in 0 .. n  BY <1>2
  <2>2. Follows(queue[1], h[1 - 1], h[1])  BY <1>1, <1>2
  <2>. QED  BY <1>1, <1>2, <2>1, <2>2
<1>. QED  BY <1>6, <1>7 DEF q1

\* The sender's part, when its state is the same and so is the queue.
LEMMA SenderStays ==
  ASSUME UNCHANGED <<publications, transceivers, pendingPublications, isNegotiating, sections>>
  PROVE  /\ SectionsOwned => SectionsOwned'
         /\ PendingInOrder => PendingInOrder'
         /\ Wanted' = Wanted
         /\ UNCHANGED <<pubQueue, subscribed>> /\ QueueLeads => QueueLeads'
<1>1. SectionsOwned => SectionsOwned'  BY DEF SectionsOwned
<1>2. PendingInOrder => PendingInOrder'  BY DEF PendingInOrder
<1>3. Wanted' = Wanted  BY DEF Wanted
<1>4. UNCHANGED <<pubQueue, subscribed>> /\ QueueLeads => QueueLeads'
  <2> SUFFICES ASSUME UNCHANGED <<pubQueue, subscribed>>, Leads(pubQueue, Wanted, subscribed)
               PROVE  Leads(pubQueue, Wanted, subscribed)'
    BY DEF QueueLeads
  <2>. QED  BY <1>3, Zenon
<1>. QED  BY <1>1, <1>2, <1>3, <1>4

LEMMA ChannelUndisturbed ==
  ASSUME NegotiationInv, UndisturbedInv, NEW p \in Publications, Subscribe(p) \/ Unsubscribe(p)
  PROVE  UndisturbedInv'
<1>1. /\ UNCHANGED <<senderVars, receiverVars, toReceiver, toSender, sendFailures>>
  BY DEF Subscribe, Unsubscribe
<1>2. UNCHANGED <<publications, transceivers, pendingPublications, isNegotiating, sections>>
      /\ undisturbed' = undisturbed /\ senderOpen' = senderOpen /\ receiverOpen' = receiverOpen
  BY <1>1 DEF senderVars, receiverVars, undisturbed, senderOpen, receiverOpen
<1>3. ASSUME QueueLeads, senderOpen PROVE QueueLeads'
  <2>1. pubQueue \in Seq(Calls) /\ subscribed \subseteq Publications
    BY Shapes DEF NegotiationInv, OtherShape
  <2>2. PICK c \in Calls : pubQueue' = Append(pubQueue, c) /\ Follows(c, subscribed, subscribed')
    <3>1. CASE Subscribe(p)
      <4>1. Call("start", p) \in Calls /\ Follows(Call("start", p), subscribed, subscribed')
            /\ pubQueue' = Append(pubQueue, Call("start", p))
        BY <3>1 DEF Subscribe, Call, Calls, Follows
      <4>. QED  BY <4>1
    <3>2. CASE Unsubscribe(p)
      <4>1. Call("stop", p) \in Calls /\ Follows(Call("stop", p), subscribed, subscribed')
            /\ pubQueue' = Append(pubQueue, Call("stop", p))
        BY <1>3, <3>2 DEF Unsubscribe, Enqueue, Call, Calls, Follows
      <4>. QED  BY <4>1
    <3>. QED  BY <3>1, <3>2
  <2>3. subscribed' \in SUBSET Publications  BY <2>1 DEF Subscribe, Unsubscribe
  <2>4. Leads(Append(pubQueue, c), Wanted, subscribed')
    BY <1>3, <2>1, <2>2, <2>3, LeadsAppended DEF QueueLeads
  <2>5. Wanted' = Wanted  BY <1>2, SenderStays
  <2>6. Leads(pubQueue', Wanted', subscribed')  BY <2>2, <2>4, <2>5, Zenon
  <2>. QED  BY <2>6 DEF QueueLeads
<1>4. SenderInv'
  BY <1>2, <1>3, SenderStays DEF UndisturbedInv, SenderInv
<1>5. ReceiverInv'
  <2>1. ReceiverKnows => ReceiverKnows'
    BY <1>1 DEF ReceiverKnows, ReceiverAgrees, Knows, senderVars, receiverVars, senderOpen
  <2>2. GoesOn => GoesOn'  BY <1>1 DEF GoesOn, senderVars, senderOpen
  <2>3. rejected' = rejected  BY <1>1 DEF receiverVars
  <2>. QED  BY <1>2, <2>1, <2>2, <2>3 DEF UndisturbedInv, ReceiverInv
<1>. QED  BY <1>4, <1>5 DEF UndisturbedInv

-----------------------------------------------------------------------------
(* The sender starts and stops publishing.                                 *)

\* When neither flag nor state holds it back, nothing is under way, nothing
\* waits, and both ends agree.
LEMMA IdleSender ==
  ASSUME NegotiationInv, UndisturbedInv, undisturbed, ~MustWait(isNegotiating, senderState)
  PROVE  /\ senderOpen /\ tasks = {} /\ toReceiver = <<>> /\ toSender = <<>>
         /\ pendingPublications = <<>>
         /\ receiverOpen => ReceiverAgrees
<1>1. ~isNegotiating /\ senderState = "stable" /\ senderOpen
  BY DEF MustWait, senderOpen
<1>2. tasks = {} /\ toReceiver = <<>> /\ toSender = <<>>
  BY <1>1 DEF NegotiationInv, Stages
<1>3. pendingPublications = <<>>
  BY <1>1 DEF UndisturbedInv, SenderInv, PendingInOrder
<1>4. receiverOpen => ReceiverAgrees
  BY <1>1, <1>2 DEF UndisturbedInv, ReceiverInv, ReceiverKnows
<1>. QED  BY <1>1, <1>2, <1>3, <1>4

\* A negotiation that begins leaves the receiver ignorant of its publication only.
LEMMA BegunNegotiation ==
  ASSUME tasks = {}, toReceiver = <<>>, toSender = <<>>, receiverOpen => ReceiverAgrees,
         NEW t, tasks' = {t}, t.pub \in Publications,
         t.op = "remove" => transceivers'[t.pub] = NoMid,
         \A q \in Publications \ {t.pub} : transceivers'[q] = transceivers[q],
         UNCHANGED <<toReceiver, toSender, publicationInfo>>
  PROVE  receiverOpen => ReceiverKnows' /\ GoesOn'
<1> SUFFICES ASSUME receiverOpen PROVE ReceiverKnows' /\ GoesOn'  OBVIOUS
<1>1. \A q \in Publications \ {t.pub} : Knows(q)'
  BY DEF ReceiverAgrees, Knows
<1>2. Len(toReceiver') = 0 /\ toSender' = <<>> /\ tasks' # {}  OBVIOUS
<1>3. ReceiverKnows'  BY <1>1, <1>2 DEF ReceiverKnows
<1>4. GoesOn'  BY <1>2 DEF GoesOn
<1>. QED  BY <1>3, <1>4

LEMMA StartUndisturbed ==
  ASSUME NegotiationInv, UndisturbedInv, StartPublishing
  PROVE  UndisturbedInv'
<1> DEFINE p == Head(pubQueue).pub
<1>1. /\ SenderShape /\ OtherShape /\ OneAtATime /\ Stages
      /\ transceivers \in [Publications -> Mids] /\ MidsMade
      /\ pendingPublications \in Seq(PendingCalls)
  BY Shapes DEF NegotiationInv, SenderShape
<1>2. /\ pubQueue # <<>> /\ Head(pubQueue).op = "start" /\ pubQueue' = Tail(pubQueue)
      /\ Add(p, isNegotiating, senderState, pendingPublications, "queue")
      /\ UNCHANGED <<channelVars, senderState, subQueue, receiverVars, toReceiver, toSender, sendFailures>>
  BY DEF StartPublishing
<1>3. pubQueue \in Seq(Calls) /\ p \in Publications
  <2>1. pubQueue \in Seq(Calls)  BY <1>1 DEF OtherShape
  <2>2. Head(pubQueue) \in Calls  BY <1>2, <2>1, TakenFrom
  <2>. QED  BY <2>1, <2>2 DEF Calls
<1>4. /\ undisturbed' => undisturbed
      /\ senderOpen' = senderOpen /\ receiverOpen' = receiverOpen /\ rejected' = rejected
  BY <1>2 DEF Add, undisturbed, senderOpen, receiverOpen, receiverVars
<1> SUFFICES ASSUME undisturbed PROVE UndisturbedInv'
  BY <1>4 DEF UndisturbedInv, SenderInv, ReceiverInv
<1>5. SectionsOwned /\ (senderOpen => PendingInOrder /\ QueueLeads)
      /\ ~rejected /\ (receiverOpen => ReceiverKnows /\ GoesOn)
  BY DEF UndisturbedInv, SenderInv, ReceiverInv
\* It is not wanted yet, and so it has nothing waiting but its removal.
<1>6. ASSUME senderOpen
      PROVE  /\ p \notin Wanted /\ p \notin publications
             /\ ~Has(pendingPublications, Call("add", p))
             /\ Wanted' = Wanted \cup {p} => QueueLeads'
  <2>1. PICK next \in SUBSET Publications :
          Follows(Head(pubQueue), Wanted, next) /\ Leads(Tail(pubQueue), next, subscribed)
    BY <1>2, <1>3, <1>5, <1>6, LeadsTaken DEF QueueLeads
  <2>2. p \notin Wanted /\ next = Wanted \cup {p}  BY <1>2, <2>1 DEF Follows
  <2>3. p \notin publications /\ ~Has(pendingPublications, Call("add", p))
    BY <1>3, <2>2 DEF Wanted
  <2>4. ASSUME Wanted' = Wanted \cup {p} PROVE QueueLeads'
    <3>1. subscribed' = subscribed  BY <1>2 DEF channelVars
    <3>2. Leads(pubQueue', Wanted', subscribed')
      BY <1>2, <2>1, <2>2, <2>4, <3>1, Zenon
    <3>. QED  BY <3>2 DEF QueueLeads
  <2>. QED  BY <2>2, <2>3, <2>4
<1>7. CASE MustWait(isNegotiating, senderState)
  <2>1. /\ pendingPublications' = Append(pendingPublications, Call("add", p))
        /\ isNegotiating' = isNegotiating
        /\ UNCHANGED <<publications, transceivers, sections, nextMid, tasks, ignored>>
    BY <1>2, <1>7 DEF Add
  <2>2. /\ Call("add", p) \in PendingCalls /\ Call("add", p).op # "remove"
        /\ \A q : Call("remove", q) # Call("add", p)
        /\ \A q : Call("add", q) = Call("add", p) <=> q = p
    BY <1>3 DEF Call, PendingCalls
  <2>3. \A d : Has(pendingPublications', d) <=> Has(pendingPublications, d) \/ d = Call("add", p)
    BY <1>1, <2>1, <2>2, InOrderAppended
  <2>4. SectionsOwned'  BY <1>5, <2>1 DEF SectionsOwned
  <2>5. ASSUME senderOpen PROVE PendingInOrder' /\ QueueLeads'
    <3>1. InOrder(pendingPublications')
      BY <1>1, <1>5, <1>6, <2>1, <2>2, <2>5, InOrderAppended DEF PendingInOrder
    <3>2. isNegotiating'
      BY <1>1, <1>7, <2>1, <2>5 DEF MustWait, Stages, senderOpen, OtherShape
    <3>3. \A q \in publications' :
            /\ transceivers'[q] # NoMid
            /\ ~Has(pendingPublications', Call("add", q))
            /\ ~Has(pendingPublications', Call("remove", q))
      BY <1>5, <1>6, <2>1, <2>2, <2>3, <2>5 DEF PendingInOrder
    <3>4. \A q \in Publications \ publications' :
            transceivers'[q] # NoMid <=> Has(pendingPublications', Call("remove", q))
      BY <1>5, <2>1, <2>2, <2>3, <2>5 DEF PendingInOrder
    <3>5. PendingInOrder'  BY <3>1, <3>2, <3>3, <3>4 DEF PendingInOrder
    <3>6. Wanted' = Wanted \cup {p}
      BY <1>3, <2>1, <2>2, <2>3 DEF Wanted
    <3>. QED  BY <1>6, <2>5, <3>5, <3>6
  <2>6. ReceiverKnows => ReceiverKnows'
    BY <1>2, <2>1 DEF ReceiverKnows, ReceiverAgrees, Knows, receiverVars, senderOpen
  <2>7. GoesOn => GoesOn'  BY <1>2, <2>1 DEF GoesOn, senderOpen
  <2>. QED  BY <1>4, <1>5, <2>4, <2>5, <2>6, <2>7 DEF UndisturbedInv, SenderInv, ReceiverInv
<1>8. CASE ~MustWait(isNegotiating, senderState)
  <2>1. /\ pendingPublications' = pendingPublications /\ isNegotiating' = TRUE
        /\ publications' = publications \cup {p}
        /\ transceivers' = [transceivers EXCEPT ![p] = nextMid]
        /\ sections' = sections \cup {nextMid}
        /\ tasks' = tasks \cup {Task("offer", "add", p, "queue")}
    BY <1>2, <1>8 DEF Add
  <2>2. /\ senderOpen /\ tasks = {} /\ toReceiver = <<>> /\ toSender = <<>>
        /\ pendingPublications = <<>> /\ (receiverOpen => ReceiverAgrees)
    BY <1>8, IdleSender
  <2>3. \A d : ~Has(<<>>, d)  BY DEF Has
  <2>4. /\ nextMid \in Nat /\ nextMid # NoMid /\ transceivers[p] = NoMid
        /\ \A q \in Publications : transceivers[q] < nextMid
        /\ transceivers'[p] = nextMid
        /\ \A q \in Publications : q # p => transceivers'[q] = transceivers[q]
    <3>1. nextMid \in Nat /\ nextMid # NoMid  BY <1>1 DEF SenderShape, NoMid, OtherShape
    <3>2. transceivers[p] = NoMid
      BY <1>3, <1>5, <1>6, <2>2, <2>3 DEF PendingInOrder
    <3>. QED  BY <1>1, <1>3, <2>1, <3>1, <3>2 DEF MidsMade
  <2>5. SectionsOwned'
    <3>1. \A q, r \in Publications :
            transceivers'[q] = transceivers'[r] /\ transceivers'[q] # NoMid => q = r
      <4>1. \A q \in Publications : transceivers[q] # nextMid
        BY <1>1, <2>4 DEF Mids, NoMid
      <4>. QED  BY <1>5, <2>4, <4>1 DEF SectionsOwned
    <3>2. \A mid \in sections' : \E q \in Publications : transceivers'[q] = mid
      <4>1. \A mid \in sections : \E q \in Publications : q # p /\ transceivers[q] = mid
        <5>1. NoMid \notin sections  BY <1>1 DEF SenderShape, NoMid
        <5>. QED  BY <1>5, <2>4, <5>1 DEF SectionsOwned
      <4>. QED  BY <1>3, <2>1, <2>4, <4>1
    <3>3. \A q \in Publications : transceivers'[q] # NoMid => transceivers'[q] \in sections'
      BY <1>5, <2>1, <2>4 DEF SectionsOwned
    <3>. QED  BY <3>1, <3>2, <3>3 DEF SectionsOwned
  <2>6. PendingInOrder'
    <3>1. InOrder(pendingPublications')  BY <1>5, <2>1, <2>2 DEF PendingInOrder
    <3>2. \A q \in publications : q \in Publications /\ transceivers[q] # NoMid
      BY <1>1, <1>5, <2>2 DEF PendingInOrder, SenderShape
    <3>3. \A q \in Publications \ publications : transceivers[q] = NoMid
      BY <1>5, <2>2, <2>3 DEF PendingInOrder
    <3>. QED  BY <2>1, <2>2, <2>3, <2>4, <3>1, <3>2, <3>3 DEF PendingInOrder
  <2>7. QueueLeads'
    <3>1. Wanted' = Wanted \cup {p}
      <4>1. Wanted = {q \in Publications : q \in publications}
            /\ Wanted' = {q \in Publications : q \in publications'}
        BY <2>1, <2>2, <2>3 DEF Wanted
      <4>. QED  BY <1>3, <2>1, <4>1
    <3>. QED  BY <1>6, <2>2, <3>1
  <2>8. receiverOpen => ReceiverKnows' /\ GoesOn'
    <3> DEFINE t == Task("offer", "add", p, "queue")
    <3>1. tasks' = {t} /\ t.pub = p /\ t.op = "add"  BY <2>1, <2>2 DEF Task
    <3>2. UNCHANGED <<toReceiver, toSender, publicationInfo>>  BY <1>2 DEF receiverVars
    <3> HIDE DEF t
    <3>. QED  BY <1>3, <2>2, <2>4, <3>1, <3>2, BegunNegotiation
  <2>. QED  BY <1>4, <1>5, <2>5, <2>6, <2>7, <2>8 DEF UndisturbedInv, SenderInv, ReceiverInv
<1>. QED  BY <1>7, <1>8

\* A removal that is not ignored waits for its turn or stops its transceiver.
LEMMA StopUndisturbed ==
  ASSUME NegotiationInv, UndisturbedInv, StopPublishing
  PROVE  UndisturbedInv'
<1> DEFINE p == Head(pubQueue).pub
<1>1. /\ SenderShape /\ OtherShape /\ OneAtATime /\ Stages
      /\ transceivers \in [Publications -> Mids] /\ publications \subseteq Publications
      /\ pendingPublications \in Seq(PendingCalls)
  BY Shapes DEF NegotiationInv, SenderShape
<1>2. /\ pubQueue # <<>> /\ Head(pubQueue).op = "stop" /\ pubQueue' = Tail(pubQueue)
      /\ Remove(p, isNegotiating, senderState, pendingPublications)
      /\ senderState' \in {senderState, "closed"}
      /\ UNCHANGED <<channelVars, subQueue, receiverVars, toReceiver, toSender, sendFailures>>
  BY DEF StopPublishing
<1>3. pubQueue \in Seq(Calls) /\ p \in Publications
  <2>1. pubQueue \in Seq(Calls)  BY <1>1 DEF OtherShape
  <2>2. Head(pubQueue) \in Calls  BY <1>2, <2>1, TakenFrom
  <2>. QED  BY <2>1, <2>2 DEF Calls
<1>4. /\ undisturbed' => undisturbed /\ p \in publications
      /\ senderOpen' => senderOpen
      /\ receiverOpen' = receiverOpen /\ rejected' = rejected
  <2>1. undisturbed' => undisturbed /\ p \in publications
    BY <1>2 DEF Remove, undisturbed
  <2>2. senderOpen' => senderOpen  BY <1>2 DEF senderOpen
  <2>. QED  BY <1>2, <2>1, <2>2 DEF receiverOpen, receiverVars
<1> SUFFICES ASSUME undisturbed, p \in publications PROVE UndisturbedInv'
  BY <1>4 DEF UndisturbedInv, SenderInv, ReceiverInv
<1>5. SectionsOwned /\ (senderOpen => PendingInOrder /\ QueueLeads)
      /\ ~rejected /\ (receiverOpen => ReceiverKnows /\ GoesOn)
  BY DEF UndisturbedInv, SenderInv, ReceiverInv
<1>6. publications' = publications \ {p} /\ nextMid' = nextMid /\ ignored' = ignored
  BY <1>2 DEF Remove
<1>7. ASSUME senderOpen
      PROVE  /\ transceivers[p] # NoMid
             /\ ~Has(pendingPublications, Call("add", p))
             /\ ~Has(pendingPublications, Call("remove", p))
             /\ Wanted' = Wanted \ {p} => QueueLeads'
  <2>1. PICK next \in SUBSET Publications :
          Follows(Head(pubQueue), Wanted, next) /\ Leads(Tail(pubQueue), next, subscribed)
    BY <1>2, <1>3, <1>5, <1>7, LeadsTaken DEF QueueLeads
  <2>2. next = Wanted \ {p}  BY <1>2, <2>1 DEF Follows
  <2>3. ASSUME Wanted' = Wanted \ {p} PROVE QueueLeads'
    <3>1. subscribed' = subscribed  BY <1>2 DEF channelVars
    <3>2. Leads(pubQueue', Wanted', subscribed')
      BY <1>2, <2>1, <2>2, <2>3, <3>1, Zenon
    <3>. QED  BY <3>2 DEF QueueLeads
  <2>. QED  BY <1>5, <1>7, <2>3 DEF PendingInOrder
<1>8. CASE senderState = "closed"
  <2>1. UNCHANGED <<transceivers, sections, tasks, isNegotiating, pendingPublications>>
    BY <1>2, <1>8 DEF Remove
  <2>2. ~senderOpen /\ ~senderOpen'  BY <1>2, <1>8 DEF senderOpen
  <2>3. SectionsOwned'  BY <1>5, <2>1 DEF SectionsOwned
  <2>4. ReceiverKnows => ReceiverKnows'
    BY <1>2, <2>1, <2>2 DEF ReceiverKnows, ReceiverAgrees, Knows, receiverVars
  <2>5. GoesOn'  BY <2>2 DEF GoesOn
  <2>. QED  BY <1>4, <1>5, <2>2, <2>3, <2>4, <2>5 DEF UndisturbedInv, SenderInv, ReceiverInv
<1>9. CASE senderState # "closed" /\ MustWait(isNegotiating, senderState)
  <2>1. /\ pendingPublications' = Append(pendingPublications, Call("remove", p))
        /\ UNCHANGED <<transceivers, sections, tasks, isNegotiating>>
    BY <1>2, <1>9 DEF Remove
  <2>2. senderOpen  BY <1>9 DEF senderOpen
  <2>3. /\ Call("remove", p) \in PendingCalls /\ Call("remove", p).pub = p
        /\ \A q : Call("add", q) # Call("remove", p)
        /\ \A q : Call("remove", q) = Call("remove", p) <=> q = p
    BY <1>3 DEF Call, PendingCalls
  <2>4. \A d : Has(pendingPublications', d) <=> Has(pendingPublications, d) \/ d = Call("remove", p)
    BY <1>1, <2>1, <2>3, InOrderAppended
  <2>5. SectionsOwned'  BY <1>5, <2>1 DEF SectionsOwned
  <2>6. PendingInOrder'
    <3>1. InOrder(pendingPublications')
      BY <1>1, <1>5, <1>7, <2>1, <2>2, <2>3, InOrderAppended DEF PendingInOrder
    <3>2. isNegotiating'
      BY <1>1, <1>9, <2>1, <2>2 DEF MustWait, Stages, senderOpen, OtherShape
    <3>3. \A q \in publications' :
            /\ transceivers'[q] # NoMid
            /\ ~Has(pendingPublications', Call("add", q))
            /\ ~Has(pendingPublications', Call("remove", q))
      BY <1>5, <1>6, <2>1, <2>2, <2>3, <2>4 DEF PendingInOrder
    <3>4. \A q \in Publications \ publications' :
            transceivers'[q] # NoMid <=> Has(pendingPublications', Call("remove", q))
      BY <1>5, <1>6, <1>7, <2>1, <2>2, <2>3, <2>4 DEF PendingInOrder
    <3>. QED  BY <3>1, <3>2, <3>3, <3>4 DEF PendingInOrder
  <2>7. QueueLeads'
    <3>1. Wanted' = Wanted \ {p}
      BY <1>3, <1>6, <1>7, <2>2, <2>3, <2>4 DEF Wanted
    <3>. QED  BY <1>7, <2>2, <3>1
  <2>8. ReceiverKnows => ReceiverKnows'
    BY <1>2, <2>1, <2>2 DEF ReceiverKnows, ReceiverAgrees, Knows, receiverVars
  <2>9. GoesOn => GoesOn'  BY <1>2, <2>1, <2>2 DEF GoesOn
  <2>. QED  BY <1>4, <1>5, <2>5, <2>6, <2>7, <2>8, <2>9 DEF UndisturbedInv, SenderInv, ReceiverInv
<1>10. CASE ~MustWait(isNegotiating, senderState)
  <2>1. /\ pendingPublications' = pendingPublications
        /\ transceivers' = [transceivers EXCEPT ![p] = NoMid]
        /\ sections' = sections \ {transceivers[p]}
        /\ tasks' = tasks \cup {Task("offer", "remove", p, "nobody")}
    BY <1>2, <1>10 DEF Remove, StopTransceiver, MustWait
  <2>2. /\ senderOpen /\ tasks = {} /\ toReceiver = <<>> /\ toSender = <<>>
        /\ pendingPublications = <<>> /\ (receiverOpen => ReceiverAgrees)
    BY <1>10, IdleSender
  <2>3. \A d : ~Has(<<>>, d)  BY DEF Has
  <2>4. /\ transceivers'[p] = NoMid
        /\ \A q \in Publications : q # p => transceivers'[q] = transceivers[q]
    BY <1>1, <1>3, <2>1
  <2>5. SectionsOwned'
    BY <1>3, <1>5, <2>1, <2>4 DEF SectionsOwned
  <2>6. PendingInOrder'
    <3>1. InOrder(pendingPublications')  BY <1>5, <2>1, <2>2 DEF PendingInOrder
    <3>2. \A q \in publications : q \in Publications /\ transceivers[q] # NoMid
      BY <1>1, <1>5, <2>2 DEF PendingInOrder
    <3>3. \A q \in Publications \ publications : transceivers[q] = NoMid
      BY <1>5, <2>2, <2>3 DEF PendingInOrder
    <3>. QED  BY <1>6, <2>1, <2>2, <2>3, <2>4, <3>1, <3>2, <3>3 DEF PendingInOrder
  <2>7. QueueLeads'
    <3>1. Wanted' = Wanted \ {p}
      <4>1. Wanted = {q \in Publications : q \in publications}
            /\ Wanted' = {q \in Publications : q \in publications'}
        BY <2>1, <2>2, <2>3 DEF Wanted
      <4>. QED  BY <1>6, <4>1
    <3>. QED  BY <1>7, <2>2, <3>1
  <2>8. receiverOpen => ReceiverKnows' /\ GoesOn'
    <3> DEFINE t == Task("offer", "remove", p, "nobody")
    <3>1. tasks' = {t} /\ t.pub = p /\ t.op = "remove"  BY <2>1, <2>2 DEF Task
    <3>2. UNCHANGED <<toReceiver, toSender, publicationInfo>>  BY <1>2 DEF receiverVars
    <3> HIDE DEF t
    <3>. QED  BY <1>3, <2>2, <2>4, <3>1, <3>2, BegunNegotiation
  <2>. QED  BY <1>4, <1>5, <2>5, <2>6, <2>7, <2>8 DEF UndisturbedInv, SenderInv, ReceiverInv
<1>. QED  BY <1>8, <1>9, <1>10

-----------------------------------------------------------------------------
(* Offers and answers.                                                     *)

\* The offer of the one task names the section its publication has now.
LEMMA OfferUndisturbed ==
  ASSUME NegotiationInv, UndisturbedInv, CreateOffer \/ SendOffer \/ SendOfferFails
  PROVE  UndisturbedInv'
<1>1. /\ SenderShape /\ OtherShape /\ OneAtATime /\ Stages
  BY Shapes DEF NegotiationInv
<1>2. /\ UNCHANGED <<publications, transceivers, pendingPublications, isNegotiating, sections>>
      /\ UNCHANGED <<pubQueue, subscribed, ignored, toSender>> /\ UNCHANGED receiverVars
      /\ senderState' # "closed" => senderState # "closed"
  <2>1. CASE CreateOffer  BY <2>1 DEF CreateOffer, channelVars, senderOpen
  <2>2. CASE SendOffer  BY <2>2 DEF SendOffer, channelVars
  <2>3. CASE SendOfferFails  BY <2>3 DEF SendOfferFails, channelVars
  <2>. QED  BY <2>1, <2>2, <2>3
<1>3. CASE SendOfferFails
  <2>1. ~undisturbed'
    BY <1>1, <1>3 DEF SendOfferFails, OtherShape, undisturbed
  <2>. QED  BY <2>1 DEF UndisturbedInv, SenderInv, ReceiverInv
<1>4. CASE CreateOffer \/ SendOffer
  <2>1. undisturbed' = undisturbed /\ receiverOpen' = receiverOpen /\ rejected' = rejected
        /\ (senderOpen' => senderOpen)
    <3>1. sendFailures' = sendFailures  BY <1>4 DEF CreateOffer, SendOffer
    <3>. QED  BY <1>2, <3>1 DEF undisturbed, receiverOpen, receiverVars, senderOpen
  <2>2. SenderInv'  BY <1>2, <2>1, SenderStays DEF UndisturbedInv, SenderInv
  <2>3. ASSUME undisturbed, receiverOpen, CreateOffer PROVE ReceiverKnows' /\ GoesOn'
    <3>1. ReceiverKnows /\ GoesOn  BY <2>3 DEF UndisturbedInv, ReceiverInv
    <3>2. /\ toReceiver' = toReceiver /\ toReceiver = <<>> /\ toSender = <<>> /\ tasks # {}
      BY <1>1, <2>3 DEF CreateOffer, OneAtATime
    <3>3. \A t \in tasks' : \E u \in tasks : t.op = u.op /\ t.pub = u.pub
      BY <1>1, <2>3 DEF CreateOffer, SenderShape, Tasks
    <3>4. senderOpen' => tasks' # {}
      BY <2>3 DEF CreateOffer, senderOpen
    <3>5. Len(toReceiver') = 0 /\ toSender' = <<>>  BY <1>2, <3>2
    <3>6. \A q : Knows(q)' <=> Knows(q)  BY <1>2 DEF Knows, receiverVars
    <3>7. \A t \in tasks' :
            /\ t.op = "remove" => transceivers'[t.pub] = NoMid
            /\ \A q \in Publications \ {t.pub} : Knows(q)'
      BY <1>2, <3>1, <3>3, <3>6 DEF ReceiverKnows
    <3>8. ReceiverKnows'  BY <3>4, <3>5, <3>7 DEF ReceiverKnows
    <3>9. GoesOn'  BY <3>4 DEF GoesOn
    <3>. QED  BY <3>8, <3>9
  <2>4. ASSUME undisturbed, receiverOpen, SendOffer PROVE ReceiverKnows' /\ GoesOn'
    <3>1. ReceiverKnows /\ GoesOn  BY <2>4 DEF UndisturbedInv, ReceiverInv
    <3>2. PICK t \in tasks :
            /\ toReceiver' = Append(toReceiver, [op |-> t.op, pub |-> t.pub,
                                                 mid |-> transceivers[t.pub],
                                                 sections |-> sections])
            /\ tasks' = tasks \ {t}
      BY <2>4 DEF SendOffer
    <3> DEFINE m == [op |-> t.op, pub |-> t.pub, mid |-> transceivers[t.pub], sections |-> sections]
    <3>3. tasks' = {} /\ toReceiver = <<>> /\ toSender' = <<>>
      BY <1>1, <1>2, <3>2 DEF OneAtATime
    <3>4. Len(toReceiver') = 1 /\ toReceiver'[1] = m /\ toReceiver' # <<>>  BY <3>2, <3>3
    <3>5. \A q : Knows(q)' <=> Knows(q)  BY <1>2 DEF Knows, receiverVars
    <3>6. /\ m.op = "remove" => m.mid = NoMid
          /\ m.mid = transceivers'[m.pub] /\ m.sections = sections'
          /\ \A q \in Publications \ {m.pub} : Knows(q)'
      BY <1>2, <3>1, <3>5 DEF ReceiverKnows
    <3> HIDE DEF m
    <3>7. ReceiverKnows'
      <4>1. \A i \in 1 .. Len(toReceiver') : toReceiver'[i] = m  BY <3>4
      <4>. QED  BY <3>3, <3>4, <3>6, <4>1 DEF ReceiverKnows
    <3>8. GoesOn'  BY <3>4 DEF GoesOn
    <3>. QED  BY <3>7, <3>8
  <2>. QED  BY <1>4, <2>1, <2>2, <2>3, <2>4 DEF UndisturbedInv, ReceiverInv
<1>. QED  BY <1>3, <1>4

\* The answer ends a negotiation: the next call of the pending list begins its
\* own, and a removal taken from there is always ignored.
LEMMA AnswerUndisturbed ==
  ASSUME NegotiationInv, UndisturbedInv, HandleReceiverAnswer
  PROVE  UndisturbedInv'
<1>1. /\ SenderShape /\ OtherShape /\ OneAtATime /\ Stages /\ MidsMade
      /\ transceivers \in [Publications -> Mids] /\ publications \subseteq Publications
      /\ pendingPublications \in Seq(PendingCalls)
  BY Shapes DEF NegotiationInv, SenderShape
<1>2. /\ toSender # <<>> /\ toSender' = Tail(toSender)
      /\ UNCHANGED <<channelVars, pubQueue, subQueue, receiverVars, toReceiver, sendFailures>>
  BY DEF HandleReceiverAnswer
<1>3. tasks = {} /\ toReceiver = <<>> /\ toSender' = <<>>
  <2>1. toSender \in Seq({"answer"}) /\ Len(toSender) <= 1  BY <1>1 DEF OtherShape, OneAtATime
  <2>2. Len(toSender) \in Nat /\ toSender' \in Seq({"answer"}) /\ Len(toSender') = Len(toSender) - 1
        /\ 1 \in 1..Len(toSender)
    BY <1>2, <2>1, TakenFrom
  <2>3. Len(toSender') = 0  BY <2>1, <2>2
  <2>. QED  BY <1>1, <1>2, <2>2, <2>3, EmptyOrNot DEF OneAtATime
<1>4. receiverOpen' = receiverOpen /\ rejected' = rejected /\ publicationInfo' = publicationInfo
      /\ remoteSections' = remoteSections
  BY <1>2 DEF receiverOpen, receiverVars
<1>5. CASE ~senderOpen
  <2>1. UNCHANGED senderVars  BY <1>5 DEF HandleReceiverAnswer
  <2>2. undisturbed' = undisturbed /\ ~senderOpen'
    BY <1>2, <1>5, <2>1 DEF undisturbed, senderOpen, senderVars
  <2>3. SectionsOwned => SectionsOwned'  BY <2>1 DEF SectionsOwned, senderVars
  <2>4. ReceiverKnows'
    <3>1. tasks' = {} /\ Len(toReceiver') = 0  BY <1>2, <1>3, <2>1 DEF senderVars
    <3>. QED  BY <1>3, <2>2, <3>1 DEF ReceiverKnows
  <2>5. GoesOn'  BY <2>2 DEF GoesOn
  <2>. QED  BY <1>4, <2>2, <2>3, <2>4, <2>5 DEF UndisturbedInv, SenderInv, ReceiverInv
<1>6. CASE senderOpen
  <2>1. senderState' = "stable" /\ ResolvePendingSender(pendingPublications)
    BY <1>6 DEF HandleReceiverAnswer
  <2>2. undisturbed' => undisturbed
    BY <1>2, <2>1 DEF undisturbed, ResolvePendingSender, Add, Remove
  <2>3. senderOpen'  BY <2>1 DEF senderOpen
  <2> SUFFICES ASSUME undisturbed', undisturbed PROVE UndisturbedInv'
    BY <2>2 DEF UndisturbedInv, SenderInv, ReceiverInv
  <2>4. /\ SectionsOwned /\ PendingInOrder /\ QueueLeads /\ ~rejected
        /\ receiverOpen => ReceiverAgrees
    BY <1>2, <1>6 DEF UndisturbedInv, SenderInv, ReceiverInv, ReceiverKnows
  <2>5. CASE pendingPublications = <<>>
    <3>1. /\ isNegotiating' = FALSE
          /\ UNCHANGED <<publications, transceivers, pendingPublications, sections, nextMid, tasks, ignored>>
      BY <2>1, <2>5 DEF ResolvePendingSender
    <3>2. SectionsOwned'  BY <2>4, <3>1 DEF SectionsOwned
    <3>3. PendingInOrder'  BY <2>4, <2>5, <3>1 DEF PendingInOrder
    <3>4. QueueLeads'
      <4>1. Wanted' = Wanted /\ UNCHANGED <<pubQueue, subscribed>>
        BY <1>2, <3>1 DEF Wanted, channelVars
      <4>2. Leads(pubQueue', Wanted', subscribed')
        BY <2>4, <4>1 DEF QueueLeads
      <4>. QED  BY <4>2 DEF QueueLeads
    <3>5. receiverOpen => ReceiverKnows' /\ GoesOn'
      <4>1. tasks' = {} /\ Len(toReceiver') = 0  BY <1>2, <1>3, <3>1
      <4>2. ReceiverAgrees => ReceiverAgrees'  BY <1>4, <3>1 DEF ReceiverAgrees, Knows
      <4>3. GoesOn'  BY <3>1 DEF GoesOn
      <4>. QED  BY <1>3, <2>4, <4>1, <4>2, <4>3 DEF ReceiverKnows
    <3>. QED  BY <1>4, <2>4, <3>2, <3>3, <3>4, <3>5 DEF UndisturbedInv, SenderInv, ReceiverInv
  <2>6. CASE pendingPublications # <<>>
    <3> DEFINE next == Head(pendingPublications)
               p == next.pub
               rest == Tail(pendingPublications)
    <3>1. next \in PendingCalls  BY <1>1, <2>6, TakenFrom
    <3>2. p \in Publications /\ next.op \in {"add", "remove"} /\ next = Call(next.op, p)
      BY <3>1 DEF PendingCalls, Call
    <3>3. /\ InOrder(rest) /\ Has(pendingPublications, next)
          /\ \A d : Has(rest, d) <=> Has(pendingPublications, d) /\ d # next
          /\ next.op = "add" => ~Has(pendingPublications, Call("remove", p))
      BY <1>1, <2>4, <2>6, InOrderTaken DEF PendingInOrder
    <3>4. p \notin publications
      BY <2>4, <3>2, <3>3 DEF PendingInOrder
    <3>5. next.op = "add"
      <4>1. ASSUME next.op # "add" PROVE FALSE
        <5>1. Remove(p, FALSE, "stable", rest)
          BY <2>1, <2>6, <4>1 DEF ResolvePendingSender
        <5>2. p \in ignored'  BY <3>4, <5>1 DEF Remove
        <5>. QED  BY <5>2 DEF undisturbed
      <4>. QED  BY <4>1
    <3>6. Add(p, FALSE, "stable", rest, "answer")
      BY <2>1, <2>6, <3>5 DEF ResolvePendingSender
    <3>7. /\ pendingPublications' = rest /\ isNegotiating' = TRUE
          /\ publications' = publications \cup {p}
          /\ transceivers' = [transceivers EXCEPT ![p] = nextMid]
          /\ sections' = sections \cup {nextMid}
          /\ tasks' = tasks \cup {Task("offer", "add", p, "answer")}
      BY <3>6 DEF Add, MustWait
    <3>8. /\ nextMid \in Nat /\ nextMid # NoMid /\ transceivers[p] = NoMid
          /\ \A q \in Publications : transceivers[q] # nextMid
          /\ transceivers'[p] = nextMid
          /\ \A q \in Publications : q # p => transceivers'[q] = transceivers[q]
      <4>1. nextMid \in Nat /\ nextMid # NoMid  BY <1>1 DEF SenderShape, NoMid, OtherShape
      <4>2. transceivers[p] = NoMid
        BY <2>4, <3>2, <3>3, <3>4, <3>5 DEF PendingInOrder
      <4>3. \A q \in Publications : transceivers[q] # nextMid
        BY <1>1, <4>1 DEF MidsMade, Mids, NoMid
      <4>. QED  BY <1>1, <3>2, <3>7, <4>1, <4>2, <4>3
    <3>9. SectionsOwned'
      <4>1. \A q, r \in Publications :
              transceivers'[q] = transceivers'[r] /\ transceivers'[q] # NoMid => q = r
        BY <2>4, <3>8 DEF SectionsOwned
      <4>2. \A mid \in sections' : \E q \in Publications : transceivers'[q] = mid
        <5>1. NoMid \notin sections  BY <1>1 DEF SenderShape, NoMid
        <5>2. \A mid \in sections : \E q \in Publications : q # p /\ transceivers[q] = mid
          BY <2>4, <3>8, <5>1 DEF SectionsOwned
        <5>. QED  BY <3>2, <3>7, <3>8, <5>2
      <4>3. \A q \in Publications : transceivers'[q] # NoMid => transceivers'[q] \in sections'
        BY <2>4, <3>7, <3>8 DEF SectionsOwned
      <4>. QED  BY <4>1, <4>2, <4>3 DEF SectionsOwned
    <3>10. \A q :
             /\ Has(rest, Call("remove", q)) <=> Has(pendingPublications, Call("remove", q))
             /\ Has(rest, Call("add", q)) <=> Has(pendingPublications, Call("add", q)) /\ q # p
      BY <3>2, <3>3, <3>5 DEF Call
    <3>11. PendingInOrder'
      <4>1. \A q \in publications' :
              /\ transceivers'[q] # NoMid
              /\ ~Has(rest, Call("add", q)) /\ ~Has(rest, Call("remove", q))
        BY <1>1, <2>4, <3>2, <3>3, <3>5, <3>7, <3>8, <3>10 DEF PendingInOrder
      <4>2. \A q \in Publications \ publications' :
              transceivers'[q] # NoMid <=> Has(rest, Call("remove", q))
        BY <2>4, <3>7, <3>8, <3>10 DEF PendingInOrder
      <4>. QED  BY <3>3, <3>7, <4>1, <4>2 DEF PendingInOrder
    <3>12. QueueLeads'
      <4>1. Wanted' = Wanted
        BY <3>2, <3>3, <3>5, <3>7, <3>10 DEF Wanted
      <4>2. UNCHANGED <<pubQueue, subscribed>>  BY <1>2 DEF channelVars
      <4>3. Leads(pubQueue', Wanted', subscribed')
        BY <2>4, <4>1, <4>2 DEF QueueLeads
      <4>. QED  BY <4>3 DEF QueueLeads
    <3>13. receiverOpen => ReceiverKnows' /\ GoesOn'
      <4> SUFFICES ASSUME receiverOpen PROVE ReceiverKnows' /\ GoesOn'  OBVIOUS
      <4>1. /\ Task("offer", "add", p, "answer").pub = p
            /\ Task("offer", "add", p, "answer").op = "add"
            /\ tasks' = {Task("offer", "add", p, "answer")}
        BY <1>3, <3>7 DEF Task
      <4>2. \A q \in Publications \ {p} : Knows(q)'
        BY <1>4, <2>4, <3>8 DEF ReceiverAgrees, Knows
      <4>3. Len(toReceiver') = 0 /\ toSender' = <<>>  BY <1>2, <1>3
      <4>4. ReceiverKnows'  BY <4>1, <4>2, <4>3 DEF ReceiverKnows
      <4>5. GoesOn'  BY <4>1 DEF GoesOn
      <4>. QED  BY <4>4, <4>5
    <3>. QED  BY <1>4, <2>4, <3>9, <3>11, <3>12, <3>13 DEF UndisturbedInv, SenderInv, ReceiverInv
  <2>. QED  BY <2>5, <2>6
<1>. QED  BY <1>5, <1>6

\* An offer tells the receiver of the one section it did not know.
LEMMA HandledUndisturbed ==
  ASSUME NegotiationInv, UndisturbedInv, HandleOffer
  PROVE  UndisturbedInv'
<1> DEFINE m == Head(toReceiver)
<1>1. /\ SenderShape /\ OtherShape /\ OneAtATime /\ Stages
      /\ publicationInfo \in [Publications -> Mids] /\ transceivers \in [Publications -> Mids]
  BY Shapes DEF NegotiationInv, SenderShape, OtherShape
<1>2. /\ toReceiver # <<>> /\ toReceiver' = Tail(toReceiver)
      /\ UNCHANGED <<channelVars, pubQueue, senderVars, receiverState>>
  BY DEF HandleOffer
<1>3. /\ m \in Offers /\ m = toReceiver[1] /\ 1 \in 1 .. Len(toReceiver)
      /\ toReceiver' = <<>> /\ tasks = {} /\ toSender = <<>>
  <2>1. toReceiver \in Seq(Offers) /\ Len(toReceiver) <= 1  BY <1>1 DEF OtherShape, OneAtATime
  <2>2. m \in Offers /\ toReceiver' \in Seq(Offers) /\ Len(toReceiver') = Len(toReceiver) - 1
        /\ m = toReceiver[1] /\ Len(toReceiver) \in Nat /\ 1 \in 1..Len(toReceiver)
    BY <1>2, <2>1, TakenFrom
  <2>3. Len(toReceiver') = 0  BY <2>1, <2>2
  <2>. QED  BY <1>1, <1>2, <2>2, <2>3, EmptyOrNot DEF OneAtATime
<1>4. /\ senderOpen' = senderOpen /\ receiverOpen' = receiverOpen
      /\ UNCHANGED <<publications, transceivers, pendingPublications, isNegotiating, sections>>
      /\ UNCHANGED <<pubQueue, subscribed, ignored, tasks>>
  BY <1>2 DEF senderOpen, receiverOpen, senderVars, channelVars
<1>5. CASE ~receiverOpen
  <2>1. UNCHANGED <<rejected, sendFailures>>  BY <1>5 DEF HandleOffer
  <2>2. undisturbed' = undisturbed  BY <1>4, <2>1 DEF undisturbed
  <2>. QED  BY <1>4, <1>5, <2>1, <2>2, SenderStays DEF UndisturbedInv, SenderInv, ReceiverInv
<1>6. CASE receiverOpen
  <2> DEFINE info == [publicationInfo EXCEPT ![m.pub] = m.mid]
  <2>1. m.op # "add" => HandleSenderUnproduce(m)  BY <1>6 DEF HandleOffer
  <2>2. m.op = "add" => HandleSenderProduce(m)  BY <1>6 DEF HandleOffer
  <2>3. undisturbed' => undisturbed
    <3>1. sendFailures' = sendFailures \/ sendFailures' = sendFailures + 1
      BY <2>1, <2>2 DEF HandleSenderUnproduce, HandleSenderProduce, Answer
    <3>2. sendFailures' = 0 => sendFailures = 0
      BY <1>1, <3>1, MaxSendFailuresAssumption DEF OtherShape
    <3>. QED  BY <1>4, <3>2 DEF undisturbed
  <2> SUFFICES ASSUME undisturbed', undisturbed PROVE UndisturbedInv'
    BY <2>3 DEF UndisturbedInv, SenderInv, ReceiverInv
  <2>4. SectionsOwned /\ ReceiverKnows /\ GoesOn /\ ~rejected
    BY <1>6 DEF UndisturbedInv, SenderInv, ReceiverInv
  <2>5. /\ m.op = "remove" => m.mid = NoMid
        /\ m.mid = transceivers[m.pub] /\ m.sections = sections
        /\ \A q \in Publications \ {m.pub} : Knows(q)
        /\ m.pub \in Publications /\ m.op \in {"add", "remove"}
    BY <1>3, <2>4 DEF ReceiverKnows, Offers
  <2>6. /\ \A q \in Publications : info[q] = transceivers[q]
        /\ m.op # "add" => [publicationInfo EXCEPT ![m.pub] = NoMid] = info
    BY <1>1, <2>5 DEF Knows
  <2> HIDE DEF m, info
  <2>7. ValidateRemoteOffer(m.sections, info)
    BY <2>4, <2>5, <2>6 DEF ValidateRemoteOffer, SectionsOwned
  <2>8. Answer(sections, info)
    <3>1. CASE m.op = "add"
      BY <2>2, <2>5, <2>7, <3>1 DEF HandleSenderProduce, info
    <3>2. CASE m.op # "add"
      BY <2>1, <2>5, <2>6, <3>2 DEF HandleSenderUnproduce
    <3>. QED  BY <3>1, <3>2
  <2>9. /\ publicationInfo' = info /\ remoteSections' = sections /\ rejected' = rejected
        /\ toSender' = Append(toSender, "answer")
    <3>1. sendFailures' # sendFailures + 1
      BY <1>1 DEF undisturbed, OtherShape
    <3>. QED  BY <2>8, <3>1 DEF Answer
  <2>10. toSender' # <<>>
    BY <1>3, <2>9
  <2>11. ReceiverKnows'
    <3>1. ReceiverAgrees'
      BY <1>4, <2>6, <2>9 DEF ReceiverAgrees, Knows
    <3>2. tasks' = {} /\ Len(toReceiver') = 0  BY <1>3, <1>4
    <3>. QED  BY <3>1, <3>2 DEF ReceiverKnows
  <2>12. GoesOn'  BY <2>10 DEF GoesOn
  <2>. QED
    BY <1>4, <2>4, <2>9, <2>11, <2>12, SenderStays DEF UndisturbedInv, SenderInv, ReceiverInv
<1>. QED  BY <1>5, <1>6

LEMMA SubscribingUndisturbed ==
  ASSUME UndisturbedInv, StartSubscribing \/ StartSubscribingTimesOut \/ StopSubscribing \/ UNCHANGED vars
  PROVE  UndisturbedInv'
<1>1. /\ UNCHANGED <<channelVars, pubQueue, senderVars, publicationInfo, remoteSections, rejected,
                     toReceiver, toSender, sendFailures>>
      /\ receiverState' = "closed" \/ receiverState' = receiverState
  <2>1. CASE StartSubscribing  BY <2>1 DEF StartSubscribing
  <2>2. CASE StartSubscribingTimesOut  BY <2>2 DEF StartSubscribingTimesOut, receiverVars
  <2>3. CASE StopSubscribing  BY <2>3 DEF StopSubscribing
  <2>4. CASE UNCHANGED vars  BY <2>4 DEF vars, receiverVars
  <2>. QED  BY <2>1, <2>2, <2>3, <2>4
<1>2. /\ senderOpen' = senderOpen /\ (receiverOpen' => receiverOpen) /\ undisturbed' = undisturbed
      /\ UNCHANGED <<publications, transceivers, pendingPublications, isNegotiating, sections>>
      /\ UNCHANGED <<pubQueue, subscribed>>
  BY <1>1 DEF senderOpen, receiverOpen, undisturbed, senderVars, channelVars
<1>3. SenderInv'  BY <1>2, SenderStays DEF UndisturbedInv, SenderInv
<1>4. ReceiverKnows => ReceiverKnows'
  BY <1>1, <1>2 DEF ReceiverKnows, ReceiverAgrees, Knows, senderVars
<1>5. GoesOn => GoesOn'  BY <1>1, <1>2 DEF GoesOn, senderVars
<1>. QED  BY <1>1, <1>2, <1>3, <1>4, <1>5 DEF UndisturbedInv, ReceiverInv

LEMMA UndisturbedAlways == Spec => [](NegotiationInv /\ UndisturbedInv)
<1>1. NegotiationInv /\ UndisturbedInv /\ [Next]_vars => UndisturbedInv'
  <2> SUFFICES ASSUME NegotiationInv, UndisturbedInv, [Next]_vars PROVE UndisturbedInv'  OBVIOUS
  <2>1. CASE \E p \in Publications : Subscribe(p) \/ Unsubscribe(p)  BY <2>1, ChannelUndisturbed
  <2>2. CASE StartPublishing  BY <2>2, StartUndisturbed
  <2>3. CASE StopPublishing  BY <2>3, StopUndisturbed
  <2>4. CASE CreateOffer \/ SendOffer \/ SendOfferFails  BY <2>4, OfferUndisturbed
  <2>5. CASE HandleReceiverAnswer  BY <2>5, AnswerUndisturbed
  <2>6. CASE HandleOffer  BY <2>6, HandledUndisturbed
  <2>7. CASE StartSubscribing \/ StartSubscribingTimesOut \/ StopSubscribing \/ UNCHANGED vars
    BY <2>7, SubscribingUndisturbed
  <2>. QED  BY <2>1, <2>2, <2>3, <2>4, <2>5, <2>6, <2>7 DEF Next
<1>. QED  BY <1>1, UndisturbedInit, NegotiationAlways, PTL DEF Spec

\* _validateRemoteOffer never fails: while nothing disturbs the negotiation,
\* the receiver knows the publication of every active section of an offer.
THEOREM OffersAlwaysAccepted == Spec => []OffersAreAccepted
<1>1. UndisturbedInv => OffersAreAccepted
  BY DEF UndisturbedInv, ReceiverInv, OffersAreAccepted
<1>. QED  BY <1>1, UndisturbedAlways, PTL

\* Once everything asked for has been negotiated, the sender publishes what the
\* channel has subscribed, and both ends hold the same section for each.
THEOREM EndsAlwaysAgree == Spec => []EndsAgreeWhenQuiet
<1>1. NegotiationInv /\ UndisturbedInv => EndsAgreeWhenQuiet
  <2> SUFFICES ASSUME NegotiationInv, UndisturbedInv,
                      undisturbed, nothingUnderWay, senderOpen, receiverOpen
               PROVE  /\ publications = subscribed
                      /\ sections = {transceivers[p] : p \in publications}
                      /\ ReceiverAgrees
    BY DEF EndsAgreeWhenQuiet, ReceiverAgrees, Knows
  <2>1. SectionsOwned /\ PendingInOrder /\ QueueLeads /\ ReceiverKnows /\ GoesOn
    BY DEF UndisturbedInv, SenderInv, ReceiverInv
  <2>2. SenderShape /\ publications \subseteq Publications
    BY Shapes DEF NegotiationInv, SenderShape
  <2>3. pubQueue = <<>> /\ tasks = {} /\ toReceiver = <<>> /\ toSender = <<>>
    BY DEF nothingUnderWay
  <2>4. pendingPublications = <<>> /\ ReceiverAgrees
    BY <2>1, <2>3 DEF GoesOn, PendingInOrder, ReceiverKnows
  <2>5. \A d : ~Has(pendingPublications, d)  BY <2>4 DEF Has
  <2>6. publications = subscribed
    <3>1. Wanted = subscribed
      BY <2>1, <2>3 DEF QueueLeads, Leads
    <3>2. Wanted = publications  BY <2>2, <2>5 DEF Wanted
    <3>. QED  BY <3>1, <3>2
  <2>7. sections = {transceivers[p] : p \in publications}
    <3>1. \A p \in Publications : transceivers[p] # NoMid <=> p \in publications
      BY <2>1, <2>5 DEF PendingInOrder
    <3>2. NoMid \notin sections  BY <2>2 DEF SenderShape, NoMid
    <3>. QED  BY <2>1, <2>2, <3>1, <3>2 DEF SectionsOwned
  <2>. QED  BY <2>4, <2>6, <2>7
<1>. QED  BY <1>1, UndisturbedAlways, PTL

-----------------------------------------------------------------------------
(* PersonConnection: the types of every run.                               *)

\* What is known of every run, disturbed or not: the types; every connection
\* was made for an event of the channel; and what MessageBuffer kept has been
\* handed over once there is a connection.
ConnectionsCounted == \A p \in Persons : made[p] + Cardinality(waiting[p]) <= at[p]
HandedOver ==
  \A p \in Persons : (conn[p] # 0 => excluded[p]) /\ (excluded[p] => buffer[p] = <<>>)
PersonsTypeInv == PersonsTypeOK /\ ConnectionsCounted /\ HandedOver

LEMMA TwoPersons ==
  ASSUME NEW p \in Persons
  PROVE  /\ Other(p) \in Persons /\ Other(p) # p /\ Other(Other(p)) = p
         /\ Persons = {p, Other(p)}
<1>1. PICK a \in Persons, b \in Persons : a # b /\ Persons = {a, b}
  BY PersonsAssumption
<1>2. \A x \in Persons : Other(x) \in Persons /\ Other(x) # x
  BY <1>1 DEF Other
<1> QED
  BY <1>1, <1>2

LEMMA WaitingFinite ==
  ASSUME PersonsTypeOK, NEW p \in Persons
  PROVE  IsFiniteSet(waiting[p]) /\ Cardinality(waiting[p]) \in Nat
<1>1. Len(events) \in Nat
  BY DEF PersonsTypeOK
<1>2. waiting[p] \in SUBSET (1 .. Len(events))
  BY DEF PersonsTypeOK, Events
<1>3. IsFiniteSet(1 .. Len(events))
  BY <1>1, FS_Interval
<1> QED
  BY <1>2, <1>3, FS_Subset, FS_CardinalityType

LEMMA FirstWaiting ==
  ASSUME NEW S \in SUBSET Nat, S # {}
  PROVE  Min(S) \in S
<1>1. PICK x \in S : \A y \in S : <<y, x>> \notin OpToRel(<, Nat)
  <2>. HIDE DEF OpToRel
  <2> QED BY NatLessThanWellFounded, WFMin
<1>2. ASSUME NEW y \in S, y < x PROVE FALSE
  <2>1. <<y, x>> \in Nat \X Nat
    OBVIOUS
  <2>2. <<y, x>>[1] < <<y, x>>[2]
    BY <1>2
  <2>3. <<y, x>> \in OpToRel(<, Nat)
    BY <2>1, <2>2, Zenon DEF OpToRel
  <2> QED
    BY <1>1, <2>3
<1>3. x \in S /\ \A y \in S : x <= y
  BY <1>2
<1> QED
  BY <1>3 DEF Min

LEMMA PersonsInitTypes == PersonsInit => PersonsTypeInv
<1> SUFFICES ASSUME PersonsInit PROVE PersonsTypeInv
  OBVIOUS
<1>1. Cardinality({}) = 0
  BY FS_EmptySet
<1>2. events \in Seq([kind : Kinds, of : Persons]) /\ Len(events) = 0 /\ Events = {}
  BY EmptySeq DEF PersonsInit, Events
<1>3. 0 \in 0 .. MaxEvents /\ 0 \in 0 .. Len(events) /\ Len(events) <= MaxEvents
  BY <1>2, MaxEventsAssumption
<1>4. /\ jobs \in [Persons -> Seq(Jobs)]
      /\ wire \in [Persons -> Seq(Messages)] /\ buffer \in [Persons -> Seq(Messages)]
  BY EmptySeq DEF PersonsInit
<1>5. /\ ready \in [Persons -> BOOLEAN] /\ excluded \in [Persons -> BOOLEAN]
      /\ publishing \in [Persons -> BOOLEAN] /\ stream \in [Persons -> BOOLEAN]
      /\ crossed \in BOOLEAN
  BY DEF PersonsInit
<1>6. PersonsTypeOK
  BY <1>2, <1>3, <1>4, <1>5 DEF PersonsInit, PersonsTypeOK
<1>7. ConnectionsCounted /\ HandedOver
  BY <1>1 DEF PersonsInit, ConnectionsCounted, HandedOver
<1> QED
  BY <1>6, <1>7 DEF PersonsTypeInv

JobKinds == {"startPublishing", "stopPublishing", "startSubscribing", "stopSubscribing"}

LEMMA EventsStay ==
  ASSUME events' = events
  PROVE  Events' = Events /\ Jobs' = Jobs /\ Messages' = Messages
  BY DEF Events, Jobs, Messages

\* A call is appended to the queue, of a new connection if there is none.
LEMMA CallTypes ==
  ASSUME PersonsTypeInv, NEW p \in Persons, NEW kind \in JobKinds, NEW n \in Events,
         made[p] < MaxEvents, CallConnection(p, kind, n)
  PROVE  /\ jobs' \in [Persons -> Seq(Jobs)]
         /\ jobs' = [jobs EXCEPT ![p] = Append(@, [kind |-> kind, n |-> n])]
         /\ made' \in [Persons -> 0 .. MaxEvents] /\ conn' \in [Persons -> 0 .. MaxEvents]
         /\ made'[p] <= made[p] + 1 /\ \A q \in Persons \ {p} : made'[q] = made[q]
         /\ \A q \in Persons : conn'[q] \in {0, made'[q]} /\ (jobs'[q] # <<>> => conn'[q] # 0)
         /\ publishing' \in [Persons -> BOOLEAN] /\ stream' \in [Persons -> BOOLEAN]
         /\ peer' \in [Persons -> 0 .. MaxEvents]
         /\ wire' \in [Persons -> Seq(Messages)] /\ buffer' \in [Persons -> Seq(Messages)]
         /\ excluded' \in [Persons -> BOOLEAN]
         /\ HandedOver'
<1> DEFINE job == [kind |-> kind, n |-> n]
<1>0. job \in Jobs
  BY DEF Jobs, JobKinds
<1>1. Append(jobs[p], job) \in Seq(Jobs)
  BY <1>0, AppendProperties DEF PersonsTypeInv, PersonsTypeOK
<1>2. CASE conn[p] # 0
  <2>1. /\ jobs' = [jobs EXCEPT ![p] = Append(jobs[p], job)]
        /\ UNCHANGED <<conn, made, publishing, stream, peer, wire, buffer, excluded>>
    BY <1>2 DEF CallConnection, EnqueueJob, messages
  <2>2. jobs' \in [Persons -> Seq(Jobs)] /\ \A q \in Persons \ {p} : jobs'[q] = jobs[q]
    BY <2>1, <1>1 DEF PersonsTypeInv, PersonsTypeOK
  <2>3. HandedOver'
    BY <2>1 DEF HandedOver, PersonsTypeInv
  <2>4. \A q \in Persons : conn'[q] \in {0, made'[q]} /\ (jobs'[q] # <<>> => conn'[q] # 0)
    BY <2>1, <2>2, <1>2 DEF PersonsTypeInv, PersonsTypeOK
  <2>5. made'[p] <= made[p] + 1 /\ \A q \in Persons \ {p} : made'[q] = made[q]
    BY <2>1 DEF PersonsTypeInv, PersonsTypeOK
  <2>6. jobs' = [jobs EXCEPT ![p] = Append(@, [kind |-> kind, n |-> n])]
    BY <2>1
  <2>7. /\ made' \in [Persons -> 0 .. MaxEvents] /\ conn' \in [Persons -> 0 .. MaxEvents]
        /\ peer' \in [Persons -> 0 .. MaxEvents]
        /\ wire' \in [Persons -> Seq(Messages)] /\ buffer' \in [Persons -> Seq(Messages)]
        /\ publishing' \in [Persons -> BOOLEAN] /\ stream' \in [Persons -> BOOLEAN]
        /\ excluded' \in [Persons -> BOOLEAN]
    BY <2>1 DEF PersonsTypeInv, PersonsTypeOK
  <2> QED
    BY <2>2, <2>3, <2>4, <2>5, <2>6, <2>7
<1>3. CASE conn[p] = 0
  <2>1. /\ made' = [made EXCEPT ![p] = made[p] + 1]
        /\ conn' = [conn EXCEPT ![p] = made[p] + 1]
        /\ jobs' = [jobs EXCEPT ![p] = <<job>>]
        /\ publishing' = [publishing EXCEPT ![p] = FALSE]
        /\ stream' = [stream EXCEPT ![p] = FALSE]
        /\ peer' = [peer EXCEPT ![p] = 0]
        /\ wire' = [wire EXCEPT ![p] = buffer[p] \o wire[p]]
        /\ buffer' = [buffer EXCEPT ![p] = <<>>]
        /\ excluded' = [excluded EXCEPT ![p] = TRUE]
    BY <1>3 DEF CallConnection, ResolveMessagingBuffer
  <2>2. jobs[p] = <<>>
    BY <1>3 DEF PersonsTypeInv, PersonsTypeOK
  <2>3. Append(jobs[p], job) = <<job>>
    BY <2>2
  <2>4. jobs' = [jobs EXCEPT ![p] = Append(jobs[p], job)]
    BY <2>1, <2>3
  <2>5. jobs' \in [Persons -> Seq(Jobs)] /\ \A q \in Persons \ {p} : jobs'[q] = jobs[q]
    BY <2>4, <1>1 DEF PersonsTypeInv, PersonsTypeOK
  <2>6. made[p] + 1 \in 1 .. MaxEvents
    BY MaxEventsAssumption DEF PersonsTypeInv, PersonsTypeOK
  <2>7. /\ made' \in [Persons -> 0 .. MaxEvents] /\ conn' \in [Persons -> 0 .. MaxEvents]
        /\ made'[p] = made[p] + 1 /\ conn'[p] = made[p] + 1
        /\ \A q \in Persons \ {p} : made'[q] = made[q] /\ conn'[q] = conn[q]
    BY <2>1, <2>6 DEF PersonsTypeInv, PersonsTypeOK
  <2>8. \A q \in Persons : conn'[q] \in {0, made'[q]} /\ (jobs'[q] # <<>> => conn'[q] # 0)
    <3>1. conn'[p] = made'[p] /\ conn'[p] # 0
      BY <2>6, <2>7
    <3>2. \A q \in Persons : conn[q] \in {0, made[q]} /\ (jobs[q] # <<>> => conn[q] # 0)
      BY DEF PersonsTypeInv, PersonsTypeOK
    <3> QED
      BY <2>5, <2>7, <3>1, <3>2
  <2>9. buffer[p] \o wire[p] \in Seq(Messages) /\ <<>> \in Seq(Messages)
    BY ConcatProperties DEF PersonsTypeInv, PersonsTypeOK
  <2>10. wire' \in [Persons -> Seq(Messages)] /\ buffer' \in [Persons -> Seq(Messages)]
    BY <2>1, <2>9 DEF PersonsTypeInv, PersonsTypeOK
  <2>11. /\ publishing' \in [Persons -> BOOLEAN] /\ stream' \in [Persons -> BOOLEAN]
         /\ excluded' \in [Persons -> BOOLEAN]
    BY <2>1 DEF PersonsTypeInv, PersonsTypeOK
  <2>12. peer' \in [Persons -> 0 .. MaxEvents]
    BY <2>1, MaxEventsAssumption DEF PersonsTypeInv, PersonsTypeOK
  <2>13. HandedOver'
    BY <2>1, <2>7 DEF HandedOver, PersonsTypeInv, PersonsTypeOK
  <2>14. jobs' = [jobs EXCEPT ![p] = Append(@, [kind |-> kind, n |-> n])]
    BY <2>4
  <2>15. made'[p] <= made[p] + 1 /\ \A q \in Persons \ {p} : made'[q] = made[q]
    BY <2>7 DEF PersonsTypeInv, PersonsTypeOK
  <2> QED
    BY <2>5, <2>6, <2>7, <2>8, <2>10, <2>11, <2>12, <2>13, <2>14, <2>15
<1> QED
  BY <1>2, <1>3


\* A connection that is closed, and one that is kept with the rest of its queue.
LEMMA CloseTypes ==
  ASSUME PersonsTypeOK, NEW p \in Persons, NEW rest \in Seq(Jobs),
         \/ CloseWith(p, rest)
         \/ conn[p] # 0 /\ CloseIfNeeded(p, rest)
  PROVE  /\ conn' \in [Persons -> 0 .. MaxEvents] /\ made' = made
         /\ jobs' \in [Persons -> Seq(Jobs)]
         /\ \A q \in Persons : conn'[q] \in {0, made'[q]} /\ (jobs'[q] # <<>> => conn'[q] # 0)
         /\ \A q \in Persons : conn'[q] # 0 => conn[q] # 0
         /\ stranded' \subseteq Events /\ failed' \subseteq Events
<1>0. /\ conn \in [Persons -> 0 .. MaxEvents] /\ jobs \in [Persons -> Seq(Jobs)]
      /\ \A q \in Persons : conn[q] \in {0, made[q]} /\ (jobs[q] # <<>> => conn[q] # 0)
      /\ stranded \subseteq Events /\ failed \subseteq Events /\ 0 \in 0 .. MaxEvents
  BY MaxEventsAssumption DEF PersonsTypeOK
<1>1. CASE CloseWith(p, rest)
  <2> DEFINE starts == {rest[i].n : i \in {j \in DOMAIN rest :
                          rest[j].kind \in {"startSubscribing", "startPublishing"}}}
             mine == {rest[i].n : i \in {j \in DOMAIN rest : rest[j].kind = "startSubscribing"}}
  <2>1. \A i \in DOMAIN rest : rest[i] \in Jobs
    BY ElementOfSeq, LenProperties
  <2>2. starts \subseteq Events /\ mine \subseteq Events
    BY <2>1 DEF Jobs
  <2>3. stranded' = stranded \cup starts /\ failed' = failed \cup mine
    BY <1>1 DEF CloseWith
  <2>4. conn' = [conn EXCEPT ![p] = 0] /\ jobs' = [jobs EXCEPT ![p] = <<>>] /\ made' = made
    BY <1>1 DEF CloseWith
  <2> HIDE DEF starts, mine
  <2>5. conn' \in [Persons -> 0 .. MaxEvents] /\ jobs' \in [Persons -> Seq(Jobs)]
    BY <1>0, <2>4, EmptySeq
  <2>6. /\ conn'[p] = 0 /\ jobs'[p] = <<>>
        /\ \A q \in Persons \ {p} : conn'[q] = conn[q] /\ jobs'[q] = jobs[q]
    BY <1>0, <2>4
  <2> QED
    BY <1>0, <2>2, <2>3, <2>4, <2>5, <2>6
<1>2. CASE conn[p] # 0 /\ jobs' = [jobs EXCEPT ![p] = rest]
           /\ UNCHANGED <<conn, made, stranded, failed>>
  <2>1. jobs' \in [Persons -> Seq(Jobs)] /\ \A q \in Persons \ {p} : jobs'[q] = jobs[q]
    BY <1>0, <1>2
  <2> QED
    BY <1>0, <1>2, <2>1
<1> QED
  BY <1>1, <1>2 DEF CloseIfNeeded

\* The queue runs its head.
LEMMA HeadTypes ==
  ASSUME PersonsTypeOK, NEW p \in Persons, jobs[p] # <<>>
  PROVE  /\ head(p) \in Jobs /\ Tail(jobs[p]) \in Seq(Jobs) /\ conn[p] # 0
         /\ [jobs EXCEPT ![p] = Tail(jobs[p])] \in [Persons -> Seq(Jobs)]
         /\ \A q \in Persons : [jobs EXCEPT ![p] = Tail(jobs[p])][q] # <<>> => conn[q] # 0
<1>1. jobs \in [Persons -> Seq(Jobs)] /\ \A q \in Persons : jobs[q] # <<>> => conn[q] # 0
  BY DEF PersonsTypeOK
<1>2. Head(jobs[p]) \in Jobs /\ Tail(jobs[p]) \in Seq(Jobs)
  BY <1>1, HeadTailProperties
<1> QED
  BY <1>1, <1>2 DEF head

LEMMA SendTypes ==
  ASSUME PersonsTypeOK, NEW p \in Persons, NEW kind \in {"produce", "unproduce"},
         NEW n \in Events, conn[p] # 0, Send(p, kind, n)
  PROVE  /\ wire' \in [Persons -> Seq(Messages)]
         /\ wire'[Other(p)] = Append(wire[Other(p)], [kind |-> kind, n |-> n, from |-> conn[p]])
         /\ wire'[p] = wire[p]
<1> DEFINE msg == [kind |-> kind, n |-> n, from |-> conn[p]]
<1>1. wire \in [Persons -> Seq(Messages)] /\ conn[p] \in 1 .. MaxEvents
  BY MaxEventsAssumption DEF PersonsTypeOK
<1>2. msg \in Messages
  BY <1>1 DEF Messages
<1>3. Other(p) \in Persons /\ Other(p) # p
  BY TwoPersons
<1>4. Append(wire[Other(p)], msg) \in Seq(Messages)
  BY <1>1, <1>2, <1>3, AppendProperties
<1>5. wire' = [wire EXCEPT ![Other(p)] = Append(wire[Other(p)], msg)]
  BY DEF Send
<1> HIDE DEF msg
<1>6. /\ wire' \in [Persons -> Seq(Messages)]
      /\ wire'[Other(p)] = Append(wire[Other(p)], msg) /\ wire'[p] = wire[p]
  BY <1>1, <1>3, <1>4, <1>5
<1> QED
  BY <1>6 DEF msg

\* The three conjuncts of the invariant that a step of a queue may disturb.
LEMMA StepKeepsTypes ==
  ASSUME PersonsTypeInv, events' = events, at' = at, ready' = ready, waiting' = waiting,
         made' = made, conn' \in [Persons -> 0 .. MaxEvents],
         jobs' \in [Persons -> Seq(Jobs)],
         \A q \in Persons : conn'[q] \in {0, made'[q]} /\ (jobs'[q] # <<>> => conn'[q] # 0),
         \A q \in Persons : conn'[q] # 0 => conn[q] # 0,
         publishing' \in [Persons -> BOOLEAN], stream' \in [Persons -> BOOLEAN],
         peer' \in [Persons -> 0 .. MaxEvents],
         wire' \in [Persons -> Seq(Messages)], buffer' = buffer, excluded' = excluded,
         late' = late, (served' \cup failed' \cup missed' \cup stranded') \subseteq Events,
         crossed' \in BOOLEAN
  PROVE  PersonsTypeInv'
<1>1. PersonsTypeOK'
  BY EventsStay DEF PersonsTypeInv, PersonsTypeOK
<1>2. ConnectionsCounted'
  BY DEF PersonsTypeInv, ConnectionsCounted
<1>3. HandedOver'
  BY DEF PersonsTypeInv, HandedOver
<1> QED
  BY <1>1, <1>2, <1>3 DEF PersonsTypeInv

LEMMA QueueTypes ==
  ASSUME PersonsTypeInv, NEW p \in Persons,
         \/ RunStartPublishing(p) \/ RunStopPublishing(p)
         \/ RunStartSubscribing(p) \/ WaitTimesOut(p) \/ RunStopSubscribing(p)
  PROVE  PersonsTypeInv'
<1>0. PersonsTypeOK
  BY DEF PersonsTypeInv
<1>1. /\ conn \in [Persons -> 0 .. MaxEvents]
      /\ \A q \in Persons : conn[q] \in {0, made[q]}
      /\ publishing \in [Persons -> BOOLEAN] /\ stream \in [Persons -> BOOLEAN]
      /\ peer \in [Persons -> 0 .. MaxEvents] /\ wire \in [Persons -> Seq(Messages)]
      /\ (served \cup failed \cup missed \cup stranded) \subseteq Events
      /\ crossed \in BOOLEAN
  BY <1>0 DEF PersonsTypeOK
<1>2. jobs[p] # <<>>
  BY DEF RunStartPublishing, RunStopPublishing, RunStartSubscribing, WaitTimesOut,
         RunStopSubscribing, runs
<1>3. /\ head(p).n \in Events /\ Tail(jobs[p]) \in Seq(Jobs) /\ conn[p] # 0
      /\ [jobs EXCEPT ![p] = Tail(jobs[p])] \in [Persons -> Seq(Jobs)]
      /\ \A q \in Persons : [jobs EXCEPT ![p] = Tail(jobs[p])][q] # <<>> => conn[q] # 0
  BY <1>0, <1>2, HeadTypes DEF Jobs
<1>4. CASE RunStartPublishing(p)
  <2>1. jobs' = [jobs EXCEPT ![p] = Tail(jobs[p])] /\ Send(p, "produce", head(p).n)
    BY <1>4 DEF RunStartPublishing
  <2>2. wire' \in [Persons -> Seq(Messages)]
    BY <2>1, <1>0, <1>3, SendTypes
  <2>3. publishing' \in [Persons -> BOOLEAN]
    BY <1>1, <1>4 DEF RunStartPublishing
  <2> QED
    BY <1>1, <1>3, <1>4, <2>1, <2>2, <2>3, StepKeepsTypes DEF RunStartPublishing, history
<1>5. CASE RunStopPublishing(p)
  <2>1. publishing' = [publishing EXCEPT ![p] = FALSE] /\ CloseIfNeeded(p, Tail(jobs[p]))
    BY <1>5 DEF RunStopPublishing
  <2>2. wire' \in [Persons -> Seq(Messages)]
    <3>1. CASE publishing[p] /\ stream[p]
      BY <1>0, <1>3, <1>5, <3>1, SendTypes DEF RunStopPublishing
    <3> QED
      BY <1>1, <1>5, <3>1 DEF RunStopPublishing
  <2>3. publishing' \in [Persons -> BOOLEAN]
    BY <1>1, <2>1
  <2>4. /\ conn' \in [Persons -> 0 .. MaxEvents] /\ made' = made
        /\ jobs' \in [Persons -> Seq(Jobs)]
        /\ \A q \in Persons : conn'[q] \in {0, made'[q]} /\ (jobs'[q] # <<>> => conn'[q] # 0)
        /\ \A q \in Persons : conn'[q] # 0 => conn[q] # 0
        /\ stranded' \subseteq Events /\ failed' \subseteq Events
    BY <1>0, <1>3, <2>1, CloseTypes
  <2>5. UNCHANGED <<events, at, ready, waiting, stream, peer, buffer, excluded, served,
                    late, missed, crossed>>
    BY <1>5 DEF RunStopPublishing
  <2> QED
    BY <1>1, <2>2, <2>3, <2>4, <2>5, StepKeepsTypes
<1>6. CASE RunStartSubscribing(p) \/ WaitTimesOut(p)
  <2>1. jobs' = [jobs EXCEPT ![p] = Tail(jobs[p])]
    BY <1>6 DEF RunStartSubscribing, WaitTimesOut
  <2>2. UNCHANGED <<events, at, ready, waiting, conn, made, publishing, stream, peer,
                    wire, buffer, excluded, late, missed, stranded, crossed>>
    BY <1>6 DEF RunStartSubscribing, WaitTimesOut, messages, history
  <2>3. (served' \cup failed') \subseteq Events
    BY <1>1, <1>3, <1>6 DEF RunStartSubscribing, WaitTimesOut
  <2> QED
    BY <1>1, <1>3, <2>1, <2>2, <2>3, StepKeepsTypes
<1>7. CASE RunStopSubscribing(p)
  <2>1. stream' = [stream EXCEPT ![p] = FALSE] /\ CloseIfNeeded(p, Tail(jobs[p]))
    BY <1>7 DEF RunStopSubscribing
  <2>2. stream' \in [Persons -> BOOLEAN]
    BY <1>1, <2>1
  <2>3. /\ conn' \in [Persons -> 0 .. MaxEvents] /\ made' = made
        /\ jobs' \in [Persons -> Seq(Jobs)]
        /\ \A q \in Persons : conn'[q] \in {0, made'[q]} /\ (jobs'[q] # <<>> => conn'[q] # 0)
        /\ \A q \in Persons : conn'[q] # 0 => conn[q] # 0
        /\ stranded' \subseteq Events /\ failed' \subseteq Events
    BY <1>0, <1>3, <2>1, CloseTypes
  <2>4. UNCHANGED <<events, at, ready, waiting, publishing, peer, wire, buffer, excluded,
                    served, late, missed, crossed>>
    BY <1>7 DEF RunStopSubscribing, messages
  <2> QED
    BY <1>1, <2>2, <2>3, <2>4, StepKeepsTypes
<1> QED
  BY <1>4, <1>5, <1>6, <1>7


LEMMA HappensTypes ==
  ASSUME PersonsTypeInv, NEW kind \in Kinds, NEW a \in Persons, Happens(kind, a)
  PROVE  PersonsTypeInv'
<1> DEFINE event == [kind |-> kind, of |-> a]
<1>1. /\ events \in Seq([kind : Kinds, of : Persons]) /\ events' = Append(events, event)
      /\ event \in [kind : Kinds, of : Persons]
  BY DEF Happens, PersonsTypeInv, PersonsTypeOK
<1> HIDE DEF event
<1>2. events' \in Seq([kind : Kinds, of : Persons]) /\ Len(events') = Len(events) + 1
  BY <1>1, AppendProperties
<1>3. Len(events) \in Nat /\ Len(events') <= MaxEvents
  BY <1>1, <1>2, MaxEventsAssumption, LenProperties DEF Happens
<1>4. Events \subseteq Events' /\ 0 .. Len(events) \subseteq 0 .. Len(events')
  BY <1>2, <1>3 DEF Events
<1>5. Jobs \subseteq Jobs' /\ Messages \subseteq Messages'
  BY <1>4 DEF Jobs, Messages
<1>6. /\ \A s \in Seq(Jobs) : s \in Seq(Jobs')
      /\ \A s \in Seq(Messages) : s \in Seq(Messages')
  BY <1>5, SeqMonotonic
<1>7. UNCHANGED <<at, ready, waiting, conn, made, jobs, publishing, stream, peer, wire, buffer,
                  excluded, served, failed, late, missed, stranded, crossed>>
  BY DEF Happens, connection, messages, history
<1>8. /\ jobs \in [Persons -> Seq(Jobs)] /\ waiting \in [Persons -> SUBSET Events]
      /\ wire \in [Persons -> Seq(Messages)] /\ buffer \in [Persons -> Seq(Messages)]
      /\ at \in [Persons -> 0 .. Len(events)]
      /\ (served \cup failed \cup missed \cup stranded) \subseteq Events
  BY DEF PersonsTypeInv, PersonsTypeOK
<1>9. /\ jobs' \in [Persons -> Seq(Jobs')]
      /\ wire' \in [Persons -> Seq(Messages')] /\ buffer' \in [Persons -> Seq(Messages')]
  BY <1>6, <1>7, <1>8
<1>10. /\ waiting' \in [Persons -> SUBSET Events'] /\ at' \in [Persons -> 0 .. Len(events')]
       /\ (served' \cup failed' \cup missed' \cup stranded') \subseteq Events'
  BY <1>4, <1>7, <1>8
<1>11. PersonsTypeOK'
  BY <1>2, <1>3, <1>7, <1>9, <1>10 DEF PersonsTypeInv, PersonsTypeOK
<1> QED
  BY <1>7, <1>11 DEF PersonsTypeInv, ConnectionsCounted, HandedOver

\* A person that handles an event, or a call that waited, asks for a connection.
LEMMA EventSubscribedTypes ==
  ASSUME PersonsTypeInv, NEW p \in Persons, NEW n \in 1 .. MaxEvents, EventSubscribed(p, n)
  PROVE  PersonsTypeInv'
<1>0. /\ at \in [Persons -> 0 .. Len(events)] /\ Len(events) \in Nat /\ Len(events) <= MaxEvents
      /\ waiting \in [Persons -> SUBSET Events] /\ late \subseteq Persons
      /\ made \in [Persons -> 0 .. MaxEvents]
      /\ (served \cup failed \cup missed \cup stranded) \subseteq Events
  BY LenProperties DEF PersonsTypeInv, PersonsTypeOK
<1>1. n = at[p] + 1 /\ n \in Events /\ at' = [at EXCEPT ![p] = n]
  BY <1>0 DEF EventSubscribed, Handles, Events
<1>2. UNCHANGED <<events, ready, served, failed, missed, stranded, crossed>>
  BY DEF EventSubscribed
<1>3. at' \in [Persons -> 0 .. Len(events)] /\ at'[p] = at[p] + 1
      /\ \A q \in Persons \ {p} : at'[q] = at[q]
  BY <1>0, <1>1 DEF Events
<1>4. \A q \in Persons : IsFiniteSet(waiting[q]) /\ Cardinality(waiting[q]) \in Nat
  BY WaitingFinite DEF PersonsTypeInv
<1>5. \A q \in Persons : made[q] + Cardinality(waiting[q]) <= at[q]
  BY DEF PersonsTypeInv, ConnectionsCounted
<1>6. CASE /\ UNCHANGED <<waiting, late>>
           /\ \E kind \in {"startPublishing", "startSubscribing"} : CallConnection(p, kind, n)
  <2>1. PICK kind \in {"startPublishing", "startSubscribing"} : CallConnection(p, kind, n)
    BY <1>6
  <2>2. made[p] < MaxEvents /\ kind \in JobKinds
    BY MaxEventsAssumption, <1>0, <1>1, <1>4, <1>5 DEF Events, JobKinds
  <2>3. /\ jobs' \in [Persons -> Seq(Jobs)]
        /\ made' \in [Persons -> 0 .. MaxEvents] /\ conn' \in [Persons -> 0 .. MaxEvents]
        /\ made'[p] <= made[p] + 1 /\ \A q \in Persons \ {p} : made'[q] = made[q]
        /\ \A q \in Persons : conn'[q] \in {0, made'[q]} /\ (jobs'[q] # <<>> => conn'[q] # 0)
        /\ publishing' \in [Persons -> BOOLEAN] /\ stream' \in [Persons -> BOOLEAN]
        /\ peer' \in [Persons -> 0 .. MaxEvents]
        /\ wire' \in [Persons -> Seq(Messages)] /\ buffer' \in [Persons -> Seq(Messages)]
        /\ excluded' \in [Persons -> BOOLEAN]
        /\ HandedOver'
    BY <1>1, <2>1, <2>2, CallTypes
  <2>4. PersonsTypeOK'
    BY <1>2, <1>3, <1>6, <2>3, EventsStay DEF PersonsTypeInv, PersonsTypeOK
  <2>5. ConnectionsCounted'
    <3>1. made'[p] + Cardinality(waiting'[p]) <= at'[p]
      <4>1. /\ made[p] \in Nat /\ made'[p] \in Nat /\ at[p] \in Nat /\ Cardinality(waiting[p]) \in Nat
            /\ made[p] + Cardinality(waiting[p]) <= at[p]
        BY MaxEventsAssumption, <1>0, <1>4, <1>5, <2>3
      <4>2. /\ waiting'[p] = waiting[p] /\ at'[p] = at[p] + 1 /\ made'[p] <= made[p] + 1
        BY <1>3, <1>6, <2>3
      <4> QED
        BY <4>1, <4>2
    <3>2. \A q \in Persons \ {p} : made'[q] + Cardinality(waiting'[q]) <= at'[q]
      BY <1>3, <1>5, <1>6, <2>3
    <3> QED
      BY <3>1, <3>2 DEF ConnectionsCounted
  <2> QED
    BY <2>3, <2>4, <2>5 DEF PersonsTypeInv
<1>7. CASE /\ waiting' = [waiting EXCEPT ![p] = @ \cup {n}] /\ late' = late \cup {p}
           /\ UNCHANGED <<connection, messages>>
  <2>1. waiting' \in [Persons -> SUBSET Events] /\ late' \subseteq Persons
    BY <1>0, <1>1, <1>7
  <2>2. /\ waiting'[p] = waiting[p] \cup {n}
        /\ \A q \in Persons \ {p} : waiting'[q] = waiting[q]
    BY <1>0, <1>7
  <2>3. Cardinality(waiting'[p]) \in Nat /\ Cardinality(waiting'[p]) <= Cardinality(waiting[p]) + 1
    BY <1>4, <2>2, FS_AddElement
  <2>4. UNCHANGED <<conn, made, jobs, publishing, stream, peer, wire, buffer, excluded>>
    BY <1>7 DEF connection, messages
  <2>5. PersonsTypeOK'
    BY <1>2, <1>3, <2>1, <2>4, EventsStay DEF PersonsTypeInv, PersonsTypeOK
  <2>6. ConnectionsCounted'
    <3>1. made'[p] + Cardinality(waiting'[p]) <= at'[p]
      <4>1. /\ made[p] \in Nat /\ at[p] \in Nat /\ Cardinality(waiting[p]) \in Nat
            /\ made[p] + Cardinality(waiting[p]) <= at[p]
        BY MaxEventsAssumption, <1>0, <1>4, <1>5
      <4>2. made'[p] = made[p] /\ at'[p] = at[p] + 1
        BY <1>3, <2>4
      <4> QED
        BY <2>3, <4>1, <4>2
    <3>2. \A q \in Persons \ {p} : made'[q] + Cardinality(waiting'[q]) <= at'[q]
      BY <1>3, <1>5, <2>2, <2>4
    <3> QED
      BY <3>1, <3>2 DEF ConnectionsCounted
  <2>7. HandedOver'
    BY <2>4 DEF PersonsTypeInv, HandedOver
  <2> QED
    BY <2>5, <2>6, <2>7 DEF PersonsTypeInv
<1> QED
  BY <1>6, <1>7 DEF EventSubscribed, PublishWhenReady

LEMMA EventEndedTypes ==
  ASSUME PersonsTypeInv, NEW p \in Persons, NEW n \in 1 .. MaxEvents,
         EventUnsubscribed(p, n) \/ EventLeft(p, n)
  PROVE  PersonsTypeInv'
<1>0. /\ at \in [Persons -> 0 .. Len(events)] /\ Len(events) \in Nat
      /\ waiting \in [Persons -> SUBSET Events] /\ jobs \in [Persons -> Seq(Jobs)]
      /\ made \in [Persons -> 0 .. MaxEvents] /\ conn \in [Persons -> 0 .. MaxEvents]
      /\ \A q \in Persons : conn[q] \in {0, made[q]} /\ (jobs[q] # <<>> => conn[q] # 0)
      /\ (served \cup failed \cup missed \cup stranded) \subseteq Events
  BY LenProperties DEF PersonsTypeInv, PersonsTypeOK
<1>1. n = at[p] + 1 /\ n \in Events /\ at' = [at EXCEPT ![p] = n]
  BY <1>0 DEF EventUnsubscribed, EventLeft, Handles, Events
<1>2. UNCHANGED <<events, ready, waiting, publishing, stream, peer, wire, buffer, excluded,
                  served, late, missed, crossed, made>>
  BY DEF EventUnsubscribed, EventLeft, CallIfOpen, CloseWith, history, messages
<1>3. at' \in [Persons -> 0 .. Len(events)] /\ \A q \in Persons : at[q] <= at'[q]
  BY <1>0, <1>1 DEF Events
<1>4. /\ jobs' \in [Persons -> Seq(Jobs)] /\ conn' \in [Persons -> 0 .. MaxEvents]
      /\ \A q \in Persons : conn'[q] \in {0, made'[q]} /\ (jobs'[q] # <<>> => conn'[q] # 0)
      /\ \A q \in Persons : conn'[q] # 0 => conn[q] # 0
      /\ stranded' \subseteq Events /\ failed' \subseteq Events
  <2>1. CASE EventUnsubscribed(p, n)
    <3>1. UNCHANGED <<conn, stranded, failed>>
      BY <2>1 DEF EventUnsubscribed, CallIfOpen, history
    <3>2. CASE conn[p] = 0
      BY <1>0, <1>2, <2>1, <3>1, <3>2 DEF EventUnsubscribed, CallIfOpen
    <3>3. CASE conn[p] # 0
      <4>1. PICK kind \in {"stopPublishing", "stopSubscribing"} :
              jobs' = [jobs EXCEPT ![p] = Append(jobs[p], [kind |-> kind, n |-> n])]
        BY <2>1, <3>3 DEF EventUnsubscribed, CallIfOpen, EnqueueJob
      <4> DEFINE job == [kind |-> kind, n |-> n]
      <4>2. job \in Jobs
        BY <1>1 DEF Jobs
      <4> HIDE DEF job
      <4>3. Append(jobs[p], job) \in Seq(Jobs)
        BY <1>0, <4>2, AppendProperties
      <4>4. jobs' = [jobs EXCEPT ![p] = Append(jobs[p], job)]
        BY <4>1 DEF job
      <4>5. jobs' \in [Persons -> Seq(Jobs)] /\ \A q \in Persons \ {p} : jobs'[q] = jobs[q]
        BY <1>0, <4>3, <4>4
      <4> QED
        BY <1>0, <1>2, <3>1, <3>3, <4>5
    <3> QED
      BY <3>2, <3>3
  <2>2. CASE EventLeft(p, n)
    BY <1>0, <2>2, CloseTypes DEF EventLeft, PersonsTypeInv
  <2> QED
    BY <2>1, <2>2
<1>5. PersonsTypeOK'
  BY <1>2, <1>3, <1>4, EventsStay DEF PersonsTypeInv, PersonsTypeOK
<1>6. \A q \in Persons : Cardinality(waiting[q]) \in Nat
  BY WaitingFinite DEF PersonsTypeInv
<1>7. ConnectionsCounted'
  <2>1. \A q \in Persons : made'[q] + Cardinality(waiting'[q]) <= at[q]
    BY <1>2 DEF PersonsTypeInv, ConnectionsCounted
  <2> QED
    BY <1>0, <1>2, <1>3, <1>6, <2>1 DEF ConnectionsCounted
<1>8. HandedOver'
  BY <1>2, <1>4 DEF PersonsTypeInv, HandedOver
<1> QED
  BY <1>5, <1>7, <1>8 DEF PersonsTypeInv

LEMMA WaitingTypes ==
  ASSUME PersonsTypeInv, NEW p \in Persons,
         \/ WaitingPublishes(p)
         \/ \E n \in 1 .. MaxEvents : WaitForStreamTimesOut(p, n)
  PROVE  PersonsTypeInv'
<1>0. /\ at \in [Persons -> 0 .. Len(events)] /\ Len(events) \in Nat /\ Len(events) <= MaxEvents
      /\ waiting \in [Persons -> SUBSET Events]
      /\ made \in [Persons -> 0 .. MaxEvents]
      /\ (served \cup failed \cup missed \cup stranded) \subseteq Events
  BY LenProperties DEF PersonsTypeInv, PersonsTypeOK
<1>1. \A q \in Persons : IsFiniteSet(waiting[q]) /\ Cardinality(waiting[q]) \in Nat
  BY WaitingFinite DEF PersonsTypeInv
<1>2. \A q \in Persons : made[q] + Cardinality(waiting[q]) <= at[q]
  BY DEF PersonsTypeInv, ConnectionsCounted
<1>3. ASSUME NEW n \in waiting[p], waiting' = [waiting EXCEPT ![p] = @ \ {n}]
      PROVE  /\ waiting' \in [Persons -> SUBSET Events]
             /\ Cardinality(waiting'[p]) = Cardinality(waiting[p]) - 1
             /\ \A q \in Persons \ {p} : waiting'[q] = waiting[q]
  <2>1. waiting'[p] = waiting[p] \ {n}
    BY <1>0, <1>3
  <2> QED
    BY <1>0, <1>1, <1>3, <2>1, FS_RemoveElement
<1>4. CASE WaitingPublishes(p)
  <2> DEFINE n == Min(waiting[p])
  <2>1. n \in waiting[p]
    BY <1>0, <1>4, FirstWaiting DEF WaitingPublishes, Events
  <2>2. waiting' = [waiting EXCEPT ![p] = @ \ {n}] /\ CallConnection(p, "startPublishing", n)
    BY <1>4 DEF WaitingPublishes
  <2>3. UNCHANGED <<events, at, ready, served, failed, late, missed, stranded, crossed>>
    BY <1>4 DEF WaitingPublishes, history
  <2> HIDE DEF n
  <2>4. /\ waiting' \in [Persons -> SUBSET Events]
        /\ Cardinality(waiting'[p]) = Cardinality(waiting[p]) - 1
        /\ \A q \in Persons \ {p} : waiting'[q] = waiting[q]
    BY <1>3, <2>1, <2>2
  <2>5. n \in Events /\ Cardinality(waiting[p]) >= 1
    <3>1. Cardinality(waiting[p]) # 0
      BY <1>1, <2>1, FS_EmptySet
    <3> QED
      BY <1>0, <1>1, <2>1, <3>1
  <2>6. made[p] < MaxEvents /\ "startPublishing" \in JobKinds
    BY MaxEventsAssumption, <1>0, <1>1, <1>2, <2>5 DEF JobKinds
  <2>7. /\ jobs' \in [Persons -> Seq(Jobs)]
        /\ made' \in [Persons -> 0 .. MaxEvents] /\ conn' \in [Persons -> 0 .. MaxEvents]
        /\ made'[p] <= made[p] + 1 /\ \A q \in Persons \ {p} : made'[q] = made[q]
        /\ \A q \in Persons : conn'[q] \in {0, made'[q]} /\ (jobs'[q] # <<>> => conn'[q] # 0)
        /\ publishing' \in [Persons -> BOOLEAN] /\ stream' \in [Persons -> BOOLEAN]
        /\ peer' \in [Persons -> 0 .. MaxEvents]
        /\ wire' \in [Persons -> Seq(Messages)] /\ buffer' \in [Persons -> Seq(Messages)]
        /\ excluded' \in [Persons -> BOOLEAN]
        /\ HandedOver'
    BY <2>2, <2>5, <2>6, CallTypes
  <2>8. PersonsTypeOK'
    BY <2>3, <2>4, <2>7, EventsStay DEF PersonsTypeInv, PersonsTypeOK
  <2>9. ConnectionsCounted'
    <3>1. made'[p] + Cardinality(waiting'[p]) <= at'[p]
      BY MaxEventsAssumption, <1>0, <1>1, <1>2, <2>3, <2>4, <2>7
    <3>2. \A q \in Persons \ {p} : made'[q] + Cardinality(waiting'[q]) <= at'[q]
      BY <1>2, <2>3, <2>4, <2>7
    <3> QED
      BY <3>1, <3>2 DEF ConnectionsCounted
  <2> QED
    BY <2>7, <2>8, <2>9 DEF PersonsTypeInv
<1>5. ASSUME NEW n \in 1 .. MaxEvents, WaitForStreamTimesOut(p, n)
      PROVE  PersonsTypeInv'
  <2>1. n \in waiting[p] /\ waiting' = [waiting EXCEPT ![p] = @ \ {n}]
    BY <1>5 DEF WaitForStreamTimesOut
  <2>2. /\ waiting' \in [Persons -> SUBSET Events]
        /\ Cardinality(waiting'[p]) = Cardinality(waiting[p]) - 1
        /\ \A q \in Persons \ {p} : waiting'[q] = waiting[q]
    BY <1>3, <2>1
  <2>3. UNCHANGED <<events, at, ready, conn, made, jobs, publishing, stream, peer, wire, buffer,
                    excluded, served, late, missed, stranded, crossed>>
    BY <1>5 DEF WaitForStreamTimesOut, connection, messages, history
  <2>4. failed' \subseteq Events
    BY <1>0, <1>5, <2>1 DEF WaitForStreamTimesOut
  <2>5. PersonsTypeOK'
    BY <1>0, <2>2, <2>3, <2>4, EventsStay DEF PersonsTypeInv, PersonsTypeOK
  <2>6. ConnectionsCounted'
    <3> SUFFICES ASSUME NEW q \in Persons
                 PROVE  made'[q] + Cardinality(waiting'[q]) <= at'[q]
      BY DEF ConnectionsCounted
    <3>1. made'[q] = made[q] /\ at'[q] = at[q] /\ made[q] \in Nat /\ at[q] \in Nat
      BY MaxEventsAssumption, <1>0, <2>3
    <3>2. Cardinality(waiting[q]) \in Nat /\ made[q] + Cardinality(waiting[q]) <= at[q]
      BY <1>1, <1>2
    <3>3. Cardinality(waiting'[q]) \in {Cardinality(waiting[q]), Cardinality(waiting[q]) - 1}
      BY <2>2
    <3> QED
      BY <3>1, <3>2, <3>3
  <2>7. HandedOver'
    BY <2>3 DEF PersonsTypeInv, HandedOver
  <2> QED
    BY <2>5, <2>6, <2>7 DEF PersonsTypeInv
<1> QED
  BY <1>4, <1>5

LEMMA MessageTypes ==
  ASSUME PersonsTypeInv, NEW p \in Persons, MessageArrives(p)
  PROVE  PersonsTypeInv'
<1> DEFINE msg == Head(wire[p])
<1>0. /\ wire \in [Persons -> Seq(Messages)] /\ buffer \in [Persons -> Seq(Messages)]
      /\ stream \in [Persons -> BOOLEAN] /\ peer \in [Persons -> 0 .. MaxEvents]
      /\ missed \subseteq Events /\ crossed \in BOOLEAN
  BY DEF PersonsTypeInv, PersonsTypeOK
<1>1. wire[p] # <<>> /\ msg \in Messages /\ Tail(wire[p]) \in Seq(Messages)
  BY <1>0, HeadTailProperties DEF MessageArrives
<1>2. wire' \in [Persons -> Seq(Messages)]
  BY <1>0, <1>1 DEF MessageArrives
<1>3. UNCHANGED <<events, at, ready, waiting, conn, made, jobs, publishing, excluded, served,
                  failed, late, stranded>>
  BY DEF MessageArrives
<1>4. /\ stream' \in [Persons -> BOOLEAN] /\ peer' \in [Persons -> 0 .. MaxEvents]
      /\ crossed' \in BOOLEAN
  <2>1. CASE conn[p] # 0
    <3>1. Accept(p, msg)
      BY <2>1 DEF MessageArrives
    <3>2. msg.from \in 0 .. MaxEvents /\ msg.kind \in {"produce", "unproduce"}
      BY <1>1 DEF Messages
    <3> HIDE DEF msg
    <3>3. CASE peer[p] \in {0, msg.from}
      <4>1. /\ peer' = [peer EXCEPT ![p] = msg.from]
            /\ stream' = [stream EXCEPT ![p] = stream[p] \/ msg.kind = "produce"]
            /\ crossed' = (crossed \/ msg.from # conn[Other(p)] \/ MeetsEarlier(p, msg))
        BY <3>1, <3>3 DEF Accept
      <4>2. (stream[p] \/ msg.kind = "produce") \in BOOLEAN
        OBVIOUS
      <4> QED
        BY <1>0, <3>2, <4>1, <4>2
    <3>4. CASE peer[p] \notin {0, msg.from}
      <4>1. PICK s \in {stream[p], TRUE} : stream' = [stream EXCEPT ![p] = s]
        BY <3>1, <3>4 DEF Accept
      <4>2. s \in BOOLEAN
        BY <1>0
      <4> QED
        BY <1>0, <3>1, <3>4, <4>1, <4>2 DEF Accept
    <3> QED
      BY <3>3, <3>4
  <2>2. CASE conn[p] = 0
    BY <1>0, <2>2 DEF MessageArrives
  <2> QED
    BY <2>1, <2>2
<1>5. buffer' \in [Persons -> Seq(Messages)] /\ missed' \subseteq Events
  <2>1. CASE conn[p] # 0 \/ excluded[p]
    BY <1>0, <1>1, <2>1 DEF MessageArrives, Messages
  <2>2. CASE conn[p] = 0 /\ ~excluded[p]
    <3>1. buffer' = [buffer EXCEPT ![p] = Append(buffer[p], msg)] /\ missed' = missed
      BY <2>2 DEF MessageArrives
    <3>2. Append(buffer[p], msg) \in Seq(Messages)
      BY <1>0, <1>1, AppendProperties
    <3> QED
      BY <1>0, <3>1, <3>2
  <2> QED
    BY <2>1, <2>2
<1>6. PersonsTypeOK'
  BY <1>2, <1>3, <1>4, <1>5, EventsStay DEF PersonsTypeInv, PersonsTypeOK
<1>7. ConnectionsCounted'
  BY <1>3 DEF PersonsTypeInv, ConnectionsCounted
<1>8. HandedOver'
  <2>1. CASE conn[p] # 0 \/ excluded[p]
    <3>1. buffer' = buffer
      BY <2>1 DEF MessageArrives
    <3> QED
      BY <1>3, <3>1 DEF PersonsTypeInv, HandedOver
  <2>2. CASE conn[p] = 0 /\ ~excluded[p]
    <3>1. \A q \in Persons \ {p} : buffer'[q] = buffer[q]
      BY <1>0, <2>2 DEF MessageArrives
    <3> QED
      BY <1>3, <2>2, <3>1 DEF PersonsTypeInv, HandedOver
  <2> QED
    BY <2>1, <2>2
<1> QED
  BY <1>6, <1>7, <1>8 DEF PersonsTypeInv

LEMMA PersonsNextTypes == PersonsTypeInv /\ [PersonsNext]_personVars => PersonsTypeInv'
<1> SUFFICES ASSUME PersonsTypeInv, [PersonsNext]_personVars PROVE PersonsTypeInv'
  OBVIOUS
<1>1. CASE UNCHANGED personVars
  <2>1. UNCHANGED <<events, at, ready, waiting, conn, made, jobs, publishing, stream, peer, wire,
                    buffer, excluded, served, failed, late, missed, stranded, crossed>>
    BY <1>1 DEF personVars, connection, messages, history
  <2> QED
    BY <2>1, EventsStay DEF PersonsTypeInv, PersonsTypeOK, ConnectionsCounted, HandedOver
<1>2. ASSUME NEW p \in Persons, PublishCompletes(p) PROVE PersonsTypeInv'
  <2>1. UNCHANGED <<events, at, waiting, conn, made, jobs, publishing, stream, peer, wire,
                    buffer, excluded, served, failed, late, missed, stranded, crossed>>
    BY <1>2 DEF PublishCompletes, connection, messages, history
  <2>2. ready' \in [Persons -> BOOLEAN]
    BY <1>2 DEF PublishCompletes, PersonsTypeInv, PersonsTypeOK
  <2> QED
    BY <2>1, <2>2, EventsStay DEF PersonsTypeInv, PersonsTypeOK, ConnectionsCounted, HandedOver
<1> QED
  BY <1>1, <1>2, HappensTypes, EventSubscribedTypes, EventEndedTypes, WaitingTypes, QueueTypes,
     MessageTypes DEF PersonsNext

LEMMA PersonsTypeAlways == PersonsSpec => []PersonsTypeInv
  BY PersonsInitTypes, PersonsNextTypes, PTL DEF PersonsSpec

\* Each person makes a connection for an event of the channel at most, so
\* that the bound on events bounds connections too, and the queue of a
\* connection lives no longer than it (RemotePersonImpl).
THEOREM PersonsTypeCorrect == PersonsSpec => []PersonsTypeOK
<1>1. PersonsTypeInv => PersonsTypeOK
  BY DEF PersonsTypeInv
<1> QED
  BY <1>1, PersonsTypeAlways, PTL


-----------------------------------------------------------------------------
(* The channel's events: subscribe and unsubscribe alternate.              *)

IsSub(log, a, n) == log[n].kind = "subscribe" /\ log[n].of = a
IsUnsub(log, a, n) == log[n].kind = "unsubscribe" /\ log[n].of = a

\* The publication of a is subscribed to after n events.
ActiveAt(log, a, n) ==
  \E k \in 1 .. n : IsSub(log, a, k) /\ \A m \in k + 1 .. n : log[m].of # a

InOrderUpTo(log, n) ==
  /\ log[n].kind = "subscribe" => ~ActiveAt(log, log[n].of, n - 1)
  /\ log[n].kind = "unsubscribe" => ActiveAt(log, log[n].of, n - 1)
  /\ log[n].kind = "leave" =>
       n = Len(log) /\ \A a \in Persons : ~ActiveAt(log, a, n - 1)
LogInOrder == \A n \in Events : InOrderUpTo(events, n)

LEMMA ActiveStep ==
  ASSUME NEW log, NEW a, NEW n \in Nat
  PROVE  /\ IsSub(log, a, n + 1) => ActiveAt(log, a, n + 1)
         /\ log[n + 1].of # a => (ActiveAt(log, a, n + 1) <=> ActiveAt(log, a, n))
         /\ log[n + 1].of = a /\ log[n + 1].kind # "subscribe" => ~ActiveAt(log, a, n + 1)
<1>1. ASSUME IsSub(log, a, n + 1) PROVE ActiveAt(log, a, n + 1)
  <2>1. n + 1 \in 1 .. n + 1 /\ \A m \in (n + 1) + 1 .. n + 1 : log[m].of # a
    OBVIOUS
  <2> QED
    BY <1>1, <2>1 DEF ActiveAt
<1>2. ASSUME log[n + 1].of # a, ActiveAt(log, a, n + 1) PROVE ActiveAt(log, a, n)
  <2>1. PICK k \in 1 .. n + 1 : IsSub(log, a, k) /\ \A m \in k + 1 .. n + 1 : log[m].of # a
    BY <1>2 DEF ActiveAt
  <2>2. k # n + 1
    BY <1>2, <2>1 DEF IsSub
  <2>3. k \in 1 .. n /\ \A m \in k + 1 .. n : log[m].of # a
    BY <2>1, <2>2
  <2> QED
    BY <2>1, <2>3 DEF ActiveAt
<1>3. ASSUME log[n + 1].of # a, ActiveAt(log, a, n) PROVE ActiveAt(log, a, n + 1)
  <2>1. PICK k \in 1 .. n : IsSub(log, a, k) /\ \A m \in k + 1 .. n : log[m].of # a
    BY <1>3 DEF ActiveAt
  <2>2. k \in 1 .. n + 1 /\ \A m \in k + 1 .. n + 1 : log[m].of # a
    <3>1. \A m \in k + 1 .. n + 1 : m = n + 1 \/ m \in k + 1 .. n
      OBVIOUS
    <3> QED
      BY <1>3, <2>1, <3>1
  <2> QED
    BY <2>1, <2>2 DEF ActiveAt
<1>4. ASSUME log[n + 1].of = a, log[n + 1].kind # "subscribe", ActiveAt(log, a, n + 1)
      PROVE  FALSE
  <2>1. PICK k \in 1 .. n + 1 : IsSub(log, a, k) /\ \A m \in k + 1 .. n + 1 : log[m].of # a
    BY <1>4 DEF ActiveAt
  <2>2. k # n + 1
    BY <1>4, <2>1 DEF IsSub
  <2>3. n + 1 \in k + 1 .. n + 1
    BY <2>2
  <2> QED
    BY <1>4, <2>1, <2>3
<1> QED
  BY <1>1, <1>2, <1>3, <1>4

\* The log goes on from the events by e: what it says of them does not change.
LogGoesOn(log, e) ==
  /\ Len(events) \in Nat /\ Len(log) = Len(events) + 1
  /\ log[Len(events) + 1] = e
  /\ \A n \in Events : log[n] = events[n]
  /\ \A a : \A n \in 0 .. Len(events) : ActiveAt(log, a, n) <=> ActiveAt(events, a, n)

\* What the log says of its first n events does not change when it grows.
LEMMA LogGrows ==
  ASSUME PersonsTypeOK, NEW e, NEW log, log = Append(events, e)
  PROVE  LogGoesOn(log, e)
<1>1. events \in Seq([kind : Kinds, of : Persons])
  BY DEF PersonsTypeOK
<1>2. Len(events) \in Nat /\ Len(log) = Len(events) + 1 /\ log[Len(events) + 1] = e
      /\ \A n \in Events : log[n] = events[n]
  BY <1>1 DEF Events
<1>3. ASSUME NEW a, NEW n \in 0 .. Len(events)
      PROVE  ActiveAt(log, a, n) <=> ActiveAt(events, a, n)
  <2>1. \A k \in 1 .. n : log[k] = events[k] /\ \A m \in k + 1 .. n : log[m] = events[m]
    BY <1>2 DEF Events
  <2>2. \A k \in 1 .. n : IsSub(log, a, k) <=> IsSub(events, a, k)
    BY <2>1 DEF IsSub
  <2> QED
    BY <2>1, <2>2 DEF ActiveAt
<1> QED
  BY <1>2, <1>3 DEF LogGoesOn

LEMMA LogInOrderInit == PersonsInit => LogInOrder
<1> SUFFICES ASSUME PersonsInit PROVE LogInOrder
  OBVIOUS
<1>1. Events = {}
  BY DEF PersonsInit, Events
<1> QED
  BY <1>1 DEF LogInOrder

LEMMA SubscribedNow ==
  ASSUME NEW a, NEW log
  PROVE  SubscribedAt(a, log) <=> ActiveAt(log, a, Len(log))
  BY DEF SubscribedAt, ActiveAt, IsSub

LEMMA LogInOrderNext ==
  PersonsTypeInv /\ LogInOrder /\ [PersonsNext]_personVars => LogInOrder'
<1> SUFFICES ASSUME PersonsTypeInv, LogInOrder, [PersonsNext]_personVars PROVE LogInOrder'
  OBVIOUS
<1>1. ASSUME NEW kind \in Kinds, NEW b \in Persons, Happens(kind, b)
      PROVE  LogInOrder'
  <2> DEFINE last == Len(events)
             e == [kind |-> kind, of |-> b]
  <2>1. events' = Append(events, e) /\ Left = {}
    BY <1>1 DEF Happens
  <2>2. /\ last \in Nat /\ Len(events') = last + 1 /\ events'[last + 1] = e
        /\ \A n \in Events : events'[n] = events[n]
        /\ \A a : \A n \in 0 .. last : ActiveAt(events', a, n) <=> ActiveAt(events, a, n)
    <3>1. PersonsTypeOK /\ events' = Append(events, e)
      BY <2>1 DEF PersonsTypeInv
    <3>2. LogGoesOn(events', e)
      BY <3>1, LogGrows
    <3> QED
      BY <3>2 DEF LogGoesOn
  <2>3. \A n \in Events : events[n].kind # "leave"
    BY <2>1 DEF Left
  <2>4. ASSUME NEW n \in Events PROVE InOrderUpTo(events', n)
    <3>1. n - 1 \in 0 .. last
      BY <2>2 DEF Events
    <3> QED
      BY <2>2, <2>3, <3>1 DEF LogInOrder, InOrderUpTo
  <2>5. InOrderUpTo(events', last + 1)
    <3>1. /\ kind = "subscribe" => ~ActiveAt(events, b, last)
          /\ kind = "unsubscribe" => ActiveAt(events, b, last)
          /\ kind = "leave" => \A a \in Persons : ~ActiveAt(events, a, last)
      BY <1>1, SubscribedNow DEF Happens, Kinds
    <3>2. last \in 0 .. last /\ (last + 1) - 1 = last
      BY <2>2
    <3>3. events'[last + 1].kind = kind /\ events'[last + 1].of = b
      BY <2>2
    <3> QED
      BY <2>2, <3>1, <3>2, <3>3 DEF InOrderUpTo
  <2>6. Events' = Events \cup {last + 1}
    BY <2>2 DEF Events
  <2> QED
    BY <2>4, <2>5, <2>6 DEF LogInOrder
<1>2. CASE events' = events
  BY <1>2 DEF LogInOrder, Events
<1>3. (\E kind \in Kinds : \E b \in Persons : Happens(kind, b)) \/ events' = events
  BY DEF PersonsNext, personVars, EventSubscribed, EventUnsubscribed, EventLeft,
         WaitForStreamTimesOut, PublishCompletes, WaitingPublishes, RunStartPublishing,
         RunStopPublishing, RunStartSubscribing, WaitTimesOut, RunStopSubscribing, MessageArrives
<1> QED
  BY <1>1, <1>2, <1>3


-----------------------------------------------------------------------------
(* One direction: what the publisher q has sent and the subscriber has     *)
(* heard.  dp and dq are the events that the queues of the subscriber and  *)
(* the publisher have got to, c the messages on their way, in order, and h *)
(* says that the subscriber's connection has the stream.                   *)

Produces(c, n) == \E i \in 1 .. Len(c) : c[i].kind = "produce" /\ c[i].n = n

\* Messages are in the order of the events they are about; an offer of the
\* stream is about a subscription that the subscriber has not got to.
SentInOrder(log, q, dp, dq, c) ==
  /\ \A i, j \in 1 .. Len(c) : i < j => c[i].n < c[j].n
  /\ \A i \in 1 .. Len(c) :
       c[i].n <= dq /\ (c[i].kind = "produce" => IsSub(log, q, c[i].n) /\ c[i].n > dp)

\* What was published is on its way or has come, unless the subscription is over.
NoneForgotten(log, q, dp, dq, c, h) ==
  \A k \in 1 .. dq : IsSub(log, q, k) =>
    Produces(c, k) \/ h \/ \E j \in k + 1 .. dp : log[j].of = q

\* A subscription behind an end that the subscriber has yet to get to has not
\* brought its stream early.
NotBeforeEnd(log, q, dp, dq, c) ==
  \A n \in 1 .. dq : \A m \in dp + 1 .. n - 1 :
    IsSub(log, q, n) /\ IsUnsub(log, q, m) => Produces(c, n)

\* The stream belongs to a subscription, of now or still to come.
StreamHasCause(log, q, dp, dq, c, h) ==
  h => \/ ActiveAt(log, q, dp)
       \/ \E n \in dp + 1 .. dq : IsSub(log, q, n) /\ \A i \in 1 .. Len(c) : c[i].n > n

\* Nothing is received that was not published.
NotAhead(log, q, dp, dq) == \A n \in 1 .. dp : IsSub(log, q, n) => n <= dq

Direction(log, q, dp, dq, c, h) ==
  /\ SentInOrder(log, q, dp, dq, c)
  /\ NoneForgotten(log, q, dp, dq, c, h)
  /\ NotBeforeEnd(log, q, dp, dq, c)
  /\ StreamHasCause(log, q, dp, dq, c, h)
  /\ NotAhead(log, q, dp, dq)

LEMMA MessagesAre ==
  ASSUME PersonsTypeOK, NEW c \in Seq(Messages)
  PROVE  /\ Len(c) \in Nat
         /\ \A i \in 1 .. Len(c) : c[i].n \in Nat /\ c[i].kind \in {"produce", "unproduce"}
<1>1. Len(events) \in Nat
  BY LenProperties DEF PersonsTypeOK
<1>2. \A i \in 1 .. Len(c) : c[i] \in Messages
  BY ElementOfSeq
<1> QED
  BY <1>1, <1>2, LenProperties DEF Messages, Events

\* The publisher sends a message about the next event.
LEMMA DirectionSends ==
  ASSUME PersonsTypeOK, NEW log, NEW q, NEW dp \in Nat, NEW dq \in Nat,
         NEW c \in Seq(Messages), NEW h \in BOOLEAN, NEW msg \in Messages,
         Direction(log, q, dp, dq, c, h), msg.n = dq + 1,
         msg.kind = "produce" <=> IsSub(log, q, dq + 1)
  PROVE  Direction(log, q, dp, dq + 1, Append(c, msg), h)
<1> DEFINE d == Append(c, msg)
<1>1. /\ Len(c) \in Nat
      /\ \A i \in 1 .. Len(c) : c[i].n \in Nat /\ c[i].kind \in {"produce", "unproduce"}
  BY MessagesAre
<1>2. /\ Len(d) = Len(c) + 1 /\ d[Len(c) + 1] = msg
      /\ \A i \in 1 .. Len(c) : d[i] = c[i]
  BY AppendProperties
<1> HIDE DEF d
<1>3. \A n : Produces(c, n) => Produces(d, n)
  BY <1>1, <1>2 DEF Produces
<1>4. IsSub(log, q, dq + 1) => Produces(d, dq + 1) /\ dq + 1 > dp
  <2>1. ASSUME IsSub(log, q, dq + 1) PROVE Produces(d, dq + 1)
    BY <1>1, <1>2, <2>1 DEF Produces
  <2>2. ASSUME IsSub(log, q, dq + 1), dq + 1 <= dp PROVE FALSE
    BY <2>2 DEF Direction, NotAhead
  <2> QED
    BY <2>1, <2>2
<1>5. \A n \in 1 .. dq + 1 : n \in 1 .. dq \/ n = dq + 1
  OBVIOUS
<1>6. \A i \in 1 .. Len(d) : i \in 1 .. Len(c) \/ i = Len(c) + 1
  BY <1>1, <1>2
<1>7. SentInOrder(log, q, dp, dq + 1, d)
  <2>1. /\ \A i, j \in 1 .. Len(c) : i < j => c[i].n < c[j].n
        /\ \A i \in 1 .. Len(c) :
             c[i].n <= dq /\ (c[i].kind = "produce" => IsSub(log, q, c[i].n) /\ c[i].n > dp)
    BY DEF Direction, SentInOrder
  <2>2. \A i, j \in 1 .. Len(d) : i < j => d[i].n < d[j].n
    <3> SUFFICES ASSUME NEW i \in 1 .. Len(d), NEW j \in 1 .. Len(d), i < j
                 PROVE  d[i].n < d[j].n
      OBVIOUS
    <3>1. i \in 1 .. Len(c) /\ d[i] = c[i] /\ c[i].n \in Nat /\ c[i].n <= dq
      BY <1>1, <1>2, <1>6, <2>1
    <3>2. CASE j \in 1 .. Len(c)
      BY <1>2, <2>1, <3>1, <3>2
    <3>3. CASE j = Len(c) + 1
      BY <1>2, <3>1, <3>3
    <3> QED
      BY <1>6, <3>2, <3>3
  <2>3. \A i \in 1 .. Len(c) :
          d[i].n <= dq + 1 /\ (d[i].kind = "produce" => IsSub(log, q, d[i].n) /\ d[i].n > dp)
    BY <1>1, <1>2, <2>1
  <2>4. msg.n <= dq + 1 /\ (msg.kind = "produce" => IsSub(log, q, msg.n) /\ msg.n > dp)
    BY <1>4
  <2> QED
    BY <1>2, <1>6, <2>2, <2>3, <2>4 DEF SentInOrder
<1>8. NoneForgotten(log, q, dp, dq + 1, d, h)
  BY <1>3, <1>4, <1>5 DEF Direction, NoneForgotten
<1>9. NotBeforeEnd(log, q, dp, dq + 1, d)
  BY <1>3, <1>4, <1>5 DEF Direction, NotBeforeEnd
<1>10. StreamHasCause(log, q, dp, dq + 1, d, h)
  <2>1. CASE h /\ ~ActiveAt(log, q, dp)
    <3>1. PICK n \in dp + 1 .. dq : IsSub(log, q, n) /\ \A i \in 1 .. Len(c) : c[i].n > n
      BY <2>1 DEF Direction, StreamHasCause
    <3>2. n \in dp + 1 .. dq + 1 /\ msg.n > n
      OBVIOUS
    <3>3. \A i \in 1 .. Len(d) : d[i].n > n
      BY <1>2, <1>6, <3>1, <3>2
    <3> QED
      BY <3>1, <3>2, <3>3 DEF StreamHasCause
  <2> QED
    BY <2>1 DEF StreamHasCause
<1>11. NotAhead(log, q, dp, dq + 1)
  BY DEF Direction, NotAhead
<1> QED
  BY <1>7, <1>8, <1>9, <1>10, <1>11 DEF Direction, d

\* The publisher gets on over events that are no subscription to it.
LEMMA DirectionPublisherGoesOn ==
  ASSUME PersonsTypeOK, NEW log, NEW q, NEW dp \in Nat, NEW dq \in Nat, NEW e \in Nat,
         NEW c \in Seq(Messages), NEW h \in BOOLEAN,
         Direction(log, q, dp, dq, c, h), dq <= e,
         \A n \in dq + 1 .. e : ~IsSub(log, q, n)
  PROVE  Direction(log, q, dp, e, c, h)
<1>1. /\ Len(c) \in Nat
      /\ \A i \in 1 .. Len(c) : c[i].n \in Nat /\ c[i].kind \in {"produce", "unproduce"}
  BY MessagesAre
<1>2. \A n \in 1 .. e : IsSub(log, q, n) => n \in 1 .. dq
  OBVIOUS
<1>3. SentInOrder(log, q, dp, e, c)
  BY <1>1 DEF Direction, SentInOrder
<1>4. NoneForgotten(log, q, dp, e, c, h)
  BY <1>2 DEF Direction, NoneForgotten
<1>5. NotBeforeEnd(log, q, dp, e, c)
  BY <1>2 DEF Direction, NotBeforeEnd
<1>6. StreamHasCause(log, q, dp, e, c, h)
  <2>1. \A n \in dp + 1 .. dq : n \in dp + 1 .. e
    OBVIOUS
  <2> QED
    BY <2>1 DEF Direction, StreamHasCause
<1>7. NotAhead(log, q, dp, e)
  BY DEF Direction, NotAhead
<1> QED
  BY <1>3, <1>4, <1>5, <1>6, <1>7 DEF Direction

\* The subscriber gets to a subscription: the stream is that of this one.
LEMMA DirectionSubscribes ==
  ASSUME PersonsTypeOK, NEW log, NEW q, NEW dp \in Nat, NEW dq \in Nat,
         NEW c \in Seq(Messages),
         Direction(log, q, dp, dq, c, TRUE), IsSub(log, q, dp + 1),
         ~ActiveAt(log, q, dp)
  PROVE  Direction(log, q, dp + 1, dq, c, TRUE)
<1>1. /\ Len(c) \in Nat
      /\ \A i \in 1 .. Len(c) : c[i].n \in Nat /\ c[i].kind \in {"produce", "unproduce"}
  BY MessagesAre
<1>2. PICK n \in dp + 1 .. dq : IsSub(log, q, n) /\ \A i \in 1 .. Len(c) : c[i].n > n
  BY DEF Direction, StreamHasCause
<1>3. SentInOrder(log, q, dp + 1, dq, c)
  <2>1. \A i \in 1 .. Len(c) : c[i].n > dp + 1
    BY <1>1, <1>2
  <2> QED
    BY <1>1, <2>1 DEF Direction, SentInOrder
<1>4. NoneForgotten(log, q, dp + 1, dq, c, TRUE)
  BY DEF NoneForgotten
<1>5. NotBeforeEnd(log, q, dp + 1, dq, c)
  BY DEF Direction, NotBeforeEnd
<1>6. StreamHasCause(log, q, dp + 1, dq, c, TRUE)
  BY ActiveStep DEF StreamHasCause
<1>7. NotAhead(log, q, dp + 1, dq)
  <2>1. \A m \in 1 .. dp + 1 : m \in 1 .. dp \/ m = dp + 1
    OBVIOUS
  <2> QED
    BY <1>2, <2>1 DEF Direction, NotAhead
<1> QED
  BY <1>3, <1>4, <1>5, <1>6, <1>7 DEF Direction

\* The subscriber gets to the end of a subscription and lets the stream go.
LEMMA DirectionUnsubscribes ==
  ASSUME PersonsTypeOK, NEW log, NEW q, NEW dp \in Nat, NEW dq \in Nat,
         NEW c \in Seq(Messages), NEW h \in BOOLEAN,
         Direction(log, q, dp, dq, c, h), IsUnsub(log, q, dp + 1)
  PROVE  Direction(log, q, dp + 1, dq, c, FALSE)
<1>1. /\ Len(c) \in Nat
      /\ \A i \in 1 .. Len(c) : c[i].n \in Nat /\ c[i].kind \in {"produce", "unproduce"}
  BY MessagesAre
<1>2. ~IsSub(log, q, dp + 1) /\ log[dp + 1].of = q
  BY DEF IsSub, IsUnsub
<1>3. SentInOrder(log, q, dp + 1, dq, c)
  <2>1. \A i \in 1 .. Len(c) : c[i].kind = "produce" => c[i].n > dp /\ c[i].n # dp + 1
    BY <1>2 DEF Direction, SentInOrder
  <2>2. \A i \in 1 .. Len(c) : c[i].kind = "produce" => c[i].n > dp + 1
    BY <1>1, <2>1
  <2> QED
    BY <1>1, <2>2 DEF Direction, SentInOrder
<1>4. NoneForgotten(log, q, dp + 1, dq, c, FALSE)
  <2> SUFFICES ASSUME NEW k \in 1 .. dq, IsSub(log, q, k)
               PROVE  Produces(c, k) \/ \E j \in k + 1 .. dp + 1 : log[j].of = q
    BY DEF NoneForgotten
  <2>1. CASE k <= dp
    <3>1. dp + 1 \in k + 1 .. dp + 1
      BY <2>1
    <3> QED
      BY <1>2, <3>1
  <2>2. CASE k = dp + 1
    BY <1>2, <2>2
  <2>3. CASE k > dp + 1
    <3>1. dp + 1 \in dp + 1 .. k - 1
      BY <2>3
    <3> QED
      BY <3>1 DEF Direction, NotBeforeEnd
  <2> QED
    BY <2>1, <2>2, <2>3
<1>5. NotBeforeEnd(log, q, dp + 1, dq, c)
  BY DEF Direction, NotBeforeEnd
<1>6. StreamHasCause(log, q, dp + 1, dq, c, FALSE)
  BY DEF StreamHasCause
<1>7. NotAhead(log, q, dp + 1, dq)
  <2>1. \A m \in 1 .. dp + 1 : m \in 1 .. dp \/ m = dp + 1
    OBVIOUS
  <2> QED
    BY <1>2, <2>1 DEF Direction, NotAhead
<1> QED
  BY <1>3, <1>4, <1>5, <1>6, <1>7 DEF Direction

\* The subscriber gets on over an event about itself.
LEMMA DirectionSubscriberGoesOn ==
  ASSUME PersonsTypeOK, NEW log, NEW q, NEW dp \in Nat, NEW dq \in Nat,
         NEW c \in Seq(Messages), NEW h \in BOOLEAN,
         Direction(log, q, dp, dq, c, h), log[dp + 1].of # q
  PROVE  Direction(log, q, dp + 1, dq, c, h)
<1>1. /\ Len(c) \in Nat
      /\ \A i \in 1 .. Len(c) : c[i].n \in Nat /\ c[i].kind \in {"produce", "unproduce"}
  BY MessagesAre
<1>2. ~IsSub(log, q, dp + 1)
  BY DEF IsSub
<1>3. SentInOrder(log, q, dp + 1, dq, c)
  <2>1. \A i \in 1 .. Len(c) : c[i].kind = "produce" => c[i].n > dp /\ c[i].n # dp + 1
    BY <1>2 DEF Direction, SentInOrder
  <2>2. \A i \in 1 .. Len(c) : c[i].kind = "produce" => c[i].n > dp + 1
    BY <1>1, <2>1
  <2> QED
    BY <1>1, <2>2 DEF Direction, SentInOrder
<1>4. NoneForgotten(log, q, dp + 1, dq, c, h)
  <2>1. \A k \in 1 .. dq : \A j \in k + 1 .. dp : j \in k + 1 .. dp + 1
    OBVIOUS
  <2> QED
    BY <2>1 DEF Direction, NoneForgotten
<1>5. NotBeforeEnd(log, q, dp + 1, dq, c)
  BY DEF Direction, NotBeforeEnd
<1>6. StreamHasCause(log, q, dp + 1, dq, c, h)
  <2>1. CASE h /\ ~ActiveAt(log, q, dp)
    <3>1. PICK n \in dp + 1 .. dq : IsSub(log, q, n) /\ \A i \in 1 .. Len(c) : c[i].n > n
      BY <2>1 DEF Direction, StreamHasCause
    <3>2. n # dp + 1
      BY <1>2, <3>1
    <3>3. n \in (dp + 1) + 1 .. dq
      BY <3>2
    <3> QED
      BY <3>1, <3>3 DEF StreamHasCause
  <2>2. CASE ActiveAt(log, q, dp)
    BY <2>2, ActiveStep DEF StreamHasCause
  <2> QED
    BY <2>1, <2>2 DEF StreamHasCause
<1>7. NotAhead(log, q, dp + 1, dq)
  <2>1. \A m \in 1 .. dp + 1 : m \in 1 .. dp \/ m = dp + 1
    OBVIOUS
  <2> QED
    BY <1>2, <2>1 DEF Direction, NotAhead
<1> QED
  BY <1>3, <1>4, <1>5, <1>6, <1>7 DEF Direction

\* The subscriber closes its connection when the other person has left: no
\* subscription is behind, and the last one has ended.
LEMMA DirectionEnds ==
  ASSUME PersonsTypeOK, NEW log, NEW q, NEW dp \in Nat, NEW dq \in Nat, NEW e \in Nat,
         NEW c \in Seq(Messages), NEW h \in BOOLEAN,
         Direction(log, q, dp, dq, c, h), dp <= e, dq <= e,
         \A n \in dp + 1 .. e : ~IsSub(log, q, n), ~ActiveAt(log, q, e)
  PROVE  Direction(log, q, e, dq, c, FALSE)
<1>1. /\ Len(c) \in Nat
      /\ \A i \in 1 .. Len(c) : c[i].n \in Nat /\ c[i].kind \in {"produce", "unproduce"}
  BY MessagesAre
<1>3. SentInOrder(log, q, e, dq, c)
  <2>1. \A i \in 1 .. Len(c) : c[i].n <= dq /\ (c[i].kind = "produce" => IsSub(log, q, c[i].n) /\ c[i].n > dp)
    BY DEF Direction, SentInOrder
  <2>2. \A i \in 1 .. Len(c) : c[i].kind = "produce" => c[i].n \in dp + 1 .. e /\ IsSub(log, q, c[i].n)
    BY <1>1, <2>1
  <2>3. \A i \in 1 .. Len(c) : c[i].kind # "produce"
    BY <2>2
  <2> QED
    BY <2>1, <2>3 DEF Direction, SentInOrder
<1>4. NoneForgotten(log, q, e, dq, c, FALSE)
  <2> SUFFICES ASSUME NEW k \in 1 .. dq, IsSub(log, q, k)
               PROVE  \E j \in k + 1 .. e : log[j].of = q
    BY DEF NoneForgotten
  <2>1. k \in 1 .. e
    OBVIOUS
  <2> QED
    BY <2>1 DEF ActiveAt
<1>5. NotBeforeEnd(log, q, e, dq, c)
  BY DEF NotBeforeEnd
<1>6. StreamHasCause(log, q, e, dq, c, FALSE)
  BY DEF StreamHasCause
<1>7. NotAhead(log, q, e, dq)
  <2>1. \A m \in 1 .. e : m \in 1 .. dp \/ m \in dp + 1 .. e
    OBVIOUS
  <2> QED
    BY <2>1 DEF Direction, NotAhead
<1> QED
  BY <1>3, <1>4, <1>5, <1>6, <1>7 DEF Direction

\* A message arrives, and the stream with it if it offers one.
LEMMA DirectionHears ==
  ASSUME PersonsTypeOK, NEW log, NEW q, NEW dp \in Nat, NEW dq \in Nat,
         NEW c \in Seq(Messages), NEW h \in BOOLEAN,
         Direction(log, q, dp, dq, c, h), c # <<>>,
         \A m \in 1 .. dq : InOrderUpTo(log, m),
         Head(c).kind = "produce" => ~h
  PROVE  Direction(log, q, dp, dq, Tail(c), h \/ Head(c).kind = "produce")
<1> DEFINE d == Tail(c)
           g == (h \/ Head(c).kind = "produce")
<1>1. /\ Len(c) \in Nat
      /\ \A i \in 1 .. Len(c) : c[i].n \in Nat /\ c[i].kind \in {"produce", "unproduce"}
  BY MessagesAre
<1>2. /\ Len(d) = Len(c) - 1 /\ \A i \in 1 .. Len(d) : d[i] = c[i + 1]
      /\ Head(c) = c[1] /\ 1 \in 1 .. Len(c)
  BY HeadTailProperties, <1>1
<1>3. Head(c).kind = "produce" <=> c[1].kind = "produce"
  BY <1>2
<1> HIDE DEF d
<1>4. \A i \in 1 .. Len(d) : i + 1 \in 1 .. Len(c)
  BY <1>1, <1>2
<1>5. /\ \A i, j \in 1 .. Len(c) : i < j => c[i].n < c[j].n
      /\ \A i \in 1 .. Len(c) :
           c[i].n <= dq /\ (c[i].kind = "produce" => IsSub(log, q, c[i].n) /\ c[i].n > dp)
  BY DEF Direction, SentInOrder
<1>6. ASSUME NEW n, Produces(c, n) PROVE Produces(d, n) \/ (c[1].kind = "produce" /\ c[1].n = n)
  <2>1. PICK i \in 1 .. Len(c) : c[i].kind = "produce" /\ c[i].n = n
    BY <1>6 DEF Produces
  <2>2. CASE i # 1
    <3>1. i - 1 \in 1 .. Len(d) /\ d[i - 1] = c[i]
      BY <1>1, <1>2, <2>2
    <3> QED
      BY <2>1, <3>1 DEF Produces
  <2> QED
    BY <2>1, <2>2
<1>7. SentInOrder(log, q, dp, dq, d)
  <2>1. \A i, j \in 1 .. Len(d) : i < j => d[i].n < d[j].n
    <3> SUFFICES ASSUME NEW i \in 1 .. Len(d), NEW j \in 1 .. Len(d), i < j
                 PROVE  d[i].n < d[j].n
      OBVIOUS
    <3>1. i + 1 \in 1 .. Len(c) /\ j + 1 \in 1 .. Len(c) /\ i + 1 < j + 1
      BY <1>4
    <3>2. c[i + 1].n < c[j + 1].n
      BY <1>5, <3>1
    <3> QED
      BY <1>2, <3>2
  <2> QED
    BY <1>2, <1>4, <1>5, <2>1 DEF SentInOrder
<1>8. NoneForgotten(log, q, dp, dq, d, g)
  BY <1>3, <1>6 DEF Direction, NoneForgotten
<1>9. NotBeforeEnd(log, q, dp, dq, d)
  <2> SUFFICES ASSUME NEW n \in 1 .. dq, NEW m \in dp + 1 .. n - 1,
                      IsSub(log, q, n), IsUnsub(log, q, m)
               PROVE  Produces(d, n)
    BY DEF NotBeforeEnd
  <2>1. Produces(c, n)
    BY DEF Direction, NotBeforeEnd
  <2>2. ASSUME c[1].kind = "produce", c[1].n = n PROVE Produces(d, n)
    <3>1. m \in 1 .. dq /\ m - 1 \in Nat
      OBVIOUS
    <3>2. ActiveAt(log, q, m - 1)
      BY <3>1 DEF InOrderUpTo, IsUnsub
    <3>3. PICK k \in 1 .. m - 1 : IsSub(log, q, k) /\ \A j \in k + 1 .. m - 1 : log[j].of # q
      BY <3>2 DEF ActiveAt
    <3>4. ~Produces(c, k)
      <4> SUFFICES ASSUME NEW i \in 1 .. Len(c), c[i].n = k PROVE FALSE
        BY DEF Produces
      <4>1. c[1].n <= c[i].n
        BY <1>1, <1>2, <1>5
      <4> QED
        BY <2>2, <4>1
    <3>5. PICK j \in k + 1 .. dp : log[j].of = q
      <4>1. ~h /\ k \in 1 .. dq
        BY <1>3, <2>2
      <4> QED
        BY <3>3, <3>4, <4>1 DEF Direction, NoneForgotten
    <3>6. j \in k + 1 .. m - 1
      OBVIOUS
    <3> QED
      BY <3>3, <3>5, <3>6
  <2> QED
    BY <1>6, <2>1, <2>2
<1>10. StreamHasCause(log, q, dp, dq, d, g)
  <2>1. CASE c[1].kind = "produce"
    <3>1. c[1].n \in dp + 1 .. dq /\ IsSub(log, q, c[1].n)
      BY <1>1, <1>2, <1>5, <2>1
    <3>2. \A i \in 1 .. Len(d) : d[i].n > c[1].n
      <4> SUFFICES ASSUME NEW i \in 1 .. Len(d) PROVE d[i].n > c[1].n
        OBVIOUS
      <4>1. i + 1 \in 1 .. Len(c) /\ 1 < i + 1 /\ d[i] = c[i + 1]
        BY <1>2, <1>4
      <4> QED
        BY <1>1, <1>2, <1>5, <4>1
    <3> QED
      BY <3>1, <3>2 DEF StreamHasCause
  <2>2. CASE c[1].kind # "produce"
    <3>1. CASE h /\ ~ActiveAt(log, q, dp)
      <4>1. PICK n \in dp + 1 .. dq : IsSub(log, q, n) /\ \A i \in 1 .. Len(c) : c[i].n > n
        BY <3>1 DEF Direction, StreamHasCause
      <4>2. \A i \in 1 .. Len(d) : d[i].n > n
        BY <1>2, <1>4, <4>1
      <4> QED
        BY <4>1, <4>2 DEF StreamHasCause
    <3> QED
      BY <1>3, <2>2, <3>1 DEF StreamHasCause
  <2> QED
    BY <2>1, <2>2
<1>11. NotAhead(log, q, dp, dq)
  BY DEF Direction
<1> QED
  BY <1>7, <1>8, <1>9, <1>10, <1>11 DEF Direction, d


LEMMA DirectionLogGrows ==
  ASSUME PersonsTypeOK, NEW e, NEW log, log = Append(events, e), NEW q,
         NEW dp \in 0 .. Len(events), NEW dq \in 0 .. Len(events),
         NEW c \in Seq(Messages), NEW h \in BOOLEAN,
         Direction(events, q, dp, dq, c, h)
  PROVE  Direction(log, q, dp, dq, c, h)
<1>1. /\ Len(c) \in Nat
      /\ \A i \in 1 .. Len(c) : c[i].n \in Nat /\ c[i].kind \in {"produce", "unproduce"}
  BY MessagesAre
<1>2. /\ Len(events) \in Nat /\ \A n \in Events : log[n] = events[n]
      /\ ActiveAt(log, q, dp) <=> ActiveAt(events, q, dp)
  <2>1. /\ Len(events) \in Nat /\ \A n \in Events : log[n] = events[n]
        /\ \A a : \A n \in 0 .. Len(events) : ActiveAt(log, a, n) <=> ActiveAt(events, a, n)
    <3>1. LogGoesOn(log, e)
      BY LogGrows
    <3> QED
      BY <3>1 DEF LogGoesOn
  <2> QED
    BY <2>1
<1>3. \A n \in Events : (IsSub(log, q, n) <=> IsSub(events, q, n))
                        /\ (IsUnsub(log, q, n) <=> IsUnsub(events, q, n))
  BY <1>2 DEF IsSub, IsUnsub
<1>4. 1 .. dp \subseteq Events /\ 1 .. dq \subseteq Events
  BY <1>2 DEF Events
<1>5. \A i \in 1 .. Len(c) : c[i].n \in Events
  <2>1. \A i \in 1 .. Len(c) : c[i] \in Messages
    BY ElementOfSeq
  <2> QED
    BY <2>1 DEF Messages
<1>6. SentInOrder(log, q, dp, dq, c)
  BY <1>3, <1>5 DEF Direction, SentInOrder
<1>7. NoneForgotten(log, q, dp, dq, c, h)
  <2>1. \A k \in 1 .. dq : \A j \in k + 1 .. dp : log[j] = events[j]
    BY <1>2, <1>4
  <2> QED
    BY <1>3, <1>4, <2>1 DEF Direction, NoneForgotten
<1>8. NotBeforeEnd(log, q, dp, dq, c)
  <2>1. \A n \in 1 .. dq : \A m \in dp + 1 .. n - 1 : m \in Events
    BY <1>2 DEF Events
  <2> QED
    BY <1>3, <1>4, <2>1 DEF Direction, NotBeforeEnd
<1>9. StreamHasCause(log, q, dp, dq, c, h)
  <2>1. \A n \in dp + 1 .. dq : n \in Events
    BY <1>2 DEF Events
  <2> QED
    BY <1>2, <1>3, <2>1 DEF Direction, StreamHasCause
<1>10. NotAhead(log, q, dp, dq)
  BY <1>3, <1>4 DEF Direction, NotAhead
<1> QED
  BY <1>6, <1>7, <1>8, <1>9, <1>10 DEF Direction

-----------------------------------------------------------------------------
(* The queue and the state of each person.                                 *)

\* The event that the queue of p's connection has got to, and the messages on
\* their way to p.
done(p) == at[p] - Len(jobs[p])
coming(p) == buffer[p] \o wire[p]
held(p) == conn[p] # 0 /\ stream[p]

JobOf(p, event) ==
  IF event.kind = "subscribe"
  THEN IF event.of = p THEN "startPublishing" ELSE "startSubscribing"
  ELSE IF event.of = p THEN "stopPublishing" ELSE "stopSubscribing"
JobFits(log, p, job, n) ==
  job.n = n /\ log[n].kind # "leave" /\ job.kind = JobOf(p, log[n])

\* A queue holds one call for each event from the one it has got to.
QueueInTurn(log, p, d, queue) == \A i \in 1 .. Len(queue) : JobFits(log, p, queue[i], d + i)

\* What the connection of p carries is what is subscribed to; without one
\* nothing is.
SideAgrees(log, p, d, open, publishes, hears, busy) ==
  /\ open => /\ publishes <=> ActiveAt(log, p, d)
             /\ ActiveAt(log, Other(p), d) => hears
             /\ busy \/ publishes \/ hears
  /\ ~open => ~ActiveAt(log, p, d) /\ ~ActiveAt(log, Other(p), d)

PersonInv(p) ==
  /\ waiting[p] = {} /\ done(p) \in Nat
  /\ QueueInTurn(events, p, done(p), jobs[p])
  /\ SideAgrees(events, p, done(p), conn[p] # 0, publishing[p], stream[p], jobs[p] # <<>>)
  /\ Direction(events, Other(p), done(p), done(Other(p)), coming(p), held(p))

UndisturbedPersons == Undisturbed => \A p \in Persons : PersonInv(p)

PersonsInv == PersonsTypeInv /\ LogInOrder /\ UndisturbedPersons

LEMMA QueueAppended ==
  ASSUME NEW S, NEW log, NEW p, NEW d \in Nat, NEW s \in Seq(S), NEW job \in S,
         QueueInTurn(log, p, d, s), JobFits(log, p, job, d + Len(s) + 1)
  PROVE  QueueInTurn(log, p, d, Append(s, job))
<1> DEFINE t == Append(s, job)
<1>1. /\ Len(s) \in Nat /\ Len(t) = Len(s) + 1 /\ t[Len(s) + 1] = job
      /\ \A i \in 1 .. Len(s) : t[i] = s[i]
  BY AppendProperties, LenProperties
<1> HIDE DEF t
<1>2. \A i \in 1 .. Len(t) : i \in 1 .. Len(s) \/ i = Len(s) + 1
  BY <1>1
<1>3. d + (Len(s) + 1) = d + Len(s) + 1
  BY <1>1
<1>4. QueueInTurn(log, p, d, t)
  BY <1>1, <1>2, <1>3 DEF QueueInTurn
<1> QED
  BY <1>4 DEF t

LEMMA QueueTaken ==
  ASSUME NEW S, NEW log, NEW p, NEW d \in Nat, NEW s \in Seq(S), s # <<>>,
         QueueInTurn(log, p, d, s)
  PROVE  /\ Len(s) \in Nat /\ Len(Tail(s)) = Len(s) - 1
         /\ JobFits(log, p, Head(s), d + 1) /\ QueueInTurn(log, p, d + 1, Tail(s))
<1> DEFINE t == Tail(s)
<1>1. /\ Len(s) \in Nat /\ Len(t) = Len(s) - 1 /\ Head(s) = s[1] /\ 1 \in 1 .. Len(s)
      /\ \A i \in 1 .. Len(t) : t[i] = s[i + 1]
  BY HeadTailProperties, LenProperties, EmptySeq
<1>2. JobFits(log, p, Head(s), d + 1)
  BY <1>1 DEF QueueInTurn
<1> HIDE DEF t
<1>3. ASSUME NEW i \in 1 .. Len(t) PROVE JobFits(log, p, t[i], (d + 1) + i)
  <2>1. i + 1 \in 1 .. Len(s) /\ (d + 1) + i = d + (i + 1)
    BY <1>1
  <2> QED
    BY <1>1, <2>1 DEF QueueInTurn
<1> QED
  BY <1>1, <1>2, <1>3 DEF QueueInTurn, t

\* One message more, and one that MessageBuffer takes.
LEMMA ComingAppended ==
  ASSUME NEW S, NEW s \in Seq(S), NEW t \in Seq(S), NEW m \in S
  PROVE  s \o Append(t, m) = Append(s \o t, m)
<1>1. <<m>> \in Seq(S) /\ s \o t \in Seq(S) /\ Append(t, m) = t \o <<m>>
      /\ Append(s \o t, m) = (s \o t) \o <<m>>
  BY ConcatProperties, AppendIsConcat
<1> QED
  BY <1>1, ConcatAssociative

LEMMA ComingMoved ==
  ASSUME NEW S, NEW s \in Seq(S), NEW t \in Seq(S), t # <<>>
  PROVE  Append(s, Head(t)) \o Tail(t) = s \o t
<1>1. Head(t) \in S /\ Tail(t) \in Seq(S) /\ <<Head(t)>> \in Seq(S)
  BY HeadTailProperties
<1>2. Append(s, Head(t)) = s \o <<Head(t)>>
  BY <1>1, AppendIsConcat
<1>3. <<Head(t)>> \o Tail(t) = t
  <2> DEFINE u == <<Head(t)>> \o Tail(t)
  <2>1. u \in Seq(S) /\ Len(u) = 1 + Len(Tail(t))
        /\ \A i \in 1 .. Len(u) : u[i] = IF i <= 1 THEN Head(t) ELSE Tail(t)[i - 1]
    BY <1>1, ConcatProperties
  <2>2. /\ Len(t) \in Nat /\ Len(Tail(t)) = Len(t) - 1 /\ Head(t) = t[1]
        /\ \A i \in 1 .. Len(Tail(t)) : Tail(t)[i] = t[i + 1]
    BY HeadTailProperties, LenProperties
  <2> HIDE DEF u
  <2>3. \A i \in 1 .. Len(u) : u[i] = t[i]
    <3> SUFFICES ASSUME NEW i \in 1 .. Len(u) PROVE u[i] = t[i]
      OBVIOUS
    <3>1. CASE i = 1
      BY <2>1, <2>2, <3>1
    <3>2. CASE i # 1
      <4>1. i - 1 \in 1 .. Len(Tail(t)) /\ (i - 1) + 1 = i /\ ~(i <= 1)
        BY <2>1, <2>2, <3>2
      <4> QED
        BY <2>1, <2>2, <4>1
    <3> QED
      BY <3>1, <3>2
  <2>4. Len(u) = Len(t)
    BY <2>1, <2>2
  <2>5. u = t
    BY <2>1, <2>3, <2>4, SeqEqual
  <2> QED
    BY <2>5 DEF u
<1> QED
  BY <1>1, <1>2, <1>3, ConcatAssociative

LEMMA PersonFacts ==
  ASSUME PersonsTypeOK, NEW p \in Persons
  PROVE  /\ jobs[p] \in Seq(Jobs) /\ Len(jobs[p]) \in Nat
         /\ buffer[p] \in Seq(Messages) /\ wire[p] \in Seq(Messages)
         /\ coming(p) \in Seq(Messages)
         /\ at[p] \in Nat /\ at[p] <= Len(events) /\ Len(events) \in Nat
         /\ done(p) \in Int /\ done(p) <= at[p]
         /\ publishing[p] \in BOOLEAN /\ stream[p] \in BOOLEAN /\ held(p) \in BOOLEAN
<1>1. /\ jobs[p] \in Seq(Jobs) /\ buffer[p] \in Seq(Messages) /\ wire[p] \in Seq(Messages)
      /\ at[p] \in 0 .. Len(events) /\ events \in Seq([kind : Kinds, of : Persons])
      /\ publishing[p] \in BOOLEAN /\ stream[p] \in BOOLEAN
  BY DEF PersonsTypeOK
<1>2. Len(jobs[p]) \in Nat /\ Len(events) \in Nat
  BY <1>1, LenProperties
<1>3. coming(p) \in Seq(Messages)
  BY <1>1, ConcatProperties DEF coming
<1>4. at[p] \in Nat /\ at[p] <= Len(events)
  BY <1>1, <1>2
<1>5. done(p) \in Int /\ done(p) <= at[p]
  BY <1>2, <1>4 DEF done
<1>6. held(p) \in BOOLEAN
  BY DEF held
<1> QED
  BY <1>1, <1>2, <1>3, <1>4, <1>5, <1>6

\* Where the persons stand in the channel's events.
LEMMA PersonStands ==
  ASSUME PersonsTypeOK, NEW p \in Persons, \A a \in Persons : PersonInv(a)
  PROVE  /\ coming(p) \in Seq(Messages) /\ held(p) \in BOOLEAN
         /\ done(p) \in 0 .. Len(events) /\ done(Other(p)) \in 0 .. Len(events)
         /\ Len(jobs[p]) \in Nat /\ at[p] <= Len(events) /\ Len(events) \in Nat /\ at[p] \in Nat
<1>1. /\ coming(p) \in Seq(Messages) /\ held(p) \in BOOLEAN
      /\ Len(jobs[p]) \in Nat /\ at[p] <= Len(events) /\ Len(events) \in Nat /\ at[p] \in Nat
  BY PersonFacts
<1>2. ASSUME NEW a \in Persons PROVE done(a) \in 0 .. Len(events)
  <2>1. at[a] \in Nat /\ at[a] <= Len(events) /\ done(a) <= at[a]
    BY PersonFacts
  <2>2. done(a) \in Nat
    BY DEF PersonInv
  <2> HIDE DEF done
  <2> QED
    BY <1>1, <2>1, <2>2
<1>3. Other(p) \in Persons
  BY TwoPersons
<1> QED
  BY <1>1, <1>2, <1>3


-----------------------------------------------------------------------------
(* The steps of an undisturbed run.                                        *)

\* What has disturbed a run stays in its history.
LEMMA UndisturbedBefore ==
  ASSUME PersonsTypeOK, [PersonsNext]_personVars, Undisturbed'
  PROVE  Undisturbed
<1> SUFFICES missed \subseteq missed' /\ stranded \subseteq stranded' /\ failed \subseteq failed'
             /\ late \subseteq late' /\ (crossed => crossed')
  BY DEF Undisturbed
<1> USE DEF history, connection, messages
<1>1. CASE UNCHANGED personVars
  BY <1>1 DEF personVars
<1>2. CASE \E p \in Persons, kind \in Kinds : Happens(kind, p)
  BY <1>2 DEF Happens
<1>3. CASE \E p \in Persons, n \in 1 .. MaxEvents : EventSubscribed(p, n)
  BY <1>3 DEF EventSubscribed, PublishWhenReady
<1>4. CASE \E p \in Persons, n \in 1 .. MaxEvents : EventUnsubscribed(p, n)
  BY <1>4 DEF EventUnsubscribed
<1>5. CASE \E p \in Persons, n \in 1 .. MaxEvents : EventLeft(p, n)
  BY <1>5 DEF EventLeft, CloseWith
<1>6. CASE \E p \in Persons, n \in 1 .. MaxEvents : WaitForStreamTimesOut(p, n)
  BY <1>6 DEF WaitForStreamTimesOut
<1>7. CASE \E p \in Persons : PublishCompletes(p) \/ WaitingPublishes(p)
  BY <1>7 DEF PublishCompletes, WaitingPublishes
<1>8. CASE \E p \in Persons : RunStartPublishing(p) \/ RunStartSubscribing(p) \/ WaitTimesOut(p)
  BY <1>8 DEF RunStartPublishing, RunStartSubscribing, WaitTimesOut
<1>9. CASE \E p \in Persons : RunStopPublishing(p)
  BY <1>9 DEF RunStopPublishing, CloseIfNeeded, CloseWith
<1>10. CASE \E p \in Persons : RunStopSubscribing(p)
  BY <1>10 DEF RunStopSubscribing, CloseIfNeeded, CloseWith
<1>11. CASE \E p \in Persons : MessageArrives(p)
  BY <1>11 DEF MessageArrives, Accept
<1> QED
  BY <1>1, <1>2, <1>3, <1>4, <1>5, <1>6, <1>7, <1>8, <1>9, <1>10, <1>11 DEF PersonsNext

\* An event that a person handles leaves its queue where it was, one call longer.
LEMMA UndisturbedSubscribed ==
  ASSUME PersonsTypeInv, LogInOrder, NEW p \in Persons, PersonInv(p), PersonInv(Other(p)),
         NEW n \in 1 .. MaxEvents, EventSubscribed(p, n), Undisturbed'
  PROVE  PersonInv(p)' /\ PersonInv(Other(p))'
<1> DEFINE q == Other(p)
           kind == JobOf(p, events[n])
           job == [kind |-> kind, n |-> n]
<1>1. q \in Persons /\ q # p /\ Other(q) = p /\ PersonInv(q)
  BY TwoPersons
<1>2. /\ n = at[p] + 1 /\ n <= Len(events) /\ events[n].kind = "subscribe"
      /\ at' = [at EXCEPT ![p] = n] /\ events' = events
  BY DEF EventSubscribed, Handles
<1>3. CallConnection(p, kind, n) /\ waiting' = waiting
  <2>1. CASE events[n].of = p
    <3>1. ready[p]
      BY <2>1 DEF EventSubscribed, PublishWhenReady, Undisturbed
    <3> QED
      BY <1>2, <2>1, <3>1 DEF EventSubscribed, PublishWhenReady, JobOf
  <2>2. CASE events[n].of # p
    BY <1>2, <2>2 DEF EventSubscribed, JobOf
  <2> QED
    BY <2>1, <2>2
<1>4. PersonsTypeOK
  BY DEF PersonsTypeInv
<1>5. n \in Events /\ kind \in JobKinds /\ made[p] < MaxEvents
  <2>1. waiting[p] = {} /\ made[p] + Cardinality(waiting[p]) <= at[p]
    BY DEF PersonInv, PersonsTypeInv, ConnectionsCounted
  <2>2. made[p] <= at[p] /\ Len(events) <= MaxEvents /\ Len(events) \in Nat /\ at[p] \in Nat
        /\ made[p] \in Nat
    BY <2>1, <1>4, FS_EmptySet, PersonFacts DEF PersonsTypeOK
  <2> QED
    BY <1>2, <2>2, MaxEventsAssumption DEF Events, JobOf, JobKinds
<1>6. jobs' = [jobs EXCEPT ![p] = Append(jobs[p], job)] /\ job \in Jobs
  BY <1>3, <1>5, CallTypes DEF Jobs, JobKinds
<1>7. /\ jobs[p] \in Seq(Jobs) /\ Len(jobs[p]) \in Nat /\ at[p] \in Nat
      /\ buffer[p] \in Seq(Messages) /\ wire[p] \in Seq(Messages) /\ coming(p) \in Seq(Messages)
  BY <1>4, PersonFacts
<1>8. jobs'[p] = Append(jobs[p], job) /\ jobs'[q] = jobs[q] /\ at'[p] = n /\ at'[q] = at[q]
  BY <1>1, <1>2, <1>4, <1>6 DEF PersonsTypeOK
<1>9. Len(jobs'[p]) = Len(jobs[p]) + 1 /\ jobs'[p] # <<>>
  BY <1>6, <1>7, <1>8, AppendProperties
<1>10. at'[p] - Len(jobs'[p]) = done(p) /\ at'[q] - Len(jobs'[q]) = done(q)
  <2>1. at'[p] - Len(jobs'[p]) = (at[p] + 1) - (Len(jobs[p]) + 1)
    BY <1>2, <1>8, <1>9
  <2>2. at'[q] - Len(jobs'[q]) = at[q] - Len(jobs[q])
    BY <1>8
  <2>3. at[p] \in Nat /\ Len(jobs[p]) \in Nat
    BY <1>7
  <2>4. (at[p] + 1) - (Len(jobs[p]) + 1) = at[p] - Len(jobs[p])
    BY <2>3
  <2> QED
    BY <2>1, <2>2, <2>4 DEF done
<1>11. /\ conn'[p] # 0 /\ buffer'[p] \o wire'[p] = coming(p)
       /\ conn[p] # 0 => publishing'[p] = publishing[p] /\ stream'[p] = stream[p]
       /\ conn[p] = 0 => publishing'[p] = FALSE /\ stream'[p] = FALSE
       /\ conn'[q] = conn[q] /\ publishing'[q] = publishing[q] /\ stream'[q] = stream[q]
       /\ buffer'[q] = buffer[q] /\ wire'[q] = wire[q]
  <2>1. CASE conn[p] # 0
    BY <1>3, <2>1 DEF CallConnection, messages, coming
  <2>2. CASE conn[p] = 0
    <3>1. /\ conn' = [conn EXCEPT ![p] = made[p] + 1]
          /\ publishing' = [publishing EXCEPT ![p] = FALSE]
          /\ stream' = [stream EXCEPT ![p] = FALSE]
          /\ wire' = [wire EXCEPT ![p] = buffer[p] \o wire[p]]
          /\ buffer' = [buffer EXCEPT ![p] = <<>>]
      BY <1>3, <2>2 DEF CallConnection, ResolveMessagingBuffer
    <3>2. made[p] \in Nat
      BY <1>4, MaxEventsAssumption DEF PersonsTypeOK
    <3>3. /\ conn'[p] = made[p] + 1 /\ publishing'[p] = FALSE /\ stream'[p] = FALSE
          /\ wire'[p] = coming(p) /\ buffer'[p] = <<>>
          /\ conn'[q] = conn[q] /\ publishing'[q] = publishing[q] /\ stream'[q] = stream[q]
          /\ buffer'[q] = buffer[q] /\ wire'[q] = wire[q]
      BY <1>1, <1>4, <3>1 DEF PersonsTypeOK, coming
    <3>4. <<>> \o coming(p) = coming(p)
      BY <1>7, ConcatEmptySeq
    <3> QED
      BY <2>2, <3>2, <3>3, <3>4
  <2> QED
    BY <2>1, <2>2
<1>12. waiting[p] = {} /\ waiting[q] = {} /\ done(p) \in Nat /\ done(q) \in Nat
  BY <1>1 DEF PersonInv
<1>13. QueueInTurn(events, p, done(p), jobs'[p])
  <2>1. done(p) + Len(jobs[p]) + 1 = n
    BY <1>2, <1>7 DEF done
  <2>2. JobFits(events, p, job, n)
    BY <1>2 DEF JobFits
  <2> QED
    <3>1. QueueInTurn(events, p, done(p), jobs[p])
      BY DEF PersonInv
    <3> HIDE DEF job
    <3>2. JobFits(events, p, job, done(p) + Len(jobs[p]) + 1)
      BY <2>1, <2>2
    <3>3. QueueInTurn(events, p, done(p), Append(jobs[p], job))
      BY <1>6, <1>7, <1>12, <3>1, <3>2, QueueAppended
    <3> QED
      BY <1>8, <3>3
<1>14. SideAgrees(events, p, done(p), conn'[p] # 0, publishing'[p], stream'[p], jobs'[p] # <<>>)
  BY <1>9, <1>11 DEF PersonInv, SideAgrees
<1>15. Direction(events, q, done(p), done(q), buffer'[p] \o wire'[p], conn'[p] # 0 /\ stream'[p])
  <2>1. (conn'[p] # 0 /\ stream'[p]) <=> held(p)
    BY <1>11 DEF held
  <2>2. (conn'[p] # 0 /\ stream'[p]) = held(p)
    BY <2>1 DEF held
  <2> QED
    BY <1>11, <2>2 DEF PersonInv
<1>16. PersonInv(p)'
  BY <1>2, <1>3, <1>10, <1>12, <1>13, <1>14, <1>15 DEF PersonInv, done, coming, held
<1>17. PersonInv(q)'
  BY <1>1, <1>2, <1>3, <1>8, <1>10, <1>11 DEF PersonInv, done, coming, held
<1> QED
  BY <1>16, <1>17


LEMMA EventsAre ==
  ASSUME PersonsTypeOK
  PROVE  /\ Len(events) \in Nat
         /\ \A n \in Events : events[n] \in [kind : Kinds, of : Persons]
<1>1. events \in Seq([kind : Kinds, of : Persons])
  BY DEF PersonsTypeOK
<1> QED
  BY <1>1, LenProperties, ElementOfSeq DEF Events

LEMMA UndisturbedUnsubscribed ==
  ASSUME PersonsTypeInv, LogInOrder, NEW p \in Persons, PersonInv(p), PersonInv(Other(p)),
         NEW n \in 1 .. MaxEvents, EventUnsubscribed(p, n)
  PROVE  PersonInv(p)' /\ PersonInv(Other(p))'
<1> DEFINE q == Other(p)
           kind == JobOf(p, events[n])
           job == [kind |-> kind, n |-> n]
<1>1. q \in Persons /\ q # p /\ Other(q) = p /\ PersonInv(q) /\ Persons = {p, q}
  BY TwoPersons
<1>2. /\ n = at[p] + 1 /\ n <= Len(events) /\ events[n].kind = "unsubscribe"
      /\ at' = [at EXCEPT ![p] = n] /\ events' = events
      /\ waiting' = waiting /\ CallIfOpen(p, kind, n)
  BY DEF EventUnsubscribed, Handles, JobOf
<1>3. PersonsTypeOK
  BY DEF PersonsTypeInv
<1>4. /\ jobs[p] \in Seq(Jobs) /\ Len(jobs[p]) \in Nat /\ at[p] \in Nat /\ Len(events) \in Nat
      /\ done(p) \in Nat /\ done(q) \in Nat
  BY <1>1, <1>3, PersonFacts DEF PersonInv
<1>5. n \in Events /\ job \in Jobs /\ events[n].of \in Persons
  <2>1. n \in Events
    BY <1>2, <1>4 DEF Events
  <2>2. events[n] \in [kind : Kinds, of : Persons]
    BY <1>3, <2>1, EventsAre
  <2> QED
    BY <2>1, <2>2 DEF Jobs, JobOf
<1>6. conn[p] # 0
  <2> SUFFICES ASSUME conn[p] = 0 PROVE FALSE
    OBVIOUS
  <2>1. jobs[p] = <<>>
    BY <1>3 DEF PersonsTypeOK
  <2>2. Len(jobs[p]) = 0
    BY <2>1
  <2>3. done(p) = n - 1
    BY <1>2, <1>4, <2>2 DEF done
  <2>4. ActiveAt(events, events[n].of, n - 1)
    BY <1>2, <1>5 DEF LogInOrder, InOrderUpTo
  <2>5. ~ActiveAt(events, p, done(p)) /\ ~ActiveAt(events, q, done(p))
    BY DEF PersonInv, SideAgrees
  <2> QED
    BY <1>1, <1>5, <2>3, <2>4, <2>5
<1>7. /\ jobs' = [jobs EXCEPT ![p] = Append(jobs[p], job)]
      /\ UNCHANGED <<conn, publishing, stream, wire, buffer>>
  BY <1>2, <1>6 DEF CallIfOpen, EnqueueJob, messages
<1>8. jobs'[p] = Append(jobs[p], job) /\ jobs'[q] = jobs[q] /\ at'[p] = n /\ at'[q] = at[q]
  BY <1>1, <1>2, <1>3, <1>7 DEF PersonsTypeOK
<1>9. Len(jobs'[p]) = Len(jobs[p]) + 1 /\ jobs'[p] # <<>>
  BY <1>4, <1>5, <1>8, AppendProperties
<1>10. at'[p] - Len(jobs'[p]) = done(p) /\ at'[q] - Len(jobs'[q]) = done(q)
  <2>1. at'[p] - Len(jobs'[p]) = (at[p] + 1) - (Len(jobs[p]) + 1)
    BY <1>2, <1>8, <1>9
  <2>2. at'[q] - Len(jobs'[q]) = at[q] - Len(jobs[q])
    BY <1>8
  <2>3. at[p] \in Nat /\ Len(jobs[p]) \in Nat
    BY <1>4
  <2>4. (at[p] + 1) - (Len(jobs[p]) + 1) = at[p] - Len(jobs[p])
    BY <2>3
  <2> QED
    BY <2>1, <2>2, <2>4 DEF done
<1>11. QueueInTurn(events, p, done(p), jobs'[p])
  <2>1. done(p) + Len(jobs[p]) + 1 = n
    BY <1>2, <1>4 DEF done
  <2>2. JobFits(events, p, job, n)
    BY <1>2 DEF JobFits
  <2> QED
    BY <1>4, <1>5, <1>8, <2>1, <2>2, QueueAppended DEF PersonInv
<1>12. SideAgrees(events, p, done(p), conn[p] # 0, publishing[p], stream[p], jobs'[p] # <<>>)
  BY <1>6, <1>9 DEF PersonInv, SideAgrees
<1>13. PersonInv(p)'
  BY <1>2, <1>7, <1>10, <1>11, <1>12 DEF PersonInv, done, coming, held
<1>14. PersonInv(q)'
  BY <1>1, <1>2, <1>7, <1>8, <1>10 DEF PersonInv, done, coming, held
<1> QED
  BY <1>13, <1>14

\* What the publisher q knows of itself when only p has got on.
LEMMA OtherKeeps ==
  ASSUME NEW q, PersonInv(q), NEW e, events' = events, waiting'[q] = waiting[q],
         at'[q] = at[q], jobs'[q] = jobs[q], conn'[q] = conn[q],
         publishing'[q] = publishing[q], stream'[q] = stream[q],
         at'[Other(q)] - Len(jobs'[Other(q)]) = e,
         Direction(events, Other(q), done(q), e, buffer'[q] \o wire'[q], held(q))
  PROVE  PersonInv(q)'
  BY DEF PersonInv, done, coming, held

\* A person that has got on to d.
LEMMA PersonMoves ==
  ASSUME NEW p, NEW d \in Nat, NEW e, events' = events, waiting'[p] = {},
         at'[p] - Len(jobs'[p]) = d, at'[Other(p)] - Len(jobs'[Other(p)]) = e,
         QueueInTurn(events, p, d, jobs'[p]),
         SideAgrees(events, p, d, conn'[p] # 0, publishing'[p], stream'[p], jobs'[p] # <<>>),
         Direction(events, Other(p), d, e, buffer'[p] \o wire'[p], conn'[p] # 0 /\ stream'[p])
  PROVE  PersonInv(p)'
  BY DEF PersonInv, done, coming, held

\* When the other person has left, its connection closes with nothing but ends
\* in its queue: nothing is subscribed to any more.
LEMMA UndisturbedLeft ==
  ASSUME PersonsTypeInv, LogInOrder, NEW p \in Persons, PersonInv(p), PersonInv(Other(p)),
         NEW n \in 1 .. MaxEvents, EventLeft(p, n), Undisturbed'
  PROVE  PersonInv(p)' /\ PersonInv(Other(p))'
<1> DEFINE q == Other(p)
<1>1. q \in Persons /\ q # p /\ Other(q) = p /\ PersonInv(q) /\ Persons = {p, q}
  BY TwoPersons
<1>2. /\ n = at[p] + 1 /\ n <= Len(events) /\ events[n].kind = "leave"
      /\ at' = [at EXCEPT ![p] = n]
      /\ UNCHANGED <<events, waiting, publishing, stream, wire, buffer>>
      /\ conn' = [conn EXCEPT ![p] = 0] /\ jobs' = [jobs EXCEPT ![p] = <<>>]
      /\ stranded' = stranded \cup {jobs[p][i].n : i \in {j \in DOMAIN jobs[p] :
                       jobs[p][j].kind \in {"startSubscribing", "startPublishing"}}}
  BY DEF EventLeft, Handles, CloseWith, messages
<1>3. PersonsTypeOK
  BY DEF PersonsTypeInv
<1>4. /\ jobs[p] \in Seq(Jobs) /\ Len(jobs[p]) \in Nat /\ at[p] \in Nat /\ Len(events) \in Nat
      /\ coming(p) \in Seq(Messages) /\ coming(q) \in Seq(Messages) /\ held(q) \in BOOLEAN
      /\ held(p) \in BOOLEAN /\ at[q] <= Len(events) /\ at[q] \in Nat
      /\ done(q) <= at[q] /\ done(p) <= at[p] /\ done(p) \in Nat /\ done(q) \in Nat
      /\ waiting[p] = {} /\ waiting[q] = {}
  BY <1>1, <1>3, PersonFacts DEF PersonInv
<1>5. n \in Events
  BY <1>2, <1>4 DEF Events
<1>6. n = Len(events) /\ \A a \in Persons : ~ActiveAt(events, a, n - 1)
  BY <1>2, <1>5 DEF LogInOrder, InOrderUpTo
<1>7. \A a \in Persons : ~ActiveAt(events, a, n)
  <2> SUFFICES ASSUME NEW a \in Persons PROVE ~ActiveAt(events, a, n)
    OBVIOUS
  <2>1. n = at[p] + 1 /\ n - 1 = at[p] /\ events[n].kind # "subscribe" /\ at[p] \in Nat
    BY <1>2, <1>4
  <2>2. /\ events[at[p] + 1].of # a =>
              (ActiveAt(events, a, at[p] + 1) <=> ActiveAt(events, a, at[p]))
        /\ events[at[p] + 1].of = a /\ events[at[p] + 1].kind # "subscribe" =>
              ~ActiveAt(events, a, at[p] + 1)
    BY <2>1, ActiveStep
  <2>3. ~ActiveAt(events, a, at[p])
    BY <1>6, <2>1
  <2> QED
    BY <2>1, <2>2, <2>3
<1>8. \A a \in Persons : \A k \in done(p) + 1 .. n : ~IsSub(events, a, k)
  <2> SUFFICES ASSUME NEW a \in Persons, NEW k \in done(p) + 1 .. n, IsSub(events, a, k)
               PROVE  FALSE
    OBVIOUS
  <2>1. k # n
    BY <1>2 DEF IsSub
  <2> DEFINE i == k - done(p)
  <2>2. done(p) = at[p] - Len(jobs[p])
    BY DEF done
  <2>3. i \in 1 .. Len(jobs[p]) /\ done(p) + i = k
    <3> DEFINE l == Len(jobs[p])
    <3>1. l \in Nat /\ done(p) = at[p] - l /\ n = at[p] + 1 /\ at[p] \in Nat /\ k # n
      BY <1>2, <1>4, <2>1, <2>2
    <3> HIDE DEF l
    <3>2. k - done(p) \in 1 .. l /\ done(p) + (k - done(p)) = k
      BY <3>1
    <3> QED
      BY <3>2 DEF l
  <2>4. JobFits(events, p, jobs[p][i], k)
    BY <2>3 DEF PersonInv, QueueInTurn
  <2>5. jobs[p][i].kind \in {"startSubscribing", "startPublishing"}
    BY <2>4 DEF JobFits, JobOf, IsSub
  <2>6. i \in DOMAIN jobs[p]
    BY <1>4, <2>3
  <2>7. jobs[p][i].n \in stranded'
    BY <1>2, <2>5, <2>6
  <2> QED
    BY <2>7 DEF Undisturbed
<1>9. /\ at'[p] = n /\ at'[q] = at[q] /\ jobs'[p] = <<>> /\ jobs'[q] = jobs[q]
      /\ conn'[p] = 0 /\ conn'[q] = conn[q]
  BY <1>1, <1>2, <1>3 DEF PersonsTypeOK
<1>10. at'[p] - Len(jobs'[p]) = n /\ at'[q] - Len(jobs'[q]) = done(q)
  <2>1. Len(jobs'[p]) = 0
    BY <1>9
  <2>2. n - 0 = n
    BY <1>4, <1>2
  <2> QED
    BY <1>9, <2>1, <2>2 DEF done
<1>11. QueueInTurn(events, p, n, jobs'[p])
  BY <1>9 DEF QueueInTurn
<1>13. SideAgrees(events, p, n, conn'[p] # 0, publishing'[p], stream'[p], jobs'[p] # <<>>)
  BY <1>1, <1>7, <1>9 DEF SideAgrees
<1>14. Direction(events, q, n, done(q), coming(p), FALSE)
  <2>1. Direction(events, q, done(p), done(q), coming(p), held(p))
    BY DEF PersonInv
  <2>2. done(p) <= n /\ done(q) <= n /\ n \in Nat
    BY <1>2, <1>4, <1>6
  <2> QED
    BY <1>1, <1>3, <1>4, <1>7, <1>8, <2>1, <2>2, DirectionEnds
<1>15. Direction(events, p, done(q), n, coming(q), held(q))
  <2>1. Direction(events, p, done(q), done(p), coming(q), held(q))
    BY <1>1 DEF PersonInv
  <2>2. done(p) <= n /\ n \in Nat
    BY <1>2, <1>4
  <2> QED
    BY <1>3, <1>4, <1>8, <2>1, <2>2, DirectionPublisherGoesOn
<1>16. Direction(events, q, n, done(q), coming(p), conn'[p] # 0 /\ stream'[p])
  <2>1. (conn'[p] # 0 /\ stream'[p]) = FALSE
    BY <1>9
  <2> QED
    BY <1>14, <2>1
<1>17. PersonInv(p)'
  <2>1. buffer'[p] \o wire'[p] = coming(p) /\ waiting'[p] = {} /\ n \in Nat
    BY <1>2, <1>4 DEF coming
  <2> QED
    BY <1>1, <1>2, <1>10, <1>11, <1>13, <1>16, <2>1, PersonMoves
<1>18. PersonInv(q)'
  BY <1>1, <1>2, <1>4, <1>9, <1>10, <1>15 DEF PersonInv, done, coming, held
<1> QED
  BY <1>17, <1>18

\* The call at the head of a queue is the one for the next event.
LEMMA HeadOfQueue ==
  ASSUME PersonsTypeInv, NEW p \in Persons, PersonInv(p), jobs[p] # <<>>
  PROVE  /\ done(p) \in Nat /\ done(p) + 1 \in Events /\ head(p).n = done(p) + 1
         /\ events[done(p) + 1].kind \in {"subscribe", "unsubscribe"}
         /\ events[done(p) + 1].of \in Persons
         /\ head(p).kind = JobOf(p, events[done(p) + 1])
         /\ conn[p] \in 1 .. MaxEvents
         /\ Tail(jobs[p]) \in Seq(Jobs) /\ QueueInTurn(events, p, done(p) + 1, Tail(jobs[p]))
         /\ at[p] - Len(Tail(jobs[p])) = done(p) + 1
<1>1. PersonsTypeOK
  BY DEF PersonsTypeInv
<1>2. /\ jobs[p] \in Seq(Jobs) /\ Len(jobs[p]) \in Nat /\ at[p] \in Nat /\ Len(events) \in Nat
      /\ done(p) \in Nat /\ at[p] <= Len(events) /\ QueueInTurn(events, p, done(p), jobs[p])
  BY <1>1, PersonFacts DEF PersonInv
<1>3. /\ Len(Tail(jobs[p])) = Len(jobs[p]) - 1
      /\ JobFits(events, p, head(p), done(p) + 1)
      /\ QueueInTurn(events, p, done(p) + 1, Tail(jobs[p]))
  BY <1>2, QueueTaken DEF head
<1>4. Tail(jobs[p]) \in Seq(Jobs) /\ Len(Tail(jobs[p])) \in Nat
  BY <1>2, HeadTailProperties, LenProperties
<1>5. at[p] - Len(Tail(jobs[p])) = done(p) + 1 /\ done(p) + 1 \in 1 .. Len(events)
  <2> DEFINE l == Len(jobs[p])
  <2>1. l \in Nat /\ Len(Tail(jobs[p])) = l - 1 /\ l - 1 \in Nat /\ done(p) = at[p] - l
        /\ at[p] \in Nat /\ at[p] <= Len(events) /\ Len(events) \in Nat /\ done(p) \in Nat
    BY <1>2, <1>3, <1>4 DEF done
  <2> HIDE DEF l
  <2> QED
    BY <2>1
<1>6. events[done(p) + 1] \in [kind : Kinds, of : Persons]
  BY <1>1, <1>5, EventsAre DEF Events
<1>7. conn[p] \in 1 .. MaxEvents
  BY <1>1, MaxEventsAssumption DEF PersonsTypeOK
<1>8. head(p).n = done(p) + 1 /\ events[done(p) + 1].kind # "leave"
      /\ head(p).kind = JobOf(p, events[done(p) + 1])
  BY <1>3 DEF JobFits
<1> QED
  BY <1>2, <1>3, <1>4, <1>5, <1>6, <1>7, <1>8 DEF Kinds, Events

\* A connection that closes undisturbed when nothing is subscribed to has no
\* call behind the one that closes it.
LEMMA ClosedEmpty ==
  ASSUME PersonsTypeOK, LogInOrder, NEW p \in Persons, NEW d \in Nat, NEW s \in Seq(Jobs),
         d + Len(s) <= Len(events), QueueInTurn(events, p, d, s),
         \A a \in Persons : ~ActiveAt(events, a, d),
         \A j \in DOMAIN s : s[j].kind \notin {"startSubscribing", "startPublishing"}
  PROVE  s = <<>>
<1> SUFFICES ASSUME s # <<>> PROVE FALSE
  OBVIOUS
<1>1. Len(s) \in Nat /\ 1 \in 1 .. Len(s) /\ 1 \in DOMAIN s /\ Len(events) \in Nat
  <2>1. Len(s) \in Nat /\ Len(events) \in Nat /\ DOMAIN s = 1 .. Len(s)
    BY EventsAre, LenProperties
  <2>2. Len(s) # 0
    BY <2>1, EmptySeq
  <2> QED
    BY <2>1, <2>2
<1>2. JobFits(events, p, s[1], d + 1)
  BY <1>1 DEF QueueInTurn
<1>3. d + 1 \in Events
  BY <1>1 DEF Events
<1>4. events[d + 1] \in [kind : Kinds, of : Persons]
  BY <1>3, EventsAre
<1>5. events[d + 1].kind # "subscribe"
  BY <1>1, <1>2 DEF JobFits, JobOf
<1>6. events[d + 1].kind = "unsubscribe" /\ events[d + 1].of \in Persons
  BY <1>2, <1>4, <1>5 DEF JobFits, Kinds
<1>7. ActiveAt(events, events[d + 1].of, (d + 1) - 1) /\ (d + 1) - 1 = d
  BY <1>3, <1>6 DEF LogInOrder, InOrderUpTo
<1> QED
  BY <1>6, <1>7


\* Appending to the messages on their way, said for a person.
LEMMA ComingGrows ==
  ASSUME PersonsTypeOK, NEW q \in Persons, NEW msg \in Messages
  PROVE  buffer[q] \o Append(wire[q], msg) = Append(coming(q), msg)
<1>1. buffer[q] \in Seq(Messages) /\ wire[q] \in Seq(Messages)
  BY PersonFacts
<1>2. \A s, t \in Seq(Messages) : \A m \in Messages : s \o Append(t, m) = Append(s \o t, m)
  BY ComingAppended
<1>3. buffer[q] \o Append(wire[q], msg) = Append(buffer[q] \o wire[q], msg)
  BY <1>1, <1>2
<1> QED
  BY <1>3 DEF coming

LEMMA UndisturbedStartsPublishing ==
  ASSUME PersonsTypeInv, LogInOrder, NEW p \in Persons, PersonInv(p), PersonInv(Other(p)),
         RunStartPublishing(p)
  PROVE  PersonInv(p)' /\ PersonInv(Other(p))'
<1> DEFINE q == Other(p)
           d == done(p)
           msg == [kind |-> "produce", n |-> d + 1, from |-> conn[p]]
<1>1. q \in Persons /\ q # p /\ Other(q) = p /\ PersonInv(q) /\ PersonsTypeOK
  BY TwoPersons DEF PersonsTypeInv
<1>2. /\ jobs[p] # <<>> /\ head(p).kind = "startPublishing"
      /\ publishing' = [publishing EXCEPT ![p] = TRUE]
      /\ wire' = [wire EXCEPT ![q] =
                    Append(wire[q], [kind |-> "produce", n |-> head(p).n, from |-> conn[p]])]
      /\ jobs' = [jobs EXCEPT ![p] = Tail(jobs[p])]
      /\ UNCHANGED <<events, at, waiting, conn, stream, buffer>>
  BY DEF RunStartPublishing, runs, Send
<1>3. /\ d \in Nat /\ d + 1 \in Events /\ head(p).n = d + 1
      /\ head(p).kind = JobOf(p, events[d + 1])
      /\ events[d + 1].kind \in {"subscribe", "unsubscribe"}
      /\ conn[p] \in 1 .. MaxEvents
      /\ QueueInTurn(events, p, d + 1, Tail(jobs[p]))
      /\ at[p] - Len(Tail(jobs[p])) = d + 1
  BY <1>2, HeadOfQueue
<1>4. IsSub(events, p, d + 1) /\ events[d + 1].of # q
  BY <1>1, <1>2, <1>3 DEF JobOf, IsSub
<1>5. /\ wire[q] \in Seq(Messages) /\ buffer[q] \in Seq(Messages) /\ coming(p) \in Seq(Messages)
      /\ coming(q) \in Seq(Messages) /\ held(p) \in BOOLEAN /\ held(q) \in BOOLEAN
      /\ done(q) \in Nat /\ waiting[p] = {} /\ waiting[q] = {}
  BY <1>1, PersonFacts DEF PersonInv
<1>6. /\ jobs'[p] = Tail(jobs[p]) /\ jobs'[q] = jobs[q] /\ publishing'[p] = TRUE
      /\ publishing'[q] = publishing[q] /\ wire'[p] = wire[p] /\ wire'[q] = Append(wire[q], msg)
  BY <1>1, <1>2, <1>3 DEF PersonsTypeOK
<1>7. at'[p] - Len(jobs'[p]) = d + 1 /\ at'[q] - Len(jobs'[q]) = done(q)
  BY <1>2, <1>3, <1>6 DEF done
<1>8. msg \in Messages
  BY <1>3 DEF Messages
<1>9. SideAgrees(events, p, d + 1, conn[p] # 0, TRUE, stream[p], jobs'[p] # <<>>)
  <2>1. SideAgrees(events, p, d, conn[p] # 0, publishing[p], stream[p], jobs[p] # <<>>)
    BY DEF PersonInv
  <2>2. ActiveAt(events, p, d + 1) /\ (ActiveAt(events, q, d + 1) <=> ActiveAt(events, q, d))
    BY <1>3, <1>4, ActiveStep
  <2> QED
    BY <1>3, <2>1, <2>2 DEF SideAgrees
<1>10. Direction(events, q, d + 1, done(q), coming(p), held(p))
  BY <1>1, <1>3, <1>4, <1>5, DirectionSubscriberGoesOn DEF PersonInv
<1>11. Direction(events, p, done(q), d + 1, Append(coming(q), msg), held(q))
  <2>1. Direction(events, p, done(q), d, coming(q), held(q))
    BY <1>1 DEF PersonInv
  <2> HIDE DEF d
  <2>2. msg.n = d + 1 /\ (msg.kind = "produce" <=> IsSub(events, p, d + 1))
    BY <1>4
  <2>3. msg \in Messages /\ d \in Nat
    BY <1>3, <1>8
  <2> HIDE DEF msg
  <2> QED
    BY <1>1, <1>5, <2>1, <2>2, <2>3, DirectionSends
<1>12. buffer'[q] \o wire'[q] = Append(coming(q), msg)
  <2>1. buffer[q] \o Append(wire[q], msg) = Append(coming(q), msg)
    BY <1>1, <1>8, ComingGrows
  <2> QED
    BY <1>2, <1>6, <2>1
<1>13. PersonInv(p)'
  <2>1. buffer'[p] \o wire'[p] = coming(p) /\ (conn'[p] # 0 /\ stream'[p]) = held(p)
    BY <1>2, <1>6 DEF coming, held
  <2>3. SideAgrees(events, p, d + 1, conn'[p] # 0, publishing'[p], stream'[p], jobs'[p] # <<>>)
    BY <1>2, <1>6, <1>9
  <2>2. d + 1 \in Nat /\ waiting'[p] = {}
    BY <1>2, <1>3, <1>5
  <2> HIDE DEF d
  <2> QED
    BY <1>2, <1>3, <1>6, <1>7, <1>10, <2>1, <2>2, <2>3, PersonMoves
<1>14. PersonInv(q)'
  BY <1>1, <1>2, <1>6, <1>7, <1>11, <1>12, OtherKeeps
<1> QED
  BY <1>13, <1>14

\* What stopping a publication, and letting a stream go, have in common: the
\* connection closes when neither is left, and then its queue is empty.
LEMMA ClosesWhenNeitherIsLeft ==
  ASSUME PersonsTypeInv, LogInOrder, NEW p \in Persons, PersonInv(p), jobs[p] # <<>>,
         CloseIfNeeded(p, Tail(jobs[p])), Undisturbed', NEW d, d = done(p) + 1,
         publishing'[p] \in BOOLEAN, stream'[p] \in BOOLEAN,
         publishing'[p] <=> ActiveAt(events, p, d),
         ActiveAt(events, Other(p), d) => stream'[p]
  PROVE  /\ at[p] - Len(jobs'[p]) = d /\ QueueInTurn(events, p, d, jobs'[p])
         /\ SideAgrees(events, p, d, conn'[p] # 0, publishing'[p], stream'[p], jobs'[p] # <<>>)
         /\ conn'[p] # 0 <=> publishing'[p] \/ stream'[p]
         /\ \A q \in Persons \ {p} : jobs'[q] = jobs[q] /\ conn'[q] = conn[q]
<1> DEFINE rest == Tail(jobs[p])
<1>1. PersonsTypeOK
  BY DEF PersonsTypeInv
<1>2. /\ d \in Nat /\ rest \in Seq(Jobs) /\ QueueInTurn(events, p, d, rest)
      /\ at[p] - Len(rest) = d /\ conn[p] # 0
  BY HeadOfQueue, MaxEventsAssumption
<1>3. CASE publishing'[p] \/ stream'[p]
  <2>1. jobs' = [jobs EXCEPT ![p] = rest] /\ conn' = conn
    BY <1>3 DEF CloseIfNeeded
  <2>2. jobs'[p] = rest /\ \A q \in Persons \ {p} : jobs'[q] = jobs[q]
    BY <1>1, <2>1 DEF PersonsTypeOK
  <2>3. SideAgrees(events, p, d, TRUE, publishing'[p], stream'[p], jobs'[p] # <<>>)
    BY <1>3 DEF SideAgrees
  <2>4. (conn'[p] # 0) = TRUE
    BY <1>2, <2>1
  <2> QED
    BY <1>2, <1>3, <2>1, <2>2, <2>3, <2>4
<1>4. CASE ~(publishing'[p] \/ stream'[p])
  <2>1. /\ conn' = [conn EXCEPT ![p] = 0] /\ jobs' = [jobs EXCEPT ![p] = <<>>]
        /\ stranded' = stranded \cup {rest[i].n : i \in {j \in DOMAIN rest :
                         rest[j].kind \in {"startSubscribing", "startPublishing"}}}
    BY <1>4 DEF CloseIfNeeded, CloseWith
  <2>2. \A j \in DOMAIN rest : rest[j].kind \notin {"startSubscribing", "startPublishing"}
    <3>1. stranded' = {}
      BY DEF Undisturbed
    <3> HIDE DEF rest
    <3> QED
      BY <2>1, <3>1
  <2>3. \A a \in Persons : ~ActiveAt(events, a, d)
    BY <1>4, TwoPersons
  <2>4. d + Len(rest) <= Len(events)
    <3>1. at[p] <= Len(events) /\ at[p] \in Nat /\ Len(rest) \in Nat
      BY <1>1, <1>2, PersonFacts, LenProperties
    <3> HIDE DEF rest
    <3> QED
      BY <1>2, <3>1, EventsAre, <1>1
  <2>5. rest = <<>>
    BY <1>1, <1>2, <2>2, <2>3, <2>4, ClosedEmpty
  <2>6. /\ conn'[p] = 0 /\ jobs'[p] = rest
        /\ \A q \in Persons \ {p} : jobs'[q] = jobs[q] /\ conn'[q] = conn[q]
    BY <1>1, <2>1, <2>5 DEF PersonsTypeOK
  <2>7. SideAgrees(events, p, d, FALSE, publishing'[p], stream'[p], jobs'[p] # <<>>)
    BY <2>3, TwoPersons DEF SideAgrees
  <2>8. (conn'[p] # 0) = FALSE
    BY <2>6
  <2> QED
    BY <1>2, <1>4, <2>6, <2>7, <2>8
<1> QED
  BY <1>3, <1>4

LEMMA UndisturbedStopsPublishing ==
  ASSUME PersonsTypeInv, LogInOrder, NEW p \in Persons, PersonInv(p), PersonInv(Other(p)),
         RunStopPublishing(p), Undisturbed'
  PROVE  PersonInv(p)' /\ PersonInv(Other(p))'
<1> DEFINE q == Other(p)
           d == done(p)
           msg == [kind |-> "unproduce", n |-> d + 1, from |-> conn[p]]
<1>1. q \in Persons /\ q # p /\ Other(q) = p /\ PersonInv(q) /\ PersonsTypeOK
  BY TwoPersons DEF PersonsTypeInv
<1>2. /\ jobs[p] # <<>> /\ head(p).kind = "stopPublishing"
      /\ publishing' = [publishing EXCEPT ![p] = FALSE]
      /\ CloseIfNeeded(p, Tail(jobs[p]))
      /\ IF publishing[p] /\ stream[p]
         THEN wire' = [wire EXCEPT ![q] =
                    Append(wire[q], [kind |-> "unproduce", n |-> head(p).n, from |-> conn[p]])]
         ELSE wire' = wire
      /\ UNCHANGED <<events, at, waiting, stream, buffer>>
  BY DEF RunStopPublishing, runs, Send
<1>3. /\ d \in Nat /\ d + 1 \in Events /\ head(p).n = d + 1
      /\ head(p).kind = JobOf(p, events[d + 1])
      /\ conn[p] \in 1 .. MaxEvents /\ conn[p] # 0
  BY <1>2, HeadOfQueue, MaxEventsAssumption
<1>4. ~IsSub(events, p, d + 1) /\ events[d + 1].of = p /\ events[d + 1].kind # "subscribe"
  BY <1>1, <1>2, <1>3 DEF JobOf, IsSub
<1>5. /\ wire[q] \in Seq(Messages) /\ buffer[q] \in Seq(Messages) /\ coming(p) \in Seq(Messages)
      /\ coming(q) \in Seq(Messages) /\ held(p) \in BOOLEAN /\ held(q) \in BOOLEAN
      /\ done(q) \in Nat /\ waiting[p] = {} /\ waiting[q] = {}
      /\ stream[p] \in BOOLEAN
  BY <1>1, PersonFacts DEF PersonInv
<1>6. /\ publishing'[p] = FALSE /\ publishing'[q] = publishing[q]
      /\ stream' = stream /\ at' = at /\ wire'[p] = wire[p]
  BY <1>1, <1>2 DEF PersonsTypeOK
<1>7. /\ ~ActiveAt(events, p, d + 1)
      /\ ActiveAt(events, q, d + 1) => stream[p]
  <2>1. SideAgrees(events, p, d, conn[p] # 0, publishing[p], stream[p], jobs[p] # <<>>)
    BY DEF PersonInv
  <2>2. ~ActiveAt(events, p, d + 1) /\ (ActiveAt(events, q, d + 1) <=> ActiveAt(events, q, d))
    BY <1>1, <1>3, <1>4, ActiveStep
  <2> QED
    BY <1>3, <2>1, <2>2 DEF SideAgrees
<1>8. /\ at[p] - Len(jobs'[p]) = d + 1 /\ QueueInTurn(events, p, d + 1, jobs'[p])
      /\ SideAgrees(events, p, d + 1, conn'[p] # 0, publishing'[p], stream'[p], jobs'[p] # <<>>)
      /\ conn'[p] # 0 <=> publishing'[p] \/ stream'[p]
      /\ jobs'[q] = jobs[q] /\ conn'[q] = conn[q]
  BY <1>1, <1>2, <1>5, <1>6, <1>7, ClosesWhenNeitherIsLeft
<1>9. at'[p] - Len(jobs'[p]) = d + 1 /\ at'[q] - Len(jobs'[q]) = done(q)
  BY <1>6, <1>8 DEF done
<1>10. (conn'[p] # 0 /\ stream'[p]) = held(p)
  BY <1>3, <1>5, <1>6, <1>8 DEF held
<1>11. Direction(events, q, d + 1, done(q), coming(p), held(p))
  BY <1>1, <1>3, <1>4, <1>5, DirectionSubscriberGoesOn DEF PersonInv
<1>12. Direction(events, p, done(q), d + 1, buffer'[q] \o wire'[q], held(q))
  <2>1. Direction(events, p, done(q), d, coming(q), held(q))
    BY <1>1 DEF PersonInv
  <2>2. CASE publishing[p] /\ stream[p]
    <3>1. msg \in Messages
      BY <1>3 DEF Messages
    <3> HIDE DEF d
    <3>2. msg.n = d + 1 /\ msg.kind # "produce"
      OBVIOUS
    <3>3. wire'[q] = Append(wire[q], msg)
      BY <1>1, <1>2, <1>3, <2>2 DEF PersonsTypeOK
    <3>4. buffer'[q] \o wire'[q] = Append(coming(q), msg)
      <4> HIDE DEF msg
      <4>1. buffer[q] \o Append(wire[q], msg) = Append(coming(q), msg)
        BY <1>1, <3>1, ComingGrows
      <4> QED
        BY <1>2, <3>3, <4>1
    <3>5. Direction(events, p, done(q), d + 1, Append(coming(q), msg), held(q))
      <4>1. ~IsSub(events, p, d + 1)
        BY <1>4
      <4> HIDE DEF msg
      <4> QED
        BY <1>1, <1>3, <1>5, <2>1, <3>1, <3>2, <4>1, DirectionSends
    <3> QED
      BY <3>4, <3>5
  <2>3. CASE ~(publishing[p] /\ stream[p])
    <3>1. buffer'[q] \o wire'[q] = coming(q)
      BY <1>2, <2>3 DEF coming
    <3> HIDE DEF d
    <3>2. d + 1 \in Nat /\ d <= d + 1 /\ \A n \in d + 1 .. d + 1 : n = d + 1
      BY <1>3
    <3>3. Direction(events, p, done(q), d + 1, coming(q), held(q))
      BY <1>1, <1>3, <1>4, <1>5, <2>1, <3>2, DirectionPublisherGoesOn
    <3> QED
      BY <3>1, <3>3
  <2> QED
    BY <2>2, <2>3
<1>13. PersonInv(p)'
  <2>1. buffer'[p] \o wire'[p] = coming(p)
    BY <1>2, <1>6 DEF coming
  <2>2. d + 1 \in Nat /\ waiting'[p] = {}
    BY <1>2, <1>3, <1>5
  <2> HIDE DEF d
  <2> QED
    BY <1>2, <1>8, <1>9, <1>10, <1>11, <2>1, <2>2, PersonMoves
<1>14. PersonInv(q)'
  BY <1>1, <1>2, <1>6, <1>8, <1>9, <1>12, OtherKeeps
<1> QED
  BY <1>13, <1>14


\* The head that waited has its stream: it is that of its own subscription.
LEMMA UndisturbedStartsSubscribing ==
  ASSUME PersonsTypeInv, LogInOrder, NEW p \in Persons, PersonInv(p), PersonInv(Other(p)),
         RunStartSubscribing(p)
  PROVE  PersonInv(p)' /\ PersonInv(Other(p))'
<1> DEFINE q == Other(p)
           d == done(p)
<1>1. q \in Persons /\ q # p /\ Other(q) = p /\ PersonInv(q) /\ PersonsTypeOK
  BY TwoPersons DEF PersonsTypeInv
<1>2. /\ jobs[p] # <<>> /\ head(p).kind = "startSubscribing" /\ stream[p]
      /\ jobs' = [jobs EXCEPT ![p] = Tail(jobs[p])]
      /\ UNCHANGED <<events, at, waiting, conn, publishing, stream, wire, buffer>>
  BY DEF RunStartSubscribing, runs, messages
<1>3. /\ d \in Nat /\ d + 1 \in Events
      /\ head(p).kind = JobOf(p, events[d + 1])
      /\ events[d + 1].kind \in {"subscribe", "unsubscribe"} /\ events[d + 1].of \in Persons
      /\ conn[p] # 0
      /\ QueueInTurn(events, p, d + 1, Tail(jobs[p]))
      /\ at[p] - Len(Tail(jobs[p])) = d + 1
  BY <1>2, HeadOfQueue, MaxEventsAssumption
<1>4. IsSub(events, q, d + 1) /\ ~IsSub(events, p, d + 1) /\ events[d + 1].of # p
      /\ events[d + 1].of = q /\ events[d + 1].kind = "subscribe"
  <2>1. events[d + 1].kind = "subscribe" /\ events[d + 1].of # p
    BY <1>2, <1>3 DEF JobOf
  <2> QED
    BY <1>3, <2>1, TwoPersons DEF IsSub
<1>5. /\ coming(p) \in Seq(Messages) /\ coming(q) \in Seq(Messages)
      /\ held(p) \in BOOLEAN /\ held(q) \in BOOLEAN
      /\ done(q) \in Nat /\ waiting[p] = {} /\ waiting[q] = {}
  BY <1>1, PersonFacts DEF PersonInv
<1>6. jobs'[p] = Tail(jobs[p]) /\ jobs'[q] = jobs[q]
  BY <1>1, <1>2 DEF PersonsTypeOK
<1>7. at'[p] - Len(jobs'[p]) = d + 1 /\ at'[q] - Len(jobs'[q]) = done(q)
  BY <1>2, <1>3, <1>6 DEF done
<1>8. ~ActiveAt(events, q, d)
  <2>1. (d + 1) - 1 = d
    BY <1>3
  <2>2. ~ActiveAt(events, q, (d + 1) - 1)
    BY <1>3, <1>4 DEF LogInOrder, InOrderUpTo
  <2> QED
    BY <2>1, <2>2
<1>9. SideAgrees(events, p, d + 1, conn[p] # 0, publishing[p], stream[p], jobs'[p] # <<>>)
  <2>1. SideAgrees(events, p, d, conn[p] # 0, publishing[p], stream[p], jobs[p] # <<>>)
    BY DEF PersonInv
  <2>2. ActiveAt(events, p, d + 1) <=> ActiveAt(events, p, d)
    BY <1>3, <1>4, ActiveStep
  <2> QED
    BY <1>2, <1>3, <2>1, <2>2 DEF SideAgrees
<1>10. Direction(events, q, d + 1, done(q), coming(p), held(p))
  <2>1. held(p) = TRUE
    BY <1>2, <1>3 DEF held
  <2>2. Direction(events, q, d, done(q), coming(p), TRUE)
    BY <2>1 DEF PersonInv
  <2>3. Direction(events, q, d + 1, done(q), coming(p), TRUE)
    BY <1>1, <1>3, <1>4, <1>5, <1>8, <2>2, DirectionSubscribes
  <2> QED
    BY <2>1, <2>3
<1>11. Direction(events, p, done(q), d + 1, coming(q), held(q))
  <2>1. Direction(events, p, done(q), d, coming(q), held(q))
    BY <1>1 DEF PersonInv
  <2> HIDE DEF d
  <2>2. d + 1 \in Nat /\ d <= d + 1 /\ \A n \in d + 1 .. d + 1 : n = d + 1
    BY <1>3
  <2> QED
    BY <1>1, <1>3, <1>4, <1>5, <2>1, <2>2, DirectionPublisherGoesOn
<1>12. PersonInv(p)'
  <2>1. buffer'[p] \o wire'[p] = coming(p) /\ (conn'[p] # 0 /\ stream'[p]) = held(p)
    BY <1>2 DEF coming, held
  <2>2. d + 1 \in Nat /\ waiting'[p] = {}
    BY <1>2, <1>3, <1>5
  <2> HIDE DEF d
  <2> QED
    BY <1>2, <1>3, <1>6, <1>7, <1>9, <1>10, <2>1, <2>2, PersonMoves
<1>13. PersonInv(q)'
  <2>1. buffer'[q] \o wire'[q] = coming(q)
    BY <1>2 DEF coming
  <2> QED
    BY <1>1, <1>2, <1>6, <1>7, <1>11, <2>1, OtherKeeps
<1> QED
  BY <1>12, <1>13

LEMMA UndisturbedStopsSubscribing ==
  ASSUME PersonsTypeInv, LogInOrder, NEW p \in Persons, PersonInv(p), PersonInv(Other(p)),
         RunStopSubscribing(p), Undisturbed'
  PROVE  PersonInv(p)' /\ PersonInv(Other(p))'
<1> DEFINE q == Other(p)
           d == done(p)
<1>1. q \in Persons /\ q # p /\ Other(q) = p /\ PersonInv(q) /\ PersonsTypeOK
  BY TwoPersons DEF PersonsTypeInv
<1>2. /\ jobs[p] # <<>> /\ head(p).kind = "stopSubscribing"
      /\ stream' = [stream EXCEPT ![p] = FALSE]
      /\ CloseIfNeeded(p, Tail(jobs[p]))
      /\ UNCHANGED <<events, at, waiting, publishing, wire, buffer>>
  BY DEF RunStopSubscribing, runs, messages
<1>3. /\ d \in Nat /\ d + 1 \in Events
      /\ head(p).kind = JobOf(p, events[d + 1])
      /\ events[d + 1].kind \in {"subscribe", "unsubscribe"} /\ events[d + 1].of \in Persons
      /\ conn[p] # 0
  BY <1>2, HeadOfQueue, MaxEventsAssumption
<1>4. IsUnsub(events, q, d + 1) /\ ~IsSub(events, p, d + 1) /\ events[d + 1].of # p
      /\ events[d + 1].of = q /\ events[d + 1].kind # "subscribe"
  <2>1. events[d + 1].kind = "unsubscribe" /\ events[d + 1].of # p
    BY <1>2, <1>3 DEF JobOf
  <2> QED
    BY <1>3, <2>1, TwoPersons DEF IsSub, IsUnsub
<1>5. /\ coming(p) \in Seq(Messages) /\ coming(q) \in Seq(Messages)
      /\ held(p) \in BOOLEAN /\ held(q) \in BOOLEAN
      /\ done(q) \in Nat /\ waiting[p] = {} /\ waiting[q] = {}
      /\ publishing[p] \in BOOLEAN
  BY <1>1, PersonFacts DEF PersonInv
<1>6. /\ stream'[p] = FALSE /\ stream'[q] = stream[q]
      /\ publishing' = publishing /\ at' = at
  BY <1>1, <1>2 DEF PersonsTypeOK
<1>7. ~ActiveAt(events, q, d + 1) /\ (publishing[p] <=> ActiveAt(events, p, d + 1))
  <2>1. SideAgrees(events, p, d, conn[p] # 0, publishing[p], stream[p], jobs[p] # <<>>)
    BY DEF PersonInv
  <2>2. ~ActiveAt(events, q, d + 1) /\ (ActiveAt(events, p, d + 1) <=> ActiveAt(events, p, d))
    BY <1>1, <1>3, <1>4, ActiveStep
  <2> QED
    BY <1>3, <2>1, <2>2 DEF SideAgrees
<1>8. /\ at[p] - Len(jobs'[p]) = d + 1 /\ QueueInTurn(events, p, d + 1, jobs'[p])
      /\ SideAgrees(events, p, d + 1, conn'[p] # 0, publishing'[p], stream'[p], jobs'[p] # <<>>)
      /\ jobs'[q] = jobs[q] /\ conn'[q] = conn[q]
  BY <1>1, <1>2, <1>5, <1>6, <1>7, ClosesWhenNeitherIsLeft
<1>9. at'[p] - Len(jobs'[p]) = d + 1 /\ at'[q] - Len(jobs'[q]) = done(q)
  BY <1>6, <1>8 DEF done
<1>10. (conn'[p] # 0 /\ stream'[p]) = FALSE
  BY <1>6
<1>11. Direction(events, q, d + 1, done(q), coming(p), FALSE)
  BY <1>1, <1>3, <1>4, <1>5, DirectionUnsubscribes DEF PersonInv
<1>12. Direction(events, p, done(q), d + 1, coming(q), held(q))
  <2>1. Direction(events, p, done(q), d, coming(q), held(q))
    BY <1>1 DEF PersonInv
  <2> HIDE DEF d
  <2>2. d + 1 \in Nat /\ d <= d + 1 /\ \A n \in d + 1 .. d + 1 : n = d + 1
    BY <1>3
  <2> QED
    BY <1>1, <1>3, <1>4, <1>5, <2>1, <2>2, DirectionPublisherGoesOn
<1>13. PersonInv(p)'
  <2>1. buffer'[p] \o wire'[p] = coming(p)
    BY <1>2 DEF coming
  <2>2. d + 1 \in Nat /\ waiting'[p] = {}
    BY <1>2, <1>3, <1>5
  <2> HIDE DEF d
  <2> QED
    BY <1>2, <1>8, <1>9, <1>10, <1>11, <2>1, <2>2, PersonMoves
<1>14. PersonInv(q)'
  <2>1. buffer'[q] \o wire'[q] = coming(q)
    BY <1>2 DEF coming
  <2> QED
    BY <1>1, <1>2, <1>6, <1>8, <1>9, <1>12, <2>1, OtherKeeps
<1> QED
  BY <1>13, <1>14

\* A message arrives: with a connection its stream is the receiver's, without
\* one MessageBuffer keeps it, or drops one that is of no use any more.
LEMMA UndisturbedHears ==
  ASSUME PersonsTypeInv, LogInOrder, NEW p \in Persons, PersonInv(p), PersonInv(Other(p)),
         MessageArrives(p), Undisturbed'
  PROVE  PersonInv(p)' /\ PersonInv(Other(p))'
<1> DEFINE q == Other(p)
           d == done(p)
           msg == Head(wire[p])
<1>1. q \in Persons /\ q # p /\ Other(q) = p /\ PersonInv(q) /\ PersonsTypeOK
  BY TwoPersons DEF PersonsTypeInv
<1>2. /\ wire[p] # <<>> /\ wire' = [wire EXCEPT ![p] = Tail(wire[p])]
      /\ UNCHANGED <<events, at, waiting, conn, jobs, publishing>>
  BY DEF MessageArrives
<1>3. /\ wire[p] \in Seq(Messages) /\ buffer[p] \in Seq(Messages) /\ coming(p) \in Seq(Messages)
      /\ held(p) \in BOOLEAN /\ stream[p] \in BOOLEAN
      /\ d \in Nat /\ done(q) \in Nat /\ waiting[p] = {} /\ waiting[q] = {}
  BY <1>1, PersonFacts DEF PersonInv
<1>4. msg \in Messages /\ Tail(wire[p]) \in Seq(Messages)
  BY <1>2, <1>3, HeadTailProperties
<1>5. wire'[p] = Tail(wire[p]) /\ wire'[q] = wire[q]
  BY <1>1, <1>2 DEF PersonsTypeOK
<1>6. at'[p] - Len(jobs'[p]) = d /\ at'[q] - Len(jobs'[q]) = done(q)
  BY <1>2 DEF done
<1>7. /\ SideAgrees(events, p, d, conn[p] # 0, publishing[p], stream[p], jobs[p] # <<>>)
      /\ QueueInTurn(events, p, d, jobs[p])
      /\ Direction(events, q, d, done(q), coming(p), held(p))
  BY DEF PersonInv
<1>8. stream'[q] = stream[q] /\ buffer'[q] = buffer[q]
  <2>1. CASE conn[p] # 0
    BY <1>1, <2>1 DEF MessageArrives, Accept, PersonsTypeOK
  <2>2. CASE conn[p] = 0
    BY <1>1, <2>2 DEF MessageArrives, PersonsTypeOK
  <2> QED
    BY <2>1, <2>2
<1>9. \A m \in 1 .. done(q) : InOrderUpTo(events, m)
  <2>1. done(q) <= Len(events) /\ Len(events) \in Nat
    BY <1>1, <1>3, PersonFacts
  <2> QED
    BY <1>3, <2>1 DEF LogInOrder, Events
<1>10. SideAgrees(events, p, d, conn'[p] # 0, publishing'[p], stream'[p], jobs'[p] # <<>>)
       /\ Direction(events, q, d, done(q), buffer'[p] \o wire'[p], conn'[p] # 0 /\ stream'[p])
  <2>1. CASE conn[p] # 0
    <3>1. buffer[p] = <<>> /\ buffer' = buffer /\ Accept(p, msg)
      BY <2>1 DEF MessageArrives, PersonsTypeInv, HandedOver
    <3>2. coming(p) = wire[p] /\ buffer'[p] \o wire'[p] = Tail(wire[p])
      BY <1>3, <1>4, <1>5, <3>1, ConcatEmptySeq DEF coming
    <3>3. /\ stream' = [stream EXCEPT ![p] = (stream[p] \/ msg.kind = "produce")]
          /\ msg.kind = "produce" => ~stream[p]
      <4>1. ~crossed'
        BY DEF Undisturbed
      <4> QED
        BY <3>1, <4>1 DEF Accept, MeetsEarlier
    <3>4. held(p) = stream[p]
      BY <1>3, <2>1 DEF held
    <3>5. Direction(events, q, d, done(q), Tail(wire[p]), stream[p] \/ msg.kind = "produce")
      BY <1>1, <1>2, <1>3, <1>7, <1>9, <3>2, <3>3, <3>4, DirectionHears
    <3>6. stream'[p] = (stream[p] \/ msg.kind = "produce")
      BY <1>1, <3>3 DEF PersonsTypeOK
    <3>7. (conn'[p] # 0 /\ stream'[p]) = (stream[p] \/ msg.kind = "produce")
      BY <1>2, <2>1, <3>6
    <3>8. SideAgrees(events, p, d, conn'[p] # 0, publishing'[p], stream'[p], jobs'[p] # <<>>)
      BY <1>2, <1>7, <3>6 DEF SideAgrees
    <3> QED
      BY <3>2, <3>5, <3>7, <3>8
  <2>2. CASE conn[p] = 0
    <3>1. stream' = stream
      BY <2>2 DEF MessageArrives
    <3>2. SideAgrees(events, p, d, conn'[p] # 0, publishing'[p], stream'[p], jobs'[p] # <<>>)
      BY <1>2, <1>7, <3>1
    <3>3. held(p) = FALSE /\ (conn'[p] # 0 /\ stream'[p]) = FALSE
      BY <1>2, <2>2 DEF held
    <3>4. Direction(events, q, d, done(q), buffer'[p] \o wire'[p], FALSE)
      <4>1. CASE excluded[p]
        <5>1. /\ buffer[p] = <<>> /\ buffer' = buffer
              /\ missed' = IF msg.n > at[p] THEN missed \cup {msg.n} ELSE missed
          BY <2>2, <4>1 DEF MessageArrives, PersonsTypeInv, HandedOver
        <5>2. coming(p) = wire[p] /\ buffer'[p] \o wire'[p] = Tail(wire[p])
          BY <1>3, <1>4, <1>5, <5>1, ConcatEmptySeq DEF coming
        <5>3. ~(msg.n > at[p])
          BY <5>1 DEF Undisturbed
        <5>4. d = at[p]
          <6>1. jobs[p] = <<>>
            BY <1>1, <2>2 DEF PersonsTypeOK
          <6>2. Len(jobs[p]) = 0 /\ at[p] \in Nat
            BY <1>1, <6>1, PersonFacts
          <6> QED
            BY <6>2 DEF done
        <5>5. msg.kind # "produce"
          <6>1. 1 \in 1 .. Len(wire[p]) /\ wire[p][1] = msg
            BY <1>2, <1>3, HeadTailProperties, EmptySeq
          <6> QED
            BY <1>7, <5>2, <5>3, <5>4, <6>1 DEF Direction, SentInOrder
        <5>6. Direction(events, q, d, done(q), Tail(wire[p]), FALSE \/ msg.kind = "produce")
          BY <1>1, <1>2, <1>3, <1>7, <1>9, <3>3, <5>2, <5>5, DirectionHears
        <5>7. (FALSE \/ msg.kind = "produce") = FALSE
          BY <5>5
        <5> QED
          BY <5>2, <5>6, <5>7
      <4>2. CASE ~excluded[p]
        <5>1. buffer' = [buffer EXCEPT ![p] = Append(buffer[p], msg)]
          BY <2>2, <4>2 DEF MessageArrives
        <5>2. buffer'[p] = Append(buffer[p], msg)
          BY <1>1, <5>1 DEF PersonsTypeOK
        <5>3. Append(buffer[p], Head(wire[p])) \o Tail(wire[p]) = coming(p)
          <6>1. PICK S : S = Messages
            OBVIOUS
          <6>2. \A s, t \in Seq(S) : t # <<>> => Append(s, Head(t)) \o Tail(t) = s \o t
            BY ComingMoved
          <6> QED
            BY <1>2, <1>3, <6>1, <6>2 DEF coming
        <5> QED
          BY <1>5, <1>7, <3>3, <5>2, <5>3
      <4> QED
        BY <4>1, <4>2
    <3> QED
      BY <3>2, <3>3, <3>4
  <2> QED
    BY <2>1, <2>2
<1>11. PersonInv(p)'
  <2>1. waiting'[p] = {} /\ QueueInTurn(events, p, d, jobs'[p]) /\ d \in Nat
    BY <1>2, <1>3, <1>7
  <2> HIDE DEF d
  <2> QED
    BY <1>2, <1>6, <1>10, <2>1, PersonMoves
<1>12. PersonInv(q)'
  <2>1. buffer'[q] \o wire'[q] = coming(q)
    BY <1>5, <1>8 DEF coming
  <2>2. Direction(events, p, done(q), d, coming(q), held(q))
    BY <1>1 DEF PersonInv
  <2> QED
    BY <1>1, <1>2, <1>6, <1>8, <2>1, <2>2, OtherKeeps
<1> QED
  BY <1>11, <1>12


\* The channel goes on: nothing that is known of its first events changes.
LEMMA UndisturbedHappens ==
  ASSUME PersonsTypeInv, NEW p \in Persons, \A a \in Persons : PersonInv(a),
         NEW a \in Persons, NEW kind \in Kinds, Happens(kind, a)
  PROVE  PersonInv(p)'
<1> DEFINE q == Other(p)
           e == [kind |-> kind, of |-> a]
<1>1. q \in Persons /\ PersonInv(p) /\ PersonInv(q) /\ PersonsTypeOK
  BY TwoPersons DEF PersonsTypeInv
<1>2. /\ events' = Append(events, e)
      /\ UNCHANGED <<at, waiting, conn, jobs, publishing, stream, wire, buffer>>
  BY DEF Happens, connection, messages
<1>3. /\ coming(p) \in Seq(Messages) /\ held(p) \in BOOLEAN
      /\ done(p) \in 0 .. Len(events) /\ done(q) \in 0 .. Len(events)
      /\ Len(jobs[p]) \in Nat /\ at[p] <= Len(events) /\ Len(events) \in Nat /\ at[p] \in Nat
  BY <1>1, PersonStands
<1>4. /\ \A n \in Events : events'[n] = events[n]
      /\ \A b : \A n \in 0 .. Len(events) : ActiveAt(events', b, n) <=> ActiveAt(events, b, n)
  <2>1. PersonsTypeOK /\ events' = Append(events, e)
    BY <1>1, <1>2
  <2>2. LogGoesOn(events', e)
    BY <2>1, LogGrows
  <2> QED
    BY <2>2 DEF LogGoesOn
<1>5. Direction(events', q, done(p), done(q), coming(p), held(p))
  <2>1. Direction(events, q, done(p), done(q), coming(p), held(p))
    BY <1>1 DEF PersonInv
  <2> QED
    BY <1>1, <1>2, <1>3, <2>1, DirectionLogGrows
<1>6. QueueInTurn(events', p, done(p), jobs[p])
  <2> SUFFICES ASSUME NEW i \in 1 .. Len(jobs[p])
               PROVE  JobFits(events', p, jobs[p][i], done(p) + i)
    BY DEF QueueInTurn
  <2>1. JobFits(events, p, jobs[p][i], done(p) + i)
    BY <1>1 DEF PersonInv, QueueInTurn
  <2>2. done(p) + i \in Events
    <3> DEFINE l == Len(jobs[p])
    <3>1. l \in Nat /\ at[p] \in Nat /\ done(p) = at[p] - l /\ i \in 1 .. l
      BY <1>3 DEF done
    <3> HIDE DEF l
    <3> QED
      BY <1>3, <3>1 DEF Events
  <2> QED
    BY <1>4, <2>1, <2>2 DEF JobFits
<1>7. SideAgrees(events', p, done(p), conn[p] # 0, publishing[p], stream[p], jobs[p] # <<>>)
  <2>1. SideAgrees(events, p, done(p), conn[p] # 0, publishing[p], stream[p], jobs[p] # <<>>)
    BY <1>1 DEF PersonInv
  <2> QED
    BY <1>3, <1>4, <2>1 DEF SideAgrees
<1> QED
  BY <1>1, <1>2, <1>5, <1>6, <1>7 DEF PersonInv, done, coming, held

LEMMA UndisturbedFromInit == PersonsInit => UndisturbedPersons
<1> SUFFICES ASSUME PersonsInit, NEW p \in Persons PROVE PersonInv(p)
  BY DEF UndisturbedPersons
<1> DEFINE q == Other(p)
<1>1. q \in Persons
  BY TwoPersons
<1>2. /\ at[p] = 0 /\ at[q] = 0 /\ jobs[p] = <<>> /\ jobs[q] = <<>> /\ conn[p] = 0
      /\ waiting[p] = {} /\ buffer[p] = <<>> /\ wire[p] = <<>>
  BY <1>1 DEF PersonsInit
<1>3. done(p) = 0 /\ done(q) = 0
  <2>1. Len(jobs[p]) = 0 /\ Len(jobs[q]) = 0 /\ at[p] = 0 /\ at[q] = 0
    BY <1>2
  <2>2. done(p) = at[p] - Len(jobs[p]) /\ done(q) = at[q] - Len(jobs[q])
    BY Zenon DEF done
  <2> QED
    BY <2>1, <2>2
<1>4. coming(p) = <<>> /\ held(p) = FALSE
  BY <1>2 DEF coming, held
<1>5. \A a : ~ActiveAt(events, a, 0)
  BY DEF ActiveAt
<1>6. Direction(events, q, 0, 0, <<>>, FALSE)
  BY DEF Direction, SentInOrder, NoneForgotten, NotBeforeEnd, StreamHasCause, NotAhead
<1>7. QueueInTurn(events, p, 0, jobs[p])
  BY <1>2 DEF QueueInTurn
<1>8. SideAgrees(events, p, 0, conn[p] # 0, publishing[p], stream[p], jobs[p] # <<>>)
  BY <1>2, <1>5 DEF SideAgrees
<1>9. Direction(events, q, done(p), done(q), coming(p), held(p))
  BY <1>3, <1>4, <1>6
<1> QED
  BY <1>2, <1>3, <1>7, <1>8, <1>9 DEF PersonInv

LEMMA UndisturbedStays ==
  PersonsInv /\ PersonsTypeInv' /\ [PersonsNext]_personVars => UndisturbedPersons'
<1> SUFFICES ASSUME PersonsInv, PersonsTypeInv', [PersonsNext]_personVars, Undisturbed'
             PROVE  \A p \in Persons : PersonInv(p)'
  BY DEF UndisturbedPersons
<1>1. PersonsTypeInv /\ PersonsTypeOK /\ LogInOrder
  BY DEF PersonsInv, PersonsTypeInv
<1>2. \A p \in Persons : PersonInv(p)
  BY <1>1, UndisturbedBefore DEF PersonsInv, UndisturbedPersons
<1>3. \A p \in Persons : waiting[p] = {} /\ Other(p) \in Persons /\ Persons = {p, Other(p)}
  BY <1>2, TwoPersons DEF PersonInv
<1>4. ASSUME NEW a \in Persons, PersonInv(a)' /\ PersonInv(Other(a))'
      PROVE  \A p \in Persons : PersonInv(p)'
  BY <1>3, <1>4
<1>5. ASSUME UNCHANGED <<events, at, waiting, conn, jobs, publishing, stream, wire, buffer>>
      PROVE  \A p \in Persons : PersonInv(p)'
  BY <1>2, <1>5 DEF PersonInv, done, coming, held
<1>6. CASE UNCHANGED personVars
  BY <1>5, <1>6 DEF personVars, connection, messages
<1>7. CASE \E a \in Persons, kind \in Kinds : Happens(kind, a)
  BY <1>1, <1>2, <1>7, UndisturbedHappens
<1>8. CASE \E a \in Persons, n \in 1 .. MaxEvents : EventSubscribed(a, n)
  BY <1>1, <1>2, <1>3, <1>4, <1>8, UndisturbedSubscribed
<1>9. CASE \E a \in Persons, n \in 1 .. MaxEvents : EventUnsubscribed(a, n)
  BY <1>1, <1>2, <1>3, <1>4, <1>9, UndisturbedUnsubscribed
<1>10. CASE \E a \in Persons, n \in 1 .. MaxEvents : EventLeft(a, n)
  BY <1>1, <1>2, <1>3, <1>4, <1>10, UndisturbedLeft
<1>11. CASE \E a \in Persons, n \in 1 .. MaxEvents : WaitForStreamTimesOut(a, n)
  BY <1>3, <1>11 DEF WaitForStreamTimesOut
<1>12. CASE \E a \in Persons : PublishCompletes(a)
  BY <1>5, <1>12 DEF PublishCompletes, connection, messages
<1>13. CASE \E a \in Persons : WaitingPublishes(a)
  BY <1>3, <1>13 DEF WaitingPublishes
<1>14. CASE \E a \in Persons : RunStartPublishing(a)
  BY <1>1, <1>2, <1>3, <1>4, <1>14, UndisturbedStartsPublishing
<1>15. CASE \E a \in Persons : RunStopPublishing(a)
  BY <1>1, <1>2, <1>3, <1>4, <1>15, UndisturbedStopsPublishing
<1>16. CASE \E a \in Persons : RunStartSubscribing(a)
  BY <1>1, <1>2, <1>3, <1>4, <1>16, UndisturbedStartsSubscribing
<1>17. CASE \E a \in Persons : WaitTimesOut(a)
  BY <1>17 DEF WaitTimesOut, Undisturbed
<1>18. CASE \E a \in Persons : RunStopSubscribing(a)
  BY <1>1, <1>2, <1>3, <1>4, <1>18, UndisturbedStopsSubscribing
<1>19. CASE \E a \in Persons : MessageArrives(a)
  BY <1>1, <1>2, <1>3, <1>4, <1>19, UndisturbedHears
<1> QED
  BY <1>6, <1>7, <1>8, <1>9, <1>10, <1>11, <1>12, <1>13, <1>14, <1>15, <1>16, <1>17,
     <1>18, <1>19 DEF PersonsNext

-----------------------------------------------------------------------------
(* What the properties say.                                                *)

\* A person that waits for a stream: the subscription is the next event for
\* its queue, and the stream has not come.
LEMMA WhoWaits ==
  ASSUME PersonsTypeInv, NEW p \in Persons, PersonInv(p), waits(p)
  PROVE  /\ head(p).n = done(p) + 1 /\ done(p) \in Nat /\ done(p) + 1 \in Events
         /\ IsSub(events, Other(p), done(p) + 1) /\ ~held(p)
<1>1. jobs[p] # <<>> /\ head(p).kind = "startSubscribing" /\ ~stream[p]
  BY DEF waits, runs
<1>2. /\ done(p) \in Nat /\ done(p) + 1 \in Events /\ head(p).n = done(p) + 1
      /\ events[done(p) + 1].kind \in {"subscribe", "unsubscribe"}
      /\ events[done(p) + 1].of \in Persons
      /\ head(p).kind = JobOf(p, events[done(p) + 1])
  BY <1>1, HeadOfQueue
<1>3. events[done(p) + 1].kind = "subscribe" /\ events[done(p) + 1].of # p
  BY <1>1, <1>2 DEF JobOf
<1> QED
  BY <1>1, <1>2, <1>3, TwoPersons DEF IsSub, held

\* The publisher's queue has got past the subscription: its stream is coming.
LEMMA PublishedIsComing ==
  ASSUME PersonsTypeInv, NEW p \in Persons, PersonInv(p), waits(p),
         head(p).n <= done(Other(p)), done(Other(p)) \in Nat
  PROVE  OnItsWay(p)
<1> DEFINE n == done(p) + 1
<1>1. /\ head(p).n = n /\ done(p) \in Nat
      /\ IsSub(events, Other(p), n) /\ ~held(p)
  BY WhoWaits
<1>2. n \in 1 .. done(Other(p)) /\ ~ \E j \in n + 1 .. done(p) : events[j].of = Other(p)
  BY <1>1
<1>3. Produces(coming(p), n)
  BY <1>1, <1>2 DEF PersonInv, Direction, NoneForgotten
<1>4. DOMAIN coming(p) = 1 .. Len(coming(p))
  BY PersonFacts, LenProperties DEF PersonsTypeInv
<1> QED
  BY <1>1, <1>3, <1>4 DEF OnItsWay, Produces, coming

LEMMA StreamIsOnItsWayHolds == PersonsInv => StreamIsOnItsWay
<1> SUFFICES ASSUME PersonsInv, Undisturbed, NEW p \in Persons, waits(p)
             PROVE  OnItsWay(p) \/ WillPublish(Other(p), head(p).n)
  BY DEF StreamIsOnItsWay
<1> DEFINE q == Other(p)
           n == done(p) + 1
<1>1. q \in Persons /\ q # p /\ Other(q) = p /\ PersonInv(p) /\ PersonInv(q) /\ PersonsTypeInv
  BY TwoPersons DEF PersonsInv, UndisturbedPersons
<1>2. /\ head(p).n = n /\ done(p) \in Nat /\ n \in Events /\ IsSub(events, q, n)
  BY <1>1, WhoWaits
<1>3. /\ at[q] \in Nat /\ Len(jobs[q]) \in Nat /\ done(q) \in Nat /\ jobs[q] \in Seq(Jobs)
  BY <1>1, PersonFacts DEF PersonInv, PersonsTypeInv
<1>4. CASE at[q] < n
  BY <1>2, <1>4 DEF WillPublish
<1>5. CASE n <= done(q)
  BY <1>1, <1>2, <1>3, <1>5, PublishedIsComing
<1>6. CASE done(q) < n /\ n <= at[q]
  <2> DEFINE i == n - done(q)
  <2>1. i \in 1 .. Len(jobs[q]) /\ done(q) + i = n
    <3> DEFINE l == Len(jobs[q])
               d == done(q)
    <3>1. l \in Nat /\ d = at[q] - l /\ d \in Nat /\ at[q] \in Nat /\ n \in Nat
          /\ d < n /\ n <= at[q]
      BY <1>2, <1>3, <1>6 DEF done
    <3> HIDE DEF l, d, n
    <3>2. n - d \in 1 .. l /\ d + (n - d) = n
      BY <3>1
    <3> QED
      BY <3>2 DEF l, d
  <2>2. JobFits(events, q, jobs[q][i], n)
    BY <1>1, <2>1 DEF PersonInv, QueueInTurn
  <2>3. jobs[q][i].n = n /\ jobs[q][i].kind = "startPublishing"
    BY <1>2, <2>2 DEF JobFits, JobOf, IsSub
  <2>4. jobs[q][i] \in Jobs /\ i \in DOMAIN jobs[q]
    BY <1>3, <2>1, ElementOfSeq, LenProperties
  <2>5. jobs[q][i] = [kind |-> "startPublishing", n |-> n]
    BY <2>3, <2>4 DEF Jobs
  <2> QED
    BY <1>2, <2>4, <2>5 DEF WillPublish
<1> QED
  BY <1>2, <1>3, <1>4, <1>5, <1>6

LEMMA NobodyWaitsHolds == PersonsInv => NobodyWaitsForEachOther
<1> SUFFICES ASSUME PersonsInv, Undisturbed, \A p \in Persons : waits(p) /\ ~OnItsWay(p)
             PROVE  FALSE
  BY DEF NobodyWaitsForEachOther
<1>1. \A p \in Persons : done(Other(p)) <= done(p) /\ done(p) \in Nat
  <2> SUFFICES ASSUME NEW p \in Persons PROVE done(Other(p)) <= done(p) /\ done(p) \in Nat
    OBVIOUS
  <2>1. PersonInv(p) /\ PersonInv(Other(p)) /\ PersonsTypeInv
    BY TwoPersons DEF PersonsInv, UndisturbedPersons
  <2>2. done(p) \in Nat /\ done(Other(p)) \in Nat /\ head(p).n = done(p) + 1
    BY <2>1, WhoWaits DEF PersonInv
  <2>3. ~(head(p).n <= done(Other(p)))
    BY <2>1, <2>2, PublishedIsComing
  <2> QED
    BY <2>2, <2>3
<1>2. PICK p \in Persons : TRUE
  BY PersonsAssumption
<1>3. Other(p) \in Persons /\ Other(Other(p)) = p /\ Other(p) # p
  BY TwoPersons
<1>4. done(p) = done(Other(p))
  BY <1>1, <1>2, <1>3
<1>5. /\ IsSub(events, Other(p), done(p) + 1)
      /\ IsSub(events, Other(Other(p)), done(Other(p)) + 1)
  BY <1>2, <1>3, WhoWaits DEF PersonsInv, UndisturbedPersons
<1> QED
  BY <1>3, <1>4, <1>5 DEF IsSub

LEMMA QuietPersonsHold == PersonsInv => QuietPersonsAgree
<1> SUFFICES ASSUME PersonsInv, Undisturbed, Quiet, NEW p \in Persons
             PROVE  /\ conn[p] # 0 <=> \E a \in Persons : SubscribedAt(a, events)
                    /\ publishing[p] /\ conn[p] # 0 <=> SubscribedAt(p, events)
                    /\ stream[p] /\ conn[p] # 0 <=> SubscribedAt(Other(p), events)
  BY DEF QuietPersonsAgree
<1> DEFINE q == Other(p)
           l == Len(events)
<1>1. q \in Persons /\ Persons = {p, q} /\ PersonInv(p) /\ PersonsTypeInv
  BY TwoPersons DEF PersonsInv, UndisturbedPersons
<1>2. /\ at[p] = l /\ at[q] = l /\ jobs[p] = <<>> /\ jobs[q] = <<>>
      /\ buffer[p] = <<>> /\ wire[p] = <<>>
  BY <1>1 DEF Quiet
<1>3. l \in Nat
  BY <1>1, EventsAre DEF PersonsTypeInv
<1>4. done(p) = l /\ done(q) = l
  BY <1>2, <1>3 DEF done
<1>5. SideAgrees(events, p, l, conn[p] # 0, publishing[p], stream[p], FALSE)
  BY <1>1, <1>2, <1>4 DEF PersonInv
<1>6. StreamHasCause(events, q, l, l, coming(p), held(p))
  BY <1>1, <1>4 DEF PersonInv, Direction
<1>7. held(p) => ActiveAt(events, q, l)
  BY <1>3, <1>6 DEF StreamHasCause
<1>8. /\ SubscribedAt(p, events) <=> ActiveAt(events, p, l)
      /\ SubscribedAt(q, events) <=> ActiveAt(events, q, l)
  BY SubscribedNow
<1> QED
  BY <1>1, <1>5, <1>7, <1>8 DEF SideAgrees, held

LEMMA PersonsInvAlways == PersonsSpec => []PersonsInv
<1>1. PersonsInit => PersonsInv
  BY PersonsInitTypes, LogInOrderInit, UndisturbedFromInit DEF PersonsInv
<1>2. PersonsInv /\ PersonsTypeInv' /\ [PersonsNext]_personVars => PersonsInv'
  BY LogInOrderNext, UndisturbedStays DEF PersonsInv
<1> QED
  BY <1>1, <1>2, PersonsTypeAlways, PTL DEF PersonsSpec

\* A person that waits for a stream waits for one that the other has sent or
\* will send when its queue gets there: the calls of a queue are one for each
\* event, in order, and no stream is lost between two connections
\* (connection/index.ts:184, messageBuffer.ts:32).
THEOREM StreamsOnTheirWay == PersonsSpec => []StreamIsOnItsWay
  BY PersonsInvAlways, StreamIsOnItsWayHolds, PTL

\* Never do both persons wait for the stream of the other with none under way:
\* both queues take the channel's events in their order, so that the one that is
\* behind waits for what the other has sent (connection/index.ts:184).
THEOREM NoMutualWait == PersonsSpec => []NobodyWaitsForEachOther
  BY PersonsInvAlways, NobodyWaitsHolds, PTL

\* When nothing is under way both have a connection or neither has, and what
\* goes over it is what is subscribed to (_closeIfNeeded, index.ts:247).
THEOREM PersonsAgree == PersonsSpec => []QuietPersonsAgree
  BY PersonsInvAlways, QuietPersonsHold, PTL
=============================================================================
