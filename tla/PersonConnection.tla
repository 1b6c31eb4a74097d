-------------------------- MODULE PersonConnection --------------------------
(***************************************************************************)
(* Two persons that publish to each other: RemotePersonImpl, which makes a *)
(* P2PConnection when one is needed, MessageBuffer, which keeps signaling  *)
(* messages that come before it, the queue of each connection, and         *)
(* _closeIfNeeded (packages/core/src/plugin/internal/person).              *)
(*                                                                         *)
(* Both persons handle the channel's events in the same order, each at its *)
(* own pace, while messages travel another way.  A connection is closed by *)
(* each person on its own and made again later; no message says which      *)
(* connection it is about, so that one may reach the next.  The number of  *)
(* a connection and of the event that caused a message are the model's.    *)
(*                                                                         *)
(* Each person has one publication.  What an add or a remove negotiates is *)
(* P2PNegotiation's: here it is one message, which arrives.  The channel   *)
(* and the signaling server are external.                                  *)
(***************************************************************************)
EXTENDS Integers, Sequences, FiniteSetsExt, TLC

CONSTANTS
  Persons,
  MaxEvents          \* bound: events of the channel

ASSUME PersonsAssumption == \E p, q \in Persons : p # q /\ Persons = {p, q}
ASSUME MaxEventsAssumption == MaxEvents \in Nat

VARIABLES
  events,            \* of the channel, in order
  at,                \* how many of them each person has handled
  ready,             \* each person's publish call has set its stream
  waiting,           \* startPublishing calls that wait for that stream
  conn, made,        \* each person's connection (0: none), and how many it made
  jobs,              \* _pubsubQueue of the connection; its head runs
  publishing,        \* sender.hasMedia
  stream,            \* receiver.hasMedia
  peer,              \* the connection whose offers its receiver has accepted
  wire,              \* signaling messages on their way to each person
  buffer, excluded,  \* of MessageBuffer
  served, failed,    \* subscriptions that have, and have not, got their stream
  \* history
  late,              \* persons whose publication was subscribed to before its stream was set
  missed,            \* messages dropped before their event was handled
  stranded,          \* calls that were in the queue when their connection closed
  crossed            \* messages of one connection, or the stream of one subscription,
                     \*   have met those of another

connection == <<conn, made, jobs, publishing, stream, peer>>
messages == <<wire, buffer, excluded>>
history == <<late, missed, stranded, crossed>>
personVars == <<events, at, ready, waiting, connection, messages, served, failed, history>>

Symmetry == Permutations(Persons)

Other(p) == CHOOSE q \in Persons : q # p
Events == 1 .. Len(events)
Kinds == {"subscribe", "unsubscribe", "leave"}

Jobs ==
  [kind : {"startPublishing", "stopPublishing", "startSubscribing", "stopSubscribing"},
   n : Events]
Messages == [kind : {"produce", "unproduce"}, n : Events, from : 1 .. MaxEvents]

PersonsTypeOK ==
  /\ events \in Seq([kind : Kinds, of : Persons]) /\ Len(events) <= MaxEvents
  /\ at \in [Persons -> 0 .. Len(events)]
  /\ ready \in [Persons -> BOOLEAN]
  /\ waiting \in [Persons -> SUBSET Events]
  /\ made \in [Persons -> 0 .. MaxEvents] /\ conn \in [Persons -> 0 .. MaxEvents]
  /\ \A p \in Persons : conn[p] \in {0, made[p]} /\ (jobs[p] # <<>> => conn[p] # 0)
  /\ jobs \in [Persons -> Seq(Jobs)]
  /\ publishing \in [Persons -> BOOLEAN] /\ stream \in [Persons -> BOOLEAN]
  /\ peer \in [Persons -> 0 .. MaxEvents]
  /\ wire \in [Persons -> Seq(Messages)] /\ buffer \in [Persons -> Seq(Messages)]
  /\ excluded \in [Persons -> BOOLEAN] /\ late \subseteq Persons
  /\ (served \cup failed \cup missed \cup stranded) \subseteq Events
  /\ crossed \in BOOLEAN

PersonsInit ==
  /\ events = <<>> /\ at = [p \in Persons |-> 0]
  /\ ready \in [Persons -> BOOLEAN]
  /\ waiting = [p \in Persons |-> {}]
  /\ conn = [p \in Persons |-> 0] /\ made = [p \in Persons |-> 0]
  /\ jobs = [p \in Persons |-> <<>>]
  /\ publishing = [p \in Persons |-> FALSE] /\ stream = [p \in Persons |-> FALSE]
  /\ peer = [p \in Persons |-> 0]
  /\ wire = [p \in Persons |-> <<>>] /\ buffer = [p \in Persons |-> <<>>]
  /\ excluded = [p \in Persons |-> FALSE]
  /\ served = {} /\ failed = {}
  /\ late = {} /\ missed = {} /\ stranded = {} /\ crossed = FALSE

-----------------------------------------------------------------------------
(* The channel, and the publish call of each person.                       *)

Left == {events[n].of : n \in {m \in Events : events[m].kind = "leave"}}

\* The publication of a person is subscribed to after the last event about it.
SubscribedAt(a, log) ==
  \E n \in 1 .. Len(log) :
    /\ log[n].kind = "subscribe" /\ log[n].of = a
    /\ \A m \in n + 1 .. Len(log) : log[m].of # a

Happens(kind, a) ==
  /\ Len(events) < MaxEvents /\ Left = {}
  /\ CASE kind = "subscribe" -> ~SubscribedAt(a, events)
       [] kind = "unsubscribe" -> SubscribedAt(a, events)
       [] kind = "leave" -> \A q \in Persons : ~SubscribedAt(q, events)
  /\ events' = Append(events, [kind |-> kind, of |-> a])
  /\ UNCHANGED <<at, ready, waiting, connection, messages, served, failed, history>>

-----------------------------------------------------------------------------
(* The connection.                                                         *)

\* Mutant: what came before the connection is thrown away.
ForgetBuffer(p) ==
  /\ buffer' = [buffer EXCEPT ![p] = <<>>]
  /\ excluded' = [excluded EXCEPT ![p] = TRUE]
  /\ UNCHANGED wire

\* The buffered messages come first.
ResolveMessagingBuffer(p) ==
  /\ wire' = [wire EXCEPT ![p] = buffer[p] \o @]
  /\ buffer' = [buffer EXCEPT ![p] = <<>>]
  /\ excluded' = [excluded EXCEPT ![p] = TRUE]

\* Mutant: who waits for a stream waits first.
EnqueueFirst(p, job) ==
  IF job.kind = "startSubscribing" THEN <<job>> \o jobs[p] ELSE Append(jobs[p], job)

EnqueueJob(p, job) == Append(jobs[p], job)

\* _getOrCreateConnection, and the call that is queued in it.
CallConnection(p, kind, n) ==
  LET job == [kind |-> kind, n |-> n]
  IN IF conn[p] # 0
     THEN /\ jobs' = [jobs EXCEPT ![p] = EnqueueJob(p, job)]
          /\ UNCHANGED <<conn, made, publishing, stream, peer, messages>>
     ELSE /\ made' = [made EXCEPT ![p] = @ + 1]
          /\ conn' = [conn EXCEPT ![p] = made[p] + 1]
          /\ jobs' = [jobs EXCEPT ![p] = <<job>>]
          /\ publishing' = [publishing EXCEPT ![p] = FALSE]
          /\ stream' = [stream EXCEPT ![p] = FALSE]
          /\ peer' = [peer EXCEPT ![p] = 0]
          /\ ResolveMessagingBuffer(p)

\* A call for a connection that is there, or for none.
CallIfOpen(p, kind, n) ==
  /\ jobs' = IF conn[p] = 0 THEN jobs
             ELSE [jobs EXCEPT ![p] = EnqueueJob(p, [kind |-> kind, n |-> n])]
  /\ UNCHANGED <<conn, made, publishing, stream, peer, messages>>

\* close: what is still queued runs on closed peer connections and fails.
CloseWith(p, rest) ==
  LET starts == {rest[i].n : i \in {j \in DOMAIN rest :
                               rest[j].kind \in {"startSubscribing", "startPublishing"}}}
      mine == {rest[i].n : i \in {j \in DOMAIN rest : rest[j].kind = "startSubscribing"}}
  IN /\ conn' = [conn EXCEPT ![p] = 0]
     /\ jobs' = [jobs EXCEPT ![p] = <<>>]
     /\ stranded' = stranded \cup starts
     /\ failed' = failed \cup mine
     /\ UNCHANGED made

\* Mutant: only what is received keeps a connection open.
CloseWithoutStream(p, rest) ==
  IF stream'[p]
  THEN /\ jobs' = [jobs EXCEPT ![p] = rest]
       /\ UNCHANGED <<conn, made, stranded, failed>>
  ELSE CloseWith(p, rest)

CloseIfNeeded(p, rest) ==
  IF publishing'[p] \/ stream'[p]
  THEN /\ jobs' = [jobs EXCEPT ![p] = rest]
       /\ UNCHANGED <<conn, made, stranded, failed>>
  ELSE CloseWith(p, rest)

Send(p, kind, n) ==
  wire' = [wire EXCEPT ![Other(p)] = Append(@, [kind |-> kind, n |-> n, from |-> conn[p]])]

-----------------------------------------------------------------------------
(* The queue of a connection.                                              *)

head(p) == Head(jobs[p])
runs(p, kind) == jobs[p] # <<>> /\ head(p).kind = kind

RunStartPublishing(p) ==
  /\ runs(p, "startPublishing")
  /\ publishing' = [publishing EXCEPT ![p] = TRUE]
  /\ Send(p, "produce", head(p).n)
  /\ jobs' = [jobs EXCEPT ![p] = Tail(@)]
  /\ UNCHANGED <<events, at, ready, waiting, conn, made, stream, peer, buffer,
                 excluded, served, failed, history>>

\* What closes the connection does not send any more.
RunStopPublishing(p) ==
  /\ runs(p, "stopPublishing")
  /\ publishing' = [publishing EXCEPT ![p] = FALSE]
  /\ UNCHANGED stream
  /\ CloseIfNeeded(p, Tail(jobs[p]))
  /\ IF publishing[p] /\ stream[p]
     THEN Send(p, "unproduce", head(p).n)
     ELSE UNCHANGED wire
  /\ UNCHANGED <<events, at, ready, waiting, peer, buffer, excluded, served,
                 late, missed, crossed>>

\* The head of the queue waits until the stream is there.
RunStartSubscribing(p) ==
  /\ runs(p, "startSubscribing")
  /\ stream[p]
  /\ served' = served \cup {head(p).n}
  /\ jobs' = [jobs EXCEPT ![p] = Tail(@)]
  /\ UNCHANGED <<events, at, ready, waiting, conn, made, publishing, stream, peer,
                 messages, failed, history>>

WaitTimesOut(p) ==
  /\ runs(p, "startSubscribing")
  /\ ~stream[p]
  /\ failed' = failed \cup {head(p).n}
  /\ jobs' = [jobs EXCEPT ![p] = Tail(@)]
  /\ UNCHANGED <<events, at, ready, waiting, conn, made, publishing, stream, peer,
                 messages, served, history>>

RunStopSubscribing(p) ==
  /\ runs(p, "stopSubscribing")
  /\ stream' = [stream EXCEPT ![p] = FALSE]
  /\ UNCHANGED publishing
  /\ CloseIfNeeded(p, Tail(jobs[p]))
  /\ UNCHANGED <<events, at, ready, waiting, peer, messages, served, late, missed, crossed>>

-----------------------------------------------------------------------------
(* The channel's events, as a person handles them.                         *)

\* startPublishing waits for the stream before it looks for a connection.
PublishWhenReady(p, n) ==
  IF ready[p]
  THEN /\ CallConnection(p, "startPublishing", n)
       /\ UNCHANGED <<waiting, late>>
  ELSE /\ waiting' = [waiting EXCEPT ![p] = @ \cup {n}]
       /\ late' = late \cup {p}
       /\ UNCHANGED <<connection, messages>>

Handles(p, n) ==
  /\ n = at[p] + 1 /\ n <= Len(events)
  /\ p \notin Left
  /\ ~(ready[p] /\ waiting[p] # {})

EventSubscribed(p, n) ==
  /\ Handles(p, n) /\ events[n].kind = "subscribe"
  /\ at' = [at EXCEPT ![p] = n]
  /\ IF events[n].of = p
     THEN PublishWhenReady(p, n)
     ELSE CallConnection(p, "startSubscribing", n) /\ UNCHANGED <<waiting, late>>
  /\ UNCHANGED <<events, ready, served, failed, missed, stranded, crossed>>

EventUnsubscribed(p, n) ==
  /\ Handles(p, n) /\ events[n].kind = "unsubscribe"
  /\ at' = [at EXCEPT ![p] = n]
  /\ CallIfOpen(p, IF events[n].of = p THEN "stopPublishing" ELSE "stopSubscribing", n)
  /\ UNCHANGED <<events, ready, waiting, served, failed, history>>

\* The other person has left; its connection is closed as it is.
EventLeft(p, n) ==
  /\ Handles(p, n) /\ events[n].kind = "leave"
  /\ at' = [at EXCEPT ![p] = n]
  /\ CloseWith(p, jobs[p])
  /\ UNCHANGED <<events, ready, waiting, publishing, stream, peer, messages, served,
                 late, missed, crossed>>

\* publish has set the stream: the calls that waited for it go on, before
\* the next event.
PublishCompletes(p) ==
  /\ ~ready[p]
  /\ ready' = [ready EXCEPT ![p] = TRUE]
  /\ UNCHANGED <<events, at, waiting, connection, messages, served, failed, history>>

WaitingPublishes(p) ==
  /\ ready[p] /\ waiting[p] # {}
  /\ LET n == Min(waiting[p])
     IN /\ waiting' = [waiting EXCEPT ![p] = @ \ {n}]
        /\ CallConnection(p, "startPublishing", n)
  /\ UNCHANGED <<events, at, ready, served, failed, history>>

WaitForStreamTimesOut(p, n) ==
  /\ ~ready[p] /\ n \in waiting[p]
  /\ waiting' = [waiting EXCEPT ![p] = @ \ {n}]
  /\ failed' = failed \cup {n}
  /\ UNCHANGED <<events, at, ready, connection, messages, served, history>>

-----------------------------------------------------------------------------
(* Messages.                                                               *)

\* The stream of an earlier subscription to the publication is there still.
MeetsEarlier(p, msg) ==
  /\ msg.kind = "produce"
  /\ stream[p] \/ \E i \in DOMAIN jobs[p] : jobs[p][i].kind = "stopSubscribing"

\* A receiver that has offers of one connection may accept or refuse those
\* of another.  Streams are kept by publication.
Accept(p, msg) ==
  IF peer[p] \in {0, msg.from}
  THEN /\ peer' = [peer EXCEPT ![p] = msg.from]
       /\ stream' = [stream EXCEPT ![p] = @ \/ msg.kind = "produce"]
       /\ crossed' = (crossed \/ msg.from # conn[Other(p)] \/ MeetsEarlier(p, msg))
  ELSE /\ \E s \in {stream[p], TRUE} : stream' = [stream EXCEPT ![p] = s]
       /\ crossed' = TRUE
       /\ UNCHANGED peer

MessageArrives(p) ==
  /\ wire[p] # <<>>
  /\ LET msg == Head(wire[p])
     IN /\ wire' = [wire EXCEPT ![p] = Tail(@)]
        /\ IF conn[p] # 0
           THEN Accept(p, msg) /\ UNCHANGED <<buffer, missed>>
           ELSE /\ UNCHANGED <<stream, peer, crossed>>
                /\ IF excluded[p]
                   THEN /\ missed' = IF msg.n > at[p] THEN missed \cup {msg.n} ELSE missed
                        /\ UNCHANGED buffer
                   ELSE /\ buffer' = [buffer EXCEPT ![p] = Append(@, msg)]
                        /\ UNCHANGED missed
  /\ UNCHANGED <<events, at, ready, waiting, conn, made, jobs, publishing, excluded,
                 served, failed, late, stranded>>

-----------------------------------------------------------------------------
PersonsNext ==
  \/ \E p \in Persons :
       \/ \E kind \in Kinds : Happens(kind, p)
       \/ \E n \in 1 .. MaxEvents :
            \/ EventSubscribed(p, n)
            \/ EventUnsubscribed(p, n)
            \/ EventLeft(p, n)
            \/ WaitForStreamTimesOut(p, n)
       \/ PublishCompletes(p)
       \/ WaitingPublishes(p)
       \/ RunStartPublishing(p)
       \/ RunStopPublishing(p)
       \/ RunStartSubscribing(p)
       \/ WaitTimesOut(p)
       \/ RunStopSubscribing(p)
       \/ MessageArrives(p)

PersonsSpec == PersonsInit /\ [][PersonsNext]_personVars

-----------------------------------------------------------------------------
(* Properties.                                                             *)

\* What the exceptions below are about has not happened.
Undisturbed == missed = {} /\ stranded = {} /\ failed = {} /\ late = {} /\ ~crossed

waits(p) == runs(p, "startSubscribing") /\ ~stream[p]

\* The message that will bring the stream has been sent.
OnItsWay(p) ==
  LET coming == buffer[p] \o wire[p]
  IN \E i \in DOMAIN coming : coming[i].kind = "produce" /\ coming[i].n = head(p).n

\* The other person will still make its call, or has made it.
WillPublish(q, n) ==
  \/ at[q] < n
  \/ n \in waiting[q]
  \/ \E i \in DOMAIN jobs[q] : jobs[q][i] = [kind |-> "startPublishing", n |-> n]

\* A person that waits for a stream waits for one that is coming, through
\* connections that are closed and made again, unless one of three things
\* has happened: its message came before its event when MessageBuffer no
\* longer kept it, its call was queued in a connection that then closed, or
\* it was left for a waiting call of the other person to time out
\* (connection/index.ts:184, messageBuffer.ts:32).
StreamIsOnItsWay ==
  Undisturbed => \A p \in Persons :
    waits(p) => OnItsWay(p) \/ WillPublish(Other(p), head(p).n)

\* The two never wait for each other's stream, since both queues take their
\* calls in the order of the channel's events, unless a publication was
\* subscribed to before publish had set its stream (index.ts:184).
NobodyWaitsForEachOther ==
  Undisturbed => ~ \A p \in Persons : waits(p) /\ ~OnItsWay(p)

\* When nothing is under way, both have a connection or neither has, and what
\* goes over it is what is subscribed to (_closeIfNeeded, index.ts:247).
Quiet ==
  /\ Left = {}
  /\ \A p \in Persons : /\ at[p] = Len(events) /\ waiting[p] = {}
                         /\ jobs[p] = <<>> /\ wire[p] = <<>> /\ buffer[p] = <<>>

QuietPersonsAgree ==
  Undisturbed /\ Quiet => \A p \in Persons :
    /\ conn[p] # 0 <=> \E a \in Persons : SubscribedAt(a, events)
    /\ publishing[p] /\ conn[p] # 0 <=> SubscribedAt(p, events)
    /\ stream[p] /\ conn[p] # 0 <=> SubscribedAt(Other(p), events)
=============================================================================
