--------------------------- MODULE ChannelReplica ---------------------------
(***************************************************************************)
(* A client's two replicas of a channel and the calls that add to it.      *)
(*                                                                         *)
(* ChannelImpl (packages/rtc-api-client/src/domain/channel.ts) keeps the   *)
(* lists of members, publications and subscriptions as the events of the   *)
(* server change them.  SkyWayChannelImpl (packages/core/src/channel) keeps *)
(* an object for each, changed by the same events and also by join,        *)
(* publish and subscribe themselves, which are told by an answer of the    *)
(* server that what they asked for exists, and by an event.  Answer and    *)
(* event come in either order.                                             *)
(*                                                                         *)
(* Events arrive as OrderedDelivery promises: in order, and several may be *)
(* handled in one go.  A member, publication or subscription is named by   *)
(* the call that makes it; Offered are the publications of somebody else.  *)
(* Every publish has a stream of its own.                                  *)
(***************************************************************************)
EXTENDS Integers, Sequences, FiniteSets

CONSTANTS
  Joins,        \* calls of SkyWayChannelImpl.join, and the members they make
  Publishes,    \* calls of LocalPerson.publish
  Subscribes,   \* calls of LocalPerson.subscribe
  Offered,      \* publications of another member
  MaxWire,      \* bound on the events that are not handled yet
  None

ASSUME NamesAssumption ==
  /\ Joins \cap (Publishes \cup Subscribes \cup Offered) = {}
  /\ Publishes \cap (Subscribes \cup Offered) = {}
  /\ Subscribes \cap Offered = {}
  /\ None \notin Joins \cup Publishes \cup Subscribes \cup Offered

ASSUME MaxWireAssumption == MaxWire \in Nat

VARIABLES
  alive,        \* what exists in the channel, as the server has it
  wire,         \* events the client has not handled yet
  emitting,     \* resolveEvents is handing over a batch of events
  listed,       \* the lists of ChannelImpl
  objects,      \* the maps of SkyWayChannelImpl
  localPerson,  \* _localPerson
  persons,      \* the LocalPersonImpl objects
  left,         \* those of them that know that they have left
  phase,        \* how far each call has got
  by,           \* the person that made a publish or subscribe
  target,       \* the publication a subscribe is about
  queue,        \* the _requestQueue of each person
  \* history
  overtaken,    \* removed before the call that made it had finished
  timedOut,     \* calls that waited for their event in vain
  handlerFailed \* an event handler did not find the object it needs

serverVars == <<alive, wire>>
channelVars == <<listed, objects, localPerson, left, overtaken, handlerFailed>>
callVars == <<persons, phase, by, target, queue, timedOut>>
vars == <<serverVars, emitting, channelVars, callVars>>

Requests == Publishes \cup Subscribes
Calls == Joins \cup Requests
Things == Calls \cup Offered

Event(op, x) == [op |-> op, x |-> x]
Move(c, p) == phase' = [phase EXCEPT ![c] = p]

Init ==
  /\ alive = Offered /\ wire = <<>> /\ emitting = FALSE
  /\ listed = Offered /\ objects = Offered
  /\ localPerson = None /\ persons = {} /\ left = {}
  /\ phase = [c \in Calls |-> "idle"]
  /\ by = [c \in Requests |-> None]
  /\ target = [s \in Subscribes |-> None]
  /\ queue = [j \in Joins |-> <<>>]
  /\ overtaken = {} /\ timedOut = {} /\ handlerFailed = FALSE

-----------------------------------------------------------------------------
(* The calls, up to their request.                                         *)

\* The requests to the server: addMember, publishStream, subscribeStream.
AddMember(j) == Move(j, "requesting")
PublishStream(p) == Move(p, "requesting")
SubscribeStream(s) == Move(s, "requesting")

\* join looks at _localPerson, and then waits for the server twice.
Join(j) ==
  /\ phase[j] = "idle" /\ ~emitting
  /\ IF localPerson = None THEN AddMember(j) ELSE Move(j, "failed")
  /\ UNCHANGED <<serverVars, emitting, channelVars, persons, by, target, queue, timedOut>>

\* publish and subscribe put their request in the queue of the person.
Publish(p, m) ==
  /\ phase[p] = "idle" /\ ~emitting
  /\ m \in persons \ left
  /\ Move(p, "queued")
  /\ by' = [by EXCEPT ![p] = m]
  /\ queue' = [queue EXCEPT ![m] = Append(@, p)]
  /\ UNCHANGED <<serverVars, emitting, channelVars, persons, target, timedOut>>

\* A publication of somebody else's that the person does not subscribe to yet.
ValidForSubscribe(m, o) ==
  o \in objects /\ \A t \in Subscribes \cap objects : ~(by[t] = m /\ target[t] = o)

Subscribe(s, m, o) ==
  /\ phase[s] = "idle" /\ ~emitting
  /\ m \in persons \ left
  /\ ValidForSubscribe(m, o)
  /\ Move(s, "queued")
  /\ by' = [by EXCEPT ![s] = m]
  /\ target' = [target EXCEPT ![s] = o]
  /\ queue' = [queue EXCEPT ![m] = Append(@, s)]
  /\ UNCHANGED <<serverVars, emitting, channelVars, persons, timedOut>>

\* Mutant: a request that has failed holds up those behind it.
BusyAfterFailure(m) ==
  \E c \in Requests :
    by[c] = m /\ phase[c] \in {"requesting", "answered", "awaiting", "failed"}

\* The queue runs one request at a time, with its wait for the event.
busy(m) ==
  \E c \in Requests :
    by[c] = m /\ phase[c] \in {"requesting", "answered", "awaiting"}

\* _subscribe needs the publication and the subscriber still to be there.
StartRequest(m) ==
  /\ queue[m] # <<>> /\ ~busy(m) /\ ~emitting
  /\ queue' = [queue EXCEPT ![m] = Tail(@)]
  /\ LET c == Head(queue[m]) IN
       IF c \in Publishes THEN PublishStream(c)
       ELSE IF {target[c], m} \subseteq objects THEN SubscribeStream(c)
       ELSE Move(c, "failed")
  /\ UNCHANGED <<serverVars, emitting, channelVars, persons, by, target, timedOut>>

-----------------------------------------------------------------------------
(* The server (external).  A subscription needs its publication and its    *)
(* subscriber, a publication its publisher; what depends on something is   *)
(* removed before it, as the handlers of the client need it.               *)

Needs(c) ==
  IF c \in Subscribes THEN {by[c], target[c]}
  ELSE IF c \in Publishes THEN {by[c]} ELSE {}

ServerAccepts(c) ==
  /\ phase[c] = "requesting" /\ Len(wire) < MaxWire
  /\ Needs(c) \subseteq alive
  /\ alive' = alive \cup {c}
  /\ wire' = Append(wire, Event("added", c))
  /\ Move(c, "answered")
  /\ UNCHANGED <<emitting, channelVars, persons, by, target, queue, timedOut>>

\* Somebody leaves, unpublishes or unsubscribes (the person itself or another
\* member), or the member's time to live is over.
ServerRemoves(x) ==
  /\ x \in alive /\ Len(wire) < MaxWire
  /\ \A c \in alive \cap Calls : x \notin Needs(c)
  /\ alive' = alive \ {x}
  /\ wire' = Append(wire, Event("removed", x))
  /\ UNCHANGED <<emitting, channelVars, callVars>>

-----------------------------------------------------------------------------
(* The events.                                                             *)

isLocal(m) == m \in persons /\ m \in objects /\ phase[m] = "done"

\* The handlers of SkyWayChannelImpl find what they look up.
AddFindsAll(x) ==
  /\ x \in Joins => ~isLocal(x)
  /\ x \in Subscribes => target[x] \in objects

RemoveFindsAll(x) ==
  /\ x \in objects
  /\ x \in Subscribes => target[x] \in objects

\* Mutant: the answer alone brings join, publish and subscribe on.
ContinueUnlisted(c) == "continuing"

\* Mutant: the event is awaited even if it came before the answer.
AlwaysAwait(c) == "awaiting"

\* joinChannel, publish and subscribe of ChannelImpl: the event may have come.
AfterAnswer(c) == IF c \in listed THEN "continuing" ELSE "awaiting"

\* addMember, addPublication, addSubscription; those who watch are told.
HandleAdded(x) ==
  /\ listed' = listed \cup {x}
  /\ objects' = IF AddFindsAll(x) THEN objects \cup {x} ELSE objects
  /\ handlerFailed' = (handlerFailed \/ ~AddFindsAll(x))
  /\ phase' = IF phase[x] = "awaiting"
              THEN [phase EXCEPT ![x] = "continuing"] ELSE phase
  /\ UNCHANGED <<localPerson, left, overtaken>>

\* Mutant: the local person is not looked at.
ForgetObjectOnly(x) == objects' = objects \ {x} /\ UNCHANGED localPerson

\* _removeMember, _removePublication, _removeSubscription.
RemoveObject(x) ==
  /\ objects' = objects \ {x}
  /\ localPerson' = IF x = localPerson THEN None ELSE localPerson

\* _left of the member's object; only a person keeps what it is told.
PersonsLeft(x) == IF x \in Joins /\ isLocal(x) THEN left \cup {x} ELSE left

\* deleteMember, deletePublication, deleteSubscription, and then the handlers.
HandleRemoved(x) ==
  /\ listed' = listed \ {x}
  /\ RemoveObject(x)
  /\ handlerFailed' = (handlerFailed \/ ~RemoveFindsAll(x))
  /\ left' = PersonsLeft(x)
  /\ overtaken' = IF x \in Calls /\ phase[x] = "continuing"
                  THEN overtaken \cup {x} ELSE overtaken
  /\ UNCHANGED phase

\* Each event has its handler, which runs to its end.
Handle(e) == IF e.op = "added" THEN HandleAdded(e.x) ELSE HandleRemoved(e.x)

\* Nothing else runs between two events of a batch.
HandleEvent ==
  /\ wire # <<>>
  /\ wire' = Tail(wire)
  /\ emitting' \in {FALSE, Len(wire) > 1}
  /\ Handle(Head(wire))
  /\ UNCHANGED <<alive, persons, by, target, queue, timedOut>>

-----------------------------------------------------------------------------
(* The rest of the calls.                                                  *)

AnswerArrives(c) ==
  /\ phase[c] = "answered" /\ ~emitting
  /\ Move(c, AfterAnswer(c))
  /\ UNCHANGED <<serverVars, emitting, channelVars, persons, by, target, queue, timedOut>>

\* The server refuses, or the request times out, executed or not.
RequestFails(c) ==
  /\ phase[c] \in {"requesting", "answered"} /\ ~emitting
  /\ Move(c, "failed")
  /\ UNCHANGED <<serverVars, emitting, channelVars, persons, by, target, queue, timedOut>>

\* rtcApi.timeout is long against the delivery of events.
WatchTimesOut(c) ==
  /\ phase[c] = "awaiting" /\ wire = <<>>
  /\ Move(c, "failed")
  /\ timedOut' = timedOut \cup {c}
  /\ UNCHANGED <<serverVars, emitting, channelVars, persons, by, target, queue>>

\* createLocalPerson connects to signaling and ICE; then _addLocalPerson.
PersonCreated(j) ==
  /\ phase[j] = "continuing" /\ ~emitting
  /\ Move(j, "done")
  /\ persons' = persons \cup {j}
  /\ localPerson' = j
  /\ objects' = objects \cup {j}
  /\ UNCHANGED <<serverVars, emitting, listed, left, overtaken, handlerFailed, by,
                 target, queue, timedOut>>

\* The signaling session fails, and join with it; the member stays.
PersonFails(j) ==
  /\ phase[j] = "continuing" /\ ~emitting
  /\ Move(j, "failed")
  /\ UNCHANGED <<serverVars, emitting, channelVars, persons, by, target, queue, timedOut>>

\* setEnabled of the stream is over: _addPublication.
PublishContinues(p) ==
  /\ phase[p] = "continuing" /\ ~emitting
  /\ Move(p, "done")
  /\ objects' = objects \cup {p}
  /\ UNCHANGED <<serverVars, emitting, listed, localPerson, left, overtaken,
                 handlerFailed, persons, by, target, queue, timedOut>>

\* _addSubscription, which throws if the publication has gone.
SubscribeContinues(s) ==
  /\ phase[s] = "continuing" /\ ~emitting
  /\ IF s \in objects \/ target[s] \in objects
     THEN Move(s, "done") /\ objects' = objects \cup {s}
     ELSE Move(s, "failed") /\ UNCHANGED objects
  /\ UNCHANGED <<serverVars, emitting, listed, localPerson, left, overtaken,
                 handlerFailed, persons, by, target, queue, timedOut>>

Next ==
  \/ HandleEvent
  \/ \E x \in Things : ServerRemoves(x)
  \/ \E c \in Calls :
       \/ ServerAccepts(c) \/ AnswerArrives(c) \/ RequestFails(c) \/ WatchTimesOut(c)
  \/ \E j \in Joins :
       \/ Join(j) \/ StartRequest(j) \/ PersonCreated(j) \/ PersonFails(j)
       \/ \E p \in Publishes : Publish(p, j)
       \/ \E s \in Subscribes, o \in Offered : Subscribe(s, j, o)
  \/ \E p \in Publishes : PublishContinues(p)
  \/ \E s \in Subscribes : SubscribeContinues(s)

Spec == Init /\ [][Next]_vars

\* Events are delivered, a request is answered or times out, promises go on.
Fairness ==
  /\ WF_vars(HandleEvent)
  /\ \A c \in Calls :
       /\ WF_vars(ServerAccepts(c) \/ RequestFails(c))
       /\ WF_vars(AnswerArrives(c))
       /\ WF_vars(WatchTimesOut(c))
  /\ \A j \in Joins : WF_vars(StartRequest(j))
  /\ \A j \in Joins : WF_vars(PersonCreated(j) \/ PersonFails(j))
  /\ \A p \in Publishes : WF_vars(PublishContinues(p))
  /\ \A s \in Subscribes : WF_vars(SubscribeContinues(s))

FairSpec == Spec /\ Fairness

-----------------------------------------------------------------------------
Phases == {"idle", "queued", "requesting", "answered", "awaiting", "continuing",
           "done", "failed"}

\* The shape of the state.
TypeOK ==
  /\ alive \subseteq Things /\ listed \subseteq Things /\ objects \subseteq Things
  /\ wire \in Seq([op : {"added", "removed"}, x : Things])
  /\ emitting \in BOOLEAN /\ (emitting => wire # <<>>)
  /\ localPerson \in Joins \cup {None}
  /\ persons \subseteq Joins /\ left \subseteq persons
  /\ phase \in [Calls -> Phases]
  /\ by \in [Requests -> Joins \cup {None}]
  /\ target \in [Subscribes -> Offered \cup {None}]
  /\ queue \in [Joins -> Seq(Requests)]
  /\ overtaken \subseteq Calls /\ timedOut \subseteq Calls
  /\ handlerFailed \in BOOLEAN

\* join, publish and subscribe add the same objects as the events do, in either
\* order, yet the two replicas agree, but for what was removed while its call was
\* unfinished; and no handler of SkyWayChannelImpl misses the object it looks up,
\* which would end the handling of the event half way (channel/index.ts:504).
ReplicasAgree == ~handlerFailed /\ objects \ overtaken = listed

\* A call never waits in vain for the event of something that exists: the list
\* is looked at and the event is watched in one go (ChannelImpl).
TimeoutMeansGone == timedOut \cap alive = {}

\* A person whose removal has been handled knows that it has left, and gives way
\* to another, unless it was removed before it was there.
RemovedPersonLeaves ==
  \A j \in persons \ (listed \cup overtaken) : j \in left /\ localPerson # j

\* Each queued request is settled, whatever becomes of those before it.
QueuedRequestSettles ==
  \A c \in Requests : phase[c] = "queued" ~> phase[c] \in {"done", "failed"}
=============================================================================
