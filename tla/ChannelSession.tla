--------------------------- MODULE ChannelSession ---------------------------
(***************************************************************************)
(* The calls made through one channel object, and the life of its local    *)
(* person (ChannelImpl in rtc-api-client; SkyWayChannelImpl, MemberImpl,   *)
(* PublicationImpl, LocalPersonImpl and createLocalPerson in core).        *)
(*                                                                         *)
(* A call that changes something sends a request and at the same time      *)
(* watches for the event that shows the change.  A refusal rejects it; a   *)
(* good answer means nothing, except to close, which looks at the channel  *)
(* after it.  Few of the watches have a time limit.  unpublish and         *)
(* unsubscribe go through the person's queue of requests.  Events may be   *)
(* handled several in one go; a call whose event was among them goes on    *)
(* after the last of them, and before anything else comes.                 *)
(*                                                                         *)
(* The person is made after its member has joined, over several awaits; it *)
(* must end with its member, its channel or a lease that is not renewed.   *)
(* join, publish and subscribe themselves are ChannelReplica's: here the   *)
(* member is there from the start, and one publication and one             *)
(* subscription of the person's come later.  The server is external.       *)
(***************************************************************************)
EXTENDS Integers, Sequences

CONSTANTS
  Calls,
  Values,            \* of metadata, that calls ask for; others may set None
  MaxOthers,         \* bound: what other members do
  Keepalives,        \* whether the person may have a keepalive interval, or be without
  None

ASSUME NoneAssumption == None \notin Values /\ Keepalives \subseteq BOOLEAN

VARIABLES
  there,             \* what exists at the server
  wire,              \* events on their way
  emitting,          \* a batch of events is being handled
  listed,            \* what the channel object lists; without "channel" it is closed
  shown,             \* the metadata it shows
  operation, phase,  \* of each call
  request,           \*   and its request
  queue,             \* _requestQueue; its head runs
  others,            \* what others have done
  person,            \* createLocalPerson, as far as it has got
  signaling,
  keepalive,         \* the person has a keepalive interval
  timer,             \* ttlInterval runs
  renewing,          \* updateTtl of a tick is under way
  fatal,             \* onFatalError
  disposed, personDisposed,
  \* history
  overwritten,       \* calls whose change a later event of the batch has undone
  abandoned,         \* the application has disposed the channel or the context
  overtaken          \* member or channel had gone before createLocalPerson was over

channel == <<there, wire, emitting, listed, shown, others, overwritten>>
calls == <<operation, phase, request, queue>>
life == <<person, signaling, keepalive, timer, renewing, fatal, personDisposed, overtaken>>
vars == <<channel, calls, life, disposed, abandoned>>

Objects == {"channel", "member", "publication", "subscription"}

update(target, value) == [kind |-> "update", target |-> target, value |-> value]
remove(target) == [kind |-> "remove", target |-> target, value |-> None]

\* What the wrappers of the API ask for.
UpdateChannelMetadata(value) == update("channel", value)
UpdateMemberMetadata(value) == update("member", value)
UpdatePublicationMetadata(value) == update("publication", value)
DeleteChannel == remove("channel")
LeaveChannel == remove("member")
Unpublish == remove("publication")
Unsubscribe == remove("subscription")

Updates(values) ==
  UNION {{UpdateChannelMetadata(v), UpdateMemberMetadata(v), UpdatePublicationMetadata(v)} :
           v \in values}
Operations(values) ==
  Updates(values) \cup {DeleteChannel, LeaveChannel, Unpublish, Unsubscribe}
Queued == {Unpublish, Unsubscribe}

over(c) == phase[c] \in {"resolved", "rejected"}
\* The person is there; as "unjoined" although join has rejected.
Made == {"leasing", "joined", "unjoined"}

TypeOK ==
  /\ there \subseteq Objects /\ listed \subseteq Objects
  /\ wire \in Seq(Operations(Values \cup {None}))
  /\ emitting \in BOOLEAN /\ (emitting => wire # <<>> /\ ~disposed)
  /\ shown \in [Objects -> Values \cup {None}]
  /\ operation \in [Calls -> Operations(Values) \cup {None}]
  /\ phase \in [Calls -> {"none", "queued", "open", "watching", "told", "resolved",
                          "rejected", "stranded"}]
  /\ request \in [Calls -> {"none", "sent", "executed", "over"}]
  /\ queue \in Seq(Calls)
  /\ others \in 0 .. MaxOthers
  /\ person \in Made \cup {"connecting", "icing", "failed"}
  /\ signaling \in {"none", "open", "closed"}
  /\ overwritten \subseteq Calls
  /\ {keepalive, timer, renewing, fatal, disposed, personDisposed,
      abandoned, overtaken} \subseteq BOOLEAN

Init ==
  /\ there = {"channel", "member"} /\ listed = {"channel", "member"}
  /\ wire = <<>> /\ emitting = FALSE /\ overwritten = {} /\ shown = [o \in Objects |-> None]
  /\ operation = [c \in Calls |-> None]
  /\ phase = [c \in Calls |-> "none"] /\ request = [c \in Calls |-> "none"]
  /\ queue = <<>> /\ others = 0
  /\ person = "connecting" /\ signaling = "none"
  /\ keepalive \in Keepalives /\ timer = FALSE /\ renewing = FALSE /\ fatal = FALSE
  /\ disposed = FALSE /\ personDisposed = FALSE
  /\ abandoned = FALSE /\ overtaken = FALSE

-----------------------------------------------------------------------------
(* The server.                                                             *)

\* The promises that events have fulfilled go on before anything else comes.  What
\* the server does meanwhile it could as well have done before or after.
settled == ~emitting /\ \A c \in Calls : phase[c] # "told"

ifThere(target) == IF target \in there THEN <<target>> ELSE <<>>

\* What goes with a member, in the order in which the channel is told.
Removals(target) ==
  IF target = "member"
  THEN ifThere("subscription") \o ifThere("publication") \o <<"member">>
  ELSE <<target>>

Execute(o) ==
  LET gone == IF o.target = "channel" THEN Objects
              ELSE {Removals(o.target)[i] : i \in DOMAIN Removals(o.target)}
      events == [i \in DOMAIN Removals(o.target) |-> remove(Removals(o.target)[i])]
  IN /\ o.target \in there /\ settled
     /\ IF o.kind = "update"
        THEN wire' = Append(wire, o) /\ UNCHANGED there
        ELSE wire' = wire \o events /\ there' = there \ gone

OtherExecutes(o) ==
  /\ others < MaxOthers /\ others' = others + 1
  /\ Execute(o)
  /\ UNCHANGED <<emitting, listed, shown, overwritten, calls, life, disposed, abandoned>>

\* The person's publish and subscribe, made and seen.
PublishesAndSubscribes ==
  /\ person = "joined" /\ ~disposed /\ wire = <<>> /\ settled
  /\ there = {"channel", "member"} /\ listed = there
  /\ there' = Objects /\ listed' = Objects
  /\ UNCHANGED <<wire, emitting, shown, others, overwritten, calls, life, disposed, abandoned>>

ServerExecutes(c) ==
  /\ request[c] = "sent"
  /\ Execute(operation[c])
  /\ request' = [request EXCEPT ![c] = "executed"]
  /\ UNCHANGED <<emitting, listed, shown, others, overwritten, operation, phase, queue, life,
                 disposed, abandoned>>

-----------------------------------------------------------------------------
(* Calls.                                                                  *)

\* Mutant: a call that is rejected stays.
StayWhenRejected == queue' = SelectSeq(queue, LAMBDA c : phase'[c] # "resolved")

\* A call that is over leaves the queue.
LeaveQueue == queue' = SelectSeq(queue, LAMBDA c : phase'[c] \in {"queued", "open", "told"})

\* What is known to be gone is not removed again.
Refuses(o) == o.kind = "remove" /\ o.target \notin listed

Call(c, o) ==
  /\ phase[c] = "none" /\ settled
  /\ o.target = "channel" \/ person = "joined"
  /\ o.kind = "update" => o.target \in listed
  /\ operation' = [operation EXCEPT ![c] = o]
  /\ IF Refuses(o)
     THEN /\ phase' = [phase EXCEPT ![c] = "rejected"]
          /\ UNCHANGED <<request, queue>>
     ELSE IF o \in Queued
     THEN /\ phase' = [phase EXCEPT ![c] = "queued"]
          /\ queue' = Append(queue, c)
          /\ UNCHANGED request
     ELSE /\ phase' = [phase EXCEPT ![c] = "open"]
          /\ request' = [request EXCEPT ![c] = "sent"]
          /\ UNCHANGED queue
  /\ UNCHANGED <<channel, life, disposed, abandoned>>

\* The head of the queue: _unsubscribe looks again, _unpublish does not.
QueueRuns(c) ==
  /\ queue # <<>> /\ Head(queue) = c /\ phase[c] = "queued" /\ settled
  /\ IF operation[c] = Unsubscribe /\ "subscription" \notin listed
     THEN /\ phase' = [phase EXCEPT ![c] = "rejected"]
          /\ UNCHANGED request
     ELSE /\ phase' = [phase EXCEPT ![c] = "open"]
          /\ request' = [request EXCEPT ![c] = "sent"]
  /\ LeaveQueue
  /\ UNCHANGED <<channel, operation, life, disposed, abandoned>>

\* A good answer.  Only close does anything with it.
Answered(c) ==
  /\ request[c] = "executed" /\ settled
  /\ request' = [request EXCEPT ![c] = "over"]
  /\ phase' = [phase EXCEPT ![c] =
       IF @ = "open" /\ operation[c] = DeleteChannel
       THEN IF "channel" \in listed THEN "watching" ELSE "resolved"
       ELSE @]
  /\ UNCHANGED <<channel, operation, queue, life, disposed, abandoned>>

\* The request is refused, or it has no answer in time, or the client closes.
RequestFails(c) ==
  /\ request[c] \in {"sent", "executed"} /\ settled
  /\ request' = [request EXCEPT ![c] = "over"]
  /\ phase' = [phase EXCEPT ![c] = IF @ = "open" THEN "rejected" ELSE @]
  /\ LeaveQueue
  /\ UNCHANGED <<channel, operation, life, disposed, abandoned>>

\* Mutant: whichever event of the kind comes is taken.
MatchesKind(o, event) == o.kind = event.kind /\ o.target = event.target

\* The predicates of the watches; close waits for onClosed in its second part.
Matches(o, event) == o = event

Expects(c, event) ==
  /\ phase[c] = IF operation[c] = DeleteChannel THEN "watching" ELSE "open"
  /\ Matches(operation[c], event)

\* The watches with a limit: leave and close reject.  The one in the
\* publication's updateMetadata throws where nobody catches, and the call
\* stays as it is.  Events come within the limit, if they come.
RemovalTimesOut(c) ==
  /\ operation[c] \in {DeleteChannel, LeaveChannel}
  /\ phase' = [phase EXCEPT ![c] = "rejected"]

MetadataTimesOut(c) ==
  /\ operation[c] \in {UpdatePublicationMetadata(v) : v \in Values}
  /\ phase' = [phase EXCEPT ![c] = "stranded"]

WatchTimesOut(c) ==
  /\ phase[c] \in {"open", "watching"} /\ request[c] = "over" /\ settled
  /\ disposed \/ \A i \in DOMAIN wire : wire[i] # operation[c]
  /\ RemovalTimesOut(c) \/ MetadataTimesOut(c)
  /\ UNCHANGED <<channel, operation, request, queue, life, disposed, abandoned>>

\* The promises of the watches go on, of all in one step: none of them looks at
\* what another one changes.
Resume ==
  /\ ~emitting /\ ~settled
  /\ phase' = [c \in Calls |-> IF phase[c] = "told" THEN "resolved" ELSE phase[c]]
  /\ overwritten' = {}
  /\ LeaveQueue
  /\ UNCHANGED <<there, wire, emitting, listed, shown, others, operation, request, life,
                 disposed, abandoned>>

-----------------------------------------------------------------------------
(* The end of the person and of the channel.                               *)

Unchanged == UNCHANGED <<signaling, timer, personDisposed>>

\* LocalPersonImpl.dispose.
DisposePerson ==
  /\ personDisposed' = TRUE
  /\ timer' = FALSE
  /\ signaling' = IF signaling = "open" THEN "closed" ELSE signaling

\* The object that _left reaches is the person's only when join is over.
PersonHears(event) ==
  \/ event = DeleteChannel /\ person \in Made
  \/ event = LeaveChannel /\ person = "joined" /\ ~overtaken

\* Mutant: the end of the member is not listened to.
MemberEndsQuietly(event) ==
  IF event = DeleteChannel /\ person \in Made THEN DisposePerson ELSE Unchanged

PersonEnds(event) == IF PersonHears(event) THEN DisposePerson ELSE Unchanged

\* The metadata of the channel, or of one of its objects, that it shows from now on.
Show(target, value) == shown' = [shown EXCEPT ![target] = value]

Undoes(event, o) ==
  event.kind = "update" /\ event.target = o.target /\ event.value # o.value

\* One event: the replica first, then whoever watches is told, then the person.
HandleEvent ==
  /\ wire # <<>> /\ ~disposed /\ (emitting \/ settled)
  /\ LET event == Head(wire)
     IN /\ IF event.kind = "update"
           THEN /\ Show(event.target, event.value)
                /\ UNCHANGED listed
           ELSE /\ listed' = listed \ {event.target}
                /\ UNCHANGED shown
        /\ phase' = [c \in Calls |-> IF Expects(c, event) THEN "told" ELSE phase[c]]
        /\ overwritten' = {c \in Calls :
             phase[c] = "told" /\ (c \in overwritten \/ Undoes(event, operation[c]))}
        /\ PersonEnds(event)
        /\ disposed' = (event = DeleteChannel)
        /\ emitting' \in {FALSE, Len(wire) > 1 /\ event # DeleteChannel}
  /\ wire' = Tail(wire)
  /\ UNCHANGED <<there, others, operation, request, queue, person, keepalive, renewing,
                 fatal, abandoned, overtaken>>

\* dispose of the channel or of the context, by the application.
Dispose ==
  /\ ~disposed /\ settled
  /\ disposed' = TRUE /\ abandoned' = TRUE
  /\ IF person \in Made THEN DisposePerson ELSE Unchanged
  /\ UNCHANGED <<channel, calls, person, keepalive, renewing, fatal, overtaken>>

-----------------------------------------------------------------------------
(* createLocalPerson and the lease.                                        *)

gone == disposed \/ "member" \notin listed

\* setupSignalingSession connects or throws.
SignalingConnects(failed) ==
  /\ person = "connecting" /\ settled
  /\ person' = IF failed THEN "failed" ELSE "icing"
  /\ signaling' = IF failed THEN signaling ELSE "open"
  /\ UNCHANGED <<channel, calls, keepalive, timer, renewing, fatal, disposed,
                 personDisposed, abandoned, overtaken>>

\* updateIceParams; its failure matters only when nothing but TURN is
\* allowed, and leaves the signaling session open.
IceParamsArrive(failed) ==
  /\ person = "icing" /\ settled
  /\ person' = IF failed THEN "failed" ELSE IF keepalive THEN "leasing" ELSE "joined"
  /\ overtaken' = gone
  /\ UNCHANGED <<channel, calls, signaling, keepalive, timer, renewing, fatal,
                 disposed, personDisposed, abandoned>>

\* The first updateTtl of _setupTtlTimer: the interval is set whatever has
\* become of the person, and a failure rejects join.
FirstLease(failed) ==
  /\ person = "leasing" /\ settled
  /\ person' = IF failed THEN "unjoined" ELSE "joined"
  /\ timer' = ~failed
  /\ overtaken' = (overtaken \/ gone)
  /\ UNCHANGED <<channel, calls, signaling, keepalive, renewing, fatal, disposed,
                 personDisposed, abandoned>>

\* The request that renews the lease; a refusal is told as an error.
UpdateMemberTtl == renewing' = TRUE

Tick ==
  /\ timer /\ ~renewing /\ ~personDisposed /\ settled
  /\ UpdateMemberTtl
  /\ UNCHANGED <<channel, calls, person, signaling, keepalive, timer, fatal,
                 disposed, personDisposed, abandoned, overtaken>>

\* updateTtl of a tick is over.  One that fails after dispose is ignored.
Renewed(failed) ==
  /\ renewing /\ settled /\ renewing' = FALSE
  /\ IF failed /\ ~personDisposed
     THEN fatal' = TRUE /\ DisposePerson
     ELSE UNCHANGED fatal /\ Unchanged
  /\ UNCHANGED <<channel, calls, person, keepalive, disposed, abandoned, overtaken>>

-----------------------------------------------------------------------------
Proceeds(c) == QueueRuns(c) \/ Answered(c) \/ RequestFails(c) \/ WatchTimesOut(c)

Next ==
  \/ \E c \in Calls :
       \/ Proceeds(c)
       \/ \E o \in Operations(Values) : Call(c, o)
       \/ ServerExecutes(c)
  \/ \E o \in Operations(Values \cup {None}) : OtherExecutes(o)
  \/ PublishesAndSubscribes
  \/ HandleEvent \/ Resume
  \/ Dispose
  \/ \E failed \in BOOLEAN : \/ SignalingConnects(failed)
                             \/ IceParamsArrive(failed)
                             \/ FirstLease(failed)
                             \/ Renewed(failed)
  \/ Tick

\* Requests have timeouts, promises go on, and events arrive.
Fairness ==
  WF_vars(HandleEvent) /\ WF_vars(Resume) /\ \A c \in Calls : WF_vars(Proceeds(c))

Spec == Init /\ [][Next]_vars /\ Fairness

-----------------------------------------------------------------------------
(* Properties.                                                             *)

\* Every call settles, though most watches have no limit and the others'
\* removals, refusals and lost answers come at any moment: what the server
\* has done is on the wire before the channel ends, and what it has not done
\* is refused (domain/channel.ts:411).  What the application itself disposes
\* may wait for ever.
CallSettles ==
  \A c \in Calls : phase[c] # "none" ~> over(c) \/ abandoned

\* A call resolves only when its own change is made and seen, not on what
\* somebody else asked for (the predicates of the watches, domain/channel.ts:419):
\* what it removes is gone from the server and from the channel object, and the
\* object shows the metadata it set, unless a later event of the same batch has
\* set others before the promise of the call could go on (domain/channel.ts:420).
ResolvedMeansDone ==
  [][\A c \in Calls : phase[c] # "resolved" /\ phase'[c] = "resolved" =>
       IF operation[c].kind = "update"
       THEN shown'[operation[c].target] = operation[c].value \/ c \in overwritten
       ELSE operation[c].target \notin listed' \cup there']_vars

\* A person that has joined ends exactly when its member, its channel or its
\* lease does, and leaves neither its signaling session nor its timer behind
\* (localPerson/index.ts:952).  Excluded are the persons whose member or
\* channel went while createLocalPerson ran.
PersonLivesWithMember ==
  person = "joined" /\ ~overtaken =>
    /\ personDisposed <=> ("member" \notin listed \/ disposed \/ fatal)
    /\ personDisposed => signaling # "open" /\ ~timer
=============================================================================
