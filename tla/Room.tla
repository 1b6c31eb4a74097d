-------------------------------- MODULE Room --------------------------------
(***************************************************************************)
(* A room (packages/room): what it shows of its channel, and the calls of  *)
(* its local member.                                                       *)
(*                                                                         *)
(* A room shows the members that are not bots, and one publication for     *)
(* each stream: for a stream that goes through the SFU bot that is the     *)
(* relaying publication, while the original is hidden.  Publishing such a  *)
(* stream means to publish the original and to have the bot forward it;    *)
(* unpublishing it ends the original and waits for the end of the relaying *)
(* one, which the server sees to; enabling it waits for both.              *)
(*                                                                         *)
(* The room handles each event when the channel does.  What its calls do   *)
(* after an await may find the channel changed again.  The person's own    *)
(* publish and the bot's startForwarding are ChannelReplica's and          *)
(* SfuForwarding's; the server is external.                                *)
(***************************************************************************)
EXTENDS Naturals, SequencesExt

CONSTANTS
  Streams,           \* that the local member publishes
  MaxWire,           \* bound on the events on their way
  None

ASSUME MaxWireAssumption == MaxWire \in Nat \ {0}
ASSUME NoneAssumption == None \notin Streams

VARIABLES
  p2p,               \* the streams published without the bot
  there,             \* what exists at the server
  coming,            \* events on their way
  listed, seen,      \* what the channel lists, and has ever listed
  hidden,            \* relaying publications whose original was not known
  members,           \* the object the room has for the local member, if any
  localRoomMember,
  publications,      \* the streams the room shows
  subscriptions,     \* and those whose publication has a subscription shown
  join, publish, unpublish,   \* the local member's calls
  asked,             \* another member is asked to subscribe or to unsubscribe
  toggle,            \* enable and disable of each publication
  awaited,           \*   and what they still wait for
  state,             \* of the local person's publications
  \* history
  overtaken          \* what had gone before its call was over

channel == <<p2p, there, coming, listed, seen, hidden>>
room == <<members, localRoomMember, publications, subscriptions>>
calls == <<join, publish, unpublish, asked, toggle, awaited, state>>
roomVars == <<channel, room, calls, overtaken>>

local == <<"member", None>>
bot == <<"bot", None>>
origin(s) == <<"origin", s>>
relay(s) == <<"relay", s>>
subscription(s) == <<"subscription", s>>
Things == {local, bot}
            \cup {origin(s) : s \in Streams}
            \cup {relay(s) : s \in Streams}
            \cup {subscription(s) : s \in Streams}

\* The publication by which a room shows a stream.
shown(s) == IF s \in p2p THEN origin(s) ELSE relay(s)

States == {"enabled", "disabled"}
Requests == {"subscribe", "unsubscribe"}
Call == {"none", "waiting", "resolved", "rejected"}

RoomTypeOK ==
  /\ p2p \subseteq Streams
  /\ there \subseteq Things /\ listed \subseteq seen /\ seen \subseteq Things
  /\ coming \in Seq([kind : {"added", "removed"} \cup States, thing : Things])
  /\ hidden \subseteq Streams \ p2p
  /\ members \in {None, "remote", "local"} /\ localRoomMember \in BOOLEAN
  /\ publications \subseteq Streams /\ subscriptions \subseteq Streams
  /\ join \in Call
  /\ publish \in [Streams -> Call \cup {"forwarding"}]
  /\ unpublish \in [Streams -> Call]
  /\ asked \in [Streams -> [Requests -> Call \cup {"answered"}]]
  /\ toggle \in [Streams -> [States -> Call]]
  /\ awaited \in [Streams -> [States -> SUBSET {"request", "origin", "relay"}]]
  /\ state \in [Streams -> States \cup {"canceled"}]
  /\ overtaken \subseteq Things

RoomInit ==
  /\ p2p \in SUBSET Streams
  /\ there = {bot} /\ coming = <<>> /\ listed = {bot} /\ seen = {bot} /\ hidden = {}
  /\ members = None /\ localRoomMember = FALSE
  /\ publications = {} /\ subscriptions = {}
  /\ join = "none"
  /\ publish = [s \in Streams |-> "none"] /\ unpublish = [s \in Streams |-> "none"]
  /\ asked = [s \in Streams |-> [c \in Requests |-> "none"]]
  /\ toggle = [s \in Streams |-> [d \in States |-> "none"]]
  /\ awaited = [s \in Streams |-> [d \in States |-> {}]]
  /\ state = [s \in Streams |-> "enabled"]
  /\ overtaken = {}

-----------------------------------------------------------------------------
(* The server.                                                             *)

event(kind, thing) == [kind |-> kind, thing |-> thing]

\* What has to end before a thing does.
Dependents(thing) ==
  CASE thing = local -> {origin(s) : s \in Streams}
    [] thing = bot -> {relay(s) : s \in Streams}
    [] \E s \in Streams : thing = shown(s) -> {subscription(thing[2])}
    [] OTHER -> {}

Add(thing) ==
  /\ thing \notin there \cup seen /\ Len(coming) < MaxWire
  /\ \A i \in DOMAIN coming : coming[i].thing # thing
  /\ there' = there \cup {thing}
  /\ coming' = Append(coming, event("added", thing))
  /\ UNCHANGED <<p2p, listed, seen, hidden, room, calls, overtaken>>

\* The requests of join and publish, and the bot's forwarding, are carried
\* out; another member subscribes.
ServerAdds ==
  \/ join = "waiting" /\ Add(local)
  \/ \E s \in Streams :
       \/ publish[s] = "waiting" /\ local \in there /\ Add(origin(s))
       \/ publish[s] = "forwarding" /\ bot \in there /\ Add(relay(s))
       \/ shown(s) \in there /\ Add(subscription(s))

\* Anything ends, by whatever call: an unpublish ends the original.
ServerRemoves(thing) ==
  /\ thing \in there /\ Dependents(thing) \cap there = {} /\ Len(coming) < MaxWire
  /\ there' = there \ {thing}
  /\ coming' = Append(coming, event("removed", thing))
  /\ UNCHANGED <<p2p, listed, seen, hidden, room, calls, overtaken>>

\* A relaying publication follows its original.
ServerToggles(s, d) ==
  /\ "request" \in awaited[s][d] /\ origin(s) \in there /\ Len(coming) < MaxWire
  /\ LET told == {event(d, t) : t \in {origin(s), relay(s)} \cap there}
     IN \E order \in SetToSeqs(told) : coming' = coming \o order
  /\ awaited' = [awaited EXCEPT ![s][d] = @ \ {"request"}]
  /\ UNCHANGED <<p2p, there, listed, seen, hidden, room, join, publish, unpublish,
                 asked, toggle, state, overtaken>>

-----------------------------------------------------------------------------
(* The handlers of the channel's events.                                   *)

\* Mutant: the original is looked up whenever it is asked for.
LooksAgain(thing) ==
  \/ thing[1] = "origin" /\ thing[2] \in p2p
  \/ thing[1] = "relay" /\ origin(thing[2]) \in listed

\* Originals are hidden, and what is taken for one.  The original is looked
\* up when the publication is made.
IsAcceptablePublication(thing) ==
  \/ thing[1] = "origin" /\ thing[2] \in p2p
  \/ thing[1] = "relay" /\ thing[2] \notin hidden'

\* The asked member's call of that kind is over.
Told(thing, call) ==
  asked' = [s \in Streams |->
    IF thing = subscription(s) /\ asked[s][call] \in {"waiting", "answered"}
    THEN [asked[s] EXCEPT ![call] = "resolved"] ELSE asked[s]]

\* Bots are not shown, and a member that is there is not made again.
HandleOnMemberJoin(thing) ==
  members' = IF thing = local /\ members = None THEN "remote" ELSE members

\* The local member hears that it has left.
HandleOnMemberLeft(thing) ==
  /\ members' = IF thing = local THEN None ELSE members
  /\ localRoomMember' = (localRoomMember /\ ~(thing = local /\ members = "local"))

HandleOnStreamPublish(thing) ==
  publications' = IF IsAcceptablePublication(thing)
                  THEN publications \cup {thing[2]} ELSE publications

\* The calls that wait for the end of the publication are told.
HandleOnStreamUnpublish(thing) ==
  /\ publications' = IF IsAcceptablePublication(thing)
                     THEN publications \ {thing[2]} ELSE publications
  /\ unpublish' = [s \in Streams |->
       IF unpublish[s] = "waiting" /\ thing = shown(s) /\ IsAcceptablePublication(thing)
       THEN "resolved" ELSE unpublish[s]]

HandleOnStreamSubscribe(thing) ==
  /\ subscriptions' = IF thing[1] = "subscription"
                      THEN subscriptions \cup {thing[2]} ELSE subscriptions
  /\ Told(thing, "subscribe")

HandleOnStreamUnsubscribe(thing) ==
  /\ subscriptions' = IF thing[1] = "subscription"
                      THEN subscriptions \ {thing[2]} ELSE subscriptions
  /\ Told(thing, "unsubscribe")

\* A relaying publication made before its original is known has none for good.
FindsNoOrigin(thing) ==
  hidden' = IF thing[1] = "relay" /\ origin(thing[2]) \notin listed
            THEN hidden \cup {thing[2]} ELSE hidden

HandleAdded(thing) ==
  /\ FindsNoOrigin(thing)
  /\ HandleOnMemberJoin(thing)
  /\ HandleOnStreamPublish(thing)
  /\ HandleOnStreamSubscribe(thing)
  /\ listed' = listed \cup {thing} /\ seen' = seen \cup {thing}
  /\ UNCHANGED <<localRoomMember, join, publish, unpublish, toggle, awaited, state>>

HandleRemoved(thing) ==
  /\ UNCHANGED hidden
  /\ HandleOnMemberLeft(thing)
  /\ HandleOnStreamUnpublish(thing)
  /\ HandleOnStreamUnsubscribe(thing)
  /\ state' = [s \in Streams |-> IF thing = origin(s) THEN "canceled" ELSE state[s]]
  /\ listed' = listed \ {thing}
  /\ UNCHANGED <<seen, join, publish, toggle, awaited>>

\* Mutant: enable and disable wait for the two events one after the other.
HeardInTurn(s, d, part) ==
  awaited' = [awaited EXCEPT ![s][d] =
    IF part = "relay" /\ "origin" \in @ THEN @ ELSE @ \ {part}]

Heard(s, d, part) == awaited' = [awaited EXCEPT ![s][d] = @ \ {part}]

HandleToggled(thing, d) ==
  /\ LET s == thing[2]
     IN /\ Heard(s, d, thing[1])
        /\ toggle' = [toggle EXCEPT ![s][d] =
             IF @ = "waiting" /\ awaited'[s][d] = {} THEN "resolved" ELSE @]
        /\ state' = [state EXCEPT ![s] =
             IF thing = origin(s) /\ (d = "disabled" \/ "origin" \in awaited[s][d])
             THEN d ELSE @]
  /\ UNCHANGED <<listed, seen, hidden, room, join, publish, unpublish, asked>>

HandleEvent ==
  /\ coming # <<>> /\ coming' = Tail(coming)
  /\ LET e == Head(coming)
     IN CASE e.kind = "added" -> HandleAdded(e.thing)
          [] e.kind = "removed" -> HandleRemoved(e.thing)
          [] OTHER -> HandleToggled(e.thing, e.kind)
  /\ UNCHANGED <<p2p, there, overtaken>>

-----------------------------------------------------------------------------
(* Calls.                                                                  *)

\* What goes on after an await about a thing that has gone meanwhile.
NoteOvertaken(thing) ==
  overtaken' = IF thing \in listed THEN overtaken ELSE overtaken \cup {thing}

Join ==
  /\ join = "none" /\ join' = "waiting"
  /\ UNCHANGED <<channel, room, publish, unpublish, asked, toggle, awaited, state, overtaken>>

\* Mutant: the object made for the member's event stays.
KeepRemoteMember == members' = IF members = None THEN "local" ELSE members

ShowLocalMember == members' = "local"

\* channel.join is over; the room has seen the member, or will not any more.
JoinContinues ==
  /\ join = "waiting" /\ local \in seen
  /\ join' = "resolved"
  /\ ShowLocalMember /\ localRoomMember' = TRUE
  /\ NoteOvertaken(local)
  /\ UNCHANGED <<channel, publications, subscriptions, publish, unpublish,
                 asked, toggle, awaited, state>>

JoinFails ==
  /\ join = "waiting" /\ join' = "rejected"
  /\ UNCHANGED <<channel, room, publish, unpublish, asked, toggle, awaited, state, overtaken>>

PublishStream(s) ==
  /\ join = "resolved" /\ local \in listed /\ publish[s] = "none"
  /\ publish' = [publish EXCEPT ![s] = "waiting"]
  /\ UNCHANGED <<channel, room, join, unpublish, asked, toggle, awaited, state, overtaken>>

\* _addPublication, and publish resolves: the publication may have gone.
Published(s) ==
  /\ publish' = [publish EXCEPT ![s] = "resolved"]
  /\ publications' = publications \cup {s}
  /\ NoteOvertaken(shown(s))

PublishAsP2P(s) ==
  /\ s \in p2p /\ publish[s] = "waiting" /\ origin(s) \in seen
  /\ Published(s)
  /\ UNCHANGED <<channel, members, localRoomMember, subscriptions, join, unpublish,
                 asked, toggle, awaited, state>>

\* The original is published: the bot has to be there.
PublishAsSFU(s) ==
  /\ s \notin p2p /\ publish[s] = "waiting" /\ origin(s) \in seen
  /\ publish' = [publish EXCEPT ![s] = IF bot \in listed THEN "forwarding" ELSE "rejected"]
  /\ UNCHANGED <<channel, room, join, unpublish, asked, toggle, awaited, state, overtaken>>

\* startForwarding is over.
Forwarded(s) ==
  /\ publish[s] = "forwarding" /\ relay(s) \in seen
  /\ Published(s)
  /\ UNCHANGED <<channel, members, localRoomMember, subscriptions, join, unpublish,
                 asked, toggle, awaited, state>>

\* publish of the person or startForwarding rejects.
PublishFails(s) ==
  /\ publish[s] \in {"waiting", "forwarding"}
  /\ publish' = [publish EXCEPT ![s] = "rejected"]
  /\ UNCHANGED <<channel, room, join, unpublish, asked, toggle, awaited, state, overtaken>>

\* The person's unpublish is not waited for, and its failure is only logged.
Unpublish(s) ==
  /\ publish[s] = "resolved" /\ unpublish[s] = "none"
  /\ unpublish' = [unpublish EXCEPT ![s] = IF s \in publications THEN "waiting" ELSE "rejected"]
  /\ UNCHANGED <<channel, room, join, publish, asked, toggle, awaited, state, overtaken>>

UnpublishTimesOut(s) ==
  /\ unpublish[s] = "waiting"
  /\ unpublish' = [unpublish EXCEPT ![s] = "rejected"]
  /\ UNCHANGED <<channel, room, join, publish, asked, toggle, awaited, state, overtaken>>

\* enable and disable of a room's publication: the original's, and the event
\* of the relaying one.  A disable shows in the state at once.
Toggle(s, d) ==
  /\ publish[s] = "resolved" /\ toggle[s][d] = "none"
  /\ IF state[s] = d
     THEN /\ toggle' = [toggle EXCEPT ![s][d] = "resolved"]
          /\ UNCHANGED <<awaited, state>>
     ELSE /\ toggle' = [toggle EXCEPT ![s][d] = "waiting"]
          /\ awaited' = [awaited EXCEPT ![s][d] =
               {"request", "origin"} \cup (IF s \in p2p THEN {} ELSE {"relay"})]
          /\ state' = [state EXCEPT ![s] = IF d = "disabled" THEN d ELSE @]
  /\ UNCHANGED <<channel, room, join, publish, unpublish, asked, overtaken>>

\* The original's enable or disable is refused, or its event does not come.
ToggleFails(s, d) ==
  /\ toggle[s][d] = "waiting" /\ "origin" \in awaited[s][d]
  /\ toggle' = [toggle EXCEPT ![s][d] = "rejected"]
  /\ awaited' = [awaited EXCEPT ![s][d] = {}]
  /\ UNCHANGED <<channel, room, join, publish, unpublish, asked, state, overtaken>>

\* Another member is asked to subscribe to a publication or to end its
\* subscription: the call waits for the room's event, without a limit, and
\* for the member's refusal.
Ask(s, call) ==
  /\ asked[s][call] = "none" /\ s \in publications
  /\ IF call = "subscribe" THEN subscription(s) \notin seen ELSE s \in subscriptions
  /\ asked' = [asked EXCEPT ![s][call] = "waiting"]
  /\ UNCHANGED <<channel, room, join, publish, unpublish, toggle, awaited, state,
                 overtaken>>

\* The member has done it, or refuses.
Answer(s, call) ==
  /\ asked[s][call] = "waiting"
  /\ \/ /\ \E i \in DOMAIN coming : coming[i].thing = subscription(s)
        /\ subscription(s) \in there <=> call = "subscribe"
        /\ asked' = [asked EXCEPT ![s][call] = "answered"]
     \/ asked' = [asked EXCEPT ![s][call] = "rejected"]
  /\ UNCHANGED <<channel, room, join, publish, unpublish, toggle, awaited, state,
                 overtaken>>

-----------------------------------------------------------------------------
Proceeds(s) ==
  \/ PublishAsP2P(s)
  \/ PublishAsSFU(s)
  \/ Forwarded(s)
  \/ PublishFails(s)
  \/ UnpublishTimesOut(s)

RoomNext ==
  \/ ServerAdds
  \/ \E thing \in Things : ServerRemoves(thing)
  \/ HandleEvent
  \/ Join
  \/ JoinContinues
  \/ JoinFails
  \/ \E s \in Streams :
       \/ Proceeds(s)
       \/ PublishStream(s)
       \/ Unpublish(s)
       \/ \E call \in Requests : Ask(s, call) \/ Answer(s, call)
       \/ \E d \in States : \/ ServerToggles(s, d)
                            \/ Toggle(s, d)
                            \/ ToggleFails(s, d)

\* Events arrive, and the calls of the layers below settle.
RoomFairness ==
  /\ WF_roomVars(HandleEvent)
  /\ WF_roomVars(JoinContinues \/ JoinFails)
  /\ \A s \in Streams :
       /\ WF_roomVars(Proceeds(s))
       /\ \A call \in Requests : WF_roomVars(Answer(s, call))
       /\ \A d \in States : WF_roomVars(ServerToggles(s, d)) /\ WF_roomVars(ToggleFails(s, d))

RoomSpec == RoomInit /\ [][RoomNext]_roomVars /\ RoomFairness

-----------------------------------------------------------------------------
(* Properties.                                                             *)

\* A room shows exactly the publications and subscriptions of its channel
\* that are for it, however originals and relaying publications come and go:
\* a relaying publication is shown until it ends although its original may
\* end first (room/base.ts:261 and 275).  Excluded are those that a publish
\* puts back after their end, and those that came after their original.
RoomShowsChannel ==
  /\ \A s \in Streams \ hidden :
       shown(s) \notin overtaken => (s \in publications <=> shown(s) \in listed)
  /\ subscriptions = {s \in Streams : subscription(s) \in listed}

\* A room that has been joined has a local member as long as the channel has,
\* and it is the local one, although the member's event shows it as a remote
\* one first (room/base.ts:228 and 403).
LocalMemberIsShown ==
  join = "resolved" /\ local \notin overtaken =>
    /\ localRoomMember <=> local \in listed
    /\ members = IF local \in listed THEN "local" ELSE None

\* Every publish and unpublish settles, and every enable and disable too,
\* though its second wait has no limit, unless the relaying publication ends
\* meanwhile (publication/index.ts:257).
CallsSettle ==
  \A s \in Streams :
    /\ publish[s] = "waiting" ~> publish[s] \in {"resolved", "rejected"}
    /\ unpublish[s] = "waiting" ~> unpublish[s] # "waiting"
    /\ \A call \in Requests :
         asked[s][call] = "waiting" ~> asked[s][call] \in {"resolved", "rejected"}
    /\ \A d \in States :
         toggle[s][d] = "waiting" ~> toggle[s][d] # "waiting" \/ relay(s) \notin listed
=============================================================================
