------------------------ MODULE ChannelSessionProofs ------------------------
(***************************************************************************)
(* Proofs about ChannelSession, for any number of calls, any values of     *)
(* metadata and any number of things that others do.                       *)
(*                                                                         *)
(* A call is told in the step of the event that its watch is for, and      *)
(* resolves after the last event of the batch.  That its change is still   *)
(* made and seen then (ToldIsDone) takes that a removal on the wire is of  *)
(* something that has gone from the server (RemovalIsGone), and that no    *)
(* object comes back before the promise of the call has gone on.           *)
(*                                                                         *)
(* That the person lives with its member takes                             *)
(* that nothing ends it before join is over but the end of the member, the *)
(* channel or the lease (DisposedForAReason), and that there is no lease   *)
(* before the first one (NoLeaseYet).                                      *)
(***************************************************************************)
EXTENDS ChannelSession, SequenceTheorems, TLAPS

Phases == {"none", "queued", "open", "watching", "told", "resolved", "rejected", "stranded"}
RequestStates == {"none", "sent", "executed", "over"}
Changes == Operations(Values \cup {None})

\* The types that the proofs need; a call that is made has an operation.
SessionTyped ==
  /\ wire \in Seq(Changes)
  /\ shown \in [Objects -> Values \cup {None}]
  /\ operation \in [Calls -> Operations(Values) \cup {None}]
  /\ phase \in [Calls -> Phases]
  /\ request \in [Calls -> RequestStates]

OperationsKnown ==
  \A c \in Calls :
    phase[c] # "none" \/ request[c] # "none" => operation[c] \in Operations(Values)

\* What call c asked for is so, or is said to have been undone since.
Done(c) ==
  IF operation[c].kind = "update"
  THEN shown[operation[c].target] = operation[c].value \/ c \in overwritten
  ELSE operation[c].target \notin listed \cup there

ToldIsDone == \A c \in Calls : phase[c] = "told" => Done(c)

RemovalIsGone == \A i \in 1 .. Len(wire) : wire[i].kind = "remove" => wire[i].target \notin there

\* A channel that is gone from the object is gone from the server.
ChannelListed == "channel" \in there => "channel" \in listed

DoneInv == ToldIsDone /\ RemovalIsGone /\ ChannelListed

\* join is not over.
joining == person \in {"connecting", "icing", "leasing"}

NoLeaseYet == joining => ~timer /\ ~renewing /\ ~fatal

DisposedForAReason == personDisposed => gone \/ fatal

-----------------------------------------------------------------------------
(* Operations and events.                                                  *)

LEMMA OperationForms ==
  ASSUME NEW values, NEW o \in Operations(values)
  PROVE  /\ o.kind \in {"update", "remove"} /\ o.target \in Objects
         /\ o.kind = "remove" => o = remove(o.target)
         /\ o.kind = "update" => o.value \in values
  BY DEF Operations, Updates, UpdateChannelMetadata, UpdateMemberMetadata,
         UpdatePublicationMetadata, DeleteChannel, LeaveChannel, Unpublish,
         Unsubscribe, update, remove, Objects

LEMMA OperationsAreChanges == Operations(Values) \subseteq Changes
  BY DEF Changes, Operations, Updates

LEMMA RemovalIsChange ==
  ASSUME NEW target \in Objects
  PROVE  remove(target) \in Changes
  BY DEF Changes, Operations, DeleteChannel, LeaveChannel, Unpublish, Unsubscribe, Objects

LEMMA RemovalsTyped ==
  ASSUME NEW target \in Objects
  PROVE  Removals(target) \in Seq(Objects)
<1>1. \A o \in Objects : ifThere(o) \in Seq(Objects) /\ <<o>> \in Seq(Objects)
  BY DEF ifThere
<1>2. {"subscription", "publication", "member"} \subseteq Objects
  BY DEF Objects
<1> QED
  BY <1>1, <1>2 DEF Removals

LEMMA ExecuteTyped ==
  ASSUME wire \in Seq(Changes), NEW o \in Changes, Execute(o)
  PROVE  wire' \in Seq(Changes)
<1> DEFINE s == Removals(o.target)
           events == [i \in DOMAIN s |-> remove(s[i])]
<1>1. o.target \in Objects
  BY OperationForms DEF Changes
<1>2. s \in Seq(Objects)
  BY <1>1, RemovalsTyped
<1>3. events \in Seq(Changes)
  <2>1. DOMAIN s = 1 .. Len(s) /\ Len(s) \in Nat /\ \A i \in DOMAIN s : s[i] \in Objects
    BY <1>2
  <2>2. \A i \in 1 .. Len(s) : remove(s[i]) \in Changes
    BY <2>1, RemovalIsChange
  <2> QED
    BY <2>1, <2>2
<1>4. wire' = Append(wire, o) \/ wire' = wire \o events
  BY DEF Execute
<1> HIDE DEF events
<1>5. CASE wire' = Append(wire, o)
  BY <1>5
<1>6. CASE wire' = wire \o events
  BY <1>3, <1>6
<1> QED
  BY <1>4, <1>5, <1>6

\* The event that comes next.
LEMMA HeadOfWire ==
  ASSUME wire \in Seq(Changes), wire # <<>>
  PROVE  /\ Tail(wire) \in Seq(Changes)
         /\ Head(wire) \in Changes
         /\ Head(wire).target \in Objects
         /\ Head(wire).kind \in {"update", "remove"}
         /\ Head(wire).kind = "remove" => Head(wire) = remove(Head(wire).target)
         /\ Head(wire).kind = "update" => Head(wire).value \in Values \cup {None}
<1>1. Tail(wire) \in Seq(Changes) /\ Head(wire) \in Changes
  OBVIOUS
<1> QED
  BY <1>1, OperationForms DEF Changes

-----------------------------------------------------------------------------
(* Types.                                                                  *)

LEMMA TypedStep ==
  ASSUME SessionTyped, OperationsKnown, [Next]_vars
  PROVE  SessionTyped' /\ OperationsKnown'
<1> USE OperationsAreChanges
<1>1. ASSUME NEW c \in Calls, NEW o \in Operations(Values), Call(c, o)
      PROVE  SessionTyped' /\ OperationsKnown'
  <2>1. UNCHANGED <<wire, shown>>
    BY <1>1 DEF Call, channel
  <2>2. /\ operation' = [operation EXCEPT ![c] = o]
        /\ \E p \in {"rejected", "queued", "open"} : phase' = [phase EXCEPT ![c] = p]
        /\ request' = request \/ request' = [request EXCEPT ![c] = "sent"]
    BY <1>1 DEF Call
  <2> QED
    BY <1>1, <2>1, <2>2 DEF SessionTyped, OperationsKnown, Phases, RequestStates
<1>2. ASSUME NEW c \in Calls, ServerExecutes(c)
      PROVE  SessionTyped' /\ OperationsKnown'
  <2>1. operation[c] \in Changes /\ Execute(operation[c])
    BY <1>2 DEF ServerExecutes, OperationsKnown
  <2>2. wire' \in Seq(Changes)
    BY <2>1, ExecuteTyped DEF SessionTyped
  <2>3. /\ UNCHANGED <<shown, operation, phase>>
        /\ request[c] = "sent" /\ request' = [request EXCEPT ![c] = "executed"]
    BY <1>2 DEF ServerExecutes
  <2> QED
    BY <2>2, <2>3 DEF SessionTyped, OperationsKnown, RequestStates
<1>3. ASSUME NEW o \in Operations(Values \cup {None}), OtherExecutes(o)
      PROVE  SessionTyped' /\ OperationsKnown'
  <2>1. wire' \in Seq(Changes)
    BY <1>3, ExecuteTyped DEF SessionTyped, OtherExecutes, Changes
  <2> QED
    BY <1>3, <2>1 DEF OtherExecutes, calls, SessionTyped, OperationsKnown
<1>4. ASSUME NEW c \in Calls, Proceeds(c)
      PROVE  SessionTyped' /\ OperationsKnown'
  <2>1. UNCHANGED <<wire, shown, operation>>
    BY <1>4 DEF Proceeds, QueueRuns, Answered, RequestFails, WatchTimesOut, channel
  <2>2. phase[c] # "none" \/ request[c] # "none"
    BY <1>4 DEF Proceeds, QueueRuns, Answered, RequestFails, WatchTimesOut
  <2>3. \/ phase' = phase
        \/ \E p \in Phases : phase' = [phase EXCEPT ![c] = p]
    <3>1. CASE Answered(c) \/ RequestFails(c)
      <4> phase[c] \in Phases
        BY DEF SessionTyped
      <4> QED
        BY <3>1 DEF Answered, RequestFails, Phases
    <3>2. CASE QueueRuns(c) \/ WatchTimesOut(c)
      BY <3>2 DEF QueueRuns, WatchTimesOut, RemovalTimesOut, MetadataTimesOut, Phases
    <3> QED
      BY <1>4, <3>1, <3>2 DEF Proceeds
  <2>4. request' = request \/ \E r \in RequestStates : request' = [request EXCEPT ![c] = r]
    BY <1>4 DEF Proceeds, QueueRuns, Answered, RequestFails, WatchTimesOut, RequestStates
  <2> QED
    BY <2>1, <2>2, <2>3, <2>4 DEF SessionTyped, OperationsKnown
<1>5. CASE HandleEvent
  <2>1. /\ wire # <<>> /\ wire' = Tail(wire) /\ UNCHANGED <<operation, request>>
        /\ shown' = shown \/ /\ Head(wire).kind = "update"
                             /\ shown' = [shown EXCEPT ![Head(wire).target] = Head(wire).value]
        /\ phase' = [c \in Calls |-> IF Expects(c, Head(wire)) THEN "told" ELSE phase[c]]
    BY <1>5 DEF HandleEvent, Show
  <2>2. wire' \in Seq(Changes) /\ shown' \in [Objects -> Values \cup {None}]
    BY <2>1, HeadOfWire DEF SessionTyped
  <2>3. \A c \in Calls : Expects(c, Head(wire)) => phase[c] # "none"
    BY DEF Expects
  <2>4. phase' \in [Calls -> Phases]
    BY <2>1 DEF SessionTyped, Phases
  <2> QED
    BY <2>1, <2>2, <2>3, <2>4 DEF SessionTyped, OperationsKnown
<1>6. CASE PublishesAndSubscribes \/ Dispose \/ Tick
  BY <1>6 DEF PublishesAndSubscribes, Dispose, Tick, channel, calls, SessionTyped, OperationsKnown
<1>7. ASSUME NEW failed \in BOOLEAN,
             \/ SignalingConnects(failed) \/ IceParamsArrive(failed)
             \/ FirstLease(failed) \/ Renewed(failed)
      PROVE  SessionTyped' /\ OperationsKnown'
  BY <1>7 DEF SignalingConnects, IceParamsArrive, FirstLease, Renewed, channel, calls,
              SessionTyped, OperationsKnown
<1>8. CASE UNCHANGED vars
  BY <1>8 DEF vars, channel, calls, SessionTyped, OperationsKnown
<1>9. CASE Resume
  <2>1. /\ phase' = [c \in Calls |-> IF phase[c] = "told" THEN "resolved" ELSE phase[c]]
        /\ UNCHANGED <<wire, shown, operation, request>>
    BY <1>9 DEF Resume
  <2> QED
    BY <2>1 DEF SessionTyped, OperationsKnown, Phases
<1> QED
  BY <1>1, <1>2, <1>3, <1>4, <1>5, <1>6, <1>7, <1>8, <1>9 DEF Next

LEMMA TypedAlways == Spec => [](SessionTyped /\ OperationsKnown)
<1>1. Init => SessionTyped /\ OperationsKnown
  BY DEF Init, SessionTyped, OperationsKnown, Phases, RequestStates
<1>2. (SessionTyped /\ OperationsKnown) /\ [Next]_vars => (SessionTyped /\ OperationsKnown)'
  BY TypedStep
<1> QED
  BY <1>1, <1>2, PTL DEF Spec

-----------------------------------------------------------------------------
(* A call that resolves has been done.                                     *)

\* What the server does is on the wire once it is so.
LEMMA ExecuteKeepsGone ==
  ASSUME wire \in Seq(Changes), RemovalIsGone, NEW o \in Changes, Execute(o)
  PROVE  RemovalIsGone' /\ there' \subseteq there
<1> DEFINE s == Removals(o.target)
           events == [i \in DOMAIN s |-> remove(s[i])]
           gone_ == IF o.target = "channel" THEN Objects ELSE {s[i] : i \in DOMAIN s}
<1>1. s \in Seq(Objects)
  BY OperationForms, RemovalsTyped DEF Changes
<1>2. CASE wire' = Append(wire, o) /\ UNCHANGED there /\ o.kind = "update"
  <2>1. /\ Len(wire') = Len(wire) + 1 /\ wire'[Len(wire) + 1] = o
        /\ \A i \in 1 .. Len(wire) : wire'[i] = wire[i]
        /\ Len(wire) \in Nat
    BY <1>2
  <2>2. \A i \in 1 .. Len(wire') : i \in 1 .. Len(wire) \/ i = Len(wire) + 1
    BY <2>1
  <2> QED
    BY <1>2, <2>1, <2>2 DEF RemovalIsGone
<1>3. CASE wire' = wire \o events /\ there' = there \ gone_
  <2>1. /\ DOMAIN s = 1 .. Len(s) /\ Len(s) \in Nat /\ Len(wire) \in Nat
        /\ \A i \in 1 .. Len(s) : s[i] \in Objects
    BY <1>1
  <2>2. events \in Seq(Changes) /\ Len(events) = Len(s)
    <3>1. \A i \in 1 .. Len(s) : remove(s[i]) \in Changes
      BY <2>1, RemovalIsChange
    <3> QED
      BY <2>1, <3>1
  <2>3. \A i \in 1 .. Len(s) : events[i].target = s[i] /\ s[i] \in gone_
    BY <2>1 DEF remove
  <2> HIDE DEF events, gone_
  <2>4. /\ Len(wire') = Len(wire) + Len(s)
        /\ \A i \in 1 .. Len(wire) : wire'[i] = wire[i]
        /\ \A i \in 1 .. Len(wire') : i \notin 1 .. Len(wire) =>
             wire'[i] = events[i - Len(wire)] /\ i - Len(wire) \in 1 .. Len(s)
    <3>1. wire' = wire \o events
      BY <1>3
    <3>2. wire \in Seq(Changes)
      OBVIOUS
    <3>3. /\ Len(wire \o events) = Len(wire) + Len(events)
          /\ \A i \in 1 .. Len(wire) + Len(events) :
               (wire \o events)[i] = IF i <= Len(wire) THEN wire[i] ELSE events[i - Len(wire)]
      BY <2>2, <3>2, ConcatProperties, Zenon
    <3>4. Len(wire') = Len(wire) + Len(events)
      BY <3>1, <3>3
    <3>5. \A i \in 1 .. Len(wire) + Len(events) :
            wire'[i] = IF i <= Len(wire) THEN wire[i] ELSE events[i - Len(wire)]
      BY <3>1, <3>3, Zenon
    <3> QED
      BY <2>1, <2>2, <3>4, <3>5
  <2> QED
    BY <1>3, <2>3, <2>4 DEF RemovalIsGone
<1> QED
  BY <1>2, <1>3, OperationForms DEF Execute, Changes

\* An event keeps what calls have been told: it undoes what it is said to undo.
LEMMA EventKeepsDone ==
  ASSUME SessionTyped, OperationsKnown, DoneInv, HandleEvent
  PROVE  DoneInv'
<1> DEFINE event == Head(wire)
<1>1. /\ wire # <<>> /\ wire' = Tail(wire) /\ UNCHANGED <<there, operation>>
      /\ event.kind = "update" => /\ shown' = [shown EXCEPT ![event.target] = event.value]
                                  /\ listed' = listed
      /\ event.kind # "update" => listed' = listed \ {event.target} /\ shown' = shown
      /\ phase' = [d \in Calls |-> IF Expects(d, event) THEN "told" ELSE phase[d]]
      /\ overwritten' = {c \in Calls :
           phase[c] = "told" /\ (c \in overwritten \/ Undoes(event, operation[c]))}
  BY DEF HandleEvent, Show
<1>2. /\ event.target \in Objects /\ event.kind \in {"update", "remove"}
      /\ shown \in [Objects -> Values \cup {None}]
  BY <1>1, HeadOfWire DEF SessionTyped
<1>3. event.kind = "remove" => event.target \notin there
  <2>1. 1 \in 1 .. Len(wire) /\ event = wire[1]
    BY <1>1 DEF SessionTyped
  <2> QED
    BY <2>1 DEF DoneInv, RemovalIsGone
<1>4. RemovalIsGone'
  <2>1. \A i \in 1 .. Len(wire') : wire'[i] = wire[i + 1] /\ i + 1 \in 1 .. Len(wire)
    BY <1>1 DEF SessionTyped
  <2> QED
    BY <1>1, <2>1 DEF DoneInv, RemovalIsGone
<1>5. ChannelListed'
  BY <1>1, <1>2, <1>3 DEF DoneInv, ChannelListed
<1>6. ASSUME NEW c \in Calls, phase'[c] = "told" PROVE Done(c)'
  <2>1. CASE phase[c] = "told"
    <3>1. Done(c)
      BY <2>1 DEF DoneInv, ToldIsDone
    <3>2. operation[c] \in Operations(Values)
      BY <2>1 DEF OperationsKnown
    <3>3. operation[c].target \in Objects
      BY <3>2, OperationForms
    <3>4. CASE operation[c].kind = "update"
      <4>1. CASE c \in overwritten'
        BY <1>1, <3>4, <4>1 DEF Done
      <4>2. CASE c \notin overwritten'
        <5>1. c \notin overwritten /\ ~Undoes(event, operation[c])
          BY <1>1, <2>1, <4>2
        <5>2. shown[operation[c].target] = operation[c].value
          BY <3>1, <3>4, <5>1 DEF Done
        <5>3. shown'[operation[c].target] = operation[c].value
          BY <1>1, <1>2, <3>3, <5>1, <5>2 DEF Undoes
        <5> QED
          BY <1>1, <3>4, <5>3 DEF Done
      <4> QED
        BY <4>1, <4>2
    <3>5. CASE operation[c].kind # "update"
      BY <1>1, <3>1, <3>5 DEF Done
    <3> QED
      BY <3>4, <3>5
  <2>2. CASE phase[c] # "told"
    <3>1. operation[c] = event
      BY <1>1, <1>6, <2>2 DEF Expects, Matches
    <3> QED
      BY <1>1, <1>2, <1>3, <3>1 DEF Done
  <2> QED
    BY <2>1, <2>2
<1> QED
  BY <1>4, <1>5, <1>6 DEF DoneInv, ToldIsDone

LEMMA DoneStep ==
  ASSUME SessionTyped, OperationsKnown, DoneInv, [Next]_vars
  PROVE  DoneInv'
<1> USE DEF DoneInv
<1>0. phase \in [Calls -> Phases] /\ operation \in [Calls -> Operations(Values) \cup {None}]
  BY DEF SessionTyped
\* What neither the channel nor a call that was told sees.
<1>a. ASSUME UNCHANGED <<there, wire, listed, shown, overwritten>>,
             \A c \in Calls : phase'[c] = "told" => phase[c] = "told" /\ operation'[c] = operation[c]
      PROVE  DoneInv'
  BY <1>a DEF ToldIsDone, Done, RemovalIsGone, ChannelListed
\* What the server does, when no call has been told.
<1>b. ASSUME NEW o \in Changes, Execute(o), UNCHANGED <<listed, phase>>
      PROVE  DoneInv'
  <2>1. RemovalIsGone' /\ there' \subseteq there
    BY <1>b, ExecuteKeepsGone DEF SessionTyped
  <2>2. \A c \in Calls : phase'[c] # "told"
    BY <1>b DEF Execute, settled
  <2> QED
    BY <1>b, <2>1, <2>2 DEF ToldIsDone, ChannelListed
<1>1. ASSUME NEW c \in Calls, NEW o \in Operations(Values), Call(c, o)
      PROVE  DoneInv'
  <2>1. /\ UNCHANGED channel /\ phase[c] = "none"
        /\ operation' = [operation EXCEPT ![c] = o]
        /\ \E p \in {"rejected", "queued", "open"} : phase' = [phase EXCEPT ![c] = p]
    BY <1>1 DEF Call
  <2> QED
    BY <1>0, <1>a, <2>1 DEF channel
<1>2. ASSUME NEW c \in Calls, ServerExecutes(c)
      PROVE  DoneInv'
  <2>1. operation[c] \in Changes /\ Execute(operation[c]) /\ UNCHANGED <<listed, phase>>
    BY <1>2, OperationsAreChanges DEF ServerExecutes, OperationsKnown
  <2> QED
    BY <1>b, <2>1
<1>3. ASSUME NEW o \in Operations(Values \cup {None}), OtherExecutes(o)
      PROVE  DoneInv'
  BY <1>3, <1>b DEF OtherExecutes, calls, Changes
<1>4. ASSUME NEW c \in Calls, Proceeds(c)
      PROVE  DoneInv'
  <2>1. UNCHANGED <<channel, operation>>
    BY <1>4 DEF Proceeds, QueueRuns, Answered, RequestFails, WatchTimesOut
  <2>2. \/ phase' = phase
        \/ \E p \in Phases \ {"told"} : phase' = [phase EXCEPT ![c] = p]
    <3>1. CASE Answered(c) \/ RequestFails(c)
      <4>1. phase[c] \in Phases /\ phase[c] # "told"
        BY <1>0, <3>1 DEF Answered, RequestFails, settled
      <4> QED
        BY <3>1, <4>1 DEF Answered, RequestFails, Phases
    <3>2. CASE QueueRuns(c) \/ WatchTimesOut(c)
      BY <3>2 DEF QueueRuns, WatchTimesOut, RemovalTimesOut, MetadataTimesOut, Phases
    <3> QED
      BY <1>4, <3>1, <3>2 DEF Proceeds
  <2> QED
    BY <1>0, <1>a, <2>1, <2>2 DEF channel
<1>5. CASE HandleEvent
  BY <1>5, EventKeepsDone
<1>6. CASE Resume
  <2>1. /\ UNCHANGED <<there, wire, listed>>
        /\ \A c \in Calls : phase'[c] # "told"
    BY <1>6 DEF Resume
  <2> QED
    BY <2>1 DEF ToldIsDone, RemovalIsGone, ChannelListed
\* The person's objects come while nothing is on the wire and no call is told.
<1>7. CASE PublishesAndSubscribes
  <2>1. /\ wire = <<>> /\ wire' = wire /\ listed' = Objects
        /\ \A c \in Calls : phase'[c] # "told"
    BY <1>7 DEF PublishesAndSubscribes, settled, calls
  <2>2. Len(wire') = 0
    BY <2>1
  <2> QED
    BY <2>1, <2>2 DEF ToldIsDone, RemovalIsGone, ChannelListed, Objects
<1>8. CASE Dispose \/ Tick \/ UNCHANGED vars
  BY <1>8, <1>a DEF Dispose, Tick, vars, channel, calls
<1>9. ASSUME NEW failed \in BOOLEAN,
             \/ SignalingConnects(failed) \/ IceParamsArrive(failed)
             \/ FirstLease(failed) \/ Renewed(failed)
      PROVE  DoneInv'
  BY <1>9, <1>a DEF SignalingConnects, IceParamsArrive, FirstLease, Renewed, channel, calls
<1> QED
  BY <1>1, <1>2, <1>3, <1>4, <1>5, <1>6, <1>7, <1>8, <1>9 DEF Next

\* The action of ResolvedMeansDone.
ResolvesWhenDone ==
  \A c \in Calls : phase[c] # "resolved" /\ phase'[c] = "resolved" =>
    IF operation[c].kind = "update"
    THEN shown'[operation[c].target] = operation[c].value \/ c \in overwritten
    ELSE operation[c].target \notin listed' \cup there'

LEMMA ResolvedStep ==
  ASSUME SessionTyped, OperationsKnown, DoneInv, [Next]_vars
  PROVE  ResolvesWhenDone
<1> SUFFICES ASSUME NEW c \in Calls, phase[c] # "resolved", phase'[c] = "resolved"
             PROVE  IF operation[c].kind = "update"
                    THEN shown'[operation[c].target] = operation[c].value \/ c \in overwritten
                    ELSE operation[c].target \notin listed' \cup there'
  BY DEF ResolvesWhenDone
<1>0. phase' # phase /\ phase \in [Calls -> Phases]
  BY DEF SessionTyped
<1>1. CASE Resume
  <2>1. phase[c] = "told" /\ UNCHANGED <<there, listed, shown>>
    BY <1>1 DEF Resume
  <2> QED
    BY <2>1 DEF DoneInv, ToldIsDone, Done
<1>2. ASSUME NEW d \in Calls, Answered(d)
      PROVE  IF operation[c].kind = "update"
             THEN shown'[operation[c].target] = operation[c].value \/ c \in overwritten
             ELSE operation[c].target \notin listed' \cup there'
  <2>1. operation[c] = DeleteChannel /\ "channel" \notin listed /\ UNCHANGED <<listed, there>>
    BY <1>0, <1>2 DEF Answered, channel
  <2> QED
    BY <2>1 DEF DeleteChannel, remove, DoneInv, ChannelListed
<1>3. ASSUME NEW d \in Calls,
             QueueRuns(d) \/ RequestFails(d) \/ WatchTimesOut(d)
             \/ \E o \in Operations(Values) : Call(d, o)
      PROVE  FALSE
  BY <1>0, <1>3 DEF QueueRuns, RequestFails, WatchTimesOut, RemovalTimesOut,
                    MetadataTimesOut, Call
<1>4. ASSUME NEW d \in Calls, ServerExecutes(d)
      PROVE  FALSE
  BY <1>0, <1>4 DEF ServerExecutes
<1>5. ASSUME NEW o \in Operations(Values \cup {None}), OtherExecutes(o)
      PROVE  FALSE
  BY <1>0, <1>5 DEF OtherExecutes, calls
<1>6. ASSUME PublishesAndSubscribes \/ Dispose \/ Tick \/ UNCHANGED vars
      PROVE  FALSE
  BY <1>0, <1>6 DEF PublishesAndSubscribes, Dispose, Tick, vars, calls
<1>7. ASSUME NEW failed \in BOOLEAN,
             \/ SignalingConnects(failed) \/ IceParamsArrive(failed)
             \/ FirstLease(failed) \/ Renewed(failed)
      PROVE  FALSE
  BY <1>0, <1>7 DEF SignalingConnects, IceParamsArrive, FirstLease, Renewed, calls
<1>8. ASSUME HandleEvent
      PROVE  FALSE
  BY <1>0, <1>8 DEF HandleEvent
<1> QED
  BY <1>1, <1>2, <1>3, <1>4, <1>5, <1>6, <1>7, <1>8 DEF Next, Proceeds

\* A call resolves, after the batch that its event came in, only when what it
\* removes is gone from the server and from the channel object, and the object
\* shows the metadata it set, unless a later event of that batch has set others:
\* for any number of calls and values, and whatever others do meanwhile.
THEOREM CallsResolveWhenDone == Spec => ResolvedMeansDone
<1>1. Init => DoneInv
  BY DEF Init, DoneInv, ToldIsDone, RemovalIsGone, ChannelListed
<1>2. (SessionTyped /\ OperationsKnown) /\ DoneInv /\ [Next]_vars => DoneInv'
  BY DoneStep
<1>3. (SessionTyped /\ OperationsKnown) /\ DoneInv /\ [Next]_vars => [ResolvesWhenDone]_vars
  BY ResolvedStep
<1>4. Spec => [][ResolvesWhenDone]_vars
  BY <1>1, <1>2, <1>3, TypedAlways, PTL DEF Spec
<1> QED
  BY <1>4 DEF ResolvedMeansDone, ResolvesWhenDone

-----------------------------------------------------------------------------
(* The person lives with its member.                                       *)

LifeInv == NoLeaseYet /\ DisposedForAReason /\ PersonLivesWithMember

\* What a step of the calls or of the server leaves alone.
LEMMA CallsLeaveThePerson ==
  ASSUME LifeInv, UNCHANGED <<life, disposed>>,
         "member" \in listed' <=> "member" \in listed
  PROVE  LifeInv'
  BY DEF LifeInv, NoLeaseYet, joining, DisposedForAReason, gone,
         PersonLivesWithMember, life

LEMMA EventKeepsLife ==
  ASSUME SessionTyped, LifeInv, HandleEvent
  PROVE  LifeInv'
<1> DEFINE event == Head(wire)
<1> USE DEF LifeInv
<1>1. /\ ~disposed /\ disposed' = (event = DeleteChannel) /\ PersonEnds(event)
      /\ UNCHANGED <<person, renewing, fatal, overtaken>>
  BY DEF HandleEvent
<1>2. /\ event.kind \in {"update", "remove"}
      /\ event.kind = "update" => listed' = listed
      /\ event.kind = "remove" => listed' = listed \ {event.target}
      /\ event.kind = "remove" => event = remove(event.target)
  BY HeadOfWire DEF HandleEvent, SessionTyped
<1>3. "member" \in listed' <=> "member" \in listed /\ event # LeaveChannel
  BY <1>2 DEF LeaveChannel, remove
<1>4. \/ PersonHears(event) /\ DisposePerson
      \/ ~PersonHears(event) /\ Unchanged
  BY <1>1 DEF PersonEnds
<1>5. NoLeaseYet'
  BY <1>1, <1>4 DEF NoLeaseYet, joining, DisposePerson, Unchanged
<1>6. DisposedForAReason'
  BY <1>1, <1>3, <1>4 DEF DisposedForAReason, gone, PersonHears, Unchanged
<1>7. PersonLivesWithMember'
  <2>1. CASE PersonHears(event)
    <3>1. "member" \notin listed' \/ disposed'
      BY <1>1, <1>3, <2>1 DEF PersonHears
    <3> QED
      BY <1>4, <2>1, <3>1 DEF PersonLivesWithMember, DisposePerson
  <2>2. CASE ~PersonHears(event)
    BY <1>1, <1>3, <1>4, <2>2 DEF PersonLivesWithMember, PersonHears, Made, Unchanged
  <2> QED
    BY <2>1, <2>2
<1> QED
  BY <1>5, <1>6, <1>7

LEMMA LifeStep ==
  ASSUME SessionTyped, LifeInv, [Next]_vars
  PROVE  LifeInv'
<1>1. ASSUME NEW c \in Calls,
             Proceeds(c) \/ ServerExecutes(c) \/ \E o \in Operations(Values) : Call(c, o)
      PROVE  LifeInv'
  BY <1>1, CallsLeaveThePerson
     DEF Proceeds, QueueRuns, Answered, RequestFails, WatchTimesOut, ServerExecutes,
         Call, channel
<1>2. ASSUME NEW o \in Operations(Values \cup {None}), OtherExecutes(o)
      PROVE  LifeInv'
  BY <1>2, CallsLeaveThePerson DEF OtherExecutes
<1>3. CASE PublishesAndSubscribes
  BY <1>3, CallsLeaveThePerson DEF PublishesAndSubscribes, Objects
<1>4. CASE HandleEvent
  BY <1>4, EventKeepsLife
<1>5. CASE Dispose
  BY <1>5 DEF Dispose, DisposePerson, Unchanged, channel, LifeInv, NoLeaseYet, joining,
              DisposedForAReason, gone, PersonLivesWithMember, Made
<1>6. ASSUME NEW failed \in BOOLEAN, SignalingConnects(failed)
      PROVE  LifeInv'
  BY <1>6 DEF SignalingConnects, channel, LifeInv, NoLeaseYet, joining,
              DisposedForAReason, gone, PersonLivesWithMember
<1>7. ASSUME NEW failed \in BOOLEAN, IceParamsArrive(failed) \/ FirstLease(failed)
      PROVE  LifeInv'
  <2>1. /\ personDisposed => gone
        /\ joining /\ ~fatal /\ ~renewing
        /\ UNCHANGED <<listed, disposed, personDisposed, fatal, renewing>>
        /\ gone => overtaken'
    BY <1>7 DEF IceParamsArrive, FirstLease, LifeInv, NoLeaseYet, joining,
                DisposedForAReason, channel
  <2>2. NoLeaseYet'
    BY <1>7, <2>1 DEF IceParamsArrive, FirstLease, LifeInv, NoLeaseYet, joining
  <2> QED
    BY <2>1, <2>2 DEF LifeInv, DisposedForAReason, gone, PersonLivesWithMember
<1>8. ASSUME NEW failed \in BOOLEAN, Renewed(failed)
      PROVE  LifeInv'
  BY <1>8 DEF Renewed, DisposePerson, Unchanged, channel, LifeInv, NoLeaseYet, joining,
              DisposedForAReason, gone, PersonLivesWithMember
<1>9. CASE Tick
  BY <1>9 DEF Tick, channel, LifeInv, NoLeaseYet, joining, DisposedForAReason, gone,
              PersonLivesWithMember
<1>10. CASE UNCHANGED vars
  BY <1>10, CallsLeaveThePerson DEF vars, channel
<1>11. CASE Resume
  BY <1>11, CallsLeaveThePerson DEF Resume
<1> QED
  BY <1>1, <1>2, <1>3, <1>4, <1>5, <1>6, <1>7, <1>8, <1>9, <1>10, <1>11 DEF Next

\* A person that has joined while its member and its channel were there ends
\* exactly when the member, the channel or the lease does, and leaves neither
\* its signaling session nor its timer behind: for any number of calls.
THEOREM PersonLives == Spec => []PersonLivesWithMember
<1>1. Init => LifeInv
  BY DEF Init, LifeInv, NoLeaseYet, joining, DisposedForAReason, PersonLivesWithMember
<1>2. SessionTyped /\ LifeInv /\ [Next]_vars => LifeInv'
  BY LifeStep
<1>3. LifeInv => PersonLivesWithMember
  BY DEF LifeInv
<1> QED
  BY <1>1, <1>2, <1>3, TypedAlways, PTL DEF Spec
=============================================================================
