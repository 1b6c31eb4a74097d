------------------------ MODULE ChannelReplicaProofs ------------------------
(***************************************************************************)
(* Proofs about ChannelReplica, for any number of joins, publishes,        *)
(* subscribes and events under way.                                        *)
(*                                                                         *)
(* A call must not wait for the event of something that exists once the    *)
(* event has been handled.  TimeoutMeansGone is not inductive: it takes    *)
(* that the event of what the server has made is on the wire or in the     *)
(* list (AwaitedComes), that a removal on the wire is of something that    *)
(* has gone for good (RemovedIsGone, EarlyIsUnknown), and that a request   *)
(* leaves its queue once (QueuesHoldTheQueued).                            *)
(*                                                                         *)
(* That the two replicas agree takes a second invariant, AgreeInv, about   *)
(* what the wire may hold and in which order; it is kept given the first.  *)
(***************************************************************************)
EXTENDS ChannelReplica, TLAPS

Early == {"idle", "queued", "requesting"}

\* What has not been asked for yet is neither in the channel nor in an event.
EarlyIsUnknown ==
  \A c \in Calls : phase[c] \in Early =>
    c \notin alive /\ \A i \in 1..Len(wire) : wire[i].x # c

RemovedIsGone ==
  \A i \in 1..Len(wire) : wire[i].op = "removed" => wire[i].x \notin alive

AwaitingUnlisted == \A c \in Calls : phase[c] = "awaiting" => c \notin listed

\* What exists and is awaited, or will be looked for, is listed or on its way.
AwaitedComes ==
  \A c \in Calls :
    phase[c] \in {"answered", "awaiting"} /\ c \in alive /\ c \notin listed
    => \E i \in 1..Len(wire) : wire[i] = Event("added", c)

TimedOutFailed == \A c \in timedOut : phase[c] = "failed"

\* A request is in one queue, that of its person, and there once.
QueuesHoldTheQueued ==
  \A m \in Joins : \A i \in 1..Len(queue[m]) :
    /\ phase[queue[m][i]] = "queued"
    /\ by[queue[m][i]] = m
    /\ \A k \in 1..Len(queue[m]) : queue[m][i] = queue[m][k] => i = k

ReplicaInv ==
  /\ TypeOK
  /\ EarlyIsUnknown
  /\ RemovedIsGone
  /\ AwaitingUnlisted
  /\ AwaitedComes
  /\ TimedOutFailed
  /\ QueuesHoldTheQueued
  /\ TimeoutMeansGone

Events == [op : {"added", "removed"}, x : Things]

LEMMA ReplicaInitInv == Init => ReplicaInv
  <1> SUFFICES ASSUME Init PROVE ReplicaInv
    OBVIOUS
  <1>1. wire \in Seq(Events) /\ Len(wire) = 0
    BY DEF Init
  <1>2. queue \in [Joins -> Seq(Requests)] /\ \A m \in Joins : Len(queue[m]) = 0
    BY DEF Init
  <1>3. TypeOK
    BY <1>1, <1>2 DEF Init, TypeOK, Events, Things, Calls, Phases
  <1>4. alive \cap Calls = {}
    BY NamesAssumption DEF Init, Calls, Requests
  <1>5. EarlyIsUnknown /\ RemovedIsGone /\ QueuesHoldTheQueued
    BY <1>1, <1>2, <1>4 DEF EarlyIsUnknown, RemovedIsGone, QueuesHoldTheQueued
  <1>6. AwaitingUnlisted /\ AwaitedComes /\ TimedOutFailed /\ TimeoutMeansGone
    BY DEF Init, AwaitingUnlisted, AwaitedComes, TimedOutFailed, TimeoutMeansGone
  <1>7. QED BY <1>3, <1>5, <1>6 DEF ReplicaInv

-----------------------------------------------------------------------------
(* Sequences.                                                              *)

LEMMA AppendedTo ==
  ASSUME NEW S, NEW s \in Seq(S), NEW e \in S
  PROVE  /\ Append(s, e) \in Seq(S)
         /\ Append(s, e) # <<>>
         /\ Len(s) \in Nat /\ Len(Append(s, e)) = Len(s) + 1
         /\ \A i \in 1..Len(s) : Append(s, e)[i] = s[i]
         /\ Append(s, e)[Len(s) + 1] = e
  OBVIOUS

LEMMA TakenFrom ==
  ASSUME NEW S, NEW s \in Seq(S), s # <<>>
  PROVE  /\ Head(s) = s[1] /\ Head(s) \in S
         /\ Len(s) \in Nat /\ 1 \in 1..Len(s)
         /\ Tail(s) \in Seq(S)
         /\ Len(Tail(s)) = Len(s) - 1
         /\ \A i \in 1..Len(Tail(s)) : i + 1 \in 1..Len(s) /\ Tail(s)[i] = s[i + 1]
         /\ \A i \in 1..Len(s) : i # 1 => i - 1 \in 1..Len(Tail(s)) /\ s[i] = Tail(s)[i - 1]
         /\ Len(s) > 1 => Tail(s) # <<>>
  <1>1. Len(s) \in Nat /\ Len(s) > 0
    OBVIOUS
  <1>2. Tail(s) \in Seq(S) /\ Len(Tail(s)) = Len(s) - 1 /\ Head(s) = s[1] /\ s[1] \in S
    BY <1>1
  <1>3. \A i \in 1..Len(Tail(s)) : i + 1 \in 1..Len(s) /\ Tail(s)[i] = s[i + 1]
    BY <1>1, <1>2
  <1>4. \A i \in 1..Len(s) : i # 1 => i - 1 \in 1..Len(Tail(s)) /\ s[i] = Tail(s)[i - 1]
    BY <1>1, <1>2
  <1>5. Len(s) > 1 => Tail(s) # <<>>
    <2>1. Len(<<>>) = 0
      OBVIOUS
    <2>2. HAVE Len(s) > 1
    <2>3. Len(Tail(s)) # 0
      BY <1>1, <1>2, <2>2
    <2>4. QED BY <2>1, <2>3, Zenon
  <1>6. QED BY <1>1, <1>2, <1>3, <1>4, <1>5

-----------------------------------------------------------------------------
(* The steps.  The invariant without its types and its conclusion:         *)

ReplicaParts ==
  /\ EarlyIsUnknown
  /\ RemovedIsGone
  /\ AwaitingUnlisted
  /\ AwaitedComes
  /\ TimedOutFailed
  /\ QueuesHoldTheQueued

\* A call goes on, and nothing else that matters here changes.
LEMMA CallMovesOn ==
  ASSUME TypeOK, ReplicaParts, NEW c \in Calls, NEW p \in Phases, Move(c, p),
         UNCHANGED <<alive, wire, listed, by, queue>>,
         phase[c] \notin {"queued", "failed"}, p # "queued",
         p \in Early => phase[c] \in Early,
         p \in {"answered", "awaiting"} => phase[c] = "answered",
         p = "awaiting" => c \notin listed,
         timedOut' \subseteq (IF p = "failed" THEN timedOut \cup {c} ELSE timedOut)
  PROVE  ReplicaParts'
  <1>1. phase \in [Calls -> Phases] /\ phase' = [phase EXCEPT ![c] = p]
    BY DEF TypeOK, Move
  <1>2. phase'[c] = p /\ \A d \in Calls \ {c} : phase'[d] = phase[d]
    BY <1>1
  <1>3. EarlyIsUnknown'
    BY <1>2 DEF ReplicaParts, EarlyIsUnknown
  <1>4. RemovedIsGone'
    BY DEF ReplicaParts, RemovedIsGone
  <1>5. AwaitingUnlisted'
    BY <1>2 DEF ReplicaParts, AwaitingUnlisted
  <1>6. AwaitedComes'
    BY <1>2 DEF ReplicaParts, AwaitedComes
  <1>7. TimedOutFailed'
    <2>1. timedOut \subseteq Calls
      BY DEF TypeOK
    <2>2. QED BY <1>2, <2>1 DEF ReplicaParts, TimedOutFailed
  <1>8. QueuesHoldTheQueued'
    <2> SUFFICES ASSUME NEW m \in Joins, NEW i \in 1..Len(queue[m])
                 PROVE  phase'[queue[m][i]] = "queued"
      BY DEF ReplicaParts, QueuesHoldTheQueued
    <2>1. queue[m] \in Seq(Requests)
      BY DEF TypeOK
    <2>2. queue[m][i] \in Calls /\ phase[queue[m][i]] = "queued"
      BY <2>1 DEF ReplicaParts, QueuesHoldTheQueued, Calls
    <2>3. QED BY <1>2, <2>2
  <1>9. QED BY <1>3, <1>4, <1>5, <1>6, <1>7, <1>8 DEF ReplicaParts

\* publish and subscribe join the queue of their person.
LEMMA RequestQueued ==
  ASSUME TypeOK, ReplicaParts, NEW c \in Requests, NEW m \in Joins,
         phase[c] = "idle", Move(c, "queued"),
         by' = [by EXCEPT ![c] = m],
         queue' = [queue EXCEPT ![m] = Append(@, c)],
         UNCHANGED <<alive, wire, listed, timedOut>>
  PROVE  ReplicaParts' /\ queue' \in [Joins -> Seq(Requests)]
  <1>1. c \in Calls /\ phase \in [Calls -> Phases] /\ phase' = [phase EXCEPT ![c] = "queued"]
    BY DEF TypeOK, Move, Calls
  <1>2. phase'[c] = "queued" /\ \A d \in Calls \ {c} : phase'[d] = phase[d]
    BY <1>1
  <1>3. EarlyIsUnknown'
    BY <1>1, <1>2 DEF ReplicaParts, EarlyIsUnknown, Early
  <1>4. RemovedIsGone'
    BY DEF ReplicaParts, RemovedIsGone
  <1>5. AwaitingUnlisted' /\ AwaitedComes'
    BY <1>2 DEF ReplicaParts, AwaitingUnlisted, AwaitedComes
  <1>6. TimedOutFailed'
    <2>1. timedOut \subseteq Calls
      BY DEF TypeOK
    <2>2. QED BY <1>2, <2>1 DEF ReplicaParts, TimedOutFailed
  <1>7. queue' \in [Joins -> Seq(Requests)]
    BY DEF TypeOK
  <1>8. QueuesHoldTheQueued'
    <2> SUFFICES ASSUME NEW n \in Joins, NEW i \in 1..Len(queue'[n]), NEW k \in 1..Len(queue'[n])
                 PROVE  /\ phase'[queue'[n][i]] = "queued"
                        /\ by'[queue'[n][i]] = n
                        /\ queue'[n][i] = queue'[n][k] => i = k
      BY DEF QueuesHoldTheQueued
    <2>1. queue[n] \in Seq(Requests) /\ by \in [Requests -> Joins \cup {None}]
      BY DEF TypeOK
    <2>2. \A j \in 1..Len(queue[n]) :
            /\ queue[n][j] \in Requests \ {c}
            /\ phase'[queue[n][j]] = "queued" /\ by'[queue[n][j]] = n
      BY <1>1, <1>2, <2>1 DEF ReplicaParts, QueuesHoldTheQueued, Calls
    <2>3. CASE n = m
      <3>1. queue'[n] = Append(queue[n], c)
        BY <2>3 DEF TypeOK
      <3>2. /\ Len(queue[n]) \in Nat /\ Len(queue'[n]) = Len(queue[n]) + 1
            /\ \A j \in 1..Len(queue[n]) : queue'[n][j] = queue[n][j]
            /\ queue'[n][Len(queue[n]) + 1] = c
        BY <2>1, <3>1, AppendedTo
      <3>3. \A j \in 1..Len(queue'[n]) : j \in 1..Len(queue[n]) \/ j = Len(queue[n]) + 1
        BY <3>2
      <3>4. phase'[c] = "queued" /\ by'[c] = m
        BY <1>2, <2>1
      <3>5. QED BY <2>2, <2>3, <3>2, <3>3, <3>4 DEF ReplicaParts, QueuesHoldTheQueued
    <2>4. CASE n # m
      <3>1. queue'[n] = queue[n]
        BY <2>4 DEF TypeOK
      <3>2. i \in 1..Len(queue[n]) /\ k \in 1..Len(queue[n])
        BY <3>1
      <3>3. queue[n][i] = queue[n][k] => i = k
        BY <3>2 DEF ReplicaParts, QueuesHoldTheQueued
      <3>4. phase'[queue[n][i]] = "queued" /\ by'[queue[n][i]] = n
        BY <2>2, <3>2
      <3>5. QED BY <3>1, <3>3, <3>4, Zenon
    <2>5. QED BY <2>3, <2>4
  <1>9. QED BY <1>3, <1>4, <1>5, <1>6, <1>7, <1>8 DEF ReplicaParts

\* The queue hands over its first request.
LEMMA RequestStarted ==
  ASSUME TypeOK, ReplicaParts, NEW m \in Joins, StartRequest(m)
  PROVE  /\ ReplicaParts'
         /\ queue' \in [Joins -> Seq(Requests)]
         /\ phase' \in [Calls -> Phases]
  <1> DEFINE c == Head(queue[m])
  <1>1. /\ queue[m] \in Seq(Requests) /\ queue[m] # <<>>
        /\ phase \in [Calls -> Phases] /\ by \in [Requests -> Joins \cup {None}]
    BY DEF TypeOK, StartRequest
  <1>2. /\ c \in Requests /\ c = queue[m][1] /\ 1 \in 1..Len(queue[m])
        /\ Tail(queue[m]) \in Seq(Requests)
        /\ \A i \in 1..Len(Tail(queue[m])) :
             /\ i \in Nat /\ i + 1 \in 1..Len(queue[m]) /\ i + 1 # 1
             /\ Tail(queue[m])[i] = queue[m][i + 1]
    BY <1>1, TakenFrom
  <1>3. c \in Calls /\ phase[c] = "queued" /\ by[c] = m
    BY <1>2 DEF ReplicaParts, QueuesHoldTheQueued, Calls
  <1>4. PICK p \in {"failed", "requesting"} : phase' = [phase EXCEPT ![c] = p]
    BY DEF StartRequest, PublishStream, SubscribeStream, Move
  <1>5. /\ phase'[c] = p /\ \A d \in Calls \ {c} : phase'[d] = phase[d]
        /\ phase' \in [Calls -> Phases]
    BY <1>1, <1>3, <1>4 DEF Phases
  <1>6. /\ queue' = [queue EXCEPT ![m] = Tail(@)]
        /\ UNCHANGED <<alive, wire, listed, by, timedOut>>
    BY DEF StartRequest, serverVars, channelVars
  <1>7. /\ queue' \in [Joins -> Seq(Requests)]
        /\ queue'[m] = Tail(queue[m])
        /\ \A n \in Joins \ {m} : queue'[n] = queue[n]
    BY <1>2, <1>6 DEF TypeOK
  <1>8. EarlyIsUnknown'
    BY <1>3, <1>5, <1>6 DEF ReplicaParts, EarlyIsUnknown, Early
  <1>9. RemovedIsGone'
    BY <1>6 DEF ReplicaParts, RemovedIsGone
  <1>10. AwaitingUnlisted' /\ AwaitedComes'
    BY <1>5, <1>6 DEF ReplicaParts, AwaitingUnlisted, AwaitedComes
  <1>11. TimedOutFailed'
    BY <1>3, <1>5, <1>6 DEF ReplicaParts, TimedOutFailed, TypeOK
  <1>12. QueuesHoldTheQueued'
    <2> SUFFICES ASSUME NEW n \in Joins, NEW i \in 1..Len(queue'[n]), NEW k \in 1..Len(queue'[n])
                 PROVE  /\ phase'[queue'[n][i]] = "queued"
                        /\ by'[queue'[n][i]] = n
                        /\ queue'[n][i] = queue'[n][k] => i = k
      BY DEF QueuesHoldTheQueued
    <2>1. CASE n = m
      <3>1. /\ i + 1 \in 1..Len(queue[m]) /\ k + 1 \in 1..Len(queue[m])
            /\ i \in Nat /\ k \in Nat /\ i + 1 # 1
            /\ queue'[n][i] = queue[m][i + 1] /\ queue'[n][k] = queue[m][k + 1]
        BY <1>2, <1>7, <2>1
      <3>2. queue[m][i + 1] \in Requests /\ queue[m][i + 1] # c
        <4>1. queue[m][i + 1] = queue[m][1] => i + 1 = 1
          BY <1>2, <3>1 DEF ReplicaParts, QueuesHoldTheQueued
        <4> QED BY <1>1, <1>2, <3>1, <4>1
      <3>3. phase'[queue[m][i + 1]] = "queued" /\ by'[queue[m][i + 1]] = m
        BY <1>5, <1>6, <3>1, <3>2 DEF ReplicaParts, QueuesHoldTheQueued, Calls
      <3>4. queue[m][i + 1] = queue[m][k + 1] => i + 1 = k + 1
        BY <3>1 DEF ReplicaParts, QueuesHoldTheQueued
      <3>5. QED BY <2>1, <3>1, <3>3, <3>4
    <2>2. CASE n # m
      <3>1. queue'[n] = queue[n] /\ queue[n] \in Seq(Requests)
        BY <1>7, <2>2 DEF TypeOK
      <3>2. by[queue[n][i]] = n /\ phase[queue[n][i]] = "queued"
            /\ (queue[n][i] = queue[n][k] => i = k)
        BY <3>1 DEF ReplicaParts, QueuesHoldTheQueued
      <3>3. queue[n][i] \in Calls \ {c}
        BY <1>3, <2>2, <3>1, <3>2 DEF Calls
      <3>4. QED BY <1>5, <1>6, <3>1, <3>2, <3>3
    <2>3. QED BY <2>1, <2>2
  <1>13. QED
    BY <1>5, <1>7, <1>8, <1>9, <1>10, <1>11, <1>12 DEF ReplicaParts

\* The server carries a request out.
LEMMA RequestAccepted ==
  ASSUME TypeOK, ReplicaParts, NEW c \in Calls, ServerAccepts(c)
  PROVE  ReplicaParts' /\ wire' \in Seq(Events) /\ wire' # <<>>
  <1> DEFINE e == Event("added", c)
  <1>1. wire \in Seq(Events) /\ e \in Events /\ e.x = c /\ e.op = "added"
    BY DEF TypeOK, Events, Things, Event
  <1>2. /\ alive' = alive \cup {c} /\ wire' = Append(wire, e)
        /\ UNCHANGED <<listed, by, queue, timedOut>>
        /\ phase' = [phase EXCEPT ![c] = "answered"]
        /\ phase \in [Calls -> Phases] /\ phase[c] = "requesting"
    BY DEF ServerAccepts, Move, TypeOK, channelVars
  <1>3. /\ wire' \in Seq(Events) /\ wire' # <<>>
        /\ Len(wire) \in Nat /\ Len(wire') = Len(wire) + 1
        /\ \A i \in 1..Len(wire) : wire'[i] = wire[i]
        /\ wire'[Len(wire) + 1] = e
    BY <1>1, <1>2, AppendedTo
  <1>4. \A i \in 1..Len(wire') : i \in 1..Len(wire) \/ i = Len(wire) + 1
    BY <1>3
  <1>5. phase'[c] = "answered" /\ \A d \in Calls \ {c} : phase'[d] = phase[d]
    BY <1>2
  <1>6. c \notin alive /\ \A i \in 1..Len(wire) : wire[i].x # c
    BY <1>2 DEF ReplicaParts, EarlyIsUnknown, Early
  <1>7. EarlyIsUnknown'
    BY <1>1, <1>2, <1>3, <1>4, <1>5 DEF ReplicaParts, EarlyIsUnknown, Early
  <1>8. RemovedIsGone'
    BY <1>1, <1>2, <1>3, <1>4, <1>6 DEF ReplicaParts, RemovedIsGone
  <1>9. AwaitingUnlisted'
    BY <1>2, <1>5 DEF ReplicaParts, AwaitingUnlisted
  <1>10. AwaitedComes'
    <2> SUFFICES ASSUME NEW d \in Calls, phase'[d] \in {"answered", "awaiting"},
                        d \in alive', d \notin listed'
                 PROVE  \E i \in 1..Len(wire') : wire'[i] = Event("added", d)
      BY DEF AwaitedComes
    <2>1. CASE d = c
      <3>1. Len(wire) + 1 \in 1..Len(wire')
        BY <1>3
      <3>2. QED BY <1>3, <2>1, <3>1
    <2>2. CASE d # c
      <3>1. PICK i \in 1..Len(wire) : wire[i] = Event("added", d)
        BY <1>2, <1>5, <2>2 DEF ReplicaParts, AwaitedComes
      <3>2. i \in 1..Len(wire')
        BY <1>3
      <3>3. QED BY <1>3, <3>1, <3>2
    <2>3. QED BY <2>1, <2>2
  <1>11. TimedOutFailed'
    BY <1>2, <1>5 DEF ReplicaParts, TimedOutFailed, TypeOK
  <1>12. QueuesHoldTheQueued'
    <2> SUFFICES ASSUME NEW m \in Joins, NEW i \in 1..Len(queue[m])
                 PROVE  phase'[queue[m][i]] = "queued"
      BY <1>2 DEF ReplicaParts, QueuesHoldTheQueued
    <2>1. queue[m] \in Seq(Requests)
      BY DEF TypeOK
    <2>2. queue[m][i] \in Calls /\ phase[queue[m][i]] = "queued"
      BY <2>1 DEF ReplicaParts, QueuesHoldTheQueued, Calls
    <2>3. QED BY <1>2, <1>5, <2>2
  <1>13. QED
    BY <1>3, <1>7, <1>8, <1>9, <1>10, <1>11, <1>12 DEF ReplicaParts

\* Something ends.
LEMMA ThingRemoved ==
  ASSUME TypeOK, ReplicaParts, NEW x \in Things, ServerRemoves(x)
  PROVE  ReplicaParts' /\ wire' \in Seq(Events) /\ wire' # <<>>
  <1> DEFINE e == Event("removed", x)
  <1>1. wire \in Seq(Events) /\ e \in Events /\ e.x = x /\ e.op = "removed"
    BY DEF TypeOK, Events, Event
  <1>2. /\ x \in alive /\ alive' = alive \ {x} /\ wire' = Append(wire, e)
        /\ UNCHANGED <<listed, phase, by, queue, timedOut>>
    BY DEF ServerRemoves, channelVars, callVars
  <1>3. /\ wire' \in Seq(Events) /\ wire' # <<>>
        /\ Len(wire) \in Nat /\ Len(wire') = Len(wire) + 1
        /\ \A i \in 1..Len(wire) : wire'[i] = wire[i]
        /\ wire'[Len(wire) + 1] = e
    BY <1>1, <1>2, AppendedTo
  <1>4. \A i \in 1..Len(wire') : i \in 1..Len(wire) \/ i = Len(wire) + 1
    BY <1>3
  <1>5. EarlyIsUnknown'
    BY <1>1, <1>2, <1>3, <1>4 DEF ReplicaParts, EarlyIsUnknown
  <1>6. RemovedIsGone'
    BY <1>1, <1>2, <1>3, <1>4 DEF ReplicaParts, RemovedIsGone
  <1>7. AwaitingUnlisted' /\ TimedOutFailed' /\ QueuesHoldTheQueued'
    BY <1>2 DEF ReplicaParts, AwaitingUnlisted, TimedOutFailed, QueuesHoldTheQueued
  <1>8. AwaitedComes'
    <2> SUFFICES ASSUME NEW d \in Calls, phase[d] \in {"answered", "awaiting"},
                        d \in alive, d \notin listed
                 PROVE  \E i \in 1..Len(wire') : wire'[i] = Event("added", d)
      BY <1>2 DEF AwaitedComes
    <2>1. PICK i \in 1..Len(wire) : wire[i] = Event("added", d)
      BY DEF ReplicaParts, AwaitedComes
    <2>2. i \in 1..Len(wire')
      BY <1>3
    <2>3. QED BY <1>3, <2>1, <2>2
  <1>9. QED BY <1>3, <1>5, <1>6, <1>7, <1>8 DEF ReplicaParts

\* The client handles an event.
LEMMA EventHandled ==
  ASSUME TypeOK, ReplicaParts, HandleEvent
  PROVE  /\ ReplicaParts'
         /\ wire' \in Seq(Events)
         /\ emitting' \in BOOLEAN /\ (emitting' => wire' # <<>>)
         /\ Head(wire) \in Events
  <1> DEFINE e == Head(wire)
             x == Head(wire).x
  <1>1. wire \in Seq(Events) /\ wire # <<>>
    BY DEF TypeOK, Events, HandleEvent
  <1>2. /\ e \in Events /\ e = wire[1] /\ 1 \in 1..Len(wire) /\ Len(wire) \in Nat
        /\ Tail(wire) \in Seq(Events)
        /\ \A i \in 1..Len(Tail(wire)) :
             i + 1 \in 1..Len(wire) /\ Tail(wire)[i] = wire[i + 1]
        /\ \A i \in 1..Len(wire) :
             i # 1 => i - 1 \in 1..Len(Tail(wire)) /\ wire[i] = Tail(wire)[i - 1]
        /\ Len(wire) > 1 => Tail(wire) # <<>>
    BY <1>1, TakenFrom
  <1>3. /\ wire' = Tail(wire) /\ emitting' \in {FALSE, Len(wire) > 1}
        /\ UNCHANGED <<alive, by, queue, timedOut>>
        /\ IF e.op = "added" THEN HandleAdded(x) ELSE HandleRemoved(x)
    BY DEF HandleEvent, Handle
  <1>4. /\ wire' \in Seq(Events)
        /\ emitting' \in BOOLEAN /\ (emitting' => wire' # <<>>)
    <2>1. emitting' = FALSE \/ emitting' = (Len(wire) > 1)
      BY <1>3, Zenon
    <2>2. (Len(wire) > 1) \in BOOLEAN
      OBVIOUS
    <2>3. Len(wire) > 1 => wire' # <<>>
      BY <1>2, <1>3, Zenon
    <2>4. wire' \in Seq(Events)
      BY <1>2, <1>3, Zenon
    <2>5. QED BY <2>1, <2>2, <2>3, <2>4, Zenon
  <1>5. phase \in [Calls -> Phases] /\ timedOut \subseteq Calls
    BY DEF TypeOK
  <1>6. /\ e.op = "added" =>
             /\ listed' = listed \cup {x}
             /\ phase' = IF phase[x] = "awaiting"
                         THEN [phase EXCEPT ![x] = "continuing"] ELSE phase
        /\ e.op # "added" =>
             e.op = "removed" /\ listed' = listed \ {x} /\ phase' = phase
    BY <1>2, <1>3 DEF HandleAdded, HandleRemoved, Events
  <1>7. \A c \in Calls :
          \/ phase'[c] = phase[c]
          \/ c = x /\ e.op = "added" /\ phase[c] = "awaiting" /\ phase'[c] = "continuing"
    BY <1>5, <1>6
  <1>8. EarlyIsUnknown'
    <2> SUFFICES ASSUME NEW c \in Calls, phase'[c] \in Early
                 PROVE  c \notin alive /\ \A i \in 1..Len(Tail(wire)) : Tail(wire)[i].x # c
      BY <1>3 DEF EarlyIsUnknown
    <2>1. phase[c] \in Early
      BY <1>7 DEF Early
    <2>2. c \notin alive /\ \A i \in 1..Len(wire) : wire[i].x # c
      BY <2>1 DEF ReplicaParts, EarlyIsUnknown
    <2>3. QED BY <1>2, <2>2
  <1>9. RemovedIsGone'
    <2> SUFFICES ASSUME NEW i \in 1..Len(Tail(wire)), Tail(wire)[i].op = "removed"
                 PROVE  Tail(wire)[i].x \notin alive
      BY <1>3 DEF RemovedIsGone
    <2>1. i + 1 \in 1..Len(wire) /\ Tail(wire)[i] = wire[i + 1]
      BY <1>2
    <2>2. QED BY <2>1 DEF ReplicaParts, RemovedIsGone
  <1>10. AwaitingUnlisted'
    <2>1. \A c \in Calls : phase'[c] = "awaiting" => phase[c] = "awaiting"
      BY <1>7
    <2>2. \A c \in Calls : phase'[c] = "awaiting" /\ e.op = "added" => c # x
      BY <1>5, <1>6
    <2>3. QED BY <1>6, <2>1, <2>2 DEF ReplicaParts, AwaitingUnlisted
  <1>11. AwaitedComes'
    <2> SUFFICES ASSUME NEW c \in Calls, phase'[c] \in {"answered", "awaiting"},
                        c \in alive, c \notin listed'
                 PROVE  \E i \in 1..Len(wire') : wire'[i] = Event("added", c)
      BY <1>3 DEF AwaitedComes
    <2>1. phase[c] \in {"answered", "awaiting"}
      BY <1>7
    <2>2. e # Event("added", c)
      BY <1>6 DEF Event
    <2>3. c \notin listed
      <3>1. CASE e.op = "added"
        BY <1>6, <3>1
      <3>2. CASE e.op # "added"
        <4>1. x \notin alive
          BY <1>2, <1>6, <3>2 DEF ReplicaParts, RemovedIsGone
        <4>2. QED BY <1>6, <3>2, <4>1
      <3>3. QED BY <3>1, <3>2
    <2>4. PICK i \in 1..Len(wire) : wire[i] = Event("added", c)
      BY <2>1, <2>3 DEF ReplicaParts, AwaitedComes
    <2>5. i # 1
      BY <1>2, <2>2, <2>4
    <2>6. QED BY <1>2, <1>3, <2>4, <2>5
  <1>12. TimedOutFailed'
    BY <1>3, <1>5, <1>7 DEF ReplicaParts, TimedOutFailed
  <1>13. QueuesHoldTheQueued'
    <2> SUFFICES ASSUME NEW m \in Joins, NEW i \in 1..Len(queue[m])
                 PROVE  phase'[queue[m][i]] = "queued"
      BY <1>3 DEF ReplicaParts, QueuesHoldTheQueued
    <2>1. queue[m] \in Seq(Requests)
      BY DEF TypeOK
    <2>2. queue[m][i] \in Calls /\ phase[queue[m][i]] = "queued"
      BY <2>1 DEF ReplicaParts, QueuesHoldTheQueued, Calls
    <2>3. QED BY <1>7, <2>2
  <1>14. QED
    BY <1>2, <1>4, <1>8, <1>9, <1>10, <1>11, <1>12, <1>13 DEF ReplicaParts

-----------------------------------------------------------------------------
(* Types, for the variables that the lemmas above do not settle.           *)

LEMMA EventTypes ==
  ASSUME TypeOK, HandleEvent, Head(wire) \in Events
  PROVE  /\ listed' \subseteq Things /\ objects' \subseteq Things
         /\ localPerson' \in Joins \cup {None}
         /\ left' \subseteq persons
         /\ phase' \in [Calls -> Phases]
         /\ overtaken' \subseteq Calls
         /\ handlerFailed' \in BOOLEAN
         /\ UNCHANGED <<alive, persons, by, target, queue, timedOut>>
  <1> DEFINE x == Head(wire).x
  <1>1. x \in Things
    BY DEF Events
  <1>2. UNCHANGED <<alive, persons, by, target, queue, timedOut>>
    BY DEF HandleEvent
  <1>3. CASE Head(wire).op = "added"
    <2>1. HandleAdded(x)
      BY <1>3 DEF HandleEvent, Handle
    <2>2. listed' \subseteq Things /\ objects' \subseteq Things
      BY <1>1, <2>1 DEF HandleAdded, TypeOK
    <2>3. phase' \in [Calls -> Phases]
      BY <2>1 DEF HandleAdded, TypeOK, Phases
    <2>4. UNCHANGED <<localPerson, left, overtaken>>
      BY <2>1 DEF HandleAdded
    <2>5. handlerFailed' \in BOOLEAN
      BY <2>1, Zenon DEF HandleAdded, TypeOK
    <2>6. QED BY <1>2, <2>2, <2>3, <2>4, <2>5 DEF TypeOK
  <1>4. CASE Head(wire).op # "added"
    <2>1. HandleRemoved(x)
      BY <1>4 DEF HandleEvent, Handle
    <2>2. listed' \subseteq Things /\ objects' \subseteq Things
          /\ localPerson' \in Joins \cup {None}
      BY <2>1 DEF HandleRemoved, RemoveObject, TypeOK
    <2>3. left' \subseteq persons
      BY <2>1 DEF HandleRemoved, PersonsLeft, isLocal, TypeOK
    <2>4. overtaken' \subseteq Calls /\ phase' = phase
      BY <2>1 DEF HandleRemoved, TypeOK
    <2>5. handlerFailed' \in BOOLEAN
      BY <2>1, Zenon DEF HandleRemoved, TypeOK
    <2>6. QED BY <1>2, <2>2, <2>3, <2>4, <2>5 DEF TypeOK
  <1>5. QED BY <1>3, <1>4

-----------------------------------------------------------------------------
(* The invariant is kept by every step of a call.                          *)

LEMMA CallSteps ==
  ASSUME ReplicaInv, NEW c \in Calls,
         \/ AnswerArrives(c) \/ RequestFails(c) \/ WatchTimesOut(c)
         \/ c \in Joins /\ (Join(c) \/ PersonCreated(c) \/ PersonFails(c))
         \/ c \in Publishes /\ PublishContinues(c)
         \/ c \in Subscribes /\ SubscribeContinues(c)
  PROVE  ReplicaInv'
  <1>1. TypeOK /\ ReplicaParts /\ TimeoutMeansGone
    BY DEF ReplicaInv, ReplicaParts
  <1>2. /\ UNCHANGED <<alive, wire, emitting, listed, by, target, queue>>
        /\ \E p \in {"requesting", "failed", "continuing", "awaiting", "done"} : Move(c, p)
    BY DEF AnswerArrives, RequestFails, WatchTimesOut, Join, AddMember, PersonCreated, PersonFails,
           PublishContinues, SubscribeContinues, serverVars, channelVars, Move, AfterAnswer
  <1>3. PICK p \in {"requesting", "failed", "continuing", "awaiting", "done"} : Move(c, p)
    BY <1>2
  <1>4. phase \in [Calls -> Phases] /\ phase'[c] = p /\ phase' \in [Calls -> Phases]
    BY <1>1, <1>3 DEF TypeOK, Move, Phases
  <1>5. /\ phase[c] \notin {"queued", "failed"}
        /\ p = "requesting" => phase[c] = "idle"
        /\ p = "awaiting" => phase[c] = "answered" /\ c \notin listed
    BY <1>1, <1>3, <1>4
    DEF AnswerArrives, RequestFails, WatchTimesOut, Join, AddMember, PersonCreated, PersonFails,
        PublishContinues, SubscribeContinues, Move, AfterAnswer, TypeOK
  <1>6. \/ timedOut' = timedOut
        \/ p = "failed" /\ timedOut' = timedOut \cup {c} /\ phase[c] = "awaiting" /\ wire = <<>>
    BY <1>3, <1>4
    DEF AnswerArrives, RequestFails, WatchTimesOut, Join, AddMember, PersonCreated, PersonFails,
        PublishContinues, SubscribeContinues, Move, callVars
  <1>7. ReplicaParts'
    BY <1>1, <1>2, <1>3, <1>5, <1>6, CallMovesOn DEF Phases, Early
  <1>8. TimeoutMeansGone'
    <2>1. CASE timedOut' = timedOut
      BY <1>1, <1>2, <2>1 DEF TimeoutMeansGone
    <2>2. CASE timedOut' = timedOut \cup {c} /\ phase[c] = "awaiting" /\ wire = <<>>
      <3>1. Len(wire) = 0
        BY <2>2
      <3>2. c \notin listed
        BY <1>1, <2>2 DEF ReplicaParts, AwaitingUnlisted
      <3>3. c \notin alive
        BY <1>1, <2>2, <3>1, <3>2 DEF ReplicaParts, AwaitedComes
      <3>4. QED BY <1>1, <1>2, <2>2, <3>3 DEF TimeoutMeansGone
    <2>3. QED BY <1>6, <2>1, <2>2
  <1>9. TypeOK'
    <2>1. /\ objects' \subseteq Things /\ listed' \subseteq Things
          /\ localPerson' \in Joins \cup {None}
          /\ persons' \subseteq Joins /\ left' \subseteq persons'
          /\ overtaken' \subseteq Calls
      BY <1>1
      DEF TypeOK, Things, AnswerArrives, RequestFails, WatchTimesOut, Join, AddMember, PersonCreated,
          PersonFails, PublishContinues, SubscribeContinues, channelVars
    <2>2. UNCHANGED handlerFailed
      BY DEF AnswerArrives, RequestFails, WatchTimesOut, Join, AddMember, PersonCreated,
          PersonFails, PublishContinues, SubscribeContinues, channelVars
    <2>3. timedOut' \subseteq Calls
      BY <1>1, <1>6 DEF TypeOK
    <2>4. emitting' \in BOOLEAN /\ (emitting' => wire' # <<>>) /\ handlerFailed' \in BOOLEAN
      BY <1>1, <1>2, <2>2, Zenon DEF TypeOK
    <2>5. QED BY <1>1, <1>2, <1>4, <2>1, <2>3, <2>4 DEF TypeOK
  <1>10. QED BY <1>7, <1>8, <1>9 DEF ReplicaInv, ReplicaParts

LEMMA QueueSteps ==
  ASSUME ReplicaInv, NEW m \in Joins,
         \/ StartRequest(m)
         \/ \E p \in Publishes : Publish(p, m)
         \/ \E s \in Subscribes, o \in Offered : Subscribe(s, m, o)
  PROVE  ReplicaInv'
  <1>1. TypeOK /\ ReplicaParts /\ TimeoutMeansGone
    BY DEF ReplicaInv, ReplicaParts
  <1>2. /\ UNCHANGED <<alive, wire, emitting, listed, objects, localPerson, persons, left,
                       overtaken, timedOut, handlerFailed>>
    BY DEF StartRequest, Publish, Subscribe, serverVars, channelVars
  <1>3. TimeoutMeansGone'
    BY <1>1, <1>2 DEF TimeoutMeansGone
  <1> DEFINE Kept ==
        /\ ReplicaParts'
        /\ phase' \in [Calls -> Phases] /\ by' \in [Requests -> Joins \cup {None}]
        /\ target' \in [Subscribes -> Offered \cup {None}]
        /\ queue' \in [Joins -> Seq(Requests)]
  <1>4. Kept
    <2>1. CASE StartRequest(m)
      <3>1. UNCHANGED <<by, target>>
        BY <2>1 DEF StartRequest
      <3>2. QED BY <1>1, <2>1, <3>1, RequestStarted DEF TypeOK
    <2>2. ASSUME NEW p \in Publishes, Publish(p, m)
          PROVE  Kept
      <3>1. /\ p \in Requests /\ phase[p] = "idle" /\ Move(p, "queued")
            /\ by' = [by EXCEPT ![p] = m]
            /\ queue' = [queue EXCEPT ![m] = Append(@, p)]
            /\ target' = target
        BY <2>2 DEF Publish, Requests
      <3>2. ReplicaParts' /\ queue' \in [Joins -> Seq(Requests)]
        BY <1>1, <1>2, <3>1, RequestQueued
      <3>3. QED BY <1>1, <3>1, <3>2 DEF TypeOK, Move, Phases
    <2>3. ASSUME NEW s \in Subscribes, NEW o \in Offered, Subscribe(s, m, o)
          PROVE  Kept
      <3>1. /\ s \in Requests /\ phase[s] = "idle" /\ Move(s, "queued")
            /\ by' = [by EXCEPT ![s] = m]
            /\ queue' = [queue EXCEPT ![m] = Append(@, s)]
            /\ target' = [target EXCEPT ![s] = o]
        BY <2>3 DEF Subscribe, Requests
      <3>2. ReplicaParts' /\ queue' \in [Joins -> Seq(Requests)]
        BY <1>1, <1>2, <3>1, RequestQueued
      <3>3. QED BY <1>1, <3>1, <3>2 DEF TypeOK, Move, Phases
    <2>4. QED BY <2>1, <2>2, <2>3
  <1>5. emitting' \in BOOLEAN /\ (emitting' => wire' # <<>>) /\ handlerFailed' \in BOOLEAN
    BY <1>1, <1>2, Zenon DEF TypeOK
  <1>6. TypeOK'
    BY <1>1, <1>2, <1>4, <1>5 DEF TypeOK
  <1>7. QED BY <1>3, <1>4, <1>6 DEF ReplicaInv, ReplicaParts

LEMMA ServerSteps ==
  ASSUME ReplicaInv,
         \/ \E c \in Calls : ServerAccepts(c)
         \/ \E x \in Things : ServerRemoves(x)
  PROVE  ReplicaInv'
  <1>1. TypeOK /\ ReplicaParts /\ TimeoutMeansGone
    BY DEF ReplicaInv, ReplicaParts
  <1>2. /\ UNCHANGED <<emitting, listed, objects, localPerson, persons, left, overtaken,
                       by, target, queue, timedOut, handlerFailed>>
        /\ alive' \subseteq Things
        /\ phase' \in [Calls -> Phases]
    BY <1>1
    DEF ServerAccepts, ServerRemoves, channelVars, callVars, Move, TypeOK, Things, Phases
  <1>3. ReplicaParts' /\ wire' \in Seq(Events) /\ wire' # <<>>
    BY <1>1, RequestAccepted, ThingRemoved
  <1>4. TimeoutMeansGone'
    <2>1. ASSUME NEW c \in Calls, ServerAccepts(c) PROVE TimeoutMeansGone'
      <3>1. phase[c] = "requesting" /\ alive' = alive \cup {c}
        BY <2>1 DEF ServerAccepts
      <3>2. c \notin timedOut
        BY <1>1, <3>1 DEF ReplicaParts, TimedOutFailed
      <3>3. QED BY <1>1, <1>2, <3>1, <3>2 DEF TimeoutMeansGone
    <2>2. ASSUME NEW x \in Things, ServerRemoves(x) PROVE TimeoutMeansGone'
      BY <1>1, <1>2, <2>2 DEF TimeoutMeansGone, ServerRemoves
    <2>3. QED BY <2>1, <2>2
  <1>5. emitting' \in BOOLEAN /\ (emitting' => wire' # <<>>) /\ handlerFailed' \in BOOLEAN
    BY <1>1, <1>2, <1>3, Zenon DEF TypeOK
  <1>6. TypeOK'
    BY <1>1, <1>2, <1>3, <1>5 DEF TypeOK, Events
  <1>7. QED BY <1>3, <1>4, <1>6 DEF ReplicaInv, ReplicaParts

LEMMA EventStep ==
  ASSUME ReplicaInv, HandleEvent
  PROVE  ReplicaInv'
  <1>1. TypeOK /\ ReplicaParts /\ TimeoutMeansGone
    BY DEF ReplicaInv, ReplicaParts
  <1>2. /\ ReplicaParts'
        /\ wire' \in Seq(Events)
        /\ emitting' \in BOOLEAN /\ (emitting' => wire' # <<>>)
        /\ Head(wire) \in Events
    BY <1>1, EventHandled
  <1>3. /\ listed' \subseteq Things /\ objects' \subseteq Things
        /\ localPerson' \in Joins \cup {None}
        /\ left' \subseteq persons
        /\ phase' \in [Calls -> Phases]
        /\ overtaken' \subseteq Calls
        /\ handlerFailed' \in BOOLEAN
        /\ UNCHANGED <<alive, persons, by, target, queue, timedOut>>
    BY <1>1, <1>2, EventTypes
  <1>4. TypeOK'
    BY <1>1, <1>2, <1>3 DEF TypeOK, Events
  <1>5. TimeoutMeansGone'
    BY <1>1, <1>3 DEF TimeoutMeansGone
  <1>6. QED BY <1>2, <1>4, <1>5 DEF ReplicaInv, ReplicaParts

LEMMA ReplicaStepInv == ReplicaInv /\ [Next]_vars => ReplicaInv'
  <1> SUFFICES ASSUME ReplicaInv, [Next]_vars PROVE ReplicaInv'
    OBVIOUS
  <1>1. CASE HandleEvent
    BY <1>1, EventStep
  <1>2. CASE \/ \E x \in Things : ServerRemoves(x)
             \/ \E c \in Calls : ServerAccepts(c)
    BY <1>2, ServerSteps
  <1>3. CASE \E c \in Calls : AnswerArrives(c) \/ RequestFails(c) \/ WatchTimesOut(c)
    BY <1>3, CallSteps
  <1>4. ASSUME NEW j \in Joins, Join(j) \/ PersonCreated(j) \/ PersonFails(j)
        PROVE  ReplicaInv'
    BY <1>4, CallSteps DEF Calls
  <1>5. ASSUME NEW j \in Joins,
               \/ StartRequest(j)
               \/ \E p \in Publishes : Publish(p, j)
               \/ \E s \in Subscribes, o \in Offered : Subscribe(s, j, o)
        PROVE  ReplicaInv'
    BY <1>5, QueueSteps
  <1>6. ASSUME NEW p \in Publishes, PublishContinues(p) PROVE ReplicaInv'
    BY <1>6, CallSteps DEF Calls, Requests
  <1>7. ASSUME NEW s \in Subscribes, SubscribeContinues(s) PROVE ReplicaInv'
    BY <1>7, CallSteps DEF Calls, Requests
  <1>8. CASE UNCHANGED vars
    BY <1>8
    DEF ReplicaInv, TypeOK, EarlyIsUnknown, RemovedIsGone, AwaitingUnlisted, AwaitedComes,
        TimedOutFailed, QueuesHoldTheQueued, TimeoutMeansGone, vars, serverVars,
        channelVars, callVars
  <1>9. QED BY <1>1, <1>2, <1>3, <1>4, <1>5, <1>6, <1>7, <1>8 DEF Next

-----------------------------------------------------------------------------
(* The replicas agree.  ReplicasAgree and RemovedPersonLeaves need to know  *)
(* what the wire may hold: each thing is added once and removed once and in *)
(* that order (EachOnce, AddedIsNew, RemovedFollows), and a publication     *)
(* outlasts its subscriptions on both sides (TargetStays, NeededFirst), so  *)
(* that handlers find what they look up; and that a call goes on only with  *)
(* a thing that is listed or has been removed meanwhile (ContinuingKnown).  *)

AddedAt(x, i) == wire[i].op = "added" /\ wire[i].x = x
RemovedAt(x, i) == wire[i].op = "removed" /\ wire[i].x = x

EarlyUnlisted == \A c \in Calls : phase[c] \in Early => c \notin listed \cup overtaken

EachOnce ==
  \A i, k \in 1..Len(wire) : wire[i].op = wire[k].op /\ wire[i].x = wire[k].x => i = k

\* What is to be added has not been there, and its call has not gone on.
AddedIsNew ==
  \A i \in 1..Len(wire) : wire[i].op = "added" =>
    /\ wire[i].x \in Calls \ (listed \cup overtaken)
    /\ phase[wire[i].x] \in {"answered", "awaiting", "failed"}

RemovedFollows ==
  \A i \in 1..Len(wire) : wire[i].op = "removed" =>
    \/ wire[i].x \in listed
    \/ \E k \in 1..Len(wire) : k < i /\ wire[k].op = "added" /\ wire[k].x = wire[i].x

AliveKnown ==
  \A x \in alive : x \in listed \/ \E i \in 1..Len(wire) : AddedAt(x, i)

\* The server removes a subscription before its publication.
NeededFirst ==
  \A s \in Subscribes : \A i, k \in 1..Len(wire) :
    wire[i].x = s /\ RemovedAt(target[s], k) => i < k

TargetStays ==
  \A s \in Subscribes :
    /\ s \in alive => target[s] \in alive
    /\ s \in alive \/ (\E i \in 1..Len(wire) : wire[i].x = s) => target[s] \in listed

WireInv ==
  /\ EarlyUnlisted
  /\ EachOnce
  /\ AddedIsNew
  /\ RemovedFollows
  /\ AliveKnown
  /\ NeededFirst
  /\ TargetStays

ContinuingKnown == \A c \in Calls : phase[c] = "continuing" => c \in listed \cup overtaken

PersonsDone == \A j \in persons : phase[j] = "done"

AgreeInv ==
  /\ WireInv
  /\ ContinuingKnown
  /\ PersonsDone
  /\ ReplicasAgree
  /\ RemovedPersonLeaves

LEMMA AgreeInitInv == Init => AgreeInv
  <1> SUFFICES ASSUME Init PROVE AgreeInv
    OBVIOUS
  <1>1. Len(wire) = 0
    BY DEF Init
  <1>2. listed \cap Calls = {} /\ overtaken = {} /\ alive = listed
    BY NamesAssumption DEF Init, Calls, Requests
  <1>3. EachOnce /\ AddedIsNew /\ RemovedFollows /\ AliveKnown /\ NeededFirst
    BY <1>1, <1>2 DEF EachOnce, AddedIsNew, RemovedFollows, AliveKnown, NeededFirst
  <1>4. EarlyUnlisted
    BY <1>2 DEF EarlyUnlisted
  <1>5. TargetStays
    BY <1>1, <1>2 DEF TargetStays, Calls, Requests
  <1>6. ContinuingKnown /\ PersonsDone /\ ReplicasAgree /\ RemovedPersonLeaves
    BY DEF Init, ContinuingKnown, PersonsDone, ReplicasAgree, RemovedPersonLeaves
  <1>7. QED BY <1>3, <1>4, <1>5, <1>6 DEF AgreeInv, WireInv

\* A step of a call: the wire, the channel and the list stay as they are.
LEMMA CallKeepsWire ==
  ASSUME ReplicaInv, WireInv, NEW c \in Calls, NEW p \in Phases, Move(c, p),
         UNCHANGED <<alive, wire, listed, overtaken>>,
         p \in Early => phase[c] \in Early,
         p \notin {"answered", "awaiting", "failed"} => phase[c] \in Early \/ c \in listed
                                                      \/ phase[c] = "continuing",
         \A s \in Subscribes : target'[s] # target[s] => s = c /\ phase[c] \in Early
  PROVE  WireInv'
  <1>1. /\ phase \in [Calls -> Phases] /\ phase'[c] = p
        /\ \A d \in Calls \ {c} : phase'[d] = phase[d]
    BY DEF ReplicaInv, TypeOK, Move
  <1>2. EarlyUnlisted'
    BY <1>1 DEF WireInv, EarlyUnlisted
  <1>3. EachOnce' /\ RemovedFollows' /\ AliveKnown'
    BY DEF WireInv, EachOnce, RemovedFollows, AliveKnown, AddedAt
  <1>4. AddedIsNew'
    <2> SUFFICES ASSUME NEW i \in 1..Len(wire), wire[i].op = "added"
                 PROVE  phase'[wire[i].x] \in {"answered", "awaiting", "failed"}
      BY DEF WireInv, AddedIsNew
    <2>1. /\ wire[i].x \in Calls \ listed
          /\ phase[wire[i].x] \in {"answered", "awaiting", "failed"}
      BY DEF WireInv, AddedIsNew
    <2>2. CASE wire[i].x = c
      BY <1>1, <2>1, <2>2 DEF Early
    <2>3. CASE wire[i].x # c
      BY <1>1, <2>1, <2>3
    <2>4. QED BY <2>2, <2>3
  <1>5. \A s \in Subscribes :
          target'[s] # target[s] => s \notin alive /\ \A i \in 1..Len(wire) : wire[i].x # s
    BY DEF ReplicaInv, EarlyIsUnknown
  <1>6. NeededFirst'
    BY <1>5 DEF WireInv, NeededFirst, RemovedAt
  <1>7. TargetStays'
    BY <1>5 DEF WireInv, TargetStays
  <1>8. QED BY <1>2, <1>3, <1>4, <1>6, <1>7 DEF WireInv

LEMMA AcceptKeepsWire ==
  ASSUME ReplicaInv, WireInv, NEW c \in Calls, ServerAccepts(c)
  PROVE  WireInv'
  <1> DEFINE e == Event("added", c)
             n == Len(wire) + 1
  <1>1. wire \in Seq(Events) /\ e \in Events /\ e.x = c /\ e.op = "added"
    BY DEF ReplicaInv, TypeOK, Events, Things, Event
  <1>2. /\ alive' = alive \cup {c} /\ wire' = Append(wire, e)
        /\ UNCHANGED <<listed, overtaken, target>>
        /\ phase' = [phase EXCEPT ![c] = "answered"]
        /\ phase \in [Calls -> Phases] /\ phase[c] = "requesting"
        /\ Needs(c) \subseteq alive
    BY DEF ServerAccepts, Move, ReplicaInv, TypeOK, channelVars
  <1>3. /\ Len(wire) \in Nat /\ Len(wire') = n
        /\ \A i \in 1..Len(wire) : wire'[i] = wire[i] /\ i \in 1..Len(wire') /\ i < n
        /\ wire'[n] = e /\ n \in 1..Len(wire')
    BY <1>1, <1>2, AppendedTo
  <1>4. \A i \in 1..Len(wire') : i \in 1..Len(wire) \/ i = n
    BY <1>3
  <1>5. phase'[c] = "answered" /\ \A d \in Calls \ {c} : phase'[d] = phase[d]
    BY <1>2
  <1>6. /\ c \notin alive /\ \A i \in 1..Len(wire) : wire[i].x # c
        /\ c \notin listed \cup overtaken
    BY <1>2 DEF ReplicaInv, EarlyIsUnknown, WireInv, EarlyUnlisted, Early
  <1>7. EarlyUnlisted'
    BY <1>2, <1>5 DEF WireInv, EarlyUnlisted, Early
  <1>8. EachOnce'
    BY <1>1, <1>3, <1>4, <1>6 DEF WireInv, EachOnce
  <1>9. AddedIsNew'
    BY <1>1, <1>2, <1>3, <1>4, <1>5, <1>6 DEF WireInv, AddedIsNew
  <1>10. RemovedFollows'
    <2> SUFFICES ASSUME NEW i \in 1..Len(wire'), wire'[i].op = "removed"
                 PROVE  \/ wire'[i].x \in listed
                        \/ \E k \in 1..Len(wire') :
                             k < i /\ wire'[k].op = "added" /\ wire'[k].x = wire'[i].x
      BY <1>2 DEF RemovedFollows
    <2>1. i \in 1..Len(wire) /\ wire'[i] = wire[i]
      BY <1>1, <1>3, <1>4
    <2>2. QED BY <1>3, <2>1 DEF WireInv, RemovedFollows, AddedAt
  <1>11. AliveKnown'
    <2> SUFFICES ASSUME NEW x \in alive', x \notin listed
                 PROVE  \E i \in 1..Len(wire') : AddedAt(x, i)'
      BY <1>2 DEF AliveKnown
    <2>1. CASE x = c
      BY <1>1, <1>3, <2>1 DEF AddedAt
    <2>2. CASE x # c
      <3>1. PICK i \in 1..Len(wire) : AddedAt(x, i)
        BY <1>2, <2>2 DEF WireInv, AliveKnown
      <3>2. QED BY <1>3, <3>1 DEF AddedAt
    <2>3. QED BY <2>1, <2>2
  <1>12. c \in Subscribes => target[c] \in alive
    BY <1>2 DEF Needs
  <1>13. \A k \in 1..Len(wire') : wire'[k].op = "removed" =>
           k \in 1..Len(wire) /\ wire'[k] = wire[k] /\ wire[k].x \notin alive
    BY <1>1, <1>3, <1>4 DEF ReplicaInv, RemovedIsGone
  <1>14. NeededFirst'
    <2> SUFFICES ASSUME NEW s \in Subscribes, NEW i \in 1..Len(wire'), NEW k \in 1..Len(wire'),
                        wire'[i].x = s, wire'[k].op = "removed", wire'[k].x = target[s]
                 PROVE  i < k
      BY <1>2 DEF NeededFirst, RemovedAt
    <2>1. k \in 1..Len(wire) /\ wire'[k] = wire[k] /\ target[s] \notin alive
      BY <1>13
    <2>2. i \in 1..Len(wire) /\ wire'[i] = wire[i]
      BY <1>1, <1>3, <1>4, <1>12, <2>1
    <2>3. QED BY <2>1, <2>2 DEF WireInv, NeededFirst, RemovedAt
  <1>15. TargetStays'
    <2>1. c \in Subscribes => target[c] \in listed
      <3> SUFFICES ASSUME c \in Subscribes, target[c] \notin listed PROVE FALSE
        OBVIOUS
      <3>1. PICK i \in 1..Len(wire) : AddedAt(target[c], i)
        BY <1>12 DEF WireInv, AliveKnown
      <3>2. target[c] \in Calls
        BY <3>1 DEF WireInv, AddedIsNew, AddedAt
      <3>3. target[c] \in Offered \cup {None}
        BY DEF ReplicaInv, TypeOK
      <3>4. QED BY <3>2, <3>3, NamesAssumption DEF Calls, Requests
    <2> SUFFICES ASSUME NEW s \in Subscribes,
                        s \in alive' \/ \E i \in 1..Len(wire') : wire'[i].x = s
                 PROVE  (s \in alive' => target[s] \in alive') /\ target[s] \in listed
      BY <1>2 DEF TargetStays
    <2>2. CASE s = c
      BY <1>2, <1>12, <2>1, <2>2
    <2>3. CASE s # c
      <3>1. s \in alive \/ \E i \in 1..Len(wire) : wire[i].x = s
        BY <1>1, <1>2, <1>3, <1>4, <2>3
      <3>2. QED BY <1>2, <2>3, <3>1 DEF WireInv, TargetStays
    <2>4. QED BY <2>2, <2>3
  <1>16. QED BY <1>7, <1>8, <1>9, <1>10, <1>11, <1>14, <1>15 DEF WireInv

LEMMA RemovalKeepsWire ==
  ASSUME ReplicaInv, WireInv, NEW x \in Things, ServerRemoves(x)
  PROVE  WireInv'
  <1> DEFINE e == Event("removed", x)
             n == Len(wire) + 1
  <1>1. wire \in Seq(Events) /\ e \in Events /\ e.x = x /\ e.op = "removed"
    BY DEF ReplicaInv, TypeOK, Events, Event
  <1>2. /\ x \in alive /\ alive' = alive \ {x} /\ wire' = Append(wire, e)
        /\ UNCHANGED <<listed, overtaken, target, phase>>
        /\ \A d \in alive \cap Calls : x \notin Needs(d)
    BY DEF ServerRemoves, channelVars, callVars
  <1>3. /\ Len(wire) \in Nat /\ Len(wire') = n
        /\ \A i \in 1..Len(wire) : wire'[i] = wire[i] /\ i \in 1..Len(wire') /\ i < n
        /\ wire'[n] = e /\ n \in 1..Len(wire')
    BY <1>1, <1>2, AppendedTo
  <1>4. \A i \in 1..Len(wire') : i \in 1..Len(wire) \/ i = n
    BY <1>3
  <1>5. \A i \in 1..Len(wire) : wire[i].op = "removed" => wire[i].x # x
    BY <1>2 DEF ReplicaInv, RemovedIsGone
  <1>6. EarlyUnlisted'
    BY <1>2 DEF WireInv, EarlyUnlisted
  <1>7. EachOnce'
    BY <1>1, <1>3, <1>4, <1>5 DEF WireInv, EachOnce
  <1>8. AddedIsNew'
    BY <1>1, <1>2, <1>3, <1>4 DEF WireInv, AddedIsNew
  <1>9. RemovedFollows'
    <2> SUFFICES ASSUME NEW i \in 1..Len(wire'), wire'[i].op = "removed", wire'[i].x \notin listed
                 PROVE  \E k \in 1..Len(wire') :
                             k < i /\ wire'[k].op = "added" /\ wire'[k].x = wire'[i].x
      BY <1>2 DEF RemovedFollows
    <2>1. CASE i = n
      <3>1. PICK k \in 1..Len(wire) : AddedAt(x, k)
        BY <1>1, <1>2, <1>3, <2>1 DEF WireInv, AliveKnown
      <3>2. QED BY <1>1, <1>3, <2>1, <3>1 DEF AddedAt
    <2>2. CASE i # n
      <3>1. i \in 1..Len(wire) /\ wire'[i] = wire[i]
        BY <1>3, <1>4, <2>2
      <3>2. QED BY <1>3, <3>1 DEF WireInv, RemovedFollows, AddedAt
    <2>3. QED BY <2>1, <2>2
  <1>10. AliveKnown'
    <2> SUFFICES ASSUME NEW y \in alive', y \notin listed
                 PROVE  \E i \in 1..Len(wire') : AddedAt(y, i)'
      BY <1>2 DEF AliveKnown
    <2>1. PICK i \in 1..Len(wire) : AddedAt(y, i)
      BY <1>2 DEF WireInv, AliveKnown
    <2>2. QED BY <1>3, <2>1 DEF AddedAt
  <1>11. \A s \in Subscribes : s \in alive => target[s] # x
    BY <1>2 DEF Needs, Calls, Requests
  <1>12. x \in Subscribes => target[x] \in alive
    BY <1>2 DEF WireInv, TargetStays
  <1>13. NeededFirst'
    <2> SUFFICES ASSUME NEW s \in Subscribes, NEW i \in 1..Len(wire'), NEW k \in 1..Len(wire'),
                        wire'[i].x = s, wire'[k].op = "removed", wire'[k].x = target[s]
                 PROVE  i < k
      BY <1>2 DEF NeededFirst, RemovedAt
    <2>1. CASE k = n
      <3>1. target[s] = x
        BY <1>1, <1>3, <2>1
      <3>2. s # x
        BY <1>2, <1>11, <3>1
      <3>3. i \in 1..Len(wire)
        BY <1>1, <1>3, <1>4, <3>2
      <3>4. QED BY <1>3, <2>1, <3>3
    <2>2. CASE k # n
      <3>1. k \in 1..Len(wire) /\ wire'[k] = wire[k]
        BY <1>3, <1>4, <2>2
      <3>2. target[s] \notin alive
        BY <3>1 DEF ReplicaInv, RemovedIsGone
      <3>3. s # x
        BY <1>12, <3>2
      <3>4. i \in 1..Len(wire) /\ wire'[i] = wire[i]
        BY <1>1, <1>3, <1>4, <3>3
      <3>5. QED BY <3>1, <3>4 DEF WireInv, NeededFirst, RemovedAt
    <2>3. QED BY <2>1, <2>2
  <1>14. TargetStays'
    <2> SUFFICES ASSUME NEW s \in Subscribes,
                        s \in alive' \/ \E i \in 1..Len(wire') : wire'[i].x = s
                 PROVE  (s \in alive' => target[s] \in alive') /\ target[s] \in listed
      BY <1>2 DEF TargetStays
    <2>1. s \in alive \/ \E i \in 1..Len(wire) : wire[i].x = s
      BY <1>1, <1>2, <1>3, <1>4
    <2>2. target[s] \in listed /\ (s \in alive => target[s] \in alive)
      BY <2>1 DEF WireInv, TargetStays
    <2>3. QED BY <1>2, <1>11, <2>2
  <1>15. QED BY <1>6, <1>7, <1>8, <1>9, <1>10, <1>13, <1>14 DEF WireInv

LEMMA EventKeepsWire ==
  ASSUME ReplicaInv, AgreeInv, HandleEvent
  PROVE  WireInv'
  <1> DEFINE e == Head(wire)
             x == Head(wire).x
  <1>1. wire \in Seq(Events) /\ wire # <<>>
    BY DEF ReplicaInv, TypeOK, Events, HandleEvent
  <1>2. /\ e \in Events /\ e = wire[1] /\ 1 \in 1..Len(wire) /\ Len(wire) \in Nat
        /\ wire' = Tail(wire) /\ Len(wire') = Len(wire) - 1
        /\ \A i \in 1..Len(wire') : i + 1 \in 1..Len(wire) /\ wire'[i] = wire[i + 1]
        /\ \A i \in 1..Len(wire) :
             i # 1 => i - 1 \in 1..Len(wire') /\ wire[i] = wire'[i - 1]
    BY <1>1, TakenFrom DEF HandleEvent
  <1>3. /\ UNCHANGED <<alive, target>>
        /\ IF e.op = "added" THEN HandleAdded(x) ELSE HandleRemoved(x)
        /\ phase \in [Calls -> Phases] /\ overtaken \subseteq Calls
    BY DEF HandleEvent, Handle, ReplicaInv, TypeOK
  <1>4. /\ e.op = "added" =>
             /\ listed' = listed \cup {x} /\ overtaken' = overtaken
             /\ phase' = IF phase[x] = "awaiting"
                         THEN [phase EXCEPT ![x] = "continuing"] ELSE phase
        /\ e.op # "added" =>
             /\ e.op = "removed" /\ listed' = listed \ {x} /\ phase' = phase
             /\ overtaken' \subseteq overtaken \cup {x}
    BY <1>2, <1>3 DEF HandleAdded, HandleRemoved, Events
  \* What else there is on the wire about the thing.
  <1>5. /\ \A i \in 1..Len(wire') : wire'[i].op = e.op => wire'[i].x # x
        /\ e.op = "removed" => x \in listed /\ x \notin alive
        /\ e.op = "removed" => \A i \in 1..Len(wire') : wire'[i].op = "added" => wire'[i].x # x
    <2>1. \A i \in 1..Len(wire') : i + 1 # 1
      BY <1>2
    <2>2. \A i \in 1..Len(wire') : wire'[i].op = e.op => wire'[i].x # x
      BY <1>2, <2>1 DEF AgreeInv, WireInv, EachOnce
    <2>3. ASSUME e.op = "removed" PROVE x \in listed /\ x \notin alive
      <3>1. \A k \in 1..Len(wire) : ~(k < 1)
        BY <1>2
      <3>2. QED BY <1>2, <2>3, <3>1 DEF AgreeInv, WireInv, RemovedFollows, ReplicaInv, RemovedIsGone
    <2>4. ASSUME e.op = "removed", NEW i \in 1..Len(wire'), wire'[i].op = "added"
          PROVE  wire'[i].x # x
      BY <1>2, <2>3, <2>4 DEF AgreeInv, WireInv, AddedIsNew
    <2>5. QED BY <2>2, <2>3, <2>4
  <1>6. \A c \in Calls : phase'[c] \in Early => phase[c] \in Early /\ c # x
    <2>1. \A c \in Calls : phase'[c] \in Early => phase[c] \in Early
      BY <1>3, <1>4 DEF Early
    <2>2. QED BY <1>2, <2>1 DEF ReplicaInv, EarlyIsUnknown
  <1>7. EarlyUnlisted'
    BY <1>4, <1>6 DEF AgreeInv, WireInv, EarlyUnlisted
  <1>8. EachOnce'
    <2> SUFFICES ASSUME NEW i \in 1..Len(wire'), NEW k \in 1..Len(wire'),
                        wire'[i].op = wire'[k].op, wire'[i].x = wire'[k].x
                 PROVE  i = k
      BY DEF EachOnce
    <2>1. i + 1 = k + 1
      BY <1>2 DEF AgreeInv, WireInv, EachOnce
    <2>2. i \in Int /\ k \in Int
      BY <1>2
    <2>3. QED BY <2>1, <2>2
  <1>9. AddedIsNew'
    <2> SUFFICES ASSUME NEW i \in 1..Len(wire'), wire'[i].op = "added"
                 PROVE  /\ wire'[i].x \in Calls \ (listed' \cup overtaken')
                        /\ phase'[wire'[i].x] \in {"answered", "awaiting", "failed"}
      BY DEF AddedIsNew
    <2>1. /\ wire'[i].x \in Calls \ (listed \cup overtaken)
          /\ phase[wire'[i].x] \in {"answered", "awaiting", "failed"}
      BY <1>2 DEF AgreeInv, WireInv, AddedIsNew
    <2>2. wire'[i].x # x
      BY <1>2, <1>4, <1>5
    <2>3. phase'[wire'[i].x] = phase[wire'[i].x]
      BY <1>3, <1>4, <2>1, <2>2
    <2>4. QED BY <1>4, <2>1, <2>2, <2>3
  <1>10. RemovedFollows'
    <2> SUFFICES ASSUME NEW i \in 1..Len(wire'), wire'[i].op = "removed", wire'[i].x \notin listed'
                 PROVE  \E k \in 1..Len(wire') :
                          k < i /\ wire'[k].op = "added" /\ wire'[k].x = wire'[i].x
      BY DEF RemovedFollows
    <2>1. i + 1 \in 1..Len(wire) /\ wire'[i] = wire[i + 1]
      BY <1>2
    <2>2. wire'[i].x \notin listed
      BY <1>2, <1>4, <1>5
    <2>3. PICK k \in 1..Len(wire) :
            k < i + 1 /\ wire[k].op = "added" /\ wire[k].x = wire'[i].x
      BY <2>1, <2>2 DEF AgreeInv, WireInv, RemovedFollows
    <2>4. k # 1
      BY <1>2, <1>4, <2>3
    <2>5. k - 1 \in 1..Len(wire') /\ wire'[k - 1] = wire[k] /\ k - 1 < i
      BY <1>2, <2>3, <2>4
    <2>6. QED BY <2>3, <2>5
  <1>11. AliveKnown'
    <2> SUFFICES ASSUME NEW y \in alive, y \notin listed'
                 PROVE  \E i \in 1..Len(wire') : AddedAt(y, i)'
      BY <1>3 DEF AliveKnown
    <2>1. y \notin listed
      BY <1>2, <1>4, <1>5
    <2>2. PICK i \in 1..Len(wire) : AddedAt(y, i)
      BY <2>1 DEF AgreeInv, WireInv, AliveKnown
    <2>3. i # 1
      BY <1>2, <1>4, <2>2 DEF AddedAt
    <2>4. i - 1 \in 1..Len(wire') /\ wire'[i - 1] = wire[i]
      BY <1>2, <2>3
    <2>5. QED BY <2>2, <2>4 DEF AddedAt
  <1>12. NeededFirst'
    <2> SUFFICES ASSUME NEW s \in Subscribes, NEW i \in 1..Len(wire'), NEW k \in 1..Len(wire'),
                        wire'[i].x = s, wire'[k].op = "removed", wire'[k].x = target[s]
                 PROVE  i < k
      BY <1>3 DEF NeededFirst, RemovedAt
    <2>1. i + 1 < k + 1
      BY <1>2 DEF AgreeInv, WireInv, NeededFirst, RemovedAt
    <2>2. i \in Int /\ k \in Int
      BY <1>2
    <2>3. QED BY <2>1, <2>2
  <1>13. TargetStays'
    <2> SUFFICES ASSUME NEW s \in Subscribes,
                        s \in alive \/ \E i \in 1..Len(wire') : wire'[i].x = s
                 PROVE  (s \in alive => target[s] \in alive) /\ target[s] \in listed'
      BY <1>3 DEF TargetStays
    <2>1. s \in alive \/ \E i \in 1..Len(wire) : i # 1 /\ wire[i].x = s
      BY <1>2
    <2>2. target[s] \in listed /\ (s \in alive => target[s] \in alive)
      BY <2>1 DEF AgreeInv, WireInv, TargetStays
    <2>3. e.op = "removed" => target[s] # x
      <3> SUFFICES ASSUME e.op = "removed", target[s] = x PROVE FALSE
        OBVIOUS
      <3>1. s \notin alive
        BY <1>5, <2>2
      <3>2. PICK i \in 1..Len(wire) : wire[i].x = s
        BY <2>1, <3>1
      <3>3. i < 1
        BY <1>2, <3>2 DEF AgreeInv, WireInv, NeededFirst, RemovedAt
      <3>4. QED BY <1>2, <3>3
    <2>4. QED BY <1>4, <2>2, <2>3
  <1>14. QED BY <1>7, <1>8, <1>9, <1>10, <1>11, <1>12, <1>13 DEF WireInv

LEMMA EventKeepsAgreement ==
  ASSUME ReplicaInv, AgreeInv, HandleEvent
  PROVE  ContinuingKnown' /\ PersonsDone' /\ ReplicasAgree' /\ RemovedPersonLeaves'
  <1> DEFINE e == Head(wire)
             x == Head(wire).x
  <1>1. wire \in Seq(Events) /\ wire # <<>>
    BY DEF ReplicaInv, TypeOK, Events, HandleEvent
  <1>2. e \in Events /\ e = wire[1] /\ 1 \in 1..Len(wire) /\ \A k \in 1..Len(wire) : ~(k < 1)
    BY <1>1, TakenFrom
  <1>3. /\ phase \in [Calls -> Phases] /\ overtaken \subseteq Calls
        /\ listed \subseteq objects /\ persons \subseteq Joins /\ left \subseteq persons
        /\ persons' = persons
    BY DEF ReplicaInv, TypeOK, AgreeInv, ReplicasAgree, HandleEvent
  <1>4. x \in Subscribes => target[x] \in objects
    BY <1>2, <1>3 DEF AgreeInv, WireInv, TargetStays
  <1>5. CASE e.op = "added"
    <2>1. HandleAdded(x)
      BY <1>5 DEF HandleEvent, Handle
    <2>2. x \in Calls /\ x \notin overtaken /\ phase[x] \in {"answered", "awaiting", "failed"}
      BY <1>2, <1>5 DEF AgreeInv, WireInv, AddedIsNew
    <2>3. AddFindsAll(x)
      BY <1>4, <2>2 DEF AddFindsAll, isLocal
    <2>4. /\ listed' = listed \cup {x} /\ objects' = objects \cup {x}
          /\ UNCHANGED <<localPerson, left, overtaken>>
      BY <2>1, <2>3 DEF HandleAdded
    <2>5. handlerFailed' = FALSE
      BY <2>1, <2>3 DEF HandleAdded, AgreeInv, ReplicasAgree
    <2>6. ReplicasAgree'
      BY <2>2, <2>4, <2>5 DEF AgreeInv, ReplicasAgree
    <2>7. \A c \in Calls : \/ phase'[c] = phase[c]
                           \/ c = x /\ phase[c] = "awaiting" /\ phase'[c] = "continuing"
      BY <1>3, <2>1, <2>2 DEF HandleAdded
    <2>8. ContinuingKnown'
      BY <2>4, <2>7 DEF AgreeInv, ContinuingKnown
    <2>9. PersonsDone'
      BY <1>3, <2>7 DEF AgreeInv, PersonsDone, Calls
    <2>10. RemovedPersonLeaves'
      BY <1>3, <2>4 DEF AgreeInv, RemovedPersonLeaves
    <2>11. QED BY <2>6, <2>8, <2>9, <2>10
  <1>6. CASE e.op # "added"
    <2>1. HandleRemoved(x) /\ e.op = "removed"
      BY <1>2, <1>6 DEF HandleEvent, Handle, Events
    <2>2. x \in listed
      BY <1>2, <2>1 DEF AgreeInv, WireInv, RemovedFollows
    <2>3. RemoveFindsAll(x)
      BY <1>3, <1>4, <2>2 DEF RemoveFindsAll
    <2>4. /\ listed' = listed \ {x} /\ objects' = objects \ {x} /\ phase' = phase
          /\ localPerson' = (IF x = localPerson THEN None ELSE localPerson)
          /\ overtaken \subseteq overtaken' /\ overtaken' \subseteq overtaken \cup {x}
          /\ x \in Calls /\ phase[x] = "continuing" => x \in overtaken'
      BY <2>1 DEF HandleRemoved, RemoveObject
    <2>5. handlerFailed' = FALSE
      BY <2>1, <2>3 DEF HandleRemoved, AgreeInv, ReplicasAgree
    <2>6. ReplicasAgree'
      BY <2>4, <2>5 DEF AgreeInv, ReplicasAgree
    <2>7. ContinuingKnown'
      BY <2>4 DEF AgreeInv, ContinuingKnown
    <2>8. PersonsDone'
      BY <1>3, <2>4 DEF AgreeInv, PersonsDone
    <2>9. RemovedPersonLeaves'
      <3> SUFFICES ASSUME NEW j \in persons, j \notin listed', j \notin overtaken'
                   PROVE  j \in left' /\ localPerson' # j
        BY <1>3 DEF RemovedPersonLeaves
      <3>1. left \subseteq left'
        BY <2>1 DEF HandleRemoved, PersonsLeft
      <3>2. j # None
        BY <1>3, NamesAssumption
      <3>3. CASE j = x
        <4>1. isLocal(x) /\ x \in Joins
          BY <1>3, <2>2, <3>3 DEF isLocal, AgreeInv, PersonsDone
        <4>2. x \in left'
          BY <2>1, <4>1 DEF HandleRemoved, PersonsLeft
        <4>3. QED BY <2>4, <3>2, <3>3, <4>2
      <3>4. CASE j # x
        <4>1. j \in left /\ localPerson # j
          BY <2>4, <3>4 DEF AgreeInv, RemovedPersonLeaves
        <4>2. QED BY <2>4, <3>1, <3>2, <4>1
      <3>5. QED BY <3>3, <3>4
    <2>10. QED BY <2>6, <2>7, <2>8, <2>9
  <1>7. QED BY <1>5, <1>6

\* A step of a call that adds no object leaves the agreement alone.
LEMMA CallKeepsAgreement ==
  ASSUME ReplicaInv, AgreeInv, NEW c \in Calls, NEW p \in Phases, Move(c, p),
         UNCHANGED channelVars, persons' = persons,
         p = "continuing" => c \in listed,
         phase[c] # "done"
  PROVE  ContinuingKnown' /\ PersonsDone' /\ ReplicasAgree' /\ RemovedPersonLeaves'
  <1>1. /\ phase \in [Calls -> Phases] /\ phase'[c] = p
        /\ \A d \in Calls \ {c} : phase'[d] = phase[d]
        /\ persons \subseteq Calls
    BY DEF ReplicaInv, TypeOK, Move, Calls
  <1>2. ContinuingKnown'
    BY <1>1 DEF AgreeInv, ContinuingKnown, channelVars
  <1>3. PersonsDone'
    BY <1>1 DEF AgreeInv, PersonsDone
  <1>4. ReplicasAgree' /\ RemovedPersonLeaves'
    BY DEF AgreeInv, ReplicasAgree, RemovedPersonLeaves, channelVars
  <1>5. QED BY <1>2, <1>3, <1>4

\* A call is over and its object is added.
LEMMA CallEndsInAgreement ==
  ASSUME ReplicaInv, AgreeInv, NEW c \in Calls, phase[c] = "continuing", Move(c, "done"),
         objects' = objects \cup {c},
         UNCHANGED <<listed, left, overtaken, handlerFailed>>,
         \/ UNCHANGED <<persons, localPerson>>
         \/ c \in Joins /\ persons' = persons \cup {c} /\ localPerson' = c
  PROVE  ContinuingKnown' /\ PersonsDone' /\ ReplicasAgree' /\ RemovedPersonLeaves'
  <1>1. /\ phase \in [Calls -> Phases] /\ phase'[c] = "done"
        /\ \A d \in Calls \ {c} : phase'[d] = phase[d]
        /\ persons \subseteq Calls
    BY DEF ReplicaInv, TypeOK, Move, Calls
  <1>2. c \in listed \cup overtaken
    BY DEF AgreeInv, ContinuingKnown
  <1>3. ContinuingKnown'
    BY <1>1 DEF AgreeInv, ContinuingKnown
  <1>4. PersonsDone'
    BY <1>1 DEF AgreeInv, PersonsDone
  <1>5. ReplicasAgree'
    BY <1>2 DEF AgreeInv, ReplicasAgree
  <1>6. RemovedPersonLeaves'
    BY <1>2 DEF AgreeInv, RemovedPersonLeaves
  <1>7. QED BY <1>3, <1>4, <1>5, <1>6

LEMMA CallStepsAgree ==
  ASSUME ReplicaInv, AgreeInv, NEW c \in Calls,
         \/ AnswerArrives(c) \/ RequestFails(c) \/ WatchTimesOut(c)
         \/ c \in Joins /\ (Join(c) \/ PersonFails(c))
  PROVE  AgreeInv'
  <1>1. PICK p \in {"requesting", "failed", "continuing", "awaiting"} :
          /\ Move(c, p)
          /\ p = "requesting" => phase[c] = "idle"
          /\ p = "continuing" => c \in listed
    BY DEF AnswerArrives, RequestFails, WatchTimesOut, Join, AddMember, PersonFails, AfterAnswer
  <1>2. /\ UNCHANGED <<alive, wire, channelVars, persons, target>>
        /\ phase[c] # "done"
    BY DEF AnswerArrives, RequestFails, WatchTimesOut, Join, PersonFails, serverVars
  <1>3. p \in Phases
    BY DEF Phases
  <1>4. WireInv'
    BY <1>1, <1>2, <1>3, CallKeepsWire DEF AgreeInv, channelVars, Early
  <1>5. ContinuingKnown' /\ PersonsDone' /\ ReplicasAgree' /\ RemovedPersonLeaves'
    BY <1>1, <1>2, <1>3, CallKeepsAgreement
  <1>6. QED BY <1>4, <1>5 DEF AgreeInv

LEMMA EndingsAgree ==
  ASSUME ReplicaInv, AgreeInv, NEW c \in Calls,
         \/ c \in Joins /\ PersonCreated(c)
         \/ c \in Publishes /\ PublishContinues(c)
         \/ c \in Subscribes /\ SubscribeContinues(c)
  PROVE  AgreeInv'
  <1>1. /\ UNCHANGED <<alive, wire, listed, left, overtaken, handlerFailed, target>>
        /\ phase[c] = "continuing"
    BY DEF PersonCreated, PublishContinues, SubscribeContinues, serverVars
  <1>2. CASE Move(c, "done") /\ objects' = objects \cup {c}
    <2>1. WireInv'
      BY <1>1, <1>2, CallKeepsWire DEF AgreeInv, Phases, Early
    <2>2. \/ UNCHANGED <<persons, localPerson>>
          \/ c \in Joins /\ persons' = persons \cup {c} /\ localPerson' = c
      BY DEF PersonCreated, PublishContinues, SubscribeContinues
    <2>3. ContinuingKnown' /\ PersonsDone' /\ ReplicasAgree' /\ RemovedPersonLeaves'
      BY <1>1, <1>2, <2>2, CallEndsInAgreement
    <2>4. QED BY <2>1, <2>3 DEF AgreeInv
  <1>3. CASE Move(c, "failed") /\ UNCHANGED <<objects, persons, localPerson>>
    <2>1. WireInv'
      BY <1>1, <1>3, CallKeepsWire DEF AgreeInv, Phases, Early
    <2>2. ContinuingKnown' /\ PersonsDone' /\ ReplicasAgree' /\ RemovedPersonLeaves'
      BY <1>1, <1>3, CallKeepsAgreement DEF channelVars, Phases
    <2>3. QED BY <2>1, <2>2 DEF AgreeInv
  <1>4. QED
    BY <1>2, <1>3 DEF PersonCreated, PublishContinues, SubscribeContinues

LEMMA QueueStepsAgree ==
  ASSUME ReplicaInv, AgreeInv, NEW m \in Joins,
         \/ StartRequest(m)
         \/ \E p \in Publishes : Publish(p, m)
         \/ \E s \in Subscribes, o \in Offered : Subscribe(s, m, o)
  PROVE  AgreeInv'
  <1>1. UNCHANGED <<alive, wire, channelVars, persons>>
    BY DEF StartRequest, Publish, Subscribe, serverVars
  <1> DEFINE Moved ==
        \E c \in Calls, p \in {"queued", "requesting", "failed"} :
          /\ Move(c, p)
          /\ phase[c] \in Early
          /\ \A s \in Subscribes : target'[s] # target[s] => s = c
  <1>2. Moved
    <2>1. CASE StartRequest(m)
      <3>1. queue[m] \in Seq(Requests) /\ queue[m] # <<>>
        BY <2>1 DEF ReplicaInv, TypeOK, StartRequest
      <3>2. /\ Head(queue[m]) \in Requests /\ Head(queue[m]) = queue[m][1]
            /\ 1 \in 1..Len(queue[m])
        BY <3>1, TakenFrom
      <3>3. Head(queue[m]) \in Calls /\ phase[Head(queue[m])] = "queued"
        BY <3>2 DEF ReplicaInv, QueuesHoldTheQueued, Calls
      <3>4. target' = target /\ \E p \in {"requesting", "failed"} : Move(Head(queue[m]), p)
        BY <2>1 DEF StartRequest, PublishStream, SubscribeStream
      <3>5. QED BY <3>3, <3>4 DEF Early
    <2>2. ASSUME NEW q \in Publishes, Publish(q, m) PROVE Moved
      BY <2>2 DEF Publish, Calls, Requests, Early
    <2>3. ASSUME NEW q \in Subscribes, NEW o \in Offered, Subscribe(q, m, o) PROVE Moved
      <3>1. /\ q \in Calls /\ phase[q] = "idle" /\ Move(q, "queued")
            /\ target' = [target EXCEPT ![q] = o] /\ target \in [Subscribes -> Offered \cup {None}]
        BY <2>3 DEF Subscribe, Calls, Requests, ReplicaInv, TypeOK
      <3>2. \A s \in Subscribes : target'[s] # target[s] => s = q
        BY <3>1
      <3>3. QED BY <3>1, <3>2 DEF Early
    <2>4. QED BY <2>1, <2>2, <2>3
  <1>3. PICK c \in Calls, p \in {"queued", "requesting", "failed"} :
          /\ Move(c, p)
          /\ phase[c] \in Early
          /\ \A s \in Subscribes : target'[s] # target[s] => s = c
    BY <1>2
  <1>4. WireInv'
    BY <1>1, <1>3, CallKeepsWire DEF AgreeInv, channelVars, Phases
  <1>5. ContinuingKnown' /\ PersonsDone' /\ ReplicasAgree' /\ RemovedPersonLeaves'
    BY <1>1, <1>3, CallKeepsAgreement DEF Phases, Early
  <1>6. QED BY <1>4, <1>5 DEF AgreeInv

LEMMA ServerStepsAgree ==
  ASSUME ReplicaInv, AgreeInv,
         \/ \E c \in Calls : ServerAccepts(c)
         \/ \E x \in Things : ServerRemoves(x)
  PROVE  AgreeInv'
  <1>1. WireInv'
    BY AcceptKeepsWire, RemovalKeepsWire DEF AgreeInv
  <1>2. ASSUME NEW c \in Calls, ServerAccepts(c)
        PROVE  ContinuingKnown' /\ PersonsDone' /\ ReplicasAgree' /\ RemovedPersonLeaves'
    BY <1>2, CallKeepsAgreement DEF ServerAccepts, Phases
  <1>3. ASSUME NEW x \in Things, ServerRemoves(x)
        PROVE  ContinuingKnown' /\ PersonsDone' /\ ReplicasAgree' /\ RemovedPersonLeaves'
    BY <1>3 DEF ServerRemoves, channelVars, callVars, AgreeInv, ContinuingKnown, PersonsDone,
                ReplicasAgree, RemovedPersonLeaves
  <1>4. QED BY <1>1, <1>2, <1>3 DEF AgreeInv

LEMMA AgreeStepInv == ReplicaInv /\ AgreeInv /\ [Next]_vars => AgreeInv'
  <1> SUFFICES ASSUME ReplicaInv, AgreeInv, [Next]_vars PROVE AgreeInv'
    OBVIOUS
  <1>1. CASE HandleEvent
    BY <1>1, EventKeepsWire, EventKeepsAgreement DEF AgreeInv
  <1>2. CASE \/ \E x \in Things : ServerRemoves(x)
             \/ \E c \in Calls : ServerAccepts(c)
    BY <1>2, ServerStepsAgree
  <1>3. CASE \E c \in Calls : AnswerArrives(c) \/ RequestFails(c) \/ WatchTimesOut(c)
    BY <1>3, CallStepsAgree
  <1>4. ASSUME NEW j \in Joins, Join(j) \/ PersonFails(j) PROVE AgreeInv'
    BY <1>4, CallStepsAgree DEF Calls
  <1>5. ASSUME NEW j \in Joins, PersonCreated(j) PROVE AgreeInv'
    BY <1>5, EndingsAgree DEF Calls
  <1>6. ASSUME NEW j \in Joins,
               \/ StartRequest(j)
               \/ \E p \in Publishes : Publish(p, j)
               \/ \E s \in Subscribes, o \in Offered : Subscribe(s, j, o)
        PROVE  AgreeInv'
    BY <1>6, QueueStepsAgree
  <1>7. ASSUME NEW p \in Publishes, PublishContinues(p) PROVE AgreeInv'
    BY <1>7, EndingsAgree DEF Calls, Requests
  <1>8. ASSUME NEW s \in Subscribes, SubscribeContinues(s) PROVE AgreeInv'
    BY <1>8, EndingsAgree DEF Calls, Requests
  <1>9. CASE UNCHANGED vars
    BY <1>9
    DEF AgreeInv, WireInv, EarlyUnlisted, EachOnce, AddedIsNew, RemovedFollows, AliveKnown, AddedAt,
        NeededFirst, RemovedAt, TargetStays, ContinuingKnown, PersonsDone, ReplicasAgree,
        RemovedPersonLeaves, vars, serverVars, channelVars, callVars
  <1>10. QED BY <1>1, <1>2, <1>3, <1>4, <1>5, <1>6, <1>7, <1>8, <1>9 DEF Next

-----------------------------------------------------------------------------
\* The types hold for any number of calls and any length of the wire.
THEOREM ReplicaTypeCorrect == Spec => []TypeOK
  <1>1. ReplicaInv => TypeOK
    BY DEF ReplicaInv
  <1>2. QED BY ReplicaInitInv, ReplicaStepInv, <1>1, PTL DEF Spec

\* joinChannel, publish and subscribe look at the list and watch the event in
\* one go, so none of them times out over something that exists, however many
\* calls there are and however events and answers interleave.
THEOREM NoTimeoutOverExisting == Spec => []TimeoutMeansGone
  <1>1. ReplicaInv => TimeoutMeansGone
    BY DEF ReplicaInv
  <1>2. QED BY ReplicaInitInv, ReplicaStepInv, <1>1, PTL DEF Spec
\* join, publish and subscribe add the same objects as the events do, in either
\* order, and no handler misses what it looks up, however many of them are under
\* way: the maps of SkyWayChannelImpl hold what the lists of ChannelImpl hold, but
\* for what was removed before its call had finished.
THEOREM ReplicasAlwaysAgree == Spec => []ReplicasAgree
  <1>1. AgreeInv => ReplicasAgree
    BY DEF AgreeInv
  <1>2. QED
    BY ReplicaInitInv, ReplicaStepInv, AgreeInitInv, AgreeStepInv, <1>1, PTL DEF Spec

\* A person whose removal has been handled knows that it has left, and is not
\* the local person any longer, unless it was removed before it was there.
THEOREM RemovedPersonsLeave == Spec => []RemovedPersonLeaves
  <1>1. AgreeInv => RemovedPersonLeaves
    BY DEF AgreeInv
  <1>2. QED
    BY ReplicaInitInv, ReplicaStepInv, AgreeInitInv, AgreeStepInv, <1>1, PTL DEF Spec
=============================================================================
