------------------------ MODULE SfuForwardingProofs ------------------------
(***************************************************************************)
(* Proofs about SfuForwarding, for any number of forwardings, publications *)
(* and subscribers.                                                        *)
(*                                                                         *)
(* ProducerFollowsForwarding is about which sender removeSender meets.  It *)
(* takes that the queue lets one start run (HeadRuns), that the sender of  *)
(* a forwarding that is there is the one kept, unless its publication is   *)
(* forwarded twice at a time (SenderIsKept), that no sender is kept for    *)
(* another publication (SenderHasOrigin), and that a forwarding in the     *)
(* list has heard of its relaying publication and listens for its end      *)
(* (StartedIsKnown, ListedListens).                                        *)
(***************************************************************************)
EXTENDS SfuForwarding, TLAPS

\* Only the head of the queue runs.
HeadRuns == \A f \in Forwards : running(f) => queue # <<>> /\ Head(queue) = f

\* The SFU relays what it has been asked for.
RelayIsAsked ==
  \A f \in Forwards : relay[f] # "none" => phase[f] \notin {"idle", "queued", "asking"}

StartedIsKnown == \A f \in Forwards : phase[f] = "started" => known[f] # "none"

ListedListens ==
  \A f \in Forwards : phase[f] = "started" /\ known[f] = "listed" => f \in listening

\* A bot's publications go before it does.
LeftMeansGone == left => \A f \in Forwards : relay[f] # "none" => known[f] = "gone"

\* The relaying publication is or will be in the list.
present(f) == relay[f] # "none" /\ known[f] # "gone"

SenderIsKept ==
  \A f \in Forwards :
    /\ present(f) \/ (phase[f] = "asking" /\ ~left)
    /\ origin[f] \notin overlapped
    => senders[origin[f]] = f

SenderHasOrigin == \A p \in Pubs : senders[p] # None => origin[senders[p]] = p

AnnouncingProduces ==
  \A f \in Forwards :
    phase[f] = "announcing" /\ known[f] # "gone" /\ origin[f] \notin overlapped
      => f \in producers

StartedAsks ==
  \A f \in Forwards : phase[f] = "started" =>
    \A u \in subscribers[f] : confirmation[f][u] # "none"

ForwardingInv ==
  /\ TypeOK
  /\ HeadRuns
  /\ RelayIsAsked
  /\ StartedIsKnown
  /\ ListedListens
  /\ LeftMeansGone
  /\ SenderIsKept
  /\ SenderHasOrigin
  /\ AnnouncingProduces
  /\ ProducerFollowsForwarding
  /\ StartedAsks

-----------------------------------------------------------------------------
(* Types.                                                                  *)

LEMMA ForwardingInitInv == Init => ForwardingInv
<1> SUFFICES ASSUME Init PROVE ForwardingInv
  OBVIOUS
<1>1. queue \in Seq(Forwards)
  BY DEF Init
<1>2. TypeOK
  BY <1>1, NoneAssumption DEF Init, TypeOK, Running
<1>3. HeadRuns /\ RelayIsAsked /\ StartedIsKnown /\ ListedListens /\ StartedAsks
  BY DEF Init, HeadRuns, RelayIsAsked, StartedIsKnown, ListedListens,
         StartedAsks, running, Running
<1>4. LeftMeansGone /\ SenderIsKept /\ SenderHasOrigin
  BY DEF Init, LeftMeansGone, SenderIsKept, SenderHasOrigin, present
<1>5. AnnouncingProduces /\ ProducerFollowsForwarding
  BY DEF Init, AnnouncingProduces, ProducerFollowsForwarding
<1> QED
  BY <1>2, <1>3, <1>4, <1>5 DEF ForwardingInv

\* What happens at the ends of a queue.
LEMMA QueueEnds ==
  ASSUME NEW s \in Seq(Forwards), NEW f \in Forwards
  PROVE  /\ Append(s, f) \in Seq(Forwards) /\ Append(s, f) # <<>>
         /\ s # <<>> => /\ Tail(s) \in Seq(Forwards)
                        /\ Head(Append(s, f)) = Head(s)
<1>1. Append(s, f) \in Seq(Forwards) /\ Append(s, f) # <<>>
  <2>1. Append(s, f) \in Seq(Forwards) /\ Len(Append(s, f)) # 0
    OBVIOUS
  <2>2. Len(<<>>) = 0
    OBVIOUS
  <2> QED
    BY <2>1, <2>2, Zenon
<1>2. ASSUME s # <<>>
      PROVE  Tail(s) \in Seq(Forwards) /\ Head(Append(s, f)) = Head(s)
  BY <1>2
<1> QED
  BY <1>1, <1>2

\* A start that goes on, or stays where it is, keeps the types it touches.
StartTyped ==
  /\ phase \in [Forwards -> Running \cup {"idle", "queued", "started", "failed"}]
  /\ queue \in Seq(Forwards)
  /\ forwardings \subseteq Forwards
  /\ listening \subseteq Forwards
  /\ confirmation \in [Forwards -> [Subscribers -> {"none", "asked", "confirmed", "failed"}]]

LEMMA RegisterTyped ==
  ASSUME TypeOK, NEW f \in Forwards, Tail(queue) \in Seq(Forwards),
         Register(f) \/ Wait(f)
  PROVE  StartTyped'
<1>1. CASE Register(f)
  BY <1>1 DEF TypeOK, StartTyped, Register, ConfirmExisting, Running
<1>2. CASE Wait(f)
  BY <1>2 DEF TypeOK, StartTyped, Wait, Running
<1> QED
  BY <1>1, <1>2

\* A forwarding that is entered has asked for all there are, and the others have not
\* changed.
LEMMA RegisterAsks ==
  ASSUME TypeOK, StartedAsks, NEW f \in Forwards, Register(f), UNCHANGED subscribers
  PROVE  StartedAsks'
<1>1. \A g \in Forwards \ {f} : phase'[g] = phase[g] /\ confirmation'[g] = confirmation[g]
  BY DEF TypeOK, Register, ConfirmExisting
<1>2. \A u \in Subscribers : u \in subscribers[f] => confirmation'[f][u] = "asked"
  BY DEF TypeOK, Register, ConfirmExisting
<1>3. subscribers[f] \subseteq Subscribers
  BY DEF TypeOK
<1> QED
  BY <1>1, <1>2, <1>3 DEF StartedAsks

LEMMA NextTyped ==
  ASSUME ForwardingInv, [Next]_vars
  PROVE  TypeOK'
<1> USE DEF Running
<1>0. TypeOK
  BY DEF ForwardingInv
<1>1. \A f \in Forwards : running(f) => Tail(queue) \in Seq(Forwards)
  BY <1>0, QueueEnds DEF ForwardingInv, HeadRuns, TypeOK
<1>2. ASSUME NEW f \in Forwards, StartForwarding(f) PROVE TypeOK'
  BY <1>0, <1>2, QueueEnds DEF TypeOK, StartForwarding
<1>3. ASSUME NEW f \in Forwards, StartRuns(f) PROVE TypeOK'
  <2>1. Tail(queue) \in Seq(Forwards) /\ origin[f] \in Pubs
    BY <1>0, <1>3, QueueEnds DEF TypeOK, StartRuns
  <2>2. CASE left
    BY <1>0, <1>3, <2>1, <2>2 DEF TypeOK, StartRuns
  <2>3. CASE ~left
    <3>1. phase' \in [Forwards -> Running \cup {"idle", "queued", "started", "failed"}]
      BY <1>0, <1>3, <2>3 DEF TypeOK, StartRuns
    <3>2. senders' \in [Pubs -> Forwards \cup {None}] /\ overlapped' \subseteq Pubs
      BY <1>0, <1>3, <2>1, <2>3 DEF TypeOK, StartRuns, AddSender
    <3>3. UNCHANGED <<origin, queue, producers, forwardings, listening, stop, relay, known,
                     subscribers, confirmation, left, blinked>>
      BY <1>3, <2>3 DEF StartRuns
    <3> QED
      BY <1>0, <3>1, <3>2, <3>3 DEF TypeOK
  <2> QED
    BY <2>2, <2>3
<1>4. ASSUME NEW f \in Forwards, SfuForwards(f) PROVE TypeOK'
  BY <1>0, <1>4 DEF TypeOK, SfuForwards, ForwardingAnswered, member
<1>5. ASSUME NEW f \in Forwards, Produced(f) PROVE TypeOK'
  <2>1. StartTyped'
    BY <1>0, <1>1, <1>5, RegisterTyped DEF Produced, running
  <2> QED
    BY <1>0, <1>5, <2>1 DEF TypeOK, StartTyped, Produced
<1>6. ASSUME NEW f \in Forwards, StartFails(f) PROVE TypeOK'
  BY <1>0, <1>1, <1>6 DEF TypeOK, StartFails, LeaveQueue, running
<1>7. ASSUME NEW f \in Forwards, EventPublished(f) PROVE TypeOK'
  <2>1. CASE phase[f] = "announcing"
    <3>1. StartTyped'
      BY <1>0, <1>1, <1>7, <2>1, RegisterTyped DEF EventPublished, running
    <3> QED
      BY <1>0, <1>7, <3>1 DEF TypeOK, StartTyped, EventPublished
  <2>2. CASE phase[f] # "announcing"
    BY <1>0, <1>7, <2>2 DEF TypeOK, EventPublished
  <2> QED
    BY <2>1, <2>2
<1>8. ASSUME NEW f \in Forwards, EventsPublishedUnpublished(f) PROVE TypeOK'
  <2>1. CASE phase[f] = "announcing"
    <3>1. StartTyped'
      BY <1>0, <1>1, <1>8, <2>1, RegisterTyped DEF EventsPublishedUnpublished, running
    <3> QED
      BY <1>0, <1>8, <3>1 DEF TypeOK, StartTyped, EventsPublishedUnpublished
  <2>2. CASE phase[f] # "announcing"
    BY <1>0, <1>8, <2>2 DEF TypeOK, EventsPublishedUnpublished
  <2> QED
    BY <2>1, <2>2
<1>9. ASSUME NEW f \in Forwards, NEW u \in Subscribers, EventSubscribed(f, u)
      PROVE  TypeOK'
  BY <1>0, <1>9 DEF TypeOK, EventSubscribed, member
<1>10. ASSUME NEW f \in Forwards, EventUnpublished(f) PROVE TypeOK'
  BY <1>0, <1>10 DEF TypeOK, EventUnpublished, RemoveSender
<1>11. ASSUME NEW f \in Forwards, RelayEnds(f) PROVE TypeOK'
  BY <1>0, <1>11 DEF TypeOK, RelayEnds, member
<1>12. ASSUME NEW f \in Forwards, StopForwarding(f) PROVE TypeOK'
  BY <1>0, <1>12 DEF TypeOK, StopForwarding
<1>13. ASSUME NEW f \in Forwards, StopFails(f) PROVE TypeOK'
  BY <1>0, <1>13 DEF TypeOK, StopFails, member
<1>16. ASSUME NEW f \in Forwards, OnProduceTimesOut(f) \/ OnProduce(f) PROVE TypeOK'
  BY <1>0, <1>16 DEF TypeOK, OnProduceTimesOut, OnProduce, member
<1>17. ASSUME NEW f \in Forwards, NEW u \in Subscribers, NEW failed \in BOOLEAN,
              ConfirmationEnds(f, u, failed)
       PROVE  TypeOK'
  BY <1>0, <1>17 DEF TypeOK, ConfirmationEnds, member
<1>14. CASE EventBotLeft
  BY <1>0, <1>14 DEF TypeOK, EventBotLeft
<1>15. CASE UNCHANGED vars
  BY <1>0, <1>15 DEF TypeOK, vars, member
<1> QED
  BY <1>2, <1>3, <1>4, <1>5, <1>6, <1>7, <1>8, <1>9, <1>10, <1>11, <1>12, <1>13,
     <1>14, <1>15, <1>16, <1>17 DEF Next, Proceeds


-----------------------------------------------------------------------------
(* The steps.                                                              *)

ForwardingParts ==
  /\ HeadRuns
  /\ RelayIsAsked
  /\ StartedIsKnown
  /\ ListedListens
  /\ LeftMeansGone
  /\ SenderIsKept
  /\ SenderHasOrigin
  /\ AnnouncingProduces
  /\ ProducerFollowsForwarding
  /\ StartedAsks

LEMMA StartForwardingInv ==
  ASSUME ForwardingInv, NEW f \in Forwards, StartForwarding(f)
  PROVE  ForwardingParts'
<1>1. /\ LeftMeansGone' /\ SenderHasOrigin'
  BY DEF ForwardingInv, LeftMeansGone, SenderHasOrigin, StartForwarding
<1>2. HeadRuns'
  BY DEF ForwardingInv, HeadRuns, running, Running, StartForwarding
<1>3. RelayIsAsked'
  BY DEF ForwardingInv, RelayIsAsked, StartForwarding
<1>4. StartedIsKnown'
  BY DEF ForwardingInv, StartedIsKnown, StartForwarding
<1>5. ListedListens'
  BY DEF ForwardingInv, ListedListens, StartForwarding
<1>6. SenderIsKept'
  BY DEF ForwardingInv, SenderIsKept, present, StartForwarding
<1>7. AnnouncingProduces'
  BY DEF ForwardingInv, AnnouncingProduces, StartForwarding
<1>8. ProducerFollowsForwarding'
  BY DEF ForwardingInv, ProducerFollowsForwarding, StartForwarding
<1>9. StartedAsks'
  BY DEF ForwardingInv, StartedAsks, StartForwarding
<1> QED
  BY <1>1, <1>2, <1>3, <1>4, <1>5, <1>6, <1>7, <1>8, <1>9 DEF ForwardingParts

\* The start that runs is the only one: no other forwarding of the publication is
\* without its sender, unless the two overlap.
LEMMA StartRunsInv ==
  ASSUME ForwardingInv, NEW f \in Forwards, StartRuns(f)
  PROVE  ForwardingParts'
<1>1. HeadRuns'
  BY DEF ForwardingInv, HeadRuns, running, Running, TypeOK, StartRuns
<1>2. RelayIsAsked'
  BY DEF ForwardingInv, RelayIsAsked, TypeOK, StartRuns
<1>3. StartedIsKnown'
  BY DEF ForwardingInv, StartedIsKnown, TypeOK, StartRuns
<1>4. ListedListens'
  BY DEF ForwardingInv, ListedListens, TypeOK, StartRuns
<1>5. LeftMeansGone'
  BY DEF ForwardingInv, LeftMeansGone, StartRuns
<1>6. SenderIsKept'
  <2>1. /\ phase \in [Forwards -> Running \cup {"idle", "queued", "started", "failed"}]
        /\ senders \in [Pubs -> Forwards \cup {None}] /\ origin \in [Forwards -> Pubs]
        /\ SenderIsKept /\ HeadRuns /\ RelayIsAsked
    BY DEF ForwardingInv, TypeOK
  <2>2. \A g \in Forwards \ {f} : phase[g] # "asking"
    BY <2>1 DEF HeadRuns, StartRuns, running, Running
  <2> QED
    BY <2>1, <2>2 DEF SenderIsKept, RelayIsAsked, present, AddSender, Overlaps, SameOrigin,
       StartRuns
<1>7. SenderHasOrigin'
  BY DEF ForwardingInv, SenderHasOrigin, running, Running, member, AddSender,
         Overlaps, SameOrigin, TypeOK, StartRuns
<1>8. AnnouncingProduces'
  BY DEF ForwardingInv, AnnouncingProduces, TypeOK, StartRuns
<1>9. ProducerFollowsForwarding'
  BY DEF ForwardingInv, ProducerFollowsForwarding, TypeOK, StartRuns
<1>10. StartedAsks'
  <2>1. \A g \in Forwards : phase'[g] = "started" => phase[g] = "started"
    BY DEF ForwardingInv, TypeOK, StartRuns
  <2> QED
    BY <2>1 DEF ForwardingInv, StartedAsks, StartRuns
<1> QED
  BY <1>1, <1>2, <1>3, <1>4, <1>5, <1>6, <1>7, <1>8, <1>9, <1>10 DEF
         ForwardingParts

LEMMA SfuForwardsInv ==
  ASSUME ForwardingInv, NEW f \in Forwards, SfuForwards(f)
  PROVE  ForwardingParts'
<1>1. HeadRuns'
  BY DEF ForwardingInv, HeadRuns, running, member, ForwardingAnswered, TypeOK,
         SfuForwards
<1>2. RelayIsAsked'
  BY DEF ForwardingInv, RelayIsAsked, ForwardingAnswered, TypeOK, SfuForwards
<1>3. StartedIsKnown'
  BY DEF ForwardingInv, StartedIsKnown, ForwardingAnswered, SfuForwards
<1>4. ListedListens'
  BY DEF ForwardingInv, ListedListens, member, ForwardingAnswered, SfuForwards
<1>5. LeftMeansGone'
  BY DEF ForwardingInv, LeftMeansGone, SfuForwards
<1>6. SenderIsKept'
  BY DEF ForwardingInv, SenderIsKept, present, member, ForwardingAnswered,
         SfuForwards
<1>7. SenderHasOrigin'
  BY DEF ForwardingInv, SenderHasOrigin, member, SfuForwards
<1>8. AnnouncingProduces'
  BY DEF ForwardingInv, AnnouncingProduces, member, ForwardingAnswered,
         SfuForwards
<1>9. ProducerFollowsForwarding'
  BY DEF ForwardingInv, ProducerFollowsForwarding, member, ForwardingAnswered,
         SfuForwards
<1>10. StartedAsks'
  BY DEF ForwardingInv, StartedAsks, ForwardingAnswered, SfuForwards
<1> QED
  BY <1>1, <1>2, <1>3, <1>4, <1>5, <1>6, <1>7, <1>8, <1>9, <1>10 DEF
         ForwardingParts

\* While mediasoup is about to produce, nothing but the phase of the start changes.
LEMMA OnProduceInv ==
  ASSUME ForwardingInv, NEW f \in Forwards, OnProduceTimesOut(f) \/ OnProduce(f)
  PROVE  ForwardingParts'
<1>1. /\ \A g \in Forwards \ {f} : phase'[g] = phase[g]
      /\ phase[f] \in {"producing", "unwatched"}
      /\ phase'[f] \in {"unwatched", "creating", "unanswered"}
      /\ UNCHANGED <<origin, queue, senders, producers, forwardings, listening, relay,
                     known, subscribers, confirmation, left, overlapped, blinked>>
  BY DEF OnProduceTimesOut, OnProduce, ForwardingInv, TypeOK, member
<1>2. HeadRuns' /\ RelayIsAsked'
  BY <1>1 DEF ForwardingInv, HeadRuns, RelayIsAsked, running, Running
<1>3. StartedIsKnown' /\ ListedListens' /\ StartedAsks'
  BY <1>1 DEF ForwardingInv, StartedIsKnown, ListedListens, StartedAsks
<1>4. LeftMeansGone' /\ SenderIsKept' /\ SenderHasOrigin'
  BY <1>1 DEF ForwardingInv, LeftMeansGone, SenderIsKept, SenderHasOrigin, present
<1>5. AnnouncingProduces' /\ ProducerFollowsForwarding'
  BY <1>1 DEF ForwardingInv, AnnouncingProduces, ProducerFollowsForwarding
<1> QED
  BY <1>2, <1>3, <1>4, <1>5 DEF ForwardingParts

\* A request that ends, well or not, has been asked.
LEMMA ConfirmationEndsInv ==
  ASSUME ForwardingInv, NEW f \in Forwards, NEW u \in Subscribers, NEW failed \in BOOLEAN,
         ConfirmationEnds(f, u, failed)
  PROVE  ForwardingParts'
<1>1. /\ HeadRuns' /\ RelayIsAsked' /\ StartedIsKnown' /\ ListedListens'
      /\ LeftMeansGone' /\ SenderIsKept' /\ SenderHasOrigin'
      /\ AnnouncingProduces' /\ ProducerFollowsForwarding'
  BY DEF ForwardingInv, HeadRuns, RelayIsAsked, StartedIsKnown, ListedListens,
         LeftMeansGone, SenderIsKept, SenderHasOrigin, AnnouncingProduces,
         ProducerFollowsForwarding, running, member, present, ConfirmationEnds
<1>2. StartedAsks'
  BY DEF ForwardingInv, StartedAsks, TypeOK, ConfirmationEnds
<1> QED
  BY <1>1, <1>2 DEF ForwardingParts

\* The forwarding is entered if its relaying publication is there.
LEMMA ProducedInv ==
  ASSUME ForwardingInv, NEW f \in Forwards, Produced(f)
  PROVE  ForwardingParts'
<1>1. /\ LeftMeansGone' /\ SenderHasOrigin'
  BY DEF ForwardingInv, LeftMeansGone, SenderHasOrigin, Produced
<1>2. HeadRuns'
  BY DEF ForwardingInv, HeadRuns, running, Running, Register, Wait, TypeOK,
         Produced
<1>3. RelayIsAsked'
  BY DEF ForwardingInv, RelayIsAsked, Register, Wait, TypeOK, Produced
<1>4. StartedIsKnown'
  BY DEF ForwardingInv, StartedIsKnown, Register, Wait, TypeOK, Produced
<1>5. ListedListens'
  BY DEF ForwardingInv, ListedListens, Register, Wait, TypeOK, Produced
<1>6. SenderIsKept'
  BY DEF ForwardingInv, SenderIsKept, TypeOK, present, Register, Wait, Produced
<1>7. AnnouncingProduces'
  BY DEF ForwardingInv, AnnouncingProduces, Register, Wait, TypeOK, Produced
<1>8. ProducerFollowsForwarding'
  BY DEF ForwardingInv, ProducerFollowsForwarding, Register, Wait, TypeOK,
         Produced
<1>9. StartedAsks'
  <2>1. CASE Register(f)
    BY <2>1, RegisterAsks DEF ForwardingInv, Produced
  <2>2. CASE Wait(f)
    BY <2>2 DEF ForwardingInv, StartedAsks, TypeOK, Wait, Produced
  <2> QED
    BY <2>1, <2>2 DEF Produced
<1> QED
  BY <1>1, <1>2, <1>3, <1>4, <1>5, <1>6, <1>7, <1>8, <1>9 DEF ForwardingParts

LEMMA StartFailsInv ==
  ASSUME ForwardingInv, NEW f \in Forwards, StartFails(f)
  PROVE  ForwardingParts'
<1>1. /\ LeftMeansGone' /\ SenderHasOrigin'
  BY DEF ForwardingInv, LeftMeansGone, SenderHasOrigin, StartFails
<1>2. HeadRuns'
  BY DEF ForwardingInv, HeadRuns, running, Running, TypeOK, StartFails
<1>3. RelayIsAsked'
  BY DEF ForwardingInv, RelayIsAsked, StartFails
<1>4. StartedIsKnown'
  BY DEF ForwardingInv, StartedIsKnown, StartFails
<1>5. ListedListens'
  BY DEF ForwardingInv, ListedListens, StartFails
<1>6. SenderIsKept'
  BY DEF ForwardingInv, SenderIsKept, present, StartFails
<1>7. AnnouncingProduces'
  BY DEF ForwardingInv, AnnouncingProduces, StartFails
<1>8. ProducerFollowsForwarding'
  BY DEF ForwardingInv, ProducerFollowsForwarding, StartFails
<1>9. StartedAsks'
  BY DEF ForwardingInv, StartedAsks, StartFails
<1> QED
  BY <1>1, <1>2, <1>3, <1>4, <1>5, <1>6, <1>7, <1>8, <1>9 DEF ForwardingParts

LEMMA EventPublishedInv ==
  ASSUME ForwardingInv, NEW f \in Forwards, EventPublished(f)
  PROVE  ForwardingParts'
<1>1. HeadRuns'
  BY DEF ForwardingInv, HeadRuns, running, Running, Register, TypeOK,
         EventPublished
<1>2. RelayIsAsked'
  BY DEF ForwardingInv, RelayIsAsked, Register, TypeOK, EventPublished
<1>3. StartedIsKnown'
  BY DEF ForwardingInv, StartedIsKnown, Register, TypeOK, EventPublished
<1>4. ListedListens'
  BY DEF ForwardingInv, ListedListens, TypeOK, StartedIsKnown, Register,
         EventPublished
<1>5. LeftMeansGone'
  BY DEF ForwardingInv, LeftMeansGone, EventPublished
<1>6. SenderIsKept'
  BY DEF ForwardingInv, SenderIsKept, TypeOK, present, Register, EventPublished
<1>7. SenderHasOrigin'
  BY DEF ForwardingInv, SenderHasOrigin, EventPublished
<1>8. AnnouncingProduces'
  BY DEF ForwardingInv, AnnouncingProduces, Register, TypeOK, EventPublished
<1>9. ProducerFollowsForwarding'
  BY DEF ForwardingInv, ProducerFollowsForwarding, TypeOK, StartedIsKnown,
         AnnouncingProduces, Register, EventPublished
<1>10. StartedAsks'
  <2>1. CASE phase[f] = "announcing"
    BY <2>1, RegisterAsks DEF ForwardingInv, EventPublished
  <2>2. CASE phase[f] # "announcing"
    BY <2>2 DEF ForwardingInv, StartedAsks, EventPublished
  <2> QED
    BY <2>1, <2>2
<1> QED
  BY <1>1, <1>2, <1>3, <1>4, <1>5, <1>6, <1>7, <1>8, <1>9, <1>10 DEF
         ForwardingParts

LEMMA EventsPublishedUnpublishedInv ==
  ASSUME ForwardingInv, NEW f \in Forwards, EventsPublishedUnpublished(f)
  PROVE  ForwardingParts'
<1>1. HeadRuns'
  <2>1. CASE phase[f] = "announcing"
    <3>1. \A g \in Forwards \ {f} : ~running(g)
      BY <2>1 DEF ForwardingInv, HeadRuns, running, Running
    <3> QED
      BY <2>1, <3>1 DEF ForwardingInv, HeadRuns, running, Running, Register, TypeOK,
         EventsPublishedUnpublished
  <2>2. CASE phase[f] # "announcing"
    BY <2>2 DEF ForwardingInv, HeadRuns, running, EventsPublishedUnpublished
  <2> QED
    BY <2>1, <2>2
<1>2. RelayIsAsked'
  BY DEF ForwardingInv, RelayIsAsked, Register, TypeOK,
         EventsPublishedUnpublished
<1>3. StartedIsKnown'
  BY DEF ForwardingInv, StartedIsKnown, Register, TypeOK,
         EventsPublishedUnpublished
<1>4. ListedListens'
  BY DEF ForwardingInv, ListedListens, Register, TypeOK,
         EventsPublishedUnpublished
<1>5. LeftMeansGone'
  BY DEF ForwardingInv, LeftMeansGone, EventsPublishedUnpublished
<1>6. SenderIsKept'
  BY DEF ForwardingInv, SenderIsKept, TypeOK, present, Register,
         EventsPublishedUnpublished
<1>7. SenderHasOrigin'
  BY DEF ForwardingInv, SenderHasOrigin, EventsPublishedUnpublished
<1>8. AnnouncingProduces'
  BY DEF ForwardingInv, AnnouncingProduces, Register, TypeOK,
         EventsPublishedUnpublished
<1>9. ProducerFollowsForwarding'
  BY DEF ForwardingInv, ProducerFollowsForwarding, Register, TypeOK,
         EventsPublishedUnpublished
<1>10. StartedAsks'
  <2>1. CASE phase[f] = "announcing"
    BY <2>1, RegisterAsks DEF ForwardingInv, EventsPublishedUnpublished
  <2>2. CASE phase[f] # "announcing"
    BY <2>2 DEF ForwardingInv, StartedAsks, EventsPublishedUnpublished
  <2> QED
    BY <2>1, <2>2
<1> QED
  BY <1>1, <1>2, <1>3, <1>4, <1>5, <1>6, <1>7, <1>8, <1>9, <1>10 DEF
         ForwardingParts

LEMMA EventSubscribedInv ==
  ASSUME ForwardingInv, NEW f \in Forwards, NEW u \in Subscribers, EventSubscribed(f, u)
  PROVE  ForwardingParts'
<1>1. /\ HeadRuns' /\ RelayIsAsked' /\ StartedIsKnown' /\ ListedListens'
      /\ LeftMeansGone' /\ SenderIsKept' /\ SenderHasOrigin'
      /\ AnnouncingProduces' /\ ProducerFollowsForwarding'
  BY DEF ForwardingInv, HeadRuns, RelayIsAsked, StartedIsKnown, ListedListens,
         LeftMeansGone, SenderIsKept, SenderHasOrigin, AnnouncingProduces,
         ProducerFollowsForwarding, running, member, present, EventSubscribed
<1>2. StartedAsks'
  BY DEF ForwardingInv, StartedAsks, TypeOK, EventSubscribed
<1> QED
  BY <1>1, <1>2 DEF ForwardingParts

\* removeSender meets the sender of f, or a publication that is forwarded twice.
LEMMA EventUnpublishedInv ==
  ASSUME ForwardingInv, NEW f \in Forwards, EventUnpublished(f)
  PROVE  ForwardingParts'
<1> USE DEF ForwardingInv, TypeOK
<1>1. f \in listening /\ origin[f] \notin overlapped => senders[origin[f]] = f
  BY DEF SenderIsKept, present, EventUnpublished
<1>2. ASSUME NEW g \in Forwards \ {f}, origin[g] \notin overlapped
      PROVE  known'[g] = known[g] /\ (g \in producers' <=> g \in producers)
  <2>1. CASE f \in listening /\ senders[origin[f]] = g
    <3>1. origin[g] = origin[f]
      BY <2>1, NoneAssumption DEF SenderHasOrigin
    <3> QED
      BY <1>1, <1>2, <2>1, <3>1
  <2>2. CASE ~(f \in listening /\ senders[origin[f]] = g)
    BY <2>2 DEF EventUnpublished, RemoveSender
  <2> QED
    BY <2>1, <2>2
<1>3. known'[f] = "gone" /\ phase' = phase /\ origin' = origin /\ overlapped' = overlapped
  BY DEF EventUnpublished
<1>4. /\ HeadRuns' /\ RelayIsAsked' /\ SenderHasOrigin' /\ StartedAsks'
  BY DEF HeadRuns, RelayIsAsked, SenderHasOrigin, StartedAsks, running,
         EventUnpublished
<1>5. StartedIsKnown'
  BY DEF StartedIsKnown, EventUnpublished
<1>6. ListedListens'
  BY DEF ListedListens, EventUnpublished
<1>7. LeftMeansGone'
  BY DEF LeftMeansGone, EventUnpublished
<1>8. SenderIsKept'
  BY DEF SenderIsKept, present, EventUnpublished
<1>9. AnnouncingProduces'
  BY <1>2, <1>3 DEF AnnouncingProduces
<1>10. ProducerFollowsForwarding'
  <2>1. ASSUME phase[f] = "started", origin[f] \notin overlapped
        PROVE  f \notin producers'
    BY <1>1, <2>1 DEF ListedListens, EventUnpublished, RemoveSender
  <2>2. blinked' = blinked
    BY DEF EventUnpublished
  <2> QED
    BY <1>2, <1>3, <2>1, <2>2 DEF ProducerFollowsForwarding
<1> QED
  BY <1>4, <1>5, <1>6, <1>7, <1>8, <1>9, <1>10 DEF ForwardingParts

LEMMA RelayEndsInv ==
  ASSUME ForwardingInv, NEW f \in Forwards, RelayEnds(f)
  PROVE  ForwardingParts'
<1>1. /\ HeadRuns' /\ StartedIsKnown' /\ ListedListens' /\ SenderHasOrigin'
      /\ AnnouncingProduces' /\ ProducerFollowsForwarding'
      /\ StartedAsks'
  BY DEF ForwardingInv, HeadRuns, StartedIsKnown, ListedListens,
         SenderHasOrigin, AnnouncingProduces, ProducerFollowsForwarding,
         StartedAsks, running, member, RelayEnds
<1>2. RelayIsAsked'
  BY DEF ForwardingInv, RelayIsAsked, RelayEnds
<1>3. LeftMeansGone'
  BY DEF ForwardingInv, LeftMeansGone, RelayEnds
<1>4. SenderIsKept'
  BY DEF ForwardingInv, SenderIsKept, present, member, RelayEnds
<1> QED
  BY <1>1, <1>2, <1>3, <1>4 DEF ForwardingParts

LEMMA StopForwardingInv ==
  ASSUME ForwardingInv, NEW f \in Forwards, StopForwarding(f)
  PROVE  ForwardingParts'
<1>1. /\ HeadRuns' /\ RelayIsAsked' /\ StartedIsKnown' /\ ListedListens'
      /\ LeftMeansGone' /\ SenderIsKept' /\ SenderHasOrigin'
      /\ AnnouncingProduces' /\ ProducerFollowsForwarding'
      /\ StartedAsks'
  BY DEF ForwardingInv, HeadRuns, RelayIsAsked, StartedIsKnown, ListedListens,
         LeftMeansGone, SenderIsKept, SenderHasOrigin, AnnouncingProduces,
         ProducerFollowsForwarding, StartedAsks, running, present,
         StopForwarding
<1> QED
  BY <1>1 DEF ForwardingParts

LEMMA StopFailsInv ==
  ASSUME ForwardingInv, NEW f \in Forwards, StopFails(f)
  PROVE  ForwardingParts'
<1>1. /\ HeadRuns' /\ RelayIsAsked' /\ StartedIsKnown' /\ ListedListens'
      /\ LeftMeansGone' /\ SenderIsKept' /\ SenderHasOrigin'
      /\ AnnouncingProduces' /\ ProducerFollowsForwarding'
      /\ StartedAsks'
  BY DEF ForwardingInv, HeadRuns, RelayIsAsked, StartedIsKnown, ListedListens,
         LeftMeansGone, SenderIsKept, SenderHasOrigin, AnnouncingProduces,
         ProducerFollowsForwarding, StartedAsks, running, member, present,
         StopFails
<1> QED
  BY <1>1 DEF ForwardingParts

\* No relaying publication is left for the senders that are dropped.
LEMMA EventBotLeftInv ==
  ASSUME ForwardingInv, EventBotLeft
  PROVE  ForwardingParts'
<1>1. /\ HeadRuns' /\ RelayIsAsked' /\ StartedIsKnown' /\ ListedListens'
      /\ AnnouncingProduces' /\ ProducerFollowsForwarding'
      /\ StartedAsks'
  BY DEF ForwardingInv, HeadRuns, RelayIsAsked, StartedIsKnown, ListedListens,
         AnnouncingProduces, ProducerFollowsForwarding, StartedAsks,
         running, EventBotLeft
<1>2. LeftMeansGone'
  BY DEF ForwardingInv, LeftMeansGone, EventBotLeft
<1>3. SenderIsKept'
  BY DEF ForwardingInv, SenderIsKept, present, EventBotLeft
<1>4. SenderHasOrigin'
  BY DEF ForwardingInv, SenderHasOrigin, EventBotLeft
<1> QED
  BY <1>1, <1>2, <1>3, <1>4 DEF ForwardingParts

LEMMA ForwardingNextInv ==
  ASSUME ForwardingInv, [Next]_vars
  PROVE  ForwardingInv'
<1> SUFFICES ForwardingParts'
  BY NextTyped DEF ForwardingInv, ForwardingParts
<1>1. ASSUME NEW f \in Forwards, Proceeds(f)
      PROVE  ForwardingParts'
  BY <1>1, StartRunsInv, OnProduceInv, ProducedInv, StartFailsInv, EventPublishedInv,
     EventUnpublishedInv, StopFailsInv DEF Proceeds
<1>2. CASE EventBotLeft
  BY <1>2, EventBotLeftInv
<1>3. CASE UNCHANGED vars
  BY <1>3 DEF ForwardingInv, ForwardingParts, HeadRuns, RelayIsAsked, StartedIsKnown,
     ListedListens, LeftMeansGone, SenderIsKept, SenderHasOrigin, AnnouncingProduces,
     ProducerFollowsForwarding, StartedAsks, running, present, vars, member
<1> QED
  BY <1>1, <1>2, <1>3, StartForwardingInv, SfuForwardsInv, EventsPublishedUnpublishedInv,
     EventSubscribedInv, ConfirmationEndsInv, RelayEndsInv, StopForwardingInv DEF Next

\* The types, for any number of forwardings and any length of the queue.
THEOREM ForwardingTypeCorrect == Spec => []TypeOK
<1>1. ForwardingInv => TypeOK
  BY DEF ForwardingInv
<1> QED
  BY <1>1, ForwardingInitInv, ForwardingNextInv, PTL DEF Spec

\* A publication forwarded once at a time has its producer open exactly while
\* its relaying publication is in the list (connection/index.ts:70).
THEOREM ProducersFollowForwardings == Spec => []ProducerFollowsForwarding
<1>1. ForwardingInv => ProducerFollowsForwarding
  BY DEF ForwardingInv
<1> QED
  BY <1>1, ForwardingInitInv, ForwardingNextInv, PTL DEF Spec

\* The SFU is asked to confirm every subscription of a running forwarding, whether it
\* came before, while or after the Forwarding was made (forwarding.ts:37).
THEOREM SubscribersAreAlwaysAsked == Spec => []SubscribersAreAsked
<1>1. ForwardingInv => SubscribersAreAsked
  BY DEF ForwardingInv, StartedAsks, SubscribersAreAsked
<1> QED
  BY <1>1, ForwardingInitInv, ForwardingNextInv, PTL DEF Spec
=============================================================================
